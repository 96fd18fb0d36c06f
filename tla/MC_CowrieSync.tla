--------------------------- MODULE MC_CowrieSync ---------------------------
(* The link on a small session: every schedule of shell losses and          *)
(* reconnects around at most MaxVersion state changes.                       *)
EXTENDS CowrieSync
=============================================================================
