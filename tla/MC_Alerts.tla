------------------------------ MODULE MC_Alerts ------------------------------
(* A rule that notifies two sinks and one that only records.                *)
EXTENDS Alerts

MCNotify == [r \in Rules |-> CASE r = "critical" -> {"file", "channels"}
                               [] r = "indicator" -> {}]
=============================================================================
