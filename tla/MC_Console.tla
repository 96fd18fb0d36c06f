----------------------------- MODULE MC_Console -----------------------------
(* One request thread beside the one that warms, and one row: what matters  *)
(* is a row that comes, or goes, between two steps of a build.              *)
EXTENDS Console
=============================================================================
