---------------------------- MODULE MC_Retention ----------------------------
(* Two sensors, one of them protected or none, up to four rows.             *)
EXTENDS Retention

MCPolicies == [days : {0, 1}, max : {0, 2}, protect : {{}, {"lab"}}, dry : {"yes", "no"}]
=============================================================================
