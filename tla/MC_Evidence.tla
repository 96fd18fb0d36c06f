---------------------------- MODULE MC_Evidence ----------------------------
(* Two sessions that may have started in the same second, and two exporters, *)
(* the first of which does not want the first command of the first session.   *)
EXTENDS Evidence

MCStarts == {[s \in {"s1", "s2"} |-> 1], [s \in {"s1", "s2"} |-> IF s = "s1" THEN 1 ELSE 2]}
MCExporters == <<"syslog", "elastic">>
MCWants == [x \in {"syslog", "elastic"} |->
              IF x = "syslog" THEN {[by |-> "s1", n |-> 2], [by |-> "s2", n |-> 1]}
              ELSE [by : {"s1", "s2"}, n : 1..2]]
MCMaxEvents == [t \in {"s1", "s2", "sweeper"} |-> IF t = "s1" THEN 2 ELSE 1]
=============================================================================
