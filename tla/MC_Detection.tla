---------------------------- MODULE MC_Detection ----------------------------
(* Three sessions of two sources on two sensors, and two commands: one     *)
(* fetches a file, one wipes the machine.  The rules are the shipped ones  *)
(* these commands can meet, with "many" members lowered from 25, one about *)
(* untagged sequences and three an author got wrong, which are skipped.    *)
EXTENDS Detection

Tactics == [fetch |-> {"C2"}, wipe |-> {"Impact", "Discovery"}]
Techniques == [fetch |-> {"T1105"}, wipe |-> {"T1531"}]
Indicators == [fetch |-> {"u"}, wipe |-> {}]
MCCommands == DOMAIN Tactics

Source == <<"X", "X", "Y">>
Sensor == <<"default", "B", "default">>
Many == 2

Rule(id, action, when) == [id |-> id, action |-> action, when |-> when]

Detecting_Shipped == <<
  Rule("restates", "suppress", [link_type_in |-> {"same_source_address"}]),
  Rule("trivial", "suppress", [link_type_in |-> {"same_sequence"},
                               max_distinct_commands |-> 1,
                               max_distinct_tactics |-> 1]),
  Rule("untagged", "suppress", [max_distinct_commands |-> 3,
                                max_distinct_tactics |-> 0]),
  Rule("mistyped", "suppress", [min_member |-> 1]),
  Rule("empty", "suppress", <<>>),
  Rule("multi-tactic", "surface", [link_type_in |-> {"same_sequence"},
                                   min_distinct_tactics |-> 3]),
  Rule("cross-source", "surface", [min_distinct_sources |-> 2]),
  Rule("cross-sensor", "surface", [min_distinct_scopes |-> 2]),
  Rule("many", "surface", [min_members |-> Many])>>

Graded(severity, when) == [severity |-> severity, when |-> when]

Severity_Shipped == <<
  Graded("critical", [all_techniques |-> {"T1105", "T1059.004"}]),
  Graded("critical", [any_tactics |-> {"Impact"}]),
  Graded("high", [min_distinct_tactics |-> 4]),
  Graded("medium", [any_techniques |-> {"T1105"}]),
  Graded("medium", [any_tactics |-> {"Execution"}]),
  Graded("low", [any_tactics |-> {"Discovery"}]),
  Graded("info", [min_commands_per_minute |-> 60]),
  Graded("severe", [any_tactics |-> {"Discovery"}])>>

Alerting_Shipped == <<
  Rule("critical", "", [min_severity |-> "critical"]),
  Rule("across-sources", "", [min_severity |-> "high", min_distinct_sources |-> 2]),
  Rule("across-sensors", "", [min_severity |-> "medium", min_distinct_scopes |-> 2]),
  Rule("widespread", "", [severity_in |-> {Unrated},
                          link_type_in |-> {"shared_indicator"},
                          min_members |-> Many])>>

ASSUME ShippedRules == LargerIsNotHidden
=============================================================================
