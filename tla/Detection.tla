------------------------------ MODULE Detection ------------------------------
(***************************************************************************)
(* From recorded commands to alerts: correlation groups what sessions      *)
(* share, detection decides what an analyst sees, severity says how bad it *)
(* is, and alert_records keeps what clears its bar.                        *)
(*                                                                         *)
(* Nothing is remembered between two runs but the alerts table: each run   *)
(* analyses the rows it was given from nothing.  The sweeper of a sensor   *)
(* takes all of that sensor's rows; the dashboard takes a window of them,  *)
(* of one sensor or of all.  Rules are data, read from four YAML files.    *)
(***************************************************************************)
EXTENDS Integers, Sequences, FiniteSets

CONSTANTS
  Sessions,        \* session ids; sorted() orders them
  Commands,
  SourceOf,        \* SourceOf[s]: the address a session came from
  SensorOf,        \* SensorOf[s]: the instance that recorded it
  AllSensors,      \* the dashboard with no sensor chosen
  Default,         \* the instance its alerts go under, a sensor's name or not
  TacticsOf,       \* TacticsOf[c], TechniquesOf[c]: what mitre_mapper.tag_all
  TechniquesOf,    \* says of a command
  IndicatorsIn,    \* IndicatorsIn[c]: what the extractor finds in it
  Strategies,      \* the enabled strategies of correlation_strategies.yml
  DetectionRules,  \* the rules of the three files, in file order, as written:
  SeverityRules,   \* well formed or not
  AlertRules,
  MaxRows,         \* bound: rows recorded
  MaxRuns          \* bound: runs of the analysis

(* Conditions on how many take part in a relationship.                     *)
AtLeast == {"min_members", "min_distinct_sources", "min_distinct_scopes"}
AtMost == {"max_members", "max_distinct_sources"}

(* The loaders do not look at the type of a condition's argument.          *)
ASSUME ThresholdAssumption ==
  /\ \A i \in DOMAIN SeverityRules : LET when == SeverityRules[i].when IN
       "min_distinct_tactics" \in DOMAIN when => when["min_distinct_tactics"] \in Nat
  /\ \A i \in DOMAIN DetectionRules : LET when == DetectionRules[i].when IN
       \A c \in DOMAIN when \cap (AtLeast \cup AtMost) : when[c] \in Nat

Sensors == {SensorOf[s] : s \in Sessions}

ASSUME DetectionAssumption ==
  /\ \A S \in SUBSET Sessions : S # {} => \E s \in S : \A t \in S : s <= t
  /\ \A c \in Commands : IsFiniteSet(TacticsOf[c]) /\ IsFiniteSet(TechniquesOf[c])
  /\ AllSensors \notin Sensors
  /\ Strategies \subseteq {"same_sequence", "shared_indicator", "same_source_address"}
  /\ MaxRows \in Nat /\ MaxRuns \in Nat

VARIABLES
  rows,    \* the sessions table, oldest first
  alerts,  \* the alerts table: from instance and alert_key to its facts
  runs     \* what MaxRuns counts

vars == <<rows, alerts, runs>>

Row == [session : Sessions, cmd : Commands]

-----------------------------------------------------------------------------
(* Correlation.                                                            *)

SessionsIn(view) == {s \in Sessions : \E k \in DOMAIN view : view[k].session = s}

(* What a sequence has at some places, in its order.                       *)
Pick(seq, places) ==
  [j \in 1..Cardinality(places) |->
     seq[CHOOSE k \in places : Cardinality({i \in places : i <= k}) = j]]

PlacesOf(view, s) == {k \in DOMAIN view : view[k].session = s}

(* sessions_from_rows: the commands of a session in row order.             *)
CommandsOf(view, s) ==
  LET mine == Pick(view, PlacesOf(view, s)) IN [k \in DOMAIN mine |-> mine[k].cmd]

(* build_iocs: a session is a member of each indicator found in a command  *)
(* of its, and of the indicator its own address is.                        *)
IndicatorsOf(view, s) ==
  {<<"ipv4", SourceOf[s]>>} \cup
  UNION {{<<"url", i>> : i \in IndicatorsIn[c]} :
         c \in {view[k].cmd : k \in PlacesOf(view, s)}}

(* The key extractors: the values a session holds under a strategy.        *)
KeysOf(strategy, view, s) ==
  CASE strategy = "same_sequence"       -> {CommandsOf(view, s)}
    [] strategy = "shared_indicator"    -> IndicatorsOf(view, s)
    [] strategy = "same_source_address" -> {<<SourceOf[s]>>}

Members(strategy, view, value) ==
  {s \in SessionsIn(view) : value \in KeysOf(strategy, view, s)}

Smallest(S) == CHOOSE s \in S : \A t \in S : s <= t

Unknown == [kind |-> "unknown"]

(* _evidence_command_sequence, of the first member's commands.             *)
Footprint(cmds) ==
  LET ran == {cmds[k] : k \in DOMAIN cmds} IN
  [kind |-> "known",
   length |-> Len(cmds),
   commands |-> ran,
   tactics |-> UNION {TacticsOf[c] : c \in ran},
   techniques |-> UNION {TechniquesOf[c] : c \in ran}]

(* Mutation: every relationship gets its first member's commands.          *)
Evidence_ForAll(strategy, view, members) ==
  Footprint(CommandsOf(view, Smallest(members)))

(* Only strategies with an evidence builder publish any.                   *)
Evidence(strategy, view, members) ==
  IF strategy = "same_sequence" THEN Footprint(CommandsOf(view, Smallest(members)))
  ELSE Unknown

(* _relationship                                                           *)
Relationship(strategy, view, value) ==
  LET members == Members(strategy, view, value) IN
  [link |-> <<strategy, value>>,
   members |-> members,
   sources |-> {SourceOf[s] : s \in members},
   scope |-> {SensorOf[s] : s \in members},
   evidence |-> Evidence(strategy, view, members)]

(* "A key held by a single member is not a relationship".                  *)
Correlate(view) ==
  UNION {{Relationship(strategy, view, value) :
            value \in {v \in UNION {KeysOf(strategy, view, s) : s \in SessionsIn(view)} :
                         Cardinality(Members(strategy, view, v)) > 1}} :
         strategy \in Strategies}

-----------------------------------------------------------------------------
(* Rules.  A `when` maps the conditions it names to their argument; every  *)
(* one of them must hold.                                                  *)

EvidenceConditions == {"min_sequence_length", "min_distinct_commands",
                       "max_distinct_commands", "min_distinct_tactics",
                       "max_distinct_tactics", "min_distinct_techniques",
                       "any_tactics", "any_techniques"}

OfFootprint(condition, arg, ev) ==
  CASE condition = "min_sequence_length"     -> ev.length >= arg
    [] condition = "min_distinct_commands"   -> Cardinality(ev.commands) >= arg
    [] condition = "max_distinct_commands"   -> Cardinality(ev.commands) <= arg
    [] condition = "min_distinct_tactics"    -> Cardinality(ev.tactics) >= arg
    [] condition = "max_distinct_tactics"    -> Cardinality(ev.tactics) <= arg
    [] condition = "min_distinct_techniques" -> Cardinality(ev.techniques) >= arg
    [] condition = "any_tactics"             -> ev.tactics \cap arg # {}
    [] condition = "any_techniques"          -> ev.techniques \cap arg # {}

(* Mutation: evidence that is absent counts as empty.                      *)
OfEvidence_Open(condition, arg, evidence) ==
  OfFootprint(condition, arg, IF evidence = Unknown THEN Footprint(<<>>) ELSE evidence)

(* "These all FAIL CLOSED when evidence is absent".                        *)
OfEvidence(condition, arg, evidence) ==
  evidence # Unknown /\ OfFootprint(condition, arg, evidence)

OfStructure(condition, arg, rel) ==
  CASE condition = "link_type_in"         -> rel.link[1] \in arg
    [] condition = "min_members"          -> Cardinality(rel.members) >= arg
    [] condition = "max_members"          -> Cardinality(rel.members) <= arg
    [] condition = "min_distinct_sources" -> Cardinality(rel.sources) >= arg
    [] condition = "max_distinct_sources" -> Cardinality(rel.sources) <= arg
    [] condition = "min_distinct_scopes"  -> Cardinality(rel.scope) >= arg

StructuralConditions == {"link_type_in"} \cup AtLeast \cup AtMost

(* load_rules: a rule without conditions or with an unknown one is skipped.*)
Loaded(file, known) ==
  {i \in DOMAIN file : DOMAIN file[i].when # {} /\ DOMAIN file[i].when \subseteq known}

Policy == Loaded(DetectionRules, StructuralConditions \cup EvidenceConditions)

(* detection._fires, over the rules loaded.                                *)
Detecting(rel) ==
  {i \in Policy :
     LET when == DetectionRules[i].when IN
     \A c \in DOMAIN when : IF c \in EvidenceConditions
                            THEN OfEvidence(c, when[c], rel.evidence)
                            ELSE OfStructure(c, when[c], rel)}

Suppressors(rel) == {i \in Detecting(rel) : DetectionRules[i].action = "suppress"}
Surfacers(rel) == Detecting(rel) \ Suppressors(rel)

(* detect: a suppressor beats any surfacer; what matched nothing is kept   *)
(* too, in a bucket of its own.                                            *)
Shown(rel) == Suppressors(rel) = {} /\ Detecting(rel) # {}

-----------------------------------------------------------------------------
(* Severity.                                                               *)

Levels == {"info", "low", "medium", "high", "critical"}
Rank == [l \in Levels |-> CASE l = "info" -> 0 [] l = "low" -> 1 [] l = "medium" -> 2
                            [] l = "high" -> 3 [] l = "critical" -> 4]
Unrated == "unrated"

SeverityConditions == {"any_techniques", "all_techniques", "any_tactics",
                       "min_distinct_tactics", "min_commands_per_minute"}

Scale == {i \in Loaded(SeverityRules, SeverityConditions) :
            SeverityRules[i].severity \in Levels}

(* severity._fires.  A relationship has no command rate: pacing never fires.*)
OfBehaviour(condition, arg, tactics, techniques) ==
  CASE condition = "any_techniques"          -> techniques \cap arg # {}
    [] condition = "all_techniques"          -> arg \subseteq techniques
    [] condition = "any_tactics"             -> tactics \cap arg # {}
    [] condition = "min_distinct_tactics"    -> Cardinality(tactics) >= arg
    [] condition = "min_commands_per_minute" -> FALSE

Rated(tactics, techniques) ==
  {SeverityRules[i].severity :
     i \in {j \in Scale : LET when == SeverityRules[j].when IN
              \A c \in DOMAIN when : OfBehaviour(c, when[c], tactics, techniques)}}

(* evaluate: the highest severity that fired.                              *)
Evaluate(tactics, techniques) ==
  LET fired == Rated(tactics, techniques) IN
  IF fired = {} THEN Unrated
  ELSE CHOOSE l \in fired : \A m \in fired : Rank[m] <= Rank[l]

(* rate_relationship                                                       *)
Rate(evidence) ==
  IF evidence = Unknown THEN Unrated
  ELSE Evaluate(evidence.tactics, evidence.techniques)

-----------------------------------------------------------------------------
(* Alerts.                                                                 *)

Bar == Loaded(AlertRules, {"min_severity", "severity_in", "detection_rule_in",
                           "link_type_in"} \cup AtLeast)

(* alert_records._fires: what is unrated clears no threshold.              *)
OfAlert(condition, arg, rel, severity) ==
  CASE condition = "min_severity" -> severity # Unrated /\ Rank[severity] >= Rank[arg]
    [] condition = "severity_in"  -> severity \in arg
    [] condition = "detection_rule_in" ->
         {DetectionRules[i].id : i \in Surfacers(rel)} \cap arg # {}
    [] OTHER -> OfStructure(condition, arg, rel)

Alerting(rel) ==
  LET severity == Rate(rel.evidence) IN
  {i \in Bar : LET when == AlertRules[i].when IN
     \A c \in DOMAIN when : OfAlert(c, when[c], rel, severity)}

(* alert_key: the first rule that surfaced it, and the link.               *)
AlertKey(instance, rel) ==
  <<instance, DetectionRules[Smallest(Surfacers(rel))].id, rel.link>>

(* The facts of a row; upsert_alert refreshes them and nothing else.       *)
Facts(rel) == [rule |-> AlertRules[Smallest(Alerting(rel))].id,
               severity |-> Rate(rel.evidence),
               members |-> Cardinality(rel.members),
               sources |-> Cardinality(rel.sources)]

(* raise_alerts: what detections clear a rule, and the row each becomes.   *)
Due(view) == {rel \in Correlate(view) : Shown(rel) /\ Alerting(rel) # {}}

Raised(instance, view) ==
  LET upserts == {<<AlertKey(instance, rel), Facts(rel)>> : rel \in Due(view)} IN
  [key \in {u[1] : u \in upserts} |-> (CHOOSE u \in upserts : u[1] = key)[2]]

-----------------------------------------------------------------------------
Init == rows = <<>> /\ alerts = <<>> /\ runs = 0

(* A command is recorded.                                                  *)
Record(s, c) ==
  /\ Len(rows) < MaxRows
  /\ rows' = Append(rows, [session |-> s, cmd |-> c])
  /\ UNCHANGED <<alerts, runs>>

(* Mutation: only the most recent rows are read.                           *)
View_Recent(from, sensor) ==
  LET first == IF Len(rows) - from >= 3 THEN Len(rows) - 2 ELSE from
      window == SubSeq(rows, first, Len(rows))
  IN
  IF sensor = AllSensors THEN window
  ELSE SelectSeq(window, LAMBDA row : SensorOf[row.session] = sensor)

(* query_range: a window of the rows of one sensor, or of all.             *)
View(from, sensor) ==
  LET window == SubSeq(rows, from, Len(rows)) IN
  IF sensor = AllSensors THEN window
  ELSE SelectSeq(window, LAMBDA row : SensorOf[row.session] = sensor)

(* upsert_alert, once for each.                                            *)
Upserted(table, new) ==
  [key \in DOMAIN table \cup DOMAIN new |->
     IF key \in DOMAIN new THEN new[key] ELSE table[key]]

Analyse(instance, view) ==
  /\ runs < MaxRuns
  /\ alerts' = Upserted(alerts, Raised(instance, view))
  /\ runs' = runs + 1
  /\ UNCHANGED rows

(* sweep: from the first row of the sensor to its last.                    *)
Sweep(sensor) == Analyse(sensor, View(1, sensor))

(* load_detections: the window a page asked for.                           *)
Render(from, sensor) ==
  Analyse(IF sensor = AllSensors THEN Default ELSE sensor, View(from, sensor))

Next ==
  \/ \E s \in Sessions, c \in Commands : Record(s, c)
  \/ \E sensor \in Sensors : Sweep(sensor)
  \/ \E sensor \in Sensors \cup {AllSensors}, from \in 1..Len(rows) : Render(from, sensor)

Spec == Init /\ [][Next]_vars

-----------------------------------------------------------------------------
(***************************************************************************)
(* "Each part here is derived from the data": the severity of an alert is  *)
(* the one its link has, whichever members, window or sensor an analysis   *)
(* saw, so that no refresh ever moves it.  It relies on the evidence of a  *)
(* sequence being the same for every member, and on there being none for   *)
(* the links whose members go on to do different things.                   *)
(***************************************************************************)
SeverityNeverMoves ==
  [][\A key \in DOMAIN alerts :
       /\ key \in DOMAIN alerts'
       /\ alerts'[key].severity = alerts[key].severity]_vars

(* What the analysis of every row says, of all sensors or of one.          *)
Views == {View(1, sensor) : sensor \in Sensors \cup {AllSensors}}

(***************************************************************************)
(* "Absent evidence means UNKNOWN, never zero": what an indicator or an    *)
(* address links is decided by no rule about commands or tactics, is not   *)
(* rated, and clears no alert rule with a severity threshold.              *)
(***************************************************************************)
UnknownIsNotJudged ==
  \A view \in Views : \A rel \in Correlate(view) :
    rel.link[1] # "same_sequence" =>
      /\ \A i \in Detecting(rel) :
           DOMAIN DetectionRules[i].when \cap EvidenceConditions = {}
      /\ Rate(rel.evidence) = Unrated
      /\ \A i \in Alerting(rel) : "min_severity" \notin DOMAIN AlertRules[i].when

Surfaced(view) == {rel.link : rel \in {r \in Correlate(view) : Shown(r)}}

(* What the shipped detection_rules.yml keeps to and load_rules does not   *)
(* ask of a file: no rule hides a relationship for being large, and none   *)
(* shows one for being small.                                              *)
LargerIsNotHidden ==
  \A i \in Policy :
    IF DetectionRules[i].action = "suppress"
    THEN DOMAIN DetectionRules[i].when \cap AtLeast = {}
    ELSE DOMAIN DetectionRules[i].when \cap AtMost = {}

(***************************************************************************)
(* What an analyst was shown stays on the screen while rows come in: the   *)
(* only relationship one more command can take off it is the shared        *)
(* sequence of the very session that ran the command.                      *)
(***************************************************************************)
SurfacedStays ==
  [][rows' # rows =>
       LET s == rows'[Len(rows')].session IN
       \A link \in Surfaced(View(1, AllSensors)) :
         \/ link \in Surfaced(View(1, AllSensors))'
         \/ link = <<"same_sequence", CommandsOf(rows, s)>>]_vars
=============================================================================
