-------------------------- MODULE Detection_proofs --------------------------
(* What the analysis says of a link whichever rows it saw, for any rules,  *)
(* sessions and windows: no refresh moves an alert's severity, and nothing *)
(* is judged on evidence it does not have.                                 *)
EXTENDS Detection, Console, FiniteSetTheorems, TLAPS

LEMMA SmallestIsIn ==
  ASSUME NEW S \in SUBSET Sessions, S # {}
  PROVE  Smallest(S) \in S
BY DetectionAssumption DEF Smallest
-----------------------------------------------------------------------------
(* Correlation.                                                            *)

(* Every relationship is one of a strategy, a view and a value some member *)
(* holds.                                                                  *)
LEMMA WhatIsRelated ==
  ASSUME NEW view, NEW rel \in Correlate(view)
  PROVE  \E strategy \in Strategies : \E value :
           /\ rel = Relationship(strategy, view, value)
           /\ Members(strategy, view, value) # {}
<1>0. PICK strategy \in Strategies :
        \E value \in UNION {KeysOf(strategy, view, s) : s \in SessionsIn(view)} :
          rel = Relationship(strategy, view, value)
  BY DEF Correlate
<1>1. PICK value \in UNION {KeysOf(strategy, view, s) : s \in SessionsIn(view)} :
        rel = Relationship(strategy, view, value)
  BY <1>0
<1>2. PICK s \in SessionsIn(view) : value \in KeysOf(strategy, view, s)
  BY <1>1
<1>3. s \in Members(strategy, view, value)
  BY <1>2 DEF Members
<1>4. QED
  BY <1>1, <1>3

(* The evidence of a relationship is its link's, not that of the members   *)
(* an analysis happened to see.                                            *)
EvidenceOf(link) == IF link[1] = "same_sequence" THEN Footprint(link[2]) ELSE Unknown

LEMMA EvidenceIsTheLinks ==
  ASSUME NEW view, NEW rel \in Correlate(view)
  PROVE  rel.evidence = EvidenceOf(rel.link)
<1>0. PICK strategy \in Strategies : \E value :
         /\ rel = Relationship(strategy, view, value)
         /\ Members(strategy, view, value) # {}
  BY WhatIsRelated
<1>1. PICK value :
         /\ rel = Relationship(strategy, view, value)
         /\ Members(strategy, view, value) # {}
  BY <1>0
<1> DEFINE members == Members(strategy, view, value)
<1>2. rel.link = <<strategy, value>> /\ rel.evidence = Evidence(strategy, view, members)
  BY <1>1 DEF Relationship
<1>3. CASE strategy = "same_sequence"
  <2>1. members \in SUBSET Sessions
    BY DEF Members, SessionsIn
  <2>2. Smallest(members) \in members
    BY <1>1, <2>1, SmallestIsIn
  <2>3. value \in KeysOf("same_sequence", view, Smallest(members))
    BY <1>3, <2>2 DEF Members
  <2>4. value = CommandsOf(view, Smallest(members))
    BY <2>3 DEF KeysOf
  <2>5. QED
    BY <1>2, <1>3, <2>4 DEF Evidence, EvidenceOf
<1>4. CASE strategy # "same_sequence"
  BY <1>2, <1>4 DEF Evidence, EvidenceOf
<1>5. QED
  BY <1>3, <1>4
-----------------------------------------------------------------------------
(* Alerts.                                                                 *)

SeverityIsTheLinks ==
  \A key \in DOMAIN alerts : alerts[key].severity = Rate(EvidenceOf(key[3]))

LEMMA RaisedSeverity ==
  ASSUME NEW instance, NEW view, NEW key \in DOMAIN Raised(instance, view)
  PROVE  Raised(instance, view)[key].severity = Rate(EvidenceOf(key[3]))
<1> DEFINE upserts == {<<AlertKey(instance, rel), Facts(rel)>> : rel \in Due(view)}
           u == CHOOSE v \in upserts : v[1] = key
<1>1. key \in {v[1] : v \in upserts} /\ Raised(instance, view)[key] = u[2]
  BY DEF Raised
<1>2. u \in upserts /\ u[1] = key
  BY <1>1
<1>3. PICK rel \in Due(view) : u = <<AlertKey(instance, rel), Facts(rel)>>
  BY <1>2
<1>4. key = AlertKey(instance, rel) /\ Raised(instance, view)[key] = Facts(rel)
  <2> HIDE DEF u
  <2> QED
    BY <1>1, <1>2, <1>3
<1>5. key[3] = rel.link
  BY <1>4 DEF AlertKey
<1>6. Facts(rel).severity = Rate(rel.evidence)
  BY DEF Facts
<1>7. rel.evidence = EvidenceOf(rel.link)
  BY EvidenceIsTheLinks DEF Due
<1>8. QED
  BY <1>4, <1>5, <1>6, <1>7

LEMMA AnalysisKeepsSeverity ==
  ASSUME SeverityIsTheLinks, NEW instance, NEW view,
         alerts' = Upserted(alerts, Raised(instance, view))
  PROVE  /\ SeverityIsTheLinks'
         /\ \A key \in DOMAIN alerts :
              key \in DOMAIN alerts' /\ alerts'[key].severity = alerts[key].severity
<1> DEFINE new == Raised(instance, view)
<1>1. DOMAIN alerts' = DOMAIN new \cup DOMAIN alerts
  BY DEF Upserted
<1>2. ASSUME NEW key \in DOMAIN alerts'
      PROVE  alerts'[key].severity = Rate(EvidenceOf(key[3]))
  <2>1. CASE key \in DOMAIN new
    <3>1. alerts'[key] = new[key]
      BY <1>2, <2>1 DEF Upserted
    <3>2. new[key].severity = Rate(EvidenceOf(key[3]))
      BY <2>1, RaisedSeverity
    <3>3. QED
      BY <3>1, <3>2
  <2>2. CASE key \notin DOMAIN new
    <3>1. key \in DOMAIN alerts /\ alerts'[key] = alerts[key]
      BY <1>1, <1>2, <2>2 DEF Upserted
    <3>2. QED
      BY <3>1 DEF SeverityIsTheLinks
  <2>3. QED
    BY <2>1, <2>2
<1>3. SeverityIsTheLinks'
  BY <1>2 DEF SeverityIsTheLinks
<1>4. QED
  BY <1>1, <1>2, <1>3 DEF SeverityIsTheLinks

LEMMA SeverityStep ==
  ASSUME SeverityIsTheLinks, [Next]_vars
  PROVE  /\ SeverityIsTheLinks'
         /\ \A key \in DOMAIN alerts :
              key \in DOMAIN alerts' /\ alerts'[key].severity = alerts[key].severity
<1>1. CASE UNCHANGED alerts
  BY <1>1 DEF SeverityIsTheLinks
<1>2. CASE \E instance, view : Analyse(instance, view)
  <2>1. PICK instance, view : alerts' = Upserted(alerts, Raised(instance, view))
    BY <1>2 DEF Analyse
  <2>2. QED
    BY <2>1, AnalysisKeepsSeverity
<1>3. QED
  BY <1>1, <1>2 DEF Next, vars, Record, Sweep, Render

(* The severity of an alert is its link's: no refresh moves it, whichever  *)
(* process, window or sensor it comes from (upsert_alert's severity =      *)
(* excluded.severity).                                                     *)
THEOREM SeverityIsKept == Spec => SeverityNeverMoves
<1>1. Init => SeverityIsTheLinks
  BY DEF Init, SeverityIsTheLinks
<1>2. SeverityIsTheLinks /\ [Next]_vars => SeverityIsTheLinks'
  BY SeverityStep
<1>3. SeverityIsTheLinks /\ [Next]_vars =>
        [\A key \in DOMAIN alerts :
           /\ key \in DOMAIN alerts'
           /\ alerts'[key].severity = alerts[key].severity]_vars
  BY SeverityStep
<1>4. QED
  BY <1>1, <1>2, <1>3, PTL DEF Spec, SeverityNeverMoves

(* Absent evidence is unknown to all three layers, whatever their rules    *)
(* are (detection._fires, rate_relationship, alert_records._fires).        *)
THEOREM UnknownStaysUnjudged == UnknownIsNotJudged
<1> SUFFICES ASSUME NEW view \in Views, NEW rel \in Correlate(view),
                    rel.link[1] # "same_sequence"
             PROVE  /\ \A i \in Detecting(rel) :
                         DOMAIN DetectionRules[i].when \cap EvidenceConditions = {}
                    /\ Rate(rel.evidence) = Unrated
                    /\ \A i \in Alerting(rel) :
                         "min_severity" \notin DOMAIN AlertRules[i].when
  BY DEF UnknownIsNotJudged
<1>1. rel.evidence = Unknown
  BY EvidenceIsTheLinks DEF EvidenceOf
<1>2. Rate(rel.evidence) = Unrated
  BY <1>1 DEF Rate
<1>3. ASSUME NEW i \in Detecting(rel), NEW c \in DOMAIN DetectionRules[i].when,
             c \in EvidenceConditions
      PROVE  FALSE
  <2>1. OfEvidence(c, DetectionRules[i].when[c], rel.evidence)
    BY <1>3 DEF Detecting
  <2>2. QED
    BY <1>1, <2>1 DEF OfEvidence
<1>4. ASSUME NEW i \in Alerting(rel), "min_severity" \in DOMAIN AlertRules[i].when
      PROVE  FALSE
  <2>1. OfAlert("min_severity", AlertRules[i].when["min_severity"], rel, Rate(rel.evidence))
    BY <1>4 DEF Alerting
  <2>2. QED
    BY <1>2, <2>1 DEF OfAlert
<1>5. QED
  BY <1>2, <1>3, <1>4
-----------------------------------------------------------------------------
(* Severity.                                                               *)

Hardest(S) == CHOOSE l \in S : \A m \in S : Rank[m] <= Rank[l]

LEMMA HardestIsIn ==
  ASSUME NEW S \in SUBSET Levels, S # {}
  PROVE  /\ Hardest(S) \in S
         /\ \A m \in S : Rank[m] <= Rank[Hardest(S)]
<1>1. /\ Rank["info"] = 0 /\ Rank["low"] = 1 /\ Rank["medium"] = 2
      /\ Rank["high"] = 3 /\ Rank["critical"] = 4
  BY DEF Rank, Levels
<1>2. \E l \in S : \A m \in S : Rank[m] <= Rank[l]
  <2> DEFINE top(l) == l \in S /\ \A m \in S : Rank[m] <= Rank[l]
  <2>1. CASE "critical" \in S
    BY <1>1, <2>1 DEF Levels
  <2>2. CASE "critical" \notin S /\ "high" \in S
    BY <1>1, <2>2 DEF Levels
  <2>3. CASE S \cap {"critical", "high"} = {} /\ "medium" \in S
    BY <1>1, <2>3 DEF Levels
  <2>4. CASE S \cap {"critical", "high", "medium"} = {} /\ "low" \in S
    BY <1>1, <2>4 DEF Levels
  <2>5. CASE S = {"info"}
    BY <1>1, <2>5
  <2>6. QED
    BY <2>1, <2>2, <2>3, <2>4, <2>5 DEF Levels
<1>3. QED
  BY <1>2 DEF Hardest

(* What fires for a footprint fires for a larger one.                      *)
LEMMA MoreFires ==
  ASSUME NEW tactics, NEW techniques, NEW more, IsFiniteSet(more), NEW further,
         tactics \subseteq more, techniques \subseteq further
  PROVE  Rated(tactics, techniques) \subseteq Rated(more, further)
<1> SUFFICES ASSUME NEW i \in Scale,
                    \A c \in DOMAIN SeverityRules[i].when :
                      OfBehaviour(c, SeverityRules[i].when[c], tactics, techniques),
                    NEW c \in DOMAIN SeverityRules[i].when
             PROVE  OfBehaviour(c, SeverityRules[i].when[c], more, further)
  BY DEF Rated
<1> DEFINE arg == SeverityRules[i].when[c]
<1>1. OfBehaviour(c, arg, tactics, techniques)
  OBVIOUS
<1>2. c \in SeverityConditions
  BY DEF Scale, Loaded
<1>3. CASE c = "min_distinct_tactics"
  <2>1. arg \in Nat
    BY <1>3, ThresholdAssumption DEF Scale, Loaded
  <2>2. IsFiniteSet(tactics) /\ Cardinality(tactics) <= Cardinality(more)
    BY FS_Subset
  <2>3. Cardinality(tactics) \in Nat /\ Cardinality(more) \in Nat
    BY <2>2, FS_CardinalityType
  <2>4. Cardinality(tactics) >= arg
    BY <1>1, <1>3 DEF OfBehaviour
  <2>5. Cardinality(more) >= arg
    <3> HIDE DEF arg
    <3> QED
      BY <2>1, <2>2, <2>3, <2>4
  <2>6. QED
    BY <1>3, <2>5 DEF OfBehaviour
<1>4. CASE c # "min_distinct_tactics"
  <2> HIDE DEF arg
  <2> QED
    BY <1>1, <1>2, <1>4 DEF OfBehaviour, SeverityConditions, arg
<1>5. QED
  BY <1>3, <1>4

(* evaluate takes the highest severity that fired: a footprint with more   *)
(* tactics and techniques is never rated below a smaller one, so a command *)
(* a session adds can raise a rating and never lowers one.                 *)
THEOREM MoreIsNeverMilder ==
  ASSUME NEW tactics, NEW techniques, NEW more, IsFiniteSet(more), NEW further,
         tactics \subseteq more, techniques \subseteq further,
         Evaluate(tactics, techniques) # Unrated
  PROVE  /\ Evaluate(more, further) # Unrated
         /\ Rank[Evaluate(tactics, techniques)] <= Rank[Evaluate(more, further)]
<1> DEFINE some == Rated(tactics, techniques)
           all == Rated(more, further)
<1>0. some \subseteq all
  BY MoreFires
<1>1. some \subseteq all /\ all \subseteq Levels
  BY <1>0 DEF Rated, Scale
<1>2. some # {}
  BY DEF Evaluate
<1>3. Evaluate(tactics, techniques) = Hardest(some) /\ Evaluate(more, further) = Hardest(all)
  BY <1>1, <1>2 DEF Evaluate, Hardest
<1>4. Hardest(some) \in all /\ Hardest(all) \in all
  BY <1>1, <1>2, HardestIsIn
<1>5. Rank[Hardest(some)] <= Rank[Hardest(all)]
  BY <1>1, <1>2, <1>4, HardestIsIn
<1>6. Evaluate(more, further) \in Levels
  BY <1>1, <1>3, <1>4
<1>7. QED
  <2> HIDE DEF some, all
  <2> QED
    BY <1>3, <1>5, <1>6 DEF Levels, Unrated
-----------------------------------------------------------------------------
(* What one more row changes.                                              *)

LEMMA OneMore ==
  ASSUME NEW view \in Seq(Row), NEW row \in Row
  PROVE  LET more == Append(view, row) IN
         /\ more \in Seq(Row) /\ Len(view) \in Nat /\ Len(more) = Len(view) + 1
         /\ DOMAIN view = 1..Len(view) /\ DOMAIN more = 1..Len(view) + 1
         /\ \A k \in DOMAIN view : k \in DOMAIN more /\ more[k] = view[k]
         /\ more[Len(more)] = row
OBVIOUS

(* The ranks of the members of a finite set of numbers are 1 to its size.  *)
LEMMA EveryRankIsTaken ==
  ASSUME NEW P \in SUBSET Nat, IsFiniteSet(P), NEW j \in 1..Cardinality(P)
  PROVE  \E k \in P : Cardinality({i \in P : i <= k}) = j
<1> DEFINE upto(k) == {i \in P : i <= k}
           rank == [k \in P |-> Cardinality(upto(k))]
           n == Cardinality(P)
<1>0. n \in Nat
  BY FS_CardinalityType
<1>1. \A k \in P : IsFiniteSet(upto(k)) /\ Cardinality(upto(k)) \in 1..n
  <2>1. TAKE k \in P
  <2>2. upto(k) \subseteq P /\ k \in upto(k)
    <3>1. k \in Nat /\ k <= k
      OBVIOUS
    <3>2. QED
      BY <3>1
  <2> HIDE DEF upto
  <2>3. IsFiniteSet(upto(k)) /\ Cardinality(upto(k)) <= n
    BY <2>2, FS_Subset
  <2>4. Cardinality(upto(k)) \in Nat /\ Cardinality(upto(k)) # 0
    BY <2>2, <2>3, FS_CardinalityType, FS_EmptySet
  <2> HIDE DEF n
  <2>5. QED
    BY <1>0, <2>3, <2>4
<1>2. ASSUME NEW k \in P, NEW l \in P, k < l
      PROVE  Cardinality(upto(k)) # Cardinality(upto(l))
  <2>1. upto(k) \subseteq upto(l) /\ l \in upto(l) /\ l \notin upto(k)
    <3>1. P \subseteq Nat /\ k \in Nat /\ l \in Nat
      OBVIOUS
    <3>2. \A i \in Nat : i <= k => i <= l
      BY <1>2, <3>1
    <3>3. l <= l /\ ~(l <= k)
      BY <1>2, <3>1
    <3>4. QED
      BY <3>1, <3>2, <3>3
  <2> HIDE DEF upto
  <2>2. QED
    BY <1>1, <2>1, FS_Subset
<1>3. rank \in [P -> 1..n]
  <2> HIDE DEF upto
  <2> QED
    BY <1>1
<1>4. ASSUME NEW k \in P, NEW l \in P, rank[k] = rank[l] PROVE k = l
  <2>1. Cardinality(upto(k)) = Cardinality(upto(l))
    BY <1>4
  <2> HIDE DEF upto
  <2>2. ~(k < l) /\ ~(l < k)
    BY <1>2, <2>1
  <2>3. k \in Nat /\ l \in Nat
    OBVIOUS
  <2>4. QED
    BY <2>2, <2>3
<1>5. rank \in Injection(P, 1..n)
  <2> HIDE DEF rank
  <2> QED
    BY <1>3, <1>4 DEF Injection, IsInjective
<1>6. IsFiniteSet(1..n) /\ Cardinality(1..n) = n
  <2> HIDE DEF n
  <2> QED
    BY <1>0, FS_Interval
<1>7. rank \in Surjection(P, 1..n)
  <2> HIDE DEF rank
  <2> QED
    BY <1>5, <1>6, FS_Injection DEF Bijection
<1>8. PICK k \in P : rank[k] = j
  <2> HIDE DEF rank
  <2> QED
    BY <1>7 DEF Surjection
<1>9. QED
  BY <1>8

LEMMA PlacesAreFinite ==
  ASSUME NEW view \in Seq(Row), NEW t
  PROVE  PlacesOf(view, t) \in SUBSET Nat /\ IsFiniteSet(PlacesOf(view, t))
<1>1. Len(view) \in Nat /\ DOMAIN view = 1..Len(view)
  OBVIOUS
<1>2. IsFiniteSet(1..Len(view)) /\ 1..Len(view) \subseteq Nat
  BY <1>1, FS_Interval
<1>3. PlacesOf(view, t) \subseteq 1..Len(view)
  BY <1>1 DEF PlacesOf
<1>4. QED
  BY <1>2, <1>3, FS_Subset

(* The places of a session are those it had, and the last if the row is    *)
(* its.                                                                    *)
LEMMA PlacesAfter ==
  ASSUME NEW view \in Seq(Row), NEW row \in Row, NEW t
  PROVE  /\ PlacesOf(view, t) \subseteq PlacesOf(Append(view, row), t)
         /\ t # row.session => PlacesOf(Append(view, row), t) = PlacesOf(view, t)
<1> DEFINE more == Append(view, row)
<1>1. /\ Len(view) \in Nat /\ Len(more) = Len(view) + 1
      /\ DOMAIN view = 1..Len(view) /\ DOMAIN more = 1..Len(view) + 1
      /\ \A k \in DOMAIN view : k \in DOMAIN more /\ more[k] = view[k]
      /\ more[Len(more)] = row
  BY OneMore
<1> HIDE DEF more
<1>2. PlacesOf(view, t) \subseteq PlacesOf(more, t)
  BY <1>1 DEF PlacesOf
<1>3. ASSUME t # row.session, NEW k \in PlacesOf(more, t) PROVE k \in PlacesOf(view, t)
  <2>1. k \in 1..Len(view) + 1 /\ more[k].session = t
    BY <1>1 DEF PlacesOf
  <2>2. k # Len(view) + 1
    BY <1>1, <1>3, <2>1
  <2>3. k \in DOMAIN view
    BY <1>1, <2>1, <2>2
  <2>4. QED
    BY <1>1, <2>1, <2>3 DEF PlacesOf
<1>4. QED
  BY <1>2, <1>3 DEF more

(* The commands of a session are those it had, unless the row is its.      *)
LEMMA CommandsAfter ==
  ASSUME NEW view \in Seq(Row), NEW row \in Row, NEW t, t # row.session
  PROVE  CommandsOf(Append(view, row), t) = CommandsOf(view, t)
<1> DEFINE more == Append(view, row)
           P == PlacesOf(view, t)
           at(j) == CHOOSE k \in P : Cardinality({i \in P : i <= k}) = j
<1>1. PlacesOf(more, t) = P
  BY PlacesAfter
<1>2. P \in SUBSET Nat /\ IsFiniteSet(P)
  BY PlacesAreFinite
<1>3. ASSUME NEW j \in 1..Cardinality(P) PROVE more[at(j)] = view[at(j)]
  <2> HIDE DEF P
  <2>1. \E k \in P : Cardinality({i \in P : i <= k}) = j
    BY <1>2, EveryRankIsTaken
  <2>2. at(j) \in P
    BY <2>1
  <2>3. at(j) \in DOMAIN view
    BY <2>2 DEF P, PlacesOf
  <2>4. \A k \in DOMAIN view : more[k] = view[k]
    BY OneMore
  <2> HIDE DEF more, at
  <2>5. QED
    BY <2>3, <2>4
<1>4. Pick(more, P) = Pick(view, P)
  <2>1. /\ Pick(more, P) = [j \in 1..Cardinality(P) |-> more[at(j)]]
        /\ Pick(view, P) = [j \in 1..Cardinality(P) |-> view[at(j)]]
    BY DEF Pick
  <2> HIDE DEF at, P, more
  <2>2. QED
    BY <1>3, <2>1
<1>5. QED
  <2> HIDE DEF more, P
  <2> QED
    BY <1>1, <1>4 DEF CommandsOf, more, P

(* So is what a session is known by, under every strategy but the sequence *)
(* of the one that ran the command.                                        *)
LEMMA KeysAfter ==
  ASSUME NEW view \in Seq(Row), NEW row \in Row, NEW strategy \in Strategies, NEW t,
         NEW value \in KeysOf(strategy, view, t),
         <<strategy, value>> # <<"same_sequence", CommandsOf(view, row.session)>>
  PROVE  value \in KeysOf(strategy, Append(view, row), t)
<1> DEFINE more == Append(view, row)
<1>1. CASE strategy = "same_sequence"
  <2>1. value = CommandsOf(view, t)
    BY <1>1 DEF KeysOf
  <2>2. t # row.session
    BY <1>1, <2>1
  <2>3. CommandsOf(more, t) = CommandsOf(view, t)
    BY <2>2, CommandsAfter
  <2> HIDE DEF more
  <2>4. QED
    BY <1>1, <2>1, <2>3 DEF KeysOf, more
<1>2. CASE strategy = "shared_indicator"
  <2>1. value \in IndicatorsOf(view, t)
    BY <1>2 DEF KeysOf
  <2>2. CASE value = <<"ipv4", SourceOf[t]>>
    BY <1>2, <2>2 DEF KeysOf, IndicatorsOf
  <2>3. CASE \E k \in PlacesOf(view, t) : value \in {<<"url", i>> : i \in IndicatorsIn[view[k].cmd]}
    <3>1. PICK k \in PlacesOf(view, t) : value \in {<<"url", i>> : i \in IndicatorsIn[view[k].cmd]}
      BY <2>3
    <3>2. k \in PlacesOf(more, t)
      BY PlacesAfter
    <3>3. more[k] = view[k]
      BY OneMore DEF PlacesOf
    <3> HIDE DEF more
    <3>4. more[k].cmd \in {more[j].cmd : j \in PlacesOf(more, t)}
      BY <3>2
    <3>5. value \in {<<"url", i>> : i \in IndicatorsIn[more[k].cmd]}
      BY <3>1, <3>3
    <3>6. value \in IndicatorsOf(more, t)
      BY <3>4, <3>5 DEF IndicatorsOf
    <3>7. QED
      BY <1>2, <3>6 DEF KeysOf, more
  <2>4. QED
    BY <2>1, <2>2, <2>3 DEF IndicatorsOf
<1>3. CASE strategy = "same_source_address"
  BY <1>3 DEF KeysOf
<1>4. QED
  BY <1>1, <1>2, <1>3, DetectionAssumption

LEMMA MembersAfter ==
  ASSUME NEW view \in Seq(Row), NEW row \in Row, NEW strategy \in Strategies, NEW value,
         <<strategy, value>> # <<"same_sequence", CommandsOf(view, row.session)>>
  PROVE  Members(strategy, view, value) \subseteq Members(strategy, Append(view, row), value)
<1> DEFINE more == Append(view, row)
<1>1. SUFFICES ASSUME NEW t \in Members(strategy, view, value)
               PROVE  t \in Members(strategy, more, value)
  OBVIOUS
<1>2. value \in KeysOf(strategy, more, t)
  BY KeysAfter DEF Members
<1>3. PICK k \in DOMAIN view : view[k].session = t
  BY DEF Members, SessionsIn
<1>4. k \in DOMAIN more /\ more[k].session = t
  BY <1>3, OneMore
<1> HIDE DEF more
<1>5. QED
  BY <1>2, <1>4 DEF Members, SessionsIn

-----------------------------------------------------------------------------
(* Sizes.                                                                  *)

LEMMA ImagesAreFinite ==
  ASSUME NEW f, IsFiniteSet(DOMAIN f), f \in [DOMAIN f -> {f[x] : x \in DOMAIN f}]
  PROVE  IsFiniteSet({f[x] : x \in DOMAIN f})
<1> DEFINE image == {f[x] : x \in DOMAIN f}
<1>1. \A y \in image : \E x \in DOMAIN f : f[x] = y
  OBVIOUS
<1> HIDE DEF image
<1>2. f \in Surjection(DOMAIN f, image)
  BY <1>1 DEF Surjection, image
<1>3. QED
  BY <1>2, FS_Surjection DEF image

LEMMA SessionsAreFinite ==
  ASSUME NEW view \in Seq(Row)
  PROVE  IsFiniteSet(SessionsIn(view))
<1> DEFINE f == [k \in 1..Len(view) |-> view[k].session]
<1>1. Len(view) \in Nat /\ DOMAIN view = 1..Len(view)
  OBVIOUS
<1>2. IsFiniteSet(DOMAIN f)
  BY <1>1, FS_Interval
<1>3. f \in [DOMAIN f -> {f[k] : k \in DOMAIN f}]
  OBVIOUS
<1>4. SessionsIn(view) \subseteq {f[k] : k \in DOMAIN f}
  BY <1>1 DEF SessionsIn
<1> HIDE DEF f
<1>5. IsFiniteSet({f[k] : k \in DOMAIN f})
  BY <1>2, <1>3, ImagesAreFinite
<1>6. QED
  BY <1>4, <1>5, FS_Subset

(* A relationship and what one more row makes of it.                       *)
Grows(rel, new) ==
  /\ new.link = rel.link
  /\ new.evidence = rel.evidence
  /\ IsFiniteSet(new.members) /\ rel.members \subseteq new.members
  /\ IsFiniteSet(new.sources) /\ rel.sources \subseteq new.sources
  /\ IsFiniteSet(new.scope) /\ rel.scope \subseteq new.scope

LEMMA RelationshipsGrow ==
  ASSUME NEW view \in Seq(Row), NEW row \in Row, NEW rel \in Correlate(view),
         rel.link # <<"same_sequence", CommandsOf(view, row.session)>>
  PROVE  \E new \in Correlate(Append(view, row)) : Grows(rel, new)
<1> DEFINE more == Append(view, row)
<1>1. PICK strategy \in Strategies :
        \E value \in UNION {KeysOf(strategy, view, s) : s \in SessionsIn(view)} :
          /\ Cardinality(Members(strategy, view, value)) > 1
          /\ rel = Relationship(strategy, view, value)
  BY DEF Correlate
<1>2. PICK value :
        /\ Cardinality(Members(strategy, view, value)) > 1
        /\ rel = Relationship(strategy, view, value)
  BY <1>1
<1> DEFINE old == Members(strategy, view, value)
           members == Members(strategy, more, value)
           new == Relationship(strategy, more, value)
<1>3. /\ rel.link = <<strategy, value>> /\ rel.members = old
      /\ rel.sources = {SourceOf[s] : s \in old} /\ rel.scope = {SensorOf[s] : s \in old}
      /\ new.link = <<strategy, value>> /\ new.members = members
      /\ new.sources = {SourceOf[s] : s \in members}
      /\ new.scope = {SensorOf[s] : s \in members}
  BY <1>2 DEF Relationship
<1>4. old \subseteq members
  <2> HIDE DEF old, members, new
  <2> QED
    BY <1>3, MembersAfter DEF old, members
<1>5. more \in Seq(Row)
  BY OneMore
<1>6. members \subseteq SessionsIn(more)
  BY DEF Members
<1> HIDE DEF more
<1>7. IsFiniteSet(members)
  BY <1>5, <1>6, SessionsAreFinite, FS_Subset
<1>8. IsFiniteSet({SourceOf[s] : s \in members})
  <2> DEFINE f == [s \in members |-> SourceOf[s]]
  <2> HIDE DEF members
  <2>1. DOMAIN f = members /\ {f[s] : s \in DOMAIN f} = {SourceOf[s] : s \in members}
        /\ f \in [DOMAIN f -> {f[s] : s \in DOMAIN f}]
    OBVIOUS
  <2> HIDE DEF f
  <2>2. QED
    BY <1>7, <2>1, ImagesAreFinite
<1>9. IsFiniteSet({SensorOf[s] : s \in members})
  <2> DEFINE f == [s \in members |-> SensorOf[s]]
  <2> HIDE DEF members
  <2>1. DOMAIN f = members /\ {f[s] : s \in DOMAIN f} = {SensorOf[s] : s \in members}
        /\ f \in [DOMAIN f -> {f[s] : s \in DOMAIN f}]
    OBVIOUS
  <2> HIDE DEF f
  <2>2. QED
    BY <1>7, <2>1, ImagesAreFinite
<1>10. Cardinality(members) > 1 /\ members # {}
  <2> HIDE DEF members, old
  <2>1. IsFiniteSet(old) /\ Cardinality(old) <= Cardinality(members)
    BY <1>4, <1>7, FS_Subset
  <2>2. Cardinality(old) \in Nat /\ Cardinality(members) \in Nat
    BY <1>7, <2>1, FS_CardinalityType
  <2>3. Cardinality(old) > 1
    BY <1>2 DEF old
  <2>4. Cardinality(members) > 1 /\ Cardinality(members) # 0
    BY <2>1, <2>2, <2>3
  <2>5. QED
    BY <2>4, FS_EmptySet
<1>11. new \in Correlate(more)
  <2>1. PICK s \in members : TRUE
    BY <1>10
  <2>2. s \in SessionsIn(more) /\ value \in KeysOf(strategy, more, s)
    BY <2>1 DEF Members
  <2>3. value \in UNION {KeysOf(strategy, more, t) : t \in SessionsIn(more)}
    BY <2>2
  <2>4. Cardinality(Members(strategy, more, value)) > 1
    BY <1>10
  <2>5. QED
    BY <2>3, <2>4 DEF Correlate
<1>12. new.evidence = rel.evidence
  <2>1. new.evidence = EvidenceOf(new.link) /\ rel.evidence = EvidenceOf(rel.link)
    BY <1>11, EvidenceIsTheLinks
  <2>2. QED
    BY <1>3, <2>1
<1>13. Grows(rel, new)
  <2> HIDE DEF new, members, old
  <2>1. rel.sources \subseteq new.sources /\ rel.scope \subseteq new.scope
    BY <1>3, <1>4
  <2>2. QED
    BY <1>3, <1>4, <1>7, <1>8, <1>9, <1>12, <2>1 DEF Grows
<1>14. QED
  <2> HIDE DEF new
  <2> QED
    BY <1>11, <1>13 DEF more
-----------------------------------------------------------------------------
(* What was shown.                                                         *)

Holds(c, arg, rel) ==
  IF c \in EvidenceConditions THEN OfEvidence(c, arg, rel.evidence)
                              ELSE OfStructure(c, arg, rel)

LEMMA MoreThanBefore ==
  ASSUME NEW S, NEW T, IsFiniteSet(T), S \subseteq T, NEW n \in Nat
  PROVE  /\ Cardinality(S) >= n => Cardinality(T) >= n
         /\ Cardinality(T) <= n => Cardinality(S) <= n
<1>1. IsFiniteSet(S) /\ Cardinality(S) <= Cardinality(T)
  BY FS_Subset
<1>2. Cardinality(S) \in Nat /\ Cardinality(T) \in Nat
  BY <1>1, FS_CardinalityType
<1>3. QED
  BY <1>1, <1>2

(* A relationship that grows keeps what it met of every condition but the  *)
(* upper bounds, and met before all but the lower bounds of what it meets. *)
LEMMA GrowthAndConditions ==
  ASSUME NEW rel, NEW new, Grows(rel, new), NEW i \in Policy,
         NEW c \in DOMAIN DetectionRules[i].when
  PROVE  LET arg == DetectionRules[i].when[c] IN
         /\ c \notin AtMost /\ Holds(c, arg, rel) => Holds(c, arg, new)
         /\ c \notin AtLeast /\ Holds(c, arg, new) => Holds(c, arg, rel)
<1> DEFINE arg == DetectionRules[i].when[c]
<1>1. c \in StructuralConditions \cup EvidenceConditions /\ i \in DOMAIN DetectionRules
  BY DEF Policy, Loaded
<1>2. c \in AtLeast \cup AtMost => arg \in Nat
  BY <1>1, ThresholdAssumption
<1>3. new.link = rel.link /\ new.evidence = rel.evidence
  BY DEF Grows
<1> HIDE DEF arg
<1>4. CASE c \in EvidenceConditions
  BY <1>3, <1>4 DEF Holds, arg
<1>5. CASE c = "link_type_in"
  BY <1>3, <1>5 DEF Holds, OfStructure, EvidenceConditions, arg
<1>6. CASE c = "min_members"
  <2>1. Cardinality(rel.members) >= arg => Cardinality(new.members) >= arg
    BY <1>2, <1>6, MoreThanBefore DEF AtLeast, Grows
  <2>2. QED
    BY <1>6, <2>1 DEF Holds, OfStructure, EvidenceConditions, AtLeast, arg
<1>7. CASE c = "min_distinct_sources"
  <2>1. Cardinality(rel.sources) >= arg => Cardinality(new.sources) >= arg
    BY <1>2, <1>7, MoreThanBefore DEF AtLeast, Grows
  <2>2. QED
    BY <1>7, <2>1 DEF Holds, OfStructure, EvidenceConditions, AtLeast, arg
<1>8. CASE c = "min_distinct_scopes"
  <2>1. Cardinality(rel.scope) >= arg => Cardinality(new.scope) >= arg
    BY <1>2, <1>8, MoreThanBefore DEF AtLeast, Grows
  <2>2. QED
    BY <1>8, <2>1 DEF Holds, OfStructure, EvidenceConditions, AtLeast, arg
<1>9. CASE c = "max_members"
  <2>1. Cardinality(new.members) <= arg => Cardinality(rel.members) <= arg
    BY <1>2, <1>9, MoreThanBefore DEF AtMost, Grows
  <2>2. QED
    BY <1>9, <2>1 DEF Holds, OfStructure, EvidenceConditions, AtMost, arg
<1>10. CASE c = "max_distinct_sources"
  <2>1. Cardinality(new.sources) <= arg => Cardinality(rel.sources) <= arg
    BY <1>2, <1>10, MoreThanBefore DEF AtMost, Grows
  <2>2. QED
    BY <1>10, <2>1 DEF Holds, OfStructure, EvidenceConditions, AtMost, arg
<1>11. QED
  BY <1>1, <1>4, <1>5, <1>6, <1>7, <1>8, <1>9, <1>10 DEF StructuralConditions, AtLeast, AtMost

LEMMA GrowthStaysShown ==
  ASSUME LargerIsNotHidden, NEW rel, NEW new, Grows(rel, new), Shown(rel)
  PROVE  Shown(new)
<1>1. \A r : \A i : i \in Detecting(r) <=>
        /\ i \in Policy
        /\ \A c \in DOMAIN DetectionRules[i].when : Holds(c, DetectionRules[i].when[c], r)
  BY DEF Detecting, Holds
<1>2. ASSUME NEW i \in Detecting(rel), DetectionRules[i].action # "suppress"
      PROVE  i \in Detecting(new)
  <2>1. i \in Policy
    BY <1>1
  <2>2. ASSUME NEW c \in DOMAIN DetectionRules[i].when
        PROVE  Holds(c, DetectionRules[i].when[c], new)
    <3>1. c \notin AtMost
      BY <1>2, <2>1 DEF LargerIsNotHidden
    <3>2. Holds(c, DetectionRules[i].when[c], rel)
      BY <1>1
    <3>3. QED
      BY <2>1, <3>1, <3>2, GrowthAndConditions
  <2>3. QED
    BY <1>1, <2>1, <2>2
<1>3. ASSUME NEW i \in Detecting(new), DetectionRules[i].action = "suppress"
      PROVE  i \in Detecting(rel)
  <2>1. i \in Policy
    BY <1>1
  <2>2. ASSUME NEW c \in DOMAIN DetectionRules[i].when
        PROVE  Holds(c, DetectionRules[i].when[c], rel)
    <3>1. c \notin AtLeast
      BY <1>3, <2>1 DEF LargerIsNotHidden
    <3>2. Holds(c, DetectionRules[i].when[c], new)
      BY <1>1
    <3>3. QED
      BY <2>1, <3>1, <3>2, GrowthAndConditions
  <2>3. QED
    BY <1>1, <2>1, <2>2
<1>4. Suppressors(rel) = {} /\ Detecting(rel) # {}
  BY DEF Shown
<1>5. Suppressors(new) = {}
  BY <1>3, <1>4 DEF Suppressors
<1>6. PICK i \in Detecting(rel) : DetectionRules[i].action # "suppress"
  BY <1>4 DEF Suppressors
<1>7. QED
  BY <1>2, <1>5, <1>6 DEF Shown

RowsOK == rows \in Seq(Row)

LEMMA WholeTable == ASSUME RowsOK PROVE View(1, AllSensors) = rows
<1>1. SubSeq(rows, 1, Len(rows)) = rows
  BY DEF RowsOK
<1>2. QED
  BY <1>1 DEF View

LEMMA RowsStep == RowsOK /\ [Next]_vars => RowsOK'
<1>1. SUFFICES ASSUME RowsOK, [Next]_vars PROVE RowsOK'
  OBVIOUS
<1>2. CASE \E s \in Sessions, c \in Commands : Record(s, c)
  BY <1>1, <1>2 DEF RowsOK, Record, Row
<1>3. CASE UNCHANGED rows
  BY <1>1, <1>3 DEF RowsOK
<1>4. QED
  BY <1>1, <1>2, <1>3 DEF Next, vars, Sweep, Render, Analyse

LEMMA SurfacedStep ==
  ASSUME LargerIsNotHidden, RowsOK, [Next]_vars, rows' # rows,
         NEW link \in Surfaced(View(1, AllSensors)),
         link # <<"same_sequence", CommandsOf(rows, rows'[Len(rows')].session)>>
  PROVE  link \in Surfaced(View(1, AllSensors))'
<1>1. PICK s \in Sessions, c \in Commands : Record(s, c)
  BY DEF Next, vars, Sweep, Render, Analyse
<1> DEFINE row == [session |-> s, cmd |-> c]
<1>2. row \in Row /\ rows' = Append(rows, row) /\ rows'[Len(rows')] = row
  BY <1>1, OneMore DEF Record, Row, RowsOK
<1>3. View(1, AllSensors) = rows
  BY WholeTable
<1>4. View(1, AllSensors)' = rows'
  <2>1. RowsOK'
    BY RowsStep
  <2>2. SubSeq(rows', 1, Len(rows')) = rows'
    BY <2>1 DEF RowsOK
  <2>3. QED
    BY <2>2 DEF View
<1>5. PICK rel \in Correlate(rows) : Shown(rel) /\ rel.link = link
  BY <1>3 DEF Surfaced
<1> HIDE DEF row
<1>6. PICK new \in Correlate(Append(rows, row)) : Grows(rel, new)
  BY <1>2, <1>5, RelationshipsGrow DEF RowsOK
<1>7. Shown(new) /\ new.link = link
  BY <1>5, <1>6, GrowthStaysShown DEF Grows
<1>8. link \in Surfaced(rows')
  BY <1>2, <1>6, <1>7 DEF Surfaced
<1>9. Surfaced(View(1, AllSensors))' = Surfaced(rows')
  BY <1>4 DEF Surfaced, Correlate
<1>10. QED
  BY <1>8, <1>9

(* One more command takes no relationship off the screen but its own       *)
(* session's sequence, for every rule file in which size only ever shows   *)
(* more: a suppressor on a lower bound, which load_rules accepts, would    *)
(* take what an analyst is reading off the screen (detect).                *)
THEOREM WhatIsShownStays == ASSUME LargerIsNotHidden PROVE Spec => SurfacedStays
<1>1. Init => RowsOK
  BY DEF Init, RowsOK
<1>2. RowsOK /\ [Next]_vars => RowsOK'
  BY RowsStep
<1>3. RowsOK /\ [Next]_vars =>
        [rows' # rows =>
           LET s == rows'[Len(rows')].session IN
           \A link \in Surfaced(View(1, AllSensors)) :
             \/ link \in Surfaced(View(1, AllSensors))'
             \/ link = <<"same_sequence", CommandsOf(rows, s)>>]_vars
  BY SurfacedStep
<1>4. QED
  BY <1>1, <1>2, <1>3, PTL DEF Spec, SurfacedStays
-----------------------------------------------------------------------------
(* The pages the verdicts are served on: what the caches of Console keep of *)
(* the sessions table, here by the ids of its rows.                         *)

Halves == [frame : SUBSET Ids, overview : SUBSET Ids]

Places == {<<"frame", "look">>, <<"frame", "query">>, <<"frame", "store">>,
           <<"overview", "look">>, <<"overview", "query">>, <<"overview", "store">>,
           <<"page", "store">>, <<"page", "idle">>}

TableTyped ==
  /\ last \in 0..MaxId /\ ids \subseteq 1..last
  /\ rowAge \in [Ids -> 0..(2 * TTL - 1)]
  /\ known \subseteq 1..last /\ cut \subseteq 1..last /\ cut \cap ids = {}

CacheTyped ==
  /\ age \in [Caches -> 0..TTL] /\ ver \in [Caches -> 0..last]
  /\ DOMAIN val = Caches
  /\ val["frame"] \in SUBSET Ids /\ val["overview"] \in SUBSET Ids
  /\ val["page"] \in Halves

LocalsTyped ==
  /\ pc \in [Threads -> Places] /\ pc[Warmer] # <<"page", "store">>
  /\ since \in [Threads -> [Caches -> 0..TTL]]
  /\ tag \in [Threads -> [Caches -> 0..last]]
  /\ got \in [Threads -> Halves]

(* What may be said of a value: nothing that the last Refresh knew is      *)
(* missing or was deleted; every row up to a version is in it; so is every *)
(* row older than the value, or than a page built from it.                 *)
Sound(present, kn, del, v) == kn \cap present \subseteq v /\ del \cap v = {}
Covers(present, v, n) == \A i \in present : i <= n => i \in v
Fresh(present, ages, v, a) == \A i \in present : ages[i] > a => i \in v
Late(present, ages, v, a) == \A i \in present : ages[i] >= TTL + a => i \in v

FrameKept == age["frame"] < TTL =>
  Sound(ids, known, cut, val["frame"]) /\ Fresh(ids, rowAge, val["frame"], age["frame"])

OverviewKept == age["overview"] < TTL =>
  Sound(ids, known, cut, val["overview"]) /\ Covers(ids, val["overview"], ver["overview"])

PageKept == age["page"] < TTL =>
  /\ Sound(ids, known, cut, val["page"].frame) /\ Sound(ids, known, cut, val["page"].overview)
  /\ Late(ids, rowAge, val["page"].frame, age["page"])
  /\ Covers(ids, val["page"].overview, ver["page"])

FrameRead(t) == pc[t] = <<"frame", "store">> =>
  /\ Sound(ids, known, cut, got[t].frame)
  /\ since[t]["frame"] < TTL => Fresh(ids, rowAge, got[t].frame, since[t]["frame"])

OverviewRead(t) == pc[t] = <<"overview", "store">> =>
  Sound(ids, known, cut, got[t].overview) /\ Covers(ids, got[t].overview, tag[t]["overview"])

(* From its query on, the overview half of a page is as new as the page.   *)
HasSummary == {<<"overview", "store">>, <<"frame", "look">>, <<"frame", "query">>,
               <<"frame", "store">>, <<"page", "store">>}

SummaryRead(t) == t \in Requests /\ pc[t] \in HasSummary =>
  Sound(ids, known, cut, got[t].overview) /\ Covers(ids, got[t].overview, tag[t]["page"])

PageRead(t) == pc[t] = <<"page", "store">> =>
  /\ Sound(ids, known, cut, got[t].frame)
  /\ since[t]["page"] < TTL => Late(ids, rowAge, got[t].frame, since[t]["page"])

(* The frame of a page was begun after the page.                           *)
Inside(t) == t \in Requests /\ pc[t] \in {<<"frame", "query">>, <<"frame", "store">>} =>
  since[t]["frame"] <= since[t]["page"]

CallInv(t) == FrameRead(t) /\ OverviewRead(t) /\ SummaryRead(t) /\ PageRead(t) /\ Inside(t)

CacheInv == FrameKept /\ OverviewKept /\ PageKept
PagesTyped == TableTyped /\ CacheTyped /\ LocalsTyped
PagesInv == PagesTyped /\ CacheInv /\ \A t \in Threads : CallInv(t)

-----------------------------------------------------------------------------
LEMMA HighestRow ==
  ASSUME NEW S \in SUBSET Nat, IsFiniteSet(S), S # {}
  PROVE  \E n \in S : \A m \in S : m <= n
<1> DEFINE size == Cardinality(S)
<1>1. size \in Nat /\ size # 0
  BY FS_CardinalityType, FS_EmptySet
<1>2. size \in 1..Cardinality(S)
  <2> HIDE DEF size
  <2>1. size \in 1..size
    BY <1>1
  <2>2. QED
    BY <2>1 DEF size
<1>3. PICK n \in S : Cardinality({i \in S : i <= n}) = size
  BY <1>2, EveryRankIsTaken
<1> DEFINE upto == {i \in S : i <= n}
<1>4. upto \subseteq S /\ Cardinality(upto) = Cardinality(S)
  BY <1>3
<1>5. upto = S
  <2> HIDE DEF upto, size
  <2> QED
    BY <1>4, FS_Subset
<1>6. QED
  BY <1>5

(* _db_version is the highest id there is.                                 *)
LEMMA VersionIsTop ==
  ASSUME TableTyped
  PROVE  Version \in 0..last /\ \A i \in ids : i <= Version
<1>1. last \in Nat /\ ids \subseteq 1..last
  BY ConsoleAssumption DEF TableTyped
<1>2. CASE ids = {}
  BY <1>1, <1>2 DEF Version
<1>3. CASE ids # {}
  <2>0. IsFiniteSet(1..last) /\ 1..last \subseteq Nat
    BY <1>1, FS_Interval
  <2>1. ids \in SUBSET Nat /\ IsFiniteSet(ids)
    BY <1>1, <2>0, FS_Subset
  <2>2. \E n \in ids : \A m \in ids : m <= n
    BY <1>3, <2>1, HighestRow
  <2>3. Version \in ids /\ \A m \in ids : m <= Version
    BY <1>3, <2>2 DEF Version
  <2>4. QED
    BY <1>1, <2>3
<1>4. QED
  BY <1>2, <1>3

(* What the table loses or gains takes no promise back: a row that comes   *)
(* has a new id and is young.                                              *)
LEMMA TableKeeps ==
  ASSUME TableTyped,
         \/ Insert
         \/ \E n \in Ids : Prune(n)
  PROVE  /\ TableTyped' /\ last' \in Nat /\ last <= last'
         /\ \A v : Sound(ids, known, cut, v) => Sound(ids', known', cut', v)
         /\ \A v : \A n \in 0..last : Covers(ids, v, n) => Covers(ids', v, n)
         /\ \A v : \A a \in Nat : Fresh(ids, rowAge, v, a) => Fresh(ids', rowAge', v, a)
         /\ \A v : \A a \in Nat : Late(ids, rowAge, v, a) => Late(ids', rowAge', v, a)
<1>0. /\ TTL \in Nat \ {0} /\ MaxId \in Nat /\ last \in 0..MaxId /\ last \in Nat
      /\ ids \subseteq 1..last /\ known \subseteq 1..last /\ cut \subseteq 1..last
      /\ cut \cap ids = {} /\ rowAge \in [Ids -> 0..(2 * TTL - 1)]
      /\ 2 * TTL - 1 \in Nat
  BY ConsoleAssumption DEF TableTyped
<1>1. /\ known' = known /\ cut' = cut /\ last' \in {last, last + 1} /\ last' \in 0..MaxId
      /\ ids' \subseteq 1..last'
      /\ rowAge' \in [Ids -> 0..(2 * TTL - 1)]
      /\ \A i \in ids' : (i \in ids /\ rowAge'[i] = rowAge[i]) \/ (i = last + 1 /\ rowAge'[i] = 0)
  <2>1. CASE Insert
    <3>1. /\ last < MaxId /\ last' = last + 1 /\ ids' = ids \cup {last + 1}
          /\ rowAge' = [rowAge EXCEPT ![last + 1] = 0] /\ known' = known /\ cut' = cut
      BY <2>1 DEF Insert
    <3>2. last + 1 \in Ids /\ ids \subseteq Ids /\ last + 1 \notin ids
      BY <1>0, <3>1 DEF Ids
    <3>3. rowAge' \in [Ids -> 0..(2 * TTL - 1)]
      <4>1. 0 \in 0..(2 * TTL - 1)
        BY <1>0
      <4> DEFINE span == 0..(2 * TTL - 1)
      <4> HIDE DEF span
      <4>2. rowAge' \in [Ids -> span]
        BY <1>0, <3>1, <4>1 DEF span
      <4>3. QED
        BY <4>2 DEF span
    <3>4. \A i \in Ids : rowAge'[i] = IF i = last + 1 THEN 0 ELSE rowAge[i]
      BY <1>0, <3>1
    <3>5. ids' \subseteq 1..last' /\ last' \in 0..MaxId
      BY <1>0, <3>1
    <3>6. ASSUME NEW i \in ids' PROVE  (i \in ids /\ rowAge'[i] = rowAge[i]) \/ (i = last + 1 /\ rowAge'[i] = 0)
      <4>1. CASE i = last + 1
        BY <3>2, <3>4, <4>1
      <4>2. CASE i # last + 1
        <5>1. i \in ids /\ i \in Ids
          BY <3>1, <3>2, <4>2
        <5>2. QED
          BY <3>4, <4>2, <5>1
      <4>3. QED
        BY <4>1, <4>2
    <3>7. QED
      BY <1>0, <3>1, <3>3, <3>5, <3>6
  <2>2. CASE \E n \in Ids : Prune(n)
    <3>1. PICK n \in Ids : Prune(n)
      BY <2>2
    <3>2. ids' \subseteq ids /\ last' = last /\ rowAge' = rowAge /\ known' = known /\ cut' = cut
      BY <3>1 DEF Prune
    <3>3. last' \in 0..MaxId /\ ids' \subseteq 1..last'
      BY <1>0, <3>2
    <3>4. rowAge' \in [Ids -> 0..(2 * TTL - 1)]
      BY <1>0, <3>2
    <3>5. \A i \in ids' : i \in ids /\ rowAge'[i] = rowAge[i]
      BY <3>2
    <3>6. QED
      BY <3>2, <3>3, <3>4, <3>5
  <2>3. QED
    BY <2>1, <2>2
<1>2. last' \in Nat /\ last <= last'
  BY <1>0, <1>1
<1>3. TableTyped'
  BY <1>0, <1>1, <1>2 DEF TableTyped
<1>4. ASSUME NEW v, Sound(ids, known, cut, v) PROVE Sound(ids', known', cut', v)
  <2>1. \A i \in known' \cap ids' : i \in ids
    BY <1>0, <1>1
  <2>2. QED
    BY <1>1, <1>4, <2>1 DEF Sound
<1>5. ASSUME NEW v, NEW n \in 0..last, Covers(ids, v, n) PROVE Covers(ids', v, n)
  BY <1>0, <1>1, <1>5 DEF Covers
<1>6. ASSUME NEW v, NEW a \in Nat, Fresh(ids, rowAge, v, a) PROVE Fresh(ids', rowAge', v, a)
  BY <1>0, <1>1, <1>6 DEF Fresh
<1>7. ASSUME NEW v, NEW a \in Nat, Late(ids, rowAge, v, a) PROVE Late(ids', rowAge', v, a)
  BY <1>0, <1>1, <1>7 DEF Late
<1>8. QED
  BY <1>2, <1>3, <1>4, <1>5, <1>6, <1>7

LEMMA TableStep ==
  ASSUME PagesInv,
         \/ Insert
         \/ \E n \in Ids : Prune(n)
  PROVE  PagesInv'
<1>0. /\ TableTyped /\ CacheTyped /\ LocalsTyped /\ TTL \in Nat \ {0}
      /\ last \in Nat
  BY ConsoleAssumption DEF PagesInv, PagesTyped, TableTyped
<1>1. /\ val' = val /\ age' = age /\ ver' = ver
      /\ pc' = pc /\ since' = since /\ tag' = tag /\ got' = got
  BY DEF Insert, Prune, cache, locals
<1>2. /\ TableTyped' /\ last' \in Nat /\ last <= last'
      /\ \A v : Sound(ids, known, cut, v) => Sound(ids', known', cut', v)
      /\ \A v : \A n \in 0..last : Covers(ids, v, n) => Covers(ids', v, n)
      /\ \A v : \A a \in Nat : Fresh(ids, rowAge, v, a) => Fresh(ids', rowAge', v, a)
      /\ \A v : \A a \in Nat : Late(ids, rowAge, v, a) => Late(ids', rowAge', v, a)
  BY <1>0, TableKeeps
<1>3. 0..last \subseteq 0..last'
  BY <1>0, <1>2
<1>4. CacheTyped' /\ LocalsTyped'
  <2>1. ver \in [Caches -> 0..last']
    BY <1>0, <1>3 DEF CacheTyped
  <2>2. tag \in [Threads -> [Caches -> 0..last']]
    <3>1. [Caches -> 0..last] \subseteq [Caches -> 0..last']
      BY <1>3
    <3>2. QED
      BY <1>0, <3>1 DEF LocalsTyped
  <2>3. CacheTyped'
    BY <1>0, <1>1, <2>1 DEF CacheTyped
  <2>4. LocalsTyped'
    BY <1>0, <1>1, <2>2 DEF LocalsTyped
  <2>5. QED
    BY <2>3, <2>4
<1>5. /\ age["frame"] \in 0..TTL /\ age["page"] \in 0..TTL
      /\ ver["overview"] \in 0..last /\ ver["page"] \in 0..last
  BY <1>0 DEF CacheTyped, Caches
<1>6. 0..TTL \subseteq Nat
  BY <1>0
<1>7. CacheInv'
  <2>1. FrameKept'
    BY <1>1, <1>2, <1>5, <1>6 DEF PagesInv, CacheInv, FrameKept
  <2>2. OverviewKept'
    BY <1>1, <1>2, <1>5 DEF PagesInv, CacheInv, OverviewKept
  <2>3. PageKept'
    BY <1>1, <1>2, <1>5, <1>6 DEF PagesInv, CacheInv, PageKept
  <2>4. QED
    BY <2>1, <2>2, <2>3 DEF CacheInv
<1>8. ASSUME NEW t \in Threads PROVE CallInv(t)'
  <2>0. CallInv(t)
    BY DEF PagesInv
  <2>1. /\ since[t]["frame"] \in 0..TTL /\ since[t]["page"] \in 0..TTL
        /\ tag[t]["overview"] \in 0..last /\ tag[t]["page"] \in 0..last
    BY <1>0 DEF LocalsTyped, Caches
  <2>2. FrameRead(t)'
    BY <1>1, <1>2, <1>6, <2>0, <2>1 DEF CallInv, FrameRead
  <2>3. OverviewRead(t)'
    BY <1>1, <1>2, <2>0, <2>1 DEF CallInv, OverviewRead
  <2>4. SummaryRead(t)'
    BY <1>1, <1>2, <2>0, <2>1 DEF CallInv, SummaryRead
  <2>5. PageRead(t)'
    BY <1>1, <1>2, <1>6, <2>0, <2>1 DEF CallInv, PageRead
  <2>6. Inside(t)'
    BY <1>1, <2>0 DEF CallInv, Inside
  <2>7. QED
    BY <2>2, <2>3, <2>4, <2>5, <2>6 DEF CallInv
<1>9. Threads' = Threads
  OBVIOUS
<1>10. QED
  BY <1>2, <1>4, <1>7, <1>8 DEF PagesInv, PagesTyped

(* What is left alone keeps what was said of it.                           *)
LEMMA OthersKeep ==
  ASSUME NEW u, CallInv(u), UNCHANGED <<ids, rowAge, known, cut>>,
         pc'[u] = pc[u], since'[u] = since[u], tag'[u] = tag[u], got'[u] = got[u]
  PROVE  CallInv(u)'
BY DEF CallInv, FrameRead, OverviewRead, SummaryRead, PageRead, Inside

LEMMA CachesKeep ==
  ASSUME CacheInv, UNCHANGED <<ids, rowAge, known, cut, val, age, ver>>
  PROVE  CacheInv'
BY DEF CacheInv, FrameKept, OverviewKept, PageKept

(* What Put keeps of values that are put there or were there.              *)
LEMMA PutIs ==
  ASSUME TableTyped, NEW a \in [Caches -> 0..TTL], NEW v,
         NEW n \in [Caches -> 0..last], Put(a, v, n),
         v["frame"] \in SUBSET Ids, v["overview"] \in SUBSET Ids,
         v["page"] \in Halves, last' = last
  PROVE  /\ CacheTyped' /\ age' = a
         /\ \A c \in Caches : a[c] < TTL => val'[c] = v[c] /\ ver'[c] = n[c]
<1>0. TTL \in Nat /\ last \in Nat /\ 0 \in 0..last
  BY ConsoleAssumption DEF TableTyped
<1>1. /\ age' = a
      /\ val' = [c \in Caches |-> IF a[c] = TTL THEN Nothing(c) ELSE v[c]]
      /\ ver' = [c \in Caches |-> IF a[c] = TTL THEN 0 ELSE n[c]]
  BY DEF Put
<1>2. ver' \in [Caches -> 0..last]
  BY <1>0, <1>1
<1>3. \A c \in Caches : a[c] < TTL => val'[c] = v[c] /\ ver'[c] = n[c]
  BY <1>0, <1>1
<1>4. DOMAIN val' = Caches /\ \A c \in Caches : val'[c] \in {Nothing(c), v[c]}
  BY <1>1
<1>5. /\ Nothing("frame") = {} /\ Nothing("overview") = {}
      /\ Nothing("page") \in Halves
  BY DEF Nothing, NoPage, Halves
<1>6. /\ val'["frame"] \in SUBSET Ids /\ val'["overview"] \in SUBSET Ids
      /\ val'["page"] \in Halves
  <2>1. "frame" \in Caches /\ "overview" \in Caches /\ "page" \in Caches
    BY DEF Caches
  <2>2. /\ val'["frame"] \in {{}, v["frame"]} /\ val'["overview"] \in {{}, v["overview"]}
        /\ val'["page"] \in {Nothing("page"), v["page"]}
    BY <1>4, <1>5, <2>1
  <2>3. QED
    BY <1>5, <2>2
<1>7. CacheTyped'
  BY <1>1, <1>2, <1>4, <1>6 DEF CacheTyped
<1>8. QED
  BY <1>1, <1>3, <1>7

LEMMA OlderIs ==
  ASSUME NEW limit \in Nat, NEW n \in 0..limit
  PROVE  /\ Older(n, limit) \in 0..limit /\ Older(n, limit) <= n + 1
         /\ Older(n, limit) < limit => Older(n, limit) = n + 1
BY DEF Older

LEMMA TickTable ==
  ASSUME TableTyped, Tick
  PROVE  /\ TableTyped' /\ UNCHANGED <<ids, last, known, cut>>
         /\ \A v : \A a \in Nat : Fresh(ids, rowAge, v, a) => Fresh(ids', rowAge', v, a + 1)
         /\ \A v : \A a \in Nat : Late(ids, rowAge, v, a) => Late(ids', rowAge', v, a + 1)
<1> DEFINE top == 2 * TTL - 1
<1>0. /\ TTL \in Nat \ {0} /\ MaxId \in Nat /\ last \in 0..MaxId /\ ids \subseteq 1..last
      /\ top \in Nat
  BY ConsoleAssumption DEF TableTyped
<1> HIDE DEF top
<1>1. /\ UNCHANGED <<ids, last, known, cut>>
      /\ rowAge' = [i \in Ids |-> IF i \in ids THEN Older(rowAge[i], top) ELSE 0]
  BY DEF Tick, top
<1>2. rowAge \in [Ids -> 0..top] /\ ids \subseteq Ids
  BY <1>0 DEF TableTyped, Ids, top
<1>3. \A i \in Ids : Older(rowAge[i], top) \in 0..top /\ Older(rowAge[i], top) <= rowAge[i] + 1
  BY <1>0, <1>2, OlderIs
<1>4. rowAge' \in [Ids -> 0..top]
  <2>1. 0 \in 0..top
    BY <1>0
  <2>2. QED
    BY <1>1, <1>3, <2>1
<1>5. \A i \in ids : rowAge[i] \in Nat /\ rowAge'[i] \in Nat /\ rowAge'[i] <= rowAge[i] + 1
  <2>1. \A i \in ids : rowAge'[i] = Older(rowAge[i], top)
    BY <1>1, <1>2
  <2>2. 0..top \subseteq Nat
    BY <1>0
  <2>3. QED
    BY <1>2, <1>3, <2>1, <2>2
<1>6. ASSUME NEW v, NEW a \in Nat, Fresh(ids, rowAge, v, a) PROVE Fresh(ids', rowAge', v, a + 1)
  BY <1>1, <1>5, <1>6 DEF Fresh
<1>7. ASSUME NEW v, NEW a \in Nat, Late(ids, rowAge, v, a) PROVE Late(ids', rowAge', v, a + 1)
  <2>1. ids' = ids /\ TTL \in Nat
    BY <1>0, <1>1
  <2>2. ASSUME NEW i \in ids, rowAge'[i] >= TTL + (a + 1) PROVE i \in v
    <3>1. rowAge[i] >= TTL + a
      BY <1>5, <2>1, <2>2
    <3>2. QED
      BY <1>7, <3>1 DEF Late
  <2>3. QED
    BY <2>1, <2>2 DEF Late
<1>8. TableTyped'
  BY <1>1, <1>4 DEF TableTyped, top
<1>9. QED
  BY <1>1, <1>6, <1>7, <1>8

LEMMA TickStep ==
  ASSUME PagesInv, Tick
  PROVE  PagesInv'
<1>0. TableTyped /\ CacheTyped /\ LocalsTyped /\ TTL \in Nat /\ 0 \in 0..TTL
  BY ConsoleAssumption DEF PagesInv, PagesTyped
<1> DEFINE a == [c \in Caches |-> Older(age[c], TTL)]
           s == [t \in Threads |-> [c \in Caches |->
                   IF Running(t, c) THEN Older(since[t][c], TTL) ELSE 0]]
<1>1. /\ UNCHANGED <<ids, last, known, cut, pc, tag, got>>
      /\ Put(a, val, ver) /\ since' = s
  BY DEF Tick
<1>2. /\ TableTyped'
      /\ \A v : \A n \in Nat : Fresh(ids, rowAge, v, n) => Fresh(ids', rowAge', v, n + 1)
      /\ \A v : \A n \in Nat : Late(ids, rowAge, v, n) => Late(ids', rowAge', v, n + 1)
  BY <1>0, TickTable
<1>3. a \in [Caches -> 0..TTL]
  BY <1>0, OlderIs DEF CacheTyped
<1>4. s \in [Threads -> [Caches -> 0..TTL]]
  <2>1. ASSUME NEW t \in Threads, NEW c \in Caches
        PROVE  (IF Running(t, c) THEN Older(since[t][c], TTL) ELSE 0) \in 0..TTL
    <3>1. since[t][c] \in 0..TTL
      BY <1>0 DEF LocalsTyped
    <3>2. QED
      BY <1>0, <3>1, OlderIs
  <2>2. QED
    BY <2>1
<1>5. \A c \in Caches : age[c] \in 0..TTL /\ (a[c] < TTL => age[c] < TTL /\ a[c] = age[c] + 1)
  <2>1. TAKE c \in Caches
  <2>2. age[c] \in 0..TTL /\ a[c] = Older(age[c], TTL)
    BY <1>0 DEF CacheTyped
  <2>3. QED
    BY <1>0, <2>2 DEF Older
<1>6. ASSUME NEW t \in Threads, NEW c \in Caches
      PROVE  /\ since[t][c] \in 0..TTL /\ s[t][c] \in 0..TTL
             /\ Running(t, c) => s[t][c] = Older(since[t][c], TTL)
             /\ Running(t, c) /\ s[t][c] < TTL => since[t][c] < TTL /\ s[t][c] = since[t][c] + 1
  <2>1. since[t][c] \in 0..TTL
    BY <1>0 DEF LocalsTyped
  <2>2. Running(t, c) => s[t][c] = Older(since[t][c], TTL)
    OBVIOUS
  <2>3. s[t][c] \in 0..TTL
    BY <1>4
  <2> HIDE DEF s
  <2>4. QED
    BY <1>0, <2>1, <2>2, <2>3 DEF Older
<1> HIDE DEF a, s
<1>7. /\ CacheTyped' /\ age' = a
      /\ \A c \in Caches : a[c] < TTL => val'[c] = val[c] /\ ver'[c] = ver[c]
  BY <1>0, <1>1, <1>3, PutIs DEF CacheTyped
<1>8. LocalsTyped'
  BY <1>0, <1>1, <1>4 DEF LocalsTyped
<1>9. "frame" \in Caches /\ "overview" \in Caches /\ "page" \in Caches
  BY DEF Caches
<1>10. 0..TTL \subseteq Nat
  BY <1>0
<1>11. CacheInv'
  <2>0. FrameKept /\ OverviewKept /\ PageKept
    BY DEF PagesInv, CacheInv
  <2>1. FrameKept'
    <3>1. SUFFICES ASSUME a["frame"] < TTL
                   PROVE  /\ Sound(ids', known', cut', val'["frame"])
                          /\ Fresh(ids', rowAge', val'["frame"], a["frame"])
      BY <1>7 DEF FrameKept
    <3>2. age["frame"] < TTL /\ a["frame"] = age["frame"] + 1 /\ val'["frame"] = val["frame"]
          /\ age["frame"] \in Nat
      BY <1>5, <1>7, <1>9, <1>10, <3>1
    <3>3. QED
      BY <1>1, <1>2, <2>0, <3>2 DEF FrameKept
  <2>2. OverviewKept'
    <3>1. SUFFICES ASSUME a["overview"] < TTL
                   PROVE  /\ Sound(ids', known', cut', val'["overview"])
                          /\ Covers(ids', val'["overview"], ver'["overview"])
      BY <1>7 DEF OverviewKept
    <3>2. age["overview"] < TTL /\ val'["overview"] = val["overview"] /\ ver'["overview"] = ver["overview"]
      BY <1>5, <1>7, <1>9, <3>1
    <3>3. QED
      BY <1>1, <2>0, <3>2 DEF OverviewKept
  <2>3. PageKept'
    <3>1. SUFFICES ASSUME a["page"] < TTL
                   PROVE  /\ Sound(ids', known', cut', val'["page"].frame)
                          /\ Sound(ids', known', cut', val'["page"].overview)
                          /\ Late(ids', rowAge', val'["page"].frame, a["page"])
                          /\ Covers(ids', val'["page"].overview, ver'["page"])
      BY <1>7 DEF PageKept
    <3>2. age["page"] < TTL /\ a["page"] = age["page"] + 1 /\ val'["page"] = val["page"]
          /\ ver'["page"] = ver["page"] /\ age["page"] \in Nat
      BY <1>5, <1>7, <1>9, <1>10, <3>1
    <3>3. QED
      BY <1>1, <1>2, <2>0, <3>2 DEF PageKept
  <2>4. QED
    BY <2>1, <2>2, <2>3 DEF CacheInv
<1>12. ASSUME NEW t \in Threads PROVE CallInv(t)'
  <2>0. FrameRead(t) /\ OverviewRead(t) /\ SummaryRead(t) /\ PageRead(t) /\ Inside(t)
    BY DEF PagesInv, CallInv
  <2>1. FrameRead(t)'
    <3>1. SUFFICES ASSUME pc[t] = <<"frame", "store">>
                   PROVE  /\ Sound(ids', known', cut', got'[t].frame)
                          /\ s[t]["frame"] < TTL => Fresh(ids', rowAge', got'[t].frame, s[t]["frame"])
      BY <1>1 DEF FrameRead
    <3>2. Running(t, "frame")
      BY <3>1 DEF Running
    <3>3. Sound(ids', known', cut', got'[t].frame)
      BY <1>1, <2>0, <3>1 DEF FrameRead
    <3>4. ASSUME s[t]["frame"] < TTL PROVE Fresh(ids', rowAge', got'[t].frame, s[t]["frame"])
      <4>1. since[t]["frame"] < TTL /\ s[t]["frame"] = since[t]["frame"] + 1 /\ since[t]["frame"] \in Nat
        BY <1>6, <1>9, <1>10, <3>2, <3>4
      <4>2. Fresh(ids, rowAge, got[t].frame, since[t]["frame"])
        BY <2>0, <3>1, <4>1 DEF FrameRead
      <4>3. QED
        BY <1>1, <1>2, <4>1, <4>2
    <3>5. QED
      BY <3>3, <3>4
  <2>2. OverviewRead(t)'
    BY <1>1, <2>0 DEF OverviewRead
  <2>3. SummaryRead(t)'
    BY <1>1, <2>0 DEF SummaryRead
  <2>4. PageRead(t)'
    <3>1. SUFFICES ASSUME pc[t] = <<"page", "store">>
                   PROVE  /\ Sound(ids', known', cut', got'[t].frame)
                          /\ s[t]["page"] < TTL => Late(ids', rowAge', got'[t].frame, s[t]["page"])
      BY <1>1 DEF PageRead
    <3>2. Running(t, "page")
      BY <3>1 DEF Running
    <3>3. Sound(ids', known', cut', got'[t].frame)
      BY <1>1, <2>0, <3>1 DEF PageRead
    <3>4. ASSUME s[t]["page"] < TTL PROVE Late(ids', rowAge', got'[t].frame, s[t]["page"])
      <4>1. since[t]["page"] < TTL /\ s[t]["page"] = since[t]["page"] + 1 /\ since[t]["page"] \in Nat
        BY <1>6, <1>9, <1>10, <3>2, <3>4
      <4>2. Late(ids, rowAge, got[t].frame, since[t]["page"])
        BY <2>0, <3>1, <4>1 DEF PageRead
      <4>3. QED
        BY <1>1, <1>2, <4>1, <4>2
    <3>5. QED
      BY <3>3, <3>4
  <2>5. Inside(t)'
    <3>1. SUFFICES ASSUME t \in Requests, pc[t] \in {<<"frame", "query">>, <<"frame", "store">>}
                   PROVE  s[t]["frame"] <= s[t]["page"]
      BY <1>1 DEF Inside
    <3>2. t # Warmer
      BY <3>1, ConsoleAssumption
    <3>3. Running(t, "frame") /\ Running(t, "page")
      BY <3>1, <3>2 DEF Running, Idle
    <3>4. /\ s[t]["frame"] = Older(since[t]["frame"], TTL)
          /\ s[t]["page"] = Older(since[t]["page"], TTL)
          /\ since[t]["frame"] \in 0..TTL /\ since[t]["page"] \in 0..TTL
      BY <1>6, <1>9, <3>3
    <3>5. since[t]["frame"] <= since[t]["page"]
      BY <2>0, <3>1 DEF Inside
    <3>6. QED
      BY <1>0, <3>4, <3>5 DEF Older
  <2>6. QED
    BY <2>1, <2>2, <2>3, <2>4, <2>5 DEF CallInv
<1>13. QED
  BY <1>2, <1>7, <1>8, <1>11, <1>12 DEF PagesInv, PagesTyped

(* clear_caches leaves nothing in the caches to say anything of; what the  *)
(* Refresh knew changes only when no call is in progress.                  *)
LEMMA RefreshStep ==
  ASSUME PagesInv, Refresh
  PROVE  PagesInv'
<1>0. TableTyped /\ CacheTyped /\ LocalsTyped /\ TTL \in Nat /\ last \in Nat
  BY ConsoleAssumption DEF PagesInv, PagesTyped, TableTyped
<1> DEFINE a == [c \in Caches |-> TTL]
<1>1. /\ UNCHANGED <<ids, last, rowAge, pc, since, tag, got>>
      /\ Put(a, val, ver)
      /\ IF \A t \in Threads : pc[t] = Idle
         THEN known' = ids /\ cut' = (1..last) \ ids
         ELSE UNCHANGED <<known, cut>>
  BY DEF Refresh, table, locals
<1>2. a \in [Caches -> 0..TTL] /\ \A c \in Caches : ~(a[c] < TTL)
  BY <1>0
<1> HIDE DEF a
<1>3. CacheTyped' /\ age' = a
  BY <1>0, <1>1, <1>2, PutIs DEF CacheTyped
<1>4. TableTyped'
  <2>1. CASE \A t \in Threads : pc[t] = Idle
    <3>1. ids' = ids /\ last' = last /\ rowAge' = rowAge /\ known' = ids /\ cut' = (1..last) \ ids
      BY <1>1, <2>1
    <3>2. QED
      BY <1>0, <3>1 DEF TableTyped
  <2>2. CASE ~ \A t \in Threads : pc[t] = Idle
    <3>1. ids' = ids /\ last' = last /\ rowAge' = rowAge /\ known' = known /\ cut' = cut
      BY <1>1, <2>2
    <3>2. QED
      BY <1>0, <3>1 DEF TableTyped
  <2>3. QED
    BY <2>1, <2>2
<1>5. LocalsTyped'
  BY <1>0, <1>1 DEF LocalsTyped
<1>6. CacheInv'
  <2>1. /\ ~(age'["frame"] < TTL) /\ ~(age'["overview"] < TTL) /\ ~(age'["page"] < TTL)
    BY <1>2, <1>3 DEF Caches
  <2>2. QED
    BY <2>1 DEF CacheInv, FrameKept, OverviewKept, PageKept
<1>7. ASSUME NEW t \in Threads PROVE CallInv(t)'
  <2>1. CASE \A u \in Threads : pc[u] = Idle
    <3>1. pc'[t] = <<"page", "idle">>
      BY <1>1, <2>1 DEF Idle
    <3>2. QED
      BY <3>1 DEF CallInv, FrameRead, OverviewRead, SummaryRead, HasSummary, PageRead, Inside
  <2>2. CASE ~ \A u \in Threads : pc[u] = Idle
    <3>1. UNCHANGED <<ids, rowAge, known, cut>> /\ pc'[t] = pc[t] /\ since'[t] = since[t]
          /\ tag'[t] = tag[t] /\ got'[t] = got[t]
      BY <1>1, <2>2
    <3>2. CallInv(t)
      BY DEF PagesInv
    <3>3. QED
      BY <3>1, <3>2, OthersKeep
  <2>3. QED
    BY <2>1, <2>2
<1>8. QED
  BY <1>3, <1>4, <1>5, <1>6, <1>7 DEF PagesInv, PagesTyped

-----------------------------------------------------------------------------
(* The steps of a call.                                                    *)

(* One local of one thread is set.                                         *)
LEMMA LocalSet ==
  ASSUME NEW S, NEW f \in [Threads -> [Caches -> S]], NEW t \in Threads,
         NEW c \in Caches, NEW x \in S, NEW g, g = [f EXCEPT ![t][c] = x]
  PROVE  /\ g \in [Threads -> [Caches -> S]]
         /\ g[t][c] = x
         /\ \A d \in Caches : d # c => g[t][d] = f[t][d]
         /\ \A u \in Threads : u # t => g[u] = f[u]
OBVIOUS

LEMMA PlaceSet ==
  ASSUME LocalsTyped, NEW t \in Threads, NEW x \in Places,
         t = Warmer => x # <<"page", "store">>, pc' = [pc EXCEPT ![t] = x]
  PROVE  /\ pc' \in [Threads -> Places] /\ pc'[Warmer] # <<"page", "store">>
         /\ pc'[t] = x /\ \A u \in Threads : u # t => pc'[u] = pc[u]
BY DEF LocalsTyped, Threads

LEMMA WhatComesNext ==
  ASSUME NEW t \in Threads
  PROVE  /\ t = Warmer => /\ After(t, "frame") = <<"overview", "look">>
                          /\ After(t, "overview") = <<"page", "idle">>
         /\ t # Warmer => /\ t \in Requests
                          /\ After(t, "frame") = <<"page", "store">>
                          /\ After(t, "overview") = <<"frame", "look">>
BY ConsoleAssumption DEF Threads, After, Idle

(* A call that is not in any of the places CallInv speaks of.              *)
LEMMA NothingToSay ==
  ASSUME NEW t, pc'[t] \in {<<"page", "idle">>, <<"overview", "look">>, <<"overview", "query">>}
  PROVE  CallInv(t)'
BY DEF CallInv, FrameRead, OverviewRead, SummaryRead, HasSummary, PageRead, Inside

LEMMA NothingToSayOfTheWarmer ==
  ASSUME NEW t, t \notin Requests,
         pc'[t] \in {<<"page", "idle">>, <<"frame", "look">>, <<"frame", "query">>,
                     <<"overview", "look">>, <<"overview", "query">>}
  PROVE  CallInv(t)'
BY DEF CallInv, FrameRead, OverviewRead, SummaryRead, PageRead, Inside

LEMMA RowsHaveAges ==
  ASSUME TableTyped
  PROVE  ids \in SUBSET Ids /\ \A i \in ids : rowAge[i] \in Nat
<1>1. /\ TTL \in Nat \ {0} /\ MaxId \in Nat /\ last \in 0..MaxId /\ ids \subseteq 1..last
      /\ rowAge \in [Ids -> 0..(2 * TTL - 1)]
  BY ConsoleAssumption DEF TableTyped
<1>2. ids \in SUBSET Ids
  BY <1>1 DEF Ids
<1>3. 0..(2 * TTL - 1) \subseteq Nat
  BY <1>1
<1>4. QED
  BY <1>1, <1>2, <1>3

LEMMA HitStep ==
  ASSUME PagesInv, NEW t \in Threads, NEW c \in {"frame", "overview"},
         Look(t, c), Hit(c)
  PROVE  PagesInv'
<1>0. /\ TableTyped /\ CacheTyped /\ LocalsTyped /\ CacheInv /\ TTL \in Nat
      /\ \A u \in Threads : CallInv(u)
  BY ConsoleAssumption DEF PagesInv, PagesTyped
<1>1. /\ pc[t] = <<c, "look">> /\ pc' = [pc EXCEPT ![t] = After(t, c)]
      /\ got' = IF t = Warmer THEN got ELSE [got EXCEPT ![t][c] = val[c]]
      /\ UNCHANGED <<ids, last, rowAge, val, age, ver, known, cut, since, tag>>
  BY DEF Look, table, cache
<1>2. CacheInv'
  BY <1>0, <1>1, CachesKeep
<1>3. TableTyped' /\ CacheTyped'
  BY <1>0, <1>1 DEF TableTyped, CacheTyped
<1>4. After(t, c) \in Places /\ (t = Warmer => After(t, c) # <<"page", "store">>)
  BY WhatComesNext DEF Places
<1>5. /\ pc' \in [Threads -> Places] /\ pc'[Warmer] # <<"page", "store">>
      /\ pc'[t] = After(t, c) /\ \A u \in Threads : u # t => pc'[u] = pc[u]
  BY <1>0, <1>1, <1>4, PlaceSet
<1>6. val["frame"] \in SUBSET Ids /\ val["overview"] \in SUBSET Ids
  BY <1>0 DEF CacheTyped
<1>7. got \in [Threads -> Halves]
  BY <1>0 DEF LocalsTyped
<1>8. /\ got' \in [Threads -> Halves]
      /\ \A u \in Threads : u # t => got'[u] = got[u]
      /\ t # Warmer /\ c = "frame" => got'[t].frame = val["frame"] /\ got'[t].overview = got[t].overview
      /\ t # Warmer /\ c = "overview" => got'[t].overview = val["overview"]
  <2>1. CASE t = Warmer
    BY <1>1, <1>7, <2>1
  <2>2. CASE t # Warmer /\ c = "frame"
    <3>1. got' = [got EXCEPT ![t]["frame"] = val["frame"]]
      BY <1>1, <2>2
    <3>2. /\ got' \in [Threads -> Halves]
          /\ got'[t].frame = val["frame"] /\ got'[t].overview = got[t].overview
          /\ \A u \in Threads : u # t => got'[u] = got[u]
      BY <1>6, <1>7, <3>1 DEF Halves
    <3>3. QED
      BY <2>2, <3>2
  <2>3. CASE t # Warmer /\ c = "overview"
    <3>1. got' = [got EXCEPT ![t]["overview"] = val["overview"]]
      BY <1>1, <2>3
    <3>2. /\ got' \in [Threads -> Halves]
          /\ got'[t].overview = val["overview"] /\ got'[t].frame = got[t].frame
          /\ \A u \in Threads : u # t => got'[u] = got[u]
      BY <1>6, <1>7, <3>1 DEF Halves
    <3>3. QED
      BY <2>3, <3>2
  <2>4. QED
    BY <2>1, <2>2, <2>3
<1>9. LocalsTyped'
  BY <1>0, <1>1, <1>5, <1>8 DEF LocalsTyped
<1>10. CallInv(t)'
  <2>1. CASE t = Warmer
    <3>1. pc'[t] \in {<<"overview", "look">>, <<"page", "idle">>}
      BY <1>5, <2>1, WhatComesNext
    <3>2. QED
      BY <3>1, NothingToSay
  <2>2. CASE t # Warmer /\ c = "overview"
    <3>1. pc'[t] = <<"frame", "look">>
      BY <1>5, <2>2, WhatComesNext
    <3>2. age["overview"] < TTL /\ ver["overview"] = Version
      BY <2>2 DEF Hit
    <3>3. Sound(ids, known, cut, val["overview"]) /\ Covers(ids, val["overview"], Version)
      BY <1>0, <3>2 DEF CacheInv, OverviewKept
    <3>4. \A i \in ids : i <= Version
      BY <1>0, VersionIsTop
    <3>5. Covers(ids, val["overview"], tag[t]["page"])
      BY <3>3, <3>4 DEF Covers
    <3>6. SummaryRead(t)'
      BY <1>1, <1>8, <2>2, <3>3, <3>5 DEF SummaryRead
    <3>7. QED
      BY <3>1, <3>6 DEF CallInv, FrameRead, OverviewRead, PageRead, Inside
  <2>3. CASE t # Warmer /\ c = "frame"
    <3>1. pc'[t] = <<"page", "store">>
      BY <1>5, <2>3, WhatComesNext
    <3>2. age["frame"] < TTL /\ age["frame"] \in 0..TTL
      BY <1>0, <2>3 DEF Hit, CacheTyped, Caches
    <3>3. Sound(ids, known, cut, val["frame"]) /\ Fresh(ids, rowAge, val["frame"], age["frame"])
      BY <1>0, <3>2 DEF CacheInv, FrameKept
    <3>4. SummaryRead(t)'
      <4>1. pc[t] \in HasSummary
        BY <1>1, <2>3 DEF HasSummary
      <4>2. SummaryRead(t)
        BY <1>0 DEF CallInv
      <4>3. QED
        BY <1>1, <1>8, <2>3, <4>1, <4>2 DEF SummaryRead
    <3>5. PageRead(t)'
      <4>1. since[t]["page"] \in 0..TTL
        BY <1>0 DEF LocalsTyped, Caches
      <4>2. \A i \in ids : rowAge[i] \in Nat
        BY <1>0, RowsHaveAges
      <4>3. Late(ids, rowAge, val["frame"], since[t]["page"])
        <5>1. SUFFICES ASSUME NEW i \in ids, rowAge[i] >= TTL + since[t]["page"]
                       PROVE  i \in val["frame"]
          BY DEF Late
        <5>2. rowAge[i] > age["frame"]
          BY <1>0, <3>2, <4>1, <4>2, <5>1
        <5>3. QED
          BY <3>3, <5>2 DEF Fresh
      <4>4. QED
        BY <1>1, <1>8, <2>3, <3>3, <4>3 DEF PageRead
    <3>6. QED
      BY <3>1, <3>4, <3>5 DEF CallInv, FrameRead, OverviewRead, Inside
  <2>4. QED
    BY <2>1, <2>2, <2>3
<1>11. ASSUME NEW u \in Threads PROVE CallInv(u)'
  <2>1. CASE u = t
    BY <1>10, <2>1
  <2>2. CASE u # t
    BY <1>0, <1>1, <1>5, <1>8, <2>2, OthersKeep
  <2>3. QED
    BY <2>1, <2>2
<1>12. QED
  BY <1>2, <1>3, <1>9, <1>11 DEF PagesInv, PagesTyped

(* A call that begins: nothing is said of it yet, but what a page has.     *)
LEMMA MissStep ==
  ASSUME PagesInv, NEW t \in Threads, NEW c \in {"frame", "overview"},
         Look(t, c), ~Hit(c)
  PROVE  PagesInv'
<1>0. /\ TableTyped /\ CacheTyped /\ LocalsTyped /\ CacheInv /\ TTL \in Nat /\ 0 \in 0..TTL
      /\ last \in Nat /\ \A u \in Threads : CallInv(u)
  BY ConsoleAssumption DEF PagesInv, PagesTyped, TableTyped
<1> DEFINE n == IF c = "frame" THEN 0 ELSE Version
<1>1. /\ pc[t] = <<c, "look">> /\ pc' = [pc EXCEPT ![t] = <<c, "query">>]
      /\ since' = [since EXCEPT ![t][c] = 0] /\ tag' = [tag EXCEPT ![t][c] = n]
      /\ UNCHANGED <<ids, last, rowAge, val, age, ver, known, cut, got>>
  BY DEF Look, Begin, table, cache
<1>2. n \in 0..last
  BY <1>0, VersionIsTop
<1> HIDE DEF n
<1>3. TableTyped' /\ CacheTyped' /\ CacheInv'
  <2>1. TableTyped' /\ CacheTyped'
    BY <1>0, <1>1 DEF TableTyped, CacheTyped
  <2>2. QED
    BY <1>0, <1>1, <2>1, CachesKeep
<1>4. c \in Caches /\ "page" \in Caches /\ "frame" \in Caches
  BY DEF Caches
<1>5. /\ pc' \in [Threads -> Places] /\ pc'[Warmer] # <<"page", "store">>
      /\ pc'[t] = <<c, "query">> /\ \A u \in Threads : u # t => pc'[u] = pc[u]
  <2>1. <<c, "query">> \in Places /\ <<c, "query">> # <<"page", "store">>
    BY DEF Places
  <2>2. QED
    BY <1>0, <1>1, <2>1, PlaceSet
<1>6. /\ since' \in [Threads -> [Caches -> 0..TTL]]
      /\ since'[t][c] = 0 /\ \A d \in Caches : d # c => since'[t][d] = since[t][d]
      /\ \A u \in Threads : u # t => since'[u] = since[u]
  BY <1>0, <1>1, <1>4 DEF LocalsTyped
<1>7. /\ tag' \in [Threads -> [Caches -> 0..last]]
      /\ \A d \in Caches : d # c => tag'[t][d] = tag[t][d]
      /\ \A u \in Threads : u # t => tag'[u] = tag[u]
  BY <1>0, <1>1, <1>2, <1>4 DEF LocalsTyped
<1>8. LocalsTyped'
  BY <1>0, <1>1, <1>5, <1>6, <1>7 DEF LocalsTyped
<1>9. CallInv(t)'
  <2>1. CASE c = "overview"
    BY <1>5, <2>1, NothingToSay
  <2>2. CASE c = "frame"
    <3>1. pc'[t] = <<"frame", "query">>
      BY <1>5, <2>2
    <3>2. SummaryRead(t)'
      <4>1. pc[t] \in HasSummary
        BY <1>1, <2>2 DEF HasSummary
      <4>2. SummaryRead(t)
        BY <1>0 DEF CallInv
      <4>3. tag'[t]["page"] = tag[t]["page"]
        BY <1>4, <1>7, <2>2
      <4>4. QED
        BY <1>1, <4>1, <4>2, <4>3 DEF SummaryRead
    <3>3. Inside(t)'
      <4>1. since'[t]["frame"] = 0 /\ since'[t]["page"] \in 0..TTL
        BY <1>4, <1>6, <2>2
      <4>2. since'[t]["frame"] <= since'[t]["page"]
        BY <1>0, <4>1
      <4>3. QED
        BY <4>2 DEF Inside
    <3>4. QED
      BY <3>1, <3>2, <3>3 DEF CallInv, FrameRead, OverviewRead, PageRead
  <2>3. QED
    BY <2>1, <2>2
<1>10. ASSUME NEW u \in Threads PROVE CallInv(u)'
  <2>1. CASE u = t
    BY <1>9, <2>1
  <2>2. CASE u # t
    BY <1>0, <1>1, <1>5, <1>6, <1>7, <2>2, OthersKeep
  <2>3. QED
    BY <2>1, <2>2
<1>11. QED
  BY <1>3, <1>8, <1>10 DEF PagesInv, PagesTyped

(* The table itself is sound, and has every row it has.                    *)
LEMMA TheTableIs ==
  ASSUME TableTyped
  PROVE  /\ Sound(ids, known, cut, ids) /\ \A n : Covers(ids, ids, n)
         /\ \A a : Fresh(ids, rowAge, ids, a)
BY DEF TableTyped, Sound, Covers, Fresh

LEMMA QueryStep ==
  ASSUME PagesInv, NEW t \in Threads, NEW c \in {"frame", "overview"},
         Query(t, c)
  PROVE  PagesInv'
<1>0. /\ TableTyped /\ CacheTyped /\ LocalsTyped /\ CacheInv
      /\ \A u \in Threads : CallInv(u)
  BY DEF PagesInv, PagesTyped
<1>1. /\ pc[t] = <<c, "query">> /\ pc' = [pc EXCEPT ![t] = <<c, "store">>]
      /\ got' = [got EXCEPT ![t][c] = ids]
      /\ UNCHANGED <<ids, last, rowAge, val, age, ver, known, cut, since, tag>>
  BY DEF Query, table, cache
<1>2. TableTyped' /\ CacheTyped' /\ CacheInv'
  <2>1. TableTyped' /\ CacheTyped'
    BY <1>0, <1>1 DEF TableTyped, CacheTyped
  <2>2. QED
    BY <1>0, <1>1, <2>1, CachesKeep
<1>3. /\ pc' \in [Threads -> Places] /\ pc'[Warmer] # <<"page", "store">>
      /\ pc'[t] = <<c, "store">> /\ \A u \in Threads : u # t => pc'[u] = pc[u]
  <2>1. <<c, "store">> \in Places /\ <<c, "store">> # <<"page", "store">>
    BY DEF Places
  <2>2. QED
    BY <1>0, <1>1, <2>1, PlaceSet
<1>4. ids \in SUBSET Ids /\ got \in [Threads -> Halves]
  BY <1>0, RowsHaveAges DEF LocalsTyped
<1>5. CASE c = "frame"
  <2>1. got' = [got EXCEPT ![t]["frame"] = ids]
    BY <1>1, <1>5
  <2>2. /\ got' \in [Threads -> Halves]
        /\ got'[t].frame = ids /\ got'[t].overview = got[t].overview
        /\ \A u \in Threads : u # t => got'[u] = got[u]
    BY <1>4, <2>1 DEF Halves
  <2>3. LocalsTyped'
    BY <1>0, <1>1, <1>3, <2>2 DEF LocalsTyped
  <2>4. pc[t] = <<"frame", "query">> /\ pc'[t] = <<"frame", "store">>
    BY <1>1, <1>3, <1>5
  <2>5. FrameRead(t)'
    BY <1>0, <1>1, <2>2, TheTableIs DEF FrameRead
  <2>6. SummaryRead(t)'
    <3>1. SummaryRead(t) /\ pc[t] \in HasSummary
      BY <1>0, <2>4 DEF CallInv, HasSummary
    <3>2. QED
      BY <1>1, <2>2, <3>1 DEF SummaryRead
  <2>7. Inside(t)'
    <3>1. Inside(t)
      BY <1>0 DEF CallInv
    <3>2. QED
      BY <1>1, <2>4, <3>1 DEF Inside
  <2>8. CallInv(t)'
    BY <2>4, <2>5, <2>6, <2>7 DEF CallInv, OverviewRead, PageRead
  <2>9. ASSUME NEW u \in Threads PROVE CallInv(u)'
    <3>1. CASE u = t
      BY <2>8, <3>1
    <3>2. CASE u # t
      BY <1>0, <1>1, <1>3, <2>2, <3>2, OthersKeep
    <3>3. QED
      BY <3>1, <3>2
  <2>10. QED
    BY <1>2, <2>3, <2>9 DEF PagesInv, PagesTyped
<1>6. CASE c = "overview"
  <2>1. got' = [got EXCEPT ![t]["overview"] = ids]
    BY <1>1, <1>6
  <2>2. /\ got' \in [Threads -> Halves] /\ got'[t].overview = ids
        /\ \A u \in Threads : u # t => got'[u] = got[u]
    BY <1>4, <2>1 DEF Halves
  <2>3. LocalsTyped'
    BY <1>0, <1>1, <1>3, <2>2 DEF LocalsTyped
  <2>4. pc'[t] = <<"overview", "store">>
    BY <1>3, <1>6
  <2>5. OverviewRead(t)' /\ SummaryRead(t)'
    BY <1>0, <1>1, <2>2, TheTableIs DEF OverviewRead, SummaryRead
  <2>6. CallInv(t)'
    BY <2>4, <2>5 DEF CallInv, FrameRead, PageRead, Inside
  <2>7. ASSUME NEW u \in Threads PROVE CallInv(u)'
    <3>1. CASE u = t
      BY <2>6, <3>1
    <3>2. CASE u # t
      BY <1>0, <1>1, <1>3, <2>2, <3>2, OthersKeep
    <3>3. QED
      BY <3>1, <3>2
  <2>8. QED
    BY <1>2, <2>3, <2>7 DEF PagesInv, PagesTyped
<1>7. QED
  BY <1>5, <1>6

LEMMA KeepIs ==
  ASSUME TableTyped, CacheTyped, LocalsTyped, last' = last,
         NEW t \in Threads, NEW c \in Caches, NEW value, Keep(t, c, value),
         c \in {"frame", "overview"} => value \in SUBSET Ids,
         c = "page" => value \in Halves
  PROVE  /\ CacheTyped' /\ age'[c] = since[t][c]
         /\ since[t][c] < TTL => val'[c] = value /\ ver'[c] = tag[t][c]
         /\ \A d \in Caches : d # c =>
              /\ age'[d] = age[d]
              /\ age[d] < TTL => val'[d] = val[d] /\ ver'[d] = ver[d]
<1> DEFINE a == [age EXCEPT ![c] = since[t][c]]
           v == [val EXCEPT ![c] = value]
           n == [ver EXCEPT ![c] = tag[t][c]]
<1>1. Put(a, v, n)
  BY DEF Keep
<1>2. since[t][c] \in 0..TTL /\ tag[t][c] \in 0..last
  BY DEF LocalsTyped
<1>3. /\ a \in [Caches -> 0..TTL] /\ a[c] = since[t][c]
      /\ \A d \in Caches : d # c => a[d] = age[d]
  BY <1>2 DEF CacheTyped
<1>4. /\ n \in [Caches -> 0..last] /\ n[c] = tag[t][c]
      /\ \A d \in Caches : d # c => n[d] = ver[d]
  BY <1>2 DEF CacheTyped
<1>5. v[c] = value /\ \A d \in Caches : d # c => v[d] = val[d]
  BY DEF CacheTyped
<1>6. /\ "frame" \in Caches /\ "overview" \in Caches /\ "page" \in Caches
  BY DEF Caches
<1> HIDE DEF a, v, n
<1>7. /\ v["frame"] \in SUBSET Ids /\ v["overview"] \in SUBSET Ids
      /\ v["page"] \in Halves
  <2>1. v["frame"] \in SUBSET Ids
    BY <1>5, <1>6 DEF CacheTyped
  <2>2. v["overview"] \in SUBSET Ids
    BY <1>5, <1>6 DEF CacheTyped
  <2>3. v["page"] \in Halves
    BY <1>5, <1>6 DEF CacheTyped
  <2>4. QED
    BY <2>1, <2>2, <2>3
<1>8. /\ CacheTyped' /\ age' = a
      /\ \A d \in Caches : a[d] < TTL => val'[d] = v[d] /\ ver'[d] = n[d]
  BY <1>1, <1>3, <1>4, <1>7, PutIs
<1>9. QED
  BY <1>3, <1>4, <1>5, <1>8

LEMMA FrameStore ==
  ASSUME PagesInv, NEW t \in Threads, Store(t, "frame")
  PROVE  CacheInv' /\ CacheTyped'
<1>0. /\ TableTyped /\ CacheTyped /\ LocalsTyped /\ CacheInv /\ CallInv(t)
  BY DEF PagesInv, PagesTyped
<1>1. /\ pc[t] = <<"frame", "store">> /\ Keep(t, "frame", got[t]["frame"])
      /\ UNCHANGED <<ids, last, rowAge, known, cut>>
  BY DEF Store, table
<1>2. /\ "frame" \in Caches /\ "overview" \in Caches /\ "page" \in Caches
  BY DEF Caches
<1>3. got[t]["frame"] \in SUBSET Ids
  BY <1>0 DEF LocalsTyped, Halves
<1>4. /\ CacheTyped' /\ age'["frame"] = since[t]["frame"]
      /\ since[t]["frame"] < TTL => val'["frame"] = got[t]["frame"]
      /\ \A d \in Caches : d # "frame" =>
           /\ age'[d] = age[d]
           /\ age[d] < TTL => val'[d] = val[d] /\ ver'[d] = ver[d]
  BY <1>0, <1>1, <1>2, <1>3, KeepIs
<1>5. FrameKept'
  <2>1. FrameRead(t)
    BY <1>0 DEF CallInv
  <2>2. QED
    BY <1>1, <1>4, <2>1 DEF FrameKept, FrameRead
<1>6. OverviewKept'
  BY <1>0, <1>1, <1>2, <1>4 DEF CacheInv, OverviewKept
<1>7. PageKept'
  BY <1>0, <1>1, <1>2, <1>4 DEF CacheInv, PageKept
<1>8. QED
  BY <1>4, <1>5, <1>6, <1>7 DEF CacheInv

LEMMA OverviewStore ==
  ASSUME PagesInv, NEW t \in Threads, Store(t, "overview")
  PROVE  CacheInv' /\ CacheTyped'
<1>0. /\ TableTyped /\ CacheTyped /\ LocalsTyped /\ CacheInv /\ CallInv(t)
  BY DEF PagesInv, PagesTyped
<1>1. /\ pc[t] = <<"overview", "store">> /\ Keep(t, "overview", got[t]["overview"])
      /\ UNCHANGED <<ids, last, rowAge, known, cut>>
  BY DEF Store, table
<1>2. /\ "frame" \in Caches /\ "overview" \in Caches /\ "page" \in Caches
  BY DEF Caches
<1>3. got[t]["overview"] \in SUBSET Ids
  BY <1>0 DEF LocalsTyped, Halves
<1>4. /\ CacheTyped' /\ age'["overview"] = since[t]["overview"]
      /\ since[t]["overview"] < TTL =>
           val'["overview"] = got[t]["overview"] /\ ver'["overview"] = tag[t]["overview"]
      /\ \A d \in Caches : d # "overview" =>
           /\ age'[d] = age[d]
           /\ age[d] < TTL => val'[d] = val[d] /\ ver'[d] = ver[d]
  BY <1>0, <1>1, <1>2, <1>3, KeepIs
<1>5. OverviewKept'
  <2>1. OverviewRead(t)
    BY <1>0 DEF CallInv
  <2>2. QED
    BY <1>1, <1>4, <2>1 DEF OverviewKept, OverviewRead
<1>6. FrameKept'
  BY <1>0, <1>1, <1>2, <1>4 DEF CacheInv, FrameKept
<1>7. PageKept'
  BY <1>0, <1>1, <1>2, <1>4 DEF CacheInv, PageKept
<1>8. QED
  BY <1>4, <1>5, <1>6, <1>7 DEF CacheInv

LEMMA StoreStep ==
  ASSUME PagesInv, NEW t \in Threads, NEW c \in {"frame", "overview"},
         Store(t, c)
  PROVE  PagesInv'
<1>0. /\ TableTyped /\ LocalsTyped /\ TTL \in Nat /\ 0 \in 0..TTL /\ last \in Nat /\ 0 \in 0..last
      /\ \A u \in Threads : CallInv(u)
  BY ConsoleAssumption DEF PagesInv, PagesTyped, TableTyped
<1>1. /\ pc[t] = <<c, "store">> /\ pc' = [pc EXCEPT ![t] = After(t, c)]
      /\ since' = [since EXCEPT ![t][c] = 0] /\ tag' = [tag EXCEPT ![t][c] = 0]
      /\ got' = IF t = Warmer THEN [got EXCEPT ![t] = NoPage] ELSE got
      /\ UNCHANGED <<ids, last, rowAge, known, cut>>
  BY DEF Store, Forget, table
<1>2. CacheInv' /\ CacheTyped'
  BY FrameStore, OverviewStore
<1>3. TableTyped'
  BY <1>0, <1>1 DEF TableTyped
<1>4. c \in Caches /\ "page" \in Caches
  BY DEF Caches
<1>5. /\ pc' \in [Threads -> Places] /\ pc'[Warmer] # <<"page", "store">>
      /\ pc'[t] = After(t, c) /\ \A u \in Threads : u # t => pc'[u] = pc[u]
  <2>1. After(t, c) \in Places /\ (t = Warmer => After(t, c) # <<"page", "store">>)
    BY WhatComesNext DEF Places
  <2>2. QED
    BY <1>0, <1>1, <2>1, PlaceSet
<1>6. /\ since' \in [Threads -> [Caches -> 0..TTL]]
      /\ \A d \in Caches : d # c => since'[t][d] = since[t][d]
      /\ \A u \in Threads : u # t => since'[u] = since[u]
  BY <1>0, <1>1, <1>4 DEF LocalsTyped
<1>7. /\ tag' \in [Threads -> [Caches -> 0..last]]
      /\ \A d \in Caches : d # c => tag'[t][d] = tag[t][d]
      /\ \A u \in Threads : u # t => tag'[u] = tag[u]
  BY <1>0, <1>1, <1>4 DEF LocalsTyped
<1>8. /\ got' \in [Threads -> Halves] /\ (t # Warmer => got' = got)
      /\ \A u \in Threads : u # t => got'[u] = got[u]
  <2>1. NoPage \in Halves
    BY DEF NoPage, Halves
  <2>2. QED
    BY <1>0, <1>1, <2>1 DEF LocalsTyped
<1>9. LocalsTyped'
  BY <1>1, <1>5, <1>6, <1>7, <1>8 DEF LocalsTyped
<1>10. CallInv(t)'
  <2>0. FrameRead(t) /\ OverviewRead(t) /\ SummaryRead(t) /\ Inside(t)
    BY <1>0 DEF CallInv
  <2>1. CASE t = Warmer
    <3>1. pc'[t] \in {<<"overview", "look">>, <<"page", "idle">>}
      BY <1>5, <2>1, WhatComesNext
    <3>2. QED
      BY <3>1, NothingToSay
  <2>2. CASE t # Warmer
    <3>1. pc[t] \in HasSummary
      BY <1>1 DEF HasSummary
    <3>2. tag'[t]["page"] = tag[t]["page"] /\ since'[t]["page"] = since[t]["page"] /\ got'[t] = got[t]
      BY <1>4, <1>6, <1>7, <1>8, <2>2
    <3>3. SummaryRead(t)'
      BY <1>1, <2>0, <3>1, <3>2 DEF SummaryRead
    <3>4. CASE c = "overview"
      <4>1. pc'[t] = <<"frame", "look">>
        BY <1>5, <2>2, <3>4, WhatComesNext
      <4>2. QED
        BY <3>3, <4>1 DEF CallInv, FrameRead, OverviewRead, PageRead, Inside
    <3>5. CASE c = "frame"
      <4>1. pc'[t] = <<"page", "store">> /\ pc[t] = <<"frame", "store">> /\ t \in Requests
        BY <1>1, <1>5, <2>2, <3>5, WhatComesNext
      <4>2. since[t]["frame"] <= since[t]["page"]
        BY <2>0, <4>1 DEF Inside
      <4>3. ASSUME since[t]["page"] < TTL
            PROVE  Late(ids, rowAge, got[t].frame, since[t]["page"])
        <5>1. since[t]["page"] \in Nat /\ since[t]["frame"] \in Nat
          <6>1. since[t]["page"] \in 0..TTL /\ since[t]["frame"] \in 0..TTL
            BY <1>0, <1>4, <3>5 DEF LocalsTyped
          <6>2. QED
            BY <1>0, <6>1
        <5>2. Fresh(ids, rowAge, got[t].frame, since[t]["frame"])
          BY <1>0, <2>0, <4>1, <4>2, <4>3, <5>1 DEF FrameRead
        <5>3. \A i \in ids : rowAge[i] \in Nat
          BY <1>0, RowsHaveAges
        <5>4. ASSUME NEW i \in ids, rowAge[i] >= TTL + since[t]["page"] PROVE i \in got[t].frame
          <6>1. rowAge[i] > since[t]["frame"]
            BY <1>0, <4>2, <4>3, <5>1, <5>3, <5>4
          <6>2. QED
            BY <5>2, <6>1 DEF Fresh
        <5>5. QED
          BY <5>4 DEF Late
      <4>4. PageRead(t)'
        BY <1>1, <2>0, <3>2, <4>1, <4>3 DEF PageRead, FrameRead
      <4>5. QED
        BY <3>3, <4>1, <4>4 DEF CallInv, FrameRead, OverviewRead, Inside
    <3>6. QED
      BY <3>4, <3>5
  <2>3. QED
    BY <2>1, <2>2
<1>11. ASSUME NEW u \in Threads PROVE CallInv(u)'
  <2>1. CASE u = t
    BY <1>10, <2>1
  <2>2. CASE u # t
    BY <1>0, <1>1, <1>5, <1>6, <1>7, <1>8, <2>2, OthersKeep
  <2>3. QED
    BY <2>1, <2>2
<1>12. QED
  BY <1>2, <1>3, <1>9, <1>11 DEF PagesInv, PagesTyped

LEMMA PageMissStep ==
  ASSUME PagesInv, NEW t \in Threads, PageMiss(t)
  PROVE  PagesInv'
<1>0. /\ TableTyped /\ CacheTyped /\ LocalsTyped /\ CacheInv /\ TTL \in Nat /\ 0 \in 0..TTL
      /\ \A u \in Threads : CallInv(u)
  BY ConsoleAssumption DEF PagesInv, PagesTyped
<1>1. /\ pc' = [pc EXCEPT ![t] = <<"overview", "look">>]
      /\ since' = [since EXCEPT ![t]["page"] = 0]
      /\ tag' = [tag EXCEPT ![t]["page"] = Version]
      /\ UNCHANGED <<ids, last, rowAge, val, age, ver, known, cut, got>>
  BY DEF PageMiss, Begin, table, cache
<1>2. Version \in 0..last
  BY <1>0, VersionIsTop
<1>3. TableTyped' /\ CacheTyped' /\ CacheInv'
  <2>1. TableTyped' /\ CacheTyped'
    BY <1>0, <1>1 DEF TableTyped, CacheTyped
  <2>2. QED
    BY <1>0, <1>1, <2>1, CachesKeep
<1>4. "page" \in Caches
  BY DEF Caches
<1>5. /\ pc' \in [Threads -> Places] /\ pc'[Warmer] # <<"page", "store">>
      /\ pc'[t] = <<"overview", "look">> /\ \A u \in Threads : u # t => pc'[u] = pc[u]
  <2>1. <<"overview", "look">> \in Places /\ <<"overview", "look">> # <<"page", "store">>
    BY DEF Places
  <2>2. QED
    BY <1>0, <1>1, <2>1, PlaceSet
<1>6. /\ since' \in [Threads -> [Caches -> 0..TTL]]
      /\ \A u \in Threads : u # t => since'[u] = since[u]
  BY <1>0, <1>1, <1>4 DEF LocalsTyped
<1>7. /\ tag' \in [Threads -> [Caches -> 0..last]]
      /\ \A u \in Threads : u # t => tag'[u] = tag[u]
  BY <1>0, <1>1, <1>2, <1>4 DEF LocalsTyped
<1>8. LocalsTyped'
  BY <1>0, <1>1, <1>5, <1>6, <1>7 DEF LocalsTyped
<1>9. ASSUME NEW u \in Threads PROVE CallInv(u)'
  <2>1. CASE u = t
    BY <1>5, <2>1, NothingToSay
  <2>2. CASE u # t
    BY <1>0, <1>1, <1>5, <1>6, <1>7, <2>2, OthersKeep
  <2>3. QED
    BY <2>1, <2>2
<1>10. QED
  BY <1>3, <1>8, <1>9 DEF PagesInv, PagesTyped

LEMMA PageStoreStep ==
  ASSUME PagesInv, NEW t \in Threads, PageStore(t)
  PROVE  PagesInv'
<1>0. /\ TableTyped /\ CacheTyped /\ LocalsTyped /\ CacheInv /\ TTL \in Nat /\ 0 \in 0..TTL
      /\ last \in Nat /\ 0 \in 0..last /\ \A u \in Threads : CallInv(u)
  BY ConsoleAssumption DEF PagesInv, PagesTyped, TableTyped
<1>1. /\ pc[t] = <<"page", "store">> /\ pc' = [pc EXCEPT ![t] = <<"page", "idle">>]
      /\ Keep(t, "page", got[t])
      /\ since' = [since EXCEPT ![t]["page"] = 0] /\ tag' = [tag EXCEPT ![t]["page"] = 0]
      /\ got' = [got EXCEPT ![t] = NoPage]
      /\ UNCHANGED <<ids, last, rowAge, known, cut>>
  BY DEF PageStore, Forget, table, Idle
<1>2. t \in Requests
  BY <1>0, <1>1 DEF LocalsTyped, Threads
<1>3. /\ "frame" \in Caches /\ "overview" \in Caches /\ "page" \in Caches
  BY DEF Caches
<1>4. got[t] \in Halves
  BY <1>0 DEF LocalsTyped
<1>5. /\ CacheTyped' /\ age'["page"] = since[t]["page"]
      /\ since[t]["page"] < TTL => val'["page"] = got[t] /\ ver'["page"] = tag[t]["page"]
      /\ \A d \in Caches : d # "page" =>
           /\ age'[d] = age[d]
           /\ age[d] < TTL => val'[d] = val[d] /\ ver'[d] = ver[d]
  BY <1>0, <1>1, <1>3, <1>4, KeepIs
<1>6. CacheInv'
  <2>1. PageKept'
    <3>1. SummaryRead(t) /\ PageRead(t) /\ pc[t] \in HasSummary
      BY <1>0, <1>1 DEF CallInv, HasSummary
    <3>2. QED
      BY <1>1, <1>2, <1>5, <3>1 DEF PageKept, SummaryRead, PageRead
  <2>2. FrameKept'
    BY <1>0, <1>1, <1>3, <1>5 DEF CacheInv, FrameKept
  <2>3. OverviewKept'
    BY <1>0, <1>1, <1>3, <1>5 DEF CacheInv, OverviewKept
  <2>4. QED
    BY <2>1, <2>2, <2>3 DEF CacheInv
<1>7. /\ pc' \in [Threads -> Places] /\ pc'[Warmer] # <<"page", "store">>
      /\ pc'[t] = <<"page", "idle">> /\ \A u \in Threads : u # t => pc'[u] = pc[u]
  <2>1. <<"page", "idle">> \in Places /\ <<"page", "idle">> # <<"page", "store">>
    BY DEF Places
  <2>2. QED
    BY <1>0, <1>1, <2>1, PlaceSet
<1>8. /\ since' \in [Threads -> [Caches -> 0..TTL]]
      /\ \A u \in Threads : u # t => since'[u] = since[u]
  BY <1>0, <1>1, <1>3 DEF LocalsTyped
<1>9. /\ tag' \in [Threads -> [Caches -> 0..last]]
      /\ \A u \in Threads : u # t => tag'[u] = tag[u]
  BY <1>0, <1>1, <1>3 DEF LocalsTyped
<1>10. /\ got' \in [Threads -> Halves]
       /\ \A u \in Threads : u # t => got'[u] = got[u]
  <2>1. NoPage \in Halves
    BY DEF NoPage, Halves
  <2>2. QED
    BY <1>0, <1>1, <2>1 DEF LocalsTyped
<1>11. TableTyped' /\ LocalsTyped'
  BY <1>0, <1>1, <1>7, <1>8, <1>9, <1>10 DEF TableTyped, LocalsTyped
<1>12. ASSUME NEW u \in Threads PROVE CallInv(u)'
  <2>1. CASE u = t
    BY <1>7, <2>1, NothingToSay
  <2>2. CASE u # t
    BY <1>0, <1>1, <1>7, <1>8, <1>9, <1>10, <2>2, OthersKeep
  <2>3. QED
    BY <2>1, <2>2
<1>13. QED
  BY <1>5, <1>6, <1>11, <1>12 DEF PagesInv, PagesTyped

LEMMA PagesInit == ConsoleInit => PagesInv
<1> SUFFICES ASSUME ConsoleInit PROVE PagesInv
  OBVIOUS
<1>0. TTL \in Nat \ {0} /\ MaxId \in Nat /\ 0 \in 0..TTL
  BY ConsoleAssumption
<1>1. /\ ids = {} /\ last = 0 /\ rowAge = [i \in Ids |-> 0] /\ known = {} /\ cut = {}
      /\ val = [c \in Caches |-> IF c = "page" THEN NoPage ELSE {}]
      /\ age = [c \in Caches |-> TTL] /\ ver = [c \in Caches |-> 0]
      /\ pc = [t \in Threads |-> IF t = Warmer THEN <<"frame", "look">> ELSE <<"page", "idle">>]
      /\ since = [t \in Threads |-> [c \in Caches |-> 0]]
      /\ tag = [t \in Threads |-> [c \in Caches |-> 0]]
      /\ got = [t \in Threads |-> NoPage]
  BY DEF ConsoleInit, Idle
<1>2. NoPage \in Halves
  BY DEF NoPage, Halves
<1>3. TableTyped
  <2>1. 0 \in 0..(2 * TTL - 1) /\ 0 \in 0..MaxId
    BY <1>0
  <2>2. rowAge \in [Ids -> 0..(2 * TTL - 1)]
    BY <1>1, <2>1
  <2>3. QED
    BY <1>1, <2>1, <2>2 DEF TableTyped
<1>4. CacheTyped
  <2>1. TTL \in 0..TTL /\ 0 \in 0..last
    BY <1>0, <1>1
  <2>2. age \in [Caches -> 0..TTL] /\ ver \in [Caches -> 0..last]
    BY <1>1, <2>1
  <2>3. DOMAIN val = Caches /\ val["frame"] = {} /\ val["overview"] = {} /\ val["page"] = NoPage
    BY <1>1 DEF Caches
  <2>4. QED
    BY <1>2, <2>2, <2>3 DEF CacheTyped
<1>5. LocalsTyped
  <2>1. 0 \in 0..last
    BY <1>1
  <2>2. Warmer \in Threads
    BY DEF Threads
  <2>3. pc \in [Threads -> Places] /\ pc[Warmer] = <<"frame", "look">>
    BY <1>1, <2>2 DEF Places
  <2>4. since \in [Threads -> [Caches -> 0..TTL]]
    BY <1>0, <1>1
  <2>5. tag \in [Threads -> [Caches -> 0..last]]
    BY <1>1, <2>1
  <2>6. got \in [Threads -> Halves]
    BY <1>1, <1>2
  <2>7. QED
    BY <2>3, <2>4, <2>5, <2>6 DEF LocalsTyped
<1>6. CacheInv
  <2>1. /\ age["frame"] = TTL /\ age["overview"] = TTL /\ age["page"] = TTL
    BY <1>1 DEF Caches
  <2>2. ~(TTL < TTL)
    BY <1>0
  <2>3. QED
    BY <2>1, <2>2 DEF CacheInv, FrameKept, OverviewKept, PageKept
<1>7. ASSUME NEW t \in Threads PROVE CallInv(t)
  <2>1. pc[t] \in {<<"frame", "look">>, <<"page", "idle">>} /\ (pc[t] = <<"frame", "look">> => t = Warmer)
    BY <1>1
  <2>2. t \in Requests => pc[t] = <<"page", "idle">>
    BY <2>1, ConsoleAssumption
  <2>3. QED
    BY <2>1, <2>2 DEF CallInv, FrameRead, OverviewRead, SummaryRead, HasSummary, PageRead, Inside
<1>8. QED
  BY <1>3, <1>4, <1>5, <1>6, <1>7 DEF PagesInv, PagesTyped

LEMMA PagesStep ==
  PagesInv /\ [ConsoleNext]_consoleVars => PagesInv'
<1> SUFFICES ASSUME PagesInv, [ConsoleNext]_consoleVars PROVE PagesInv'
  OBVIOUS
<1>1. CASE Insert
  BY <1>1, TableStep
<1>2. CASE \E n \in Ids : Prune(n)
  BY <1>2, TableStep
<1>3. CASE Tick
  BY <1>3, TickStep
<1>4. CASE Refresh
  BY <1>4, RefreshStep
<1>5. ASSUME NEW t \in Threads, NEW c \in {"frame", "overview"},
             Look(t, c) \/ Query(t, c) \/ Store(t, c)
      PROVE  PagesInv'
  BY <1>5, HitStep, MissStep, QueryStep, StoreStep
<1>6. ASSUME NEW t \in Threads, PageStore(t) PROVE PagesInv'
  BY <1>6, PageStoreStep
<1>7. ASSUME NEW t \in Threads, PageMiss(t) PROVE PagesInv'
  BY <1>7, PageMissStep
<1>8. CASE UNCHANGED consoleVars
  <2>1. UNCHANGED <<ids, last, rowAge, val, age, ver, pc, since, tag, got, known, cut>>
    BY <1>8 DEF consoleVars, table, cache, locals
  <2>2. TableTyped' /\ CacheTyped' /\ LocalsTyped'
    BY <2>1 DEF PagesInv, PagesTyped, TableTyped, CacheTyped, LocalsTyped
  <2>3. CacheInv'
    BY <2>1, CachesKeep DEF PagesInv
  <2>4. ASSUME NEW u \in Threads PROVE CallInv(u)'
    BY <2>1, OthersKeep DEF PagesInv
  <2>5. QED
    BY <2>2, <2>3, <2>4 DEF PagesInv, PagesTyped
<1>9. ASSUME NEW t \in Threads, PageHit(t) PROVE PagesInv'
  BY <1>8, <1>9 DEF PageHit
<1>10. QED
  BY <1>1, <1>2, <1>3, <1>4, <1>5, <1>6, <1>7, <1>8, <1>9 DEF ConsoleNext, Work

-----------------------------------------------------------------------------
LEMMA HitIsFresh ==
  ASSUME PagesInv, FromCache
  PROVE  /\ age["page"] \in 0..TTL /\ age["page"] < TTL /\ PageKept
         /\ \A i \in ids : i <= ver["page"]
<1>1. age["page"] < TTL /\ ver["page"] = Version
  BY DEF FromCache, Hit
<1>2. age["page"] \in 0..TTL
  BY DEF PagesInv, PagesTyped, CacheTyped, Caches
<1>3. QED
  BY <1>1, <1>2, VersionIsTop DEF PagesInv, PagesTyped, CacheInv

LEMMA RequestHas ==
  ASSUME PagesInv, NEW t \in Requests, Built(t)
  PROVE  /\ since[t]["page"] \in 0..TTL
         /\ Sound(ids, known, cut, got[t].overview) /\ Covers(ids, got[t].overview, tag[t]["page"])
         /\ Sound(ids, known, cut, got[t].frame)
         /\ since[t]["page"] < TTL => Late(ids, rowAge, got[t].frame, since[t]["page"])
<1>1. t \in Threads /\ "page" \in Caches
  BY DEF Threads, Caches
<1>2. since[t]["page"] \in 0..TTL
  BY <1>1 DEF PagesInv, PagesTyped, LocalsTyped
<1>3. CallInv(t) /\ pc[t] = <<"page", "store">>
  BY <1>1 DEF PagesInv, Built
<1>4. QED
  BY <1>2, <1>3 DEF CallInv, SummaryRead, HasSummary, PageRead

(* A page that is served counts every row that was in the table when it    *)
(* was asked for, whichever threads filled the caches it is built from     *)
(* (_cached, _cached_page): a row has a higher id than any version read    *)
(* before it came, and a value has every row up to its version.            *)
THEOREM SummariesAreCurrent ==
  ConsoleSpec => []SummaryIsCurrent
<1>1. PagesInv => SummaryIsCurrent
  <2> SUFFICES ASSUME PagesInv PROVE SummaryIsCurrent
    OBVIOUS
  <2>1. ASSUME FromCache PROVE ids \subseteq val["page"].overview
    BY <2>1, HitIsFresh DEF PageKept, Covers
  <2>2. ASSUME NEW t \in Requests, Built(t)
        PROVE  {i \in ids : i <= tag[t]["page"]} \subseteq got[t].overview
    BY <2>2, RequestHas DEF Covers
  <2>3. QED
    BY <2>1, <2>2 DEF SummaryIsCurrent
<1>2. QED
  BY <1>1, PagesInit, PagesStep, PTL DEF ConsoleSpec

(* The half of a page from load_all lags by the age of the page and that   *)
(* of the frame it was built from, and never by twice the life of a value. *)
THEOREM FramesLagLittle ==
  ConsoleSpec => []FrameLagIsBounded
<1>1. PagesInv => FrameLagIsBounded
  <2> SUFFICES ASSUME PagesInv PROVE FrameLagIsBounded
    OBVIOUS
  <2>0. TTL \in Nat /\ \A i \in ids : rowAge[i] \in Nat
    BY RowsHaveAges, ConsoleAssumption DEF PagesInv, PagesTyped
  <2>1. ASSUME FromCache, NEW i \in ids, rowAge[i] >= 2 * TTL - 1
        PROVE  i \in val["page"].frame
    <3>1. age["page"] \in 0..TTL /\ age["page"] < TTL /\ PageKept
      BY <2>1, HitIsFresh
    <3>2. rowAge[i] >= TTL + age["page"]
      BY <2>0, <2>1, <3>1
    <3>3. QED
      BY <3>1, <3>2 DEF PageKept, Late
  <2>2. ASSUME NEW t \in Requests, Built(t), since[t]["page"] < TTL
        PROVE  {i \in ids : rowAge[i] >= TTL + since[t]["page"]} \subseteq got[t].frame
    BY <2>2, RequestHas DEF Late
  <2>3. QED
    BY <2>1, <2>2 DEF FrameLagIsBounded
<1>2. QED
  BY <1>1, PagesInit, PagesStep, PTL DEF ConsoleSpec

(* After clear_caches with no call in progress, both halves of a page have *)
(* what the table held then and nothing it had lost.                       *)
THEOREM RefreshCompletes ==
  ConsoleSpec => []RefreshIsComplete
<1>1. PagesInv => RefreshIsComplete
  <2> SUFFICES ASSUME PagesInv PROVE RefreshIsComplete
    OBVIOUS
  <2>1. ASSUME FromCache PROVE Complete(val["page"])
    BY <2>1, HitIsFresh DEF PageKept, Sound, Complete
  <2>2. ASSUME NEW t \in Requests, Built(t) PROVE Complete(got[t])
    BY <2>2, RequestHas DEF Sound, Complete
  <2>3. QED
    BY <2>1, <2>2 DEF RefreshIsComplete
<1>2. QED
  BY <1>1, PagesInit, PagesStep, PTL DEF ConsoleSpec
=============================================================================
