------------------------------- MODULE Alerts -------------------------------
(***************************************************************************)
(* From a detection to an alert somebody got.                              *)
(*                                                                         *)
(* The sweeper thread of the honeypot (threat_intel/sweeper.py) and the    *)
(* dashboard, another process, run the same pipeline over one SQLite file: *)
(* analyse, promote what clears an alert rule to a row of the alerts table *)
(* (raise_alerts, upsert_alert), push what was new to the SIEM exporters   *)
(* (the sweeper only), and deliver what was never delivered (route_alerts). *)
(* No transaction spans two of those steps, and not even the two halves of *)
(* an upsert: what one process read, the other may since have changed.     *)
(* An exception or a restart ends a pass anywhere.                         *)
(*                                                                         *)
(* The analysis is the environment here: it says, at any moment, which     *)
(* alert rule a key's detection clears first.  An alert row is one sensor's. *)
(***************************************************************************)
EXTENDS Integers, FiniteSets

CONSTANTS
  Keys,        \* alert keys
  Rules,       \* the rules of alert_rules.yml
  Notify,      \* Notify[r]: the sinks rule r names, {} for "recorded only"
  Sweeper,     \* the honeypot's sweep thread; a second start is a no-op
  Dashboards,  \* threads that render pages or warm the dashboard's caches
  Limit,       \* the 500 of query_alerts
  MaxEvents,   \* bound: what happens from outside: findings that change,
               \* clicks, failed deliveries, passes cut short
  Nothing

Procs == {Sweeper} \cup Dashboards
Sinks == UNION {Notify[r] : r \in Rules}

ASSUME AlertsAssumption ==
  /\ Keys \subseteq Nat /\ IsFiniteSet(Keys)
  /\ Notify \in [Rules -> SUBSET Sinks] /\ IsFiniteSet(Sinks)
  /\ Sweeper \notin Dashboards
  /\ Limit \in Nat /\ MaxEvents \in Nat
  /\ Nothing \notin Rules /\ Nothing \notin Keys

VARIABLES
  finding,   \* the first rule a key's detection clears now
  rows,      \* the alerts table
  pass,      \* what each process is doing
  delivered, \* history: the sinks that got the alert
  exported,  \* history: times the finding was handed to the exporters
  worked,    \* history: the state an analyst last gave the alert
  events     \* what MaxEvents counts

vars == <<finding, rows, pass, delivered, exported, worked, events>>
history == <<delivered, exported, worked>>

States == {"new", "acknowledged", "closed"}

(* A row.  `routed` stands for routed_at, and remembers the rule whose sinks *)
(* the stamping process had served; `stamps` are the columns not NULL.       *)
Row == [rule : Rules, state : States, routed : Rules \cup {Nothing},
        stamps : SUBSET {"acknowledged_at", "closed_at"}]

ASSUME RowAssumption == Nothing \notin Row

Found == [Keys -> Rules \cup {Nothing}]
NoneFound == [k \in Keys |-> Nothing]
Pass == [at : {"route", "raise", "upsert", "send"},
         todo : Found,            \* detections not yet raised
         key : Keys \cup {Nothing},
         existed : {"yes", "no"}, \* upsert_alert's `existed`
         fresh : SUBSET Keys,     \* raised["new"], not yet exported
         batch : Found,           \* rows to deliver, with the rule they had
         due : SUBSET Sinks,      \* sinks still to try for the current row
         ok : {"yes", "no"}]

(* Between two passes: at route_alerts with nothing left to deliver.        *)
Idle == [at |-> "route", todo |-> NoneFound, key |-> Nothing, existed |-> "no",
         fresh |-> {}, batch |-> NoneFound, due |-> {}, ok |-> "no"]

TypeOK ==
  /\ finding \in Found
  /\ rows \in [Keys -> Row \cup {Nothing}]
  /\ pass \in [Procs -> Pass]
  /\ delivered \in [Keys -> SUBSET Sinks]
  /\ exported \in [Keys -> Nat]
  /\ worked \in [Keys -> States]
  /\ events \in 0..MaxEvents

Init ==
  /\ finding \in Found
  /\ rows = [k \in Keys |-> Nothing]
  /\ pass = [p \in Procs |-> Idle]
  /\ delivered = [k \in Keys |-> {}]
  /\ exported = [k \in Keys |-> 0]
  /\ worked = [k \in Keys |-> "new"]
  /\ events = 0

Raised == {k \in Keys : rows[k] # Nothing}

-----------------------------------------------------------------------------
(* The environment.                                                        *)

Outside == events < MaxEvents /\ events' = events + 1

(* New traffic changes which rule, if any, a relationship clears.          *)
Observe(k) ==
  /\ Outside
  /\ \E r \in Rules : finding' = [finding EXCEPT ![k] = r]
  /\ UNCHANGED <<rows, pass, history>>

(* Acknowledging and closing stamp a column each; reopening clears both.   *)
Stamped(stamps, s) == CASE s = "acknowledged" -> stamps \cup {"acknowledged_at"}
                        [] s = "closed" -> stamps \cup {"closed_at"}
                        [] s = "new" -> {}

(* set_alert_state, from a page that may be out of date: any state to any. *)
SetState(k, s) ==
  /\ k \in Raised
  /\ Outside
  /\ rows' = [rows EXCEPT ![k] = [@ EXCEPT !.state = s,
                                          !.stamps = Stamped(rows[k].stamps, s)]]
  /\ worked' = [worked EXCEPT ![k] = s]
  /\ UNCHANGED <<finding, pass, delivered, exported>>

(* An exception out of raise_alerts or route_alerts, or a restart.         *)
Abort(p) ==
  /\ pass[p] # Idle
  /\ Outside
  /\ pass' = [pass EXCEPT ![p] = Idle]
  /\ UNCHANGED <<finding, rows, history>>

-----------------------------------------------------------------------------
(* raise_alerts                                                            *)

(* The analysis, and evaluate over its detections.                         *)
Analyse(p) ==
  /\ pass[p] = Idle
  /\ pass' = [pass EXCEPT ![p].at = "raise", ![p].todo = finding]
  /\ UNCHANGED <<finding, rows, history, events>>

(* The loops take their keys in a fixed order.                             *)
First(k, found) ==
  found[k] # Nothing /\ \A j \in Keys : j < k => found[j] = Nothing

(* upsert_alert's SELECT, a transaction of its own.                        *)
Lookup(p, k) ==
  /\ pass[p].at = "raise" /\ First(k, pass[p].todo)
  /\ pass' = [pass EXCEPT ![p].at = "upsert", ![p].key = k,
                          ![p].existed = IF k \in Raised THEN "yes" ELSE "no"]
  /\ UNCHANGED <<finding, rows, history, events>>

NewRow(r) == [rule |-> r, state |-> "new", routed |-> Nothing, stamps |-> {}]

(* Mutation: INSERT OR REPLACE.                                            *)
Stored_Replaced(row, r) == NewRow(r)

(* Mutation: the update list names `state`, the insert gives it no value.  *)
Stored_StateLost(row, r) ==
  IF row = Nothing THEN NewRow(r) ELSE [row EXCEPT !.rule = r, !.state = Nothing]

(* INSERT ... ON CONFLICT DO UPDATE: only the facts of a known row change. *)
Stored(row, r) == IF row = Nothing THEN NewRow(r) ELSE [row EXCEPT !.rule = r]

(* Mutation: every upsert counts as an insert.                             *)
Upsert_AlwaysNew(p) ==
  LET k == pass[p].key IN
  /\ pass[p].at = "upsert"
  /\ rows' = [rows EXCEPT ![k] = Stored(@, pass[p].todo[k])]
  /\ pass' = [pass EXCEPT ![p].at = "raise", ![p].todo[k] = Nothing,
                          ![p].key = Nothing, ![p].existed = "no",
                          ![p].fresh = @ \cup {k}]
  /\ UNCHANGED <<finding, history, events>>

Upsert(p) ==
  LET k == pass[p].key IN
  /\ pass[p].at = "upsert"
  /\ rows' = [rows EXCEPT ![k] = Stored(@, pass[p].todo[k])]
  /\ pass' = [pass EXCEPT ![p].at = "raise", ![p].todo[k] = Nothing,
                          ![p].key = Nothing, ![p].existed = "no",
                          ![p].fresh = IF pass[p].existed = "no"
                                       THEN @ \cup {k} ELSE @]
  /\ UNCHANGED <<finding, history, events>>

AllRaised(p) == pass[p].at = "raise" /\ pass[p].todo = NoneFound

(* A sweep goes on to export_finding for each new alert, then to deliver.  *)
Export(p, k) ==
  /\ AllRaised(p) /\ p = Sweeper
  /\ k \in pass[p].fresh
  /\ exported' = [exported EXCEPT ![k] = @ + 1]
  /\ pass' = [pass EXCEPT ![p].fresh = @ \ {k}]
  /\ UNCHANGED <<finding, rows, delivered, worked, events>>

(* A page render ends here; so does load_detections in the warm-up.        *)
RenderDone(p) ==
  /\ AllRaised(p) /\ p \in Dashboards
  /\ pass' = [pass EXCEPT ![p] = Idle]
  /\ UNCHANGED <<finding, rows, history, events>>

-----------------------------------------------------------------------------
(* route_alerts                                                            *)

Unrouted == {k \in Raised : rows[k].routed = Nothing}

(* query_alerts(unrouted_only): as many as the limit allows, copied.  The  *)
(* sweep gets here when all is exported, the dashboard from its warm-up.   *)
Query(p) ==
  /\ AllRaised(p)
  /\ p = Sweeper => pass[p].fresh = {}
  /\ \E some \in SUBSET Unrouted :
       /\ Cardinality(some) <= Limit
       /\ some # Unrouted => Cardinality(some) = Limit
       /\ pass' = [pass EXCEPT ![p] =
            [Idle EXCEPT !.batch = [k \in Keys |-> IF k \in some THEN rows[k].rule
                                                    ELSE Nothing]]]
  /\ UNCHANGED <<finding, rows, history, events>>

(* The next row: one whose rule names no sink is passed over, unstamped.   *)
NextAlert(p, k) ==
  LET targets == Notify[pass[p].batch[k]] IN
  /\ pass[p].at = "route" /\ First(k, pass[p].batch)
  /\ pass' = IF targets = {} THEN [pass EXCEPT ![p].batch[k] = Nothing]
             ELSE [pass EXCEPT ![p].at = "send", ![p].key = k,
                               ![p].due = targets, ![p].ok = "yes"]
  /\ UNCHANGED <<finding, rows, history, events>>

(* One target: the sink took it, or it failed, raised or is switched off;  *)
(* the others are tried all the same.                                      *)
Send(p, s) ==
  LET k == pass[p].key IN
  /\ pass[p].at = "send" /\ s \in pass[p].due
  /\ \/ /\ delivered' = [delivered EXCEPT ![k] = @ \cup {s}]
        /\ pass' = [pass EXCEPT ![p].due = @ \ {s}]
        /\ UNCHANGED events
     \/ /\ Outside
        /\ pass' = [pass EXCEPT ![p].due = @ \ {s}, ![p].ok = "no"]
        /\ UNCHANGED delivered
  /\ UNCHANGED <<finding, rows, exported, worked>>

(* Mutation: one sink that took it is enough.                              *)
SendDone_AnySink(p) ==
  LET k == pass[p].key IN
  /\ pass[p].at = "send" /\ pass[p].due = {}
  /\ rows' = IF delivered[k] # {} THEN [rows EXCEPT ![k].routed = pass[p].batch[k]]
             ELSE rows
  /\ pass' = [pass EXCEPT ![p].at = "route", ![p].key = Nothing,
                          ![p].batch[k] = Nothing, ![p].ok = "no"]
  /\ UNCHANGED <<finding, history, events>>

(* Mutation: a row is stamped only if nobody touched it meanwhile.         *)
SendDone_OnlyNew(p) ==
  LET k == pass[p].key IN
  /\ pass[p].at = "send" /\ pass[p].due = {}
  /\ rows' = IF pass[p].ok = "yes" /\ rows[k].state = "new"
             THEN [rows EXCEPT ![k].routed = pass[p].batch[k]] ELSE rows
  /\ pass' = [pass EXCEPT ![p].at = "route", ![p].key = Nothing,
                          ![p].batch[k] = Nothing, ![p].ok = "no"]
  /\ UNCHANGED <<finding, history, events>>

(* mark_alert_routed, if every target succeeded.                           *)
SendDone(p) ==
  LET k == pass[p].key IN
  /\ pass[p].at = "send" /\ pass[p].due = {}
  /\ rows' = IF pass[p].ok = "yes"
             THEN [rows EXCEPT ![k].routed = pass[p].batch[k]] ELSE rows
  /\ pass' = [pass EXCEPT ![p].at = "route", ![p].key = Nothing,
                          ![p].batch[k] = Nothing, ![p].ok = "no"]
  /\ UNCHANGED <<finding, history, events>>

Step(p) ==
  \/ Analyse(p) \/ Upsert(p) \/ RenderDone(p) \/ Query(p) \/ SendDone(p)
  \/ \E k \in Keys : Lookup(p, k) \/ Export(p, k) \/ NextAlert(p, k)
  \/ \E s \in Sinks : Send(p, s)

Next ==
  \/ \E k \in Keys : Observe(k) \/ \E s \in States : SetState(k, s)
  \/ \E p \in Procs : Step(p) \/ Abort(p)

Spec == Init /\ [][Next]_vars

(* A sensor with a notification channel sweeps for ever, every interval;   *)
(* nobody has to keep a browser open.                                      *)
FairSpec == Spec /\ WF_vars(Step(Sweeper))

-----------------------------------------------------------------------------
(***************************************************************************)
(* "Mark something delivered that was not": a stamped alert reached every  *)
(* sink its rule named, the rule it had when the stamping process read it, *)
(* through failures, two processes delivering it at once and restarts.     *)
(***************************************************************************)
RoutedWasDelivered ==
  \A k \in Raised :
    LET r == rows[k].routed IN
    r # Nothing => Notify[r] # {} /\ Notify[r] \subseteq delivered[k]

(***************************************************************************)
(* A finding reaches the SIEM at most once, however often its alert is     *)
(* refreshed and whoever looked it up before whoever inserted it.          *)
(***************************************************************************)
ExportedAtMostOnce == \A k \in Keys : exported[k] <= 1

(***************************************************************************)
(* "re-running the pipeline must never un-acknowledge an alert a human has *)
(* already worked": the row is in the state an analyst last gave it, and   *)
(* carries that state's timestamp.                                         *)
(***************************************************************************)
AnalystWorkKept ==
  \A k \in Raised :
    /\ rows[k].state = worked[k]
    /\ worked[k] = "new" => rows[k].stamps = {}
    /\ worked[k] = "acknowledged" => "acknowledged_at" \in rows[k].stamps
    /\ worked[k] = "closed" => "closed_at" \in rows[k].stamps

(***************************************************************************)
(* "a sink that was down or switched off later catches up": once failures  *)
(* and aborts stop, an alert whose rule names a sink is delivered and      *)
(* stamped, provided the unrouted alerts come to fit in one query.  Those  *)
(* of a rule that only records are never stamped and count among them.     *)
(***************************************************************************)
CatchesUp ==
  \A k \in Keys :
    (/\ [](k \in Raised => Notify[rows[k].rule] # {})
     /\ <>[](Cardinality(Unrouted) <= Limit)) =>
      (k \in Raised ~> k \in Raised /\ rows[k].routed # Nothing)
=============================================================================
