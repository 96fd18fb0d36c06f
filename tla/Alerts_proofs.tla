---------------------------- MODULE Alerts_proofs ----------------------------
(***************************************************************************)
(* The alert table, for any number of alerts, rules, sinks and dashboard   *)
(* threads, any limit and any number of failures and aborted passes.       *)
(*                                                                         *)
(* What a pass carries from step to step stays true while others work,     *)
(* because rows are never deleted and deliveries never undone.  So each    *)
(* pass is judged by itself, against the raised keys and the deliveries    *)
(* (PassOK), and only the process that moved has to be looked at again.    *)
(***************************************************************************)
EXTENDS Alerts, TLAPS

(* What a pass m knows, given the raised keys and who got what.            *)
PassOK(m, raised, got) ==
  /\ m.at = "upsert" => m.key \in Keys /\ m.todo[m.key] \in Rules
  /\ \A k \in Keys : m.batch[k] # Nothing => k \in raised
  /\ m.at = "send" =>
       /\ m.key \in Keys /\ m.key \in raised /\ m.batch[m.key] \in Rules
       /\ Notify[m.batch[m.key]] # {}
       /\ m.ok = "yes" => Notify[m.batch[m.key]] \subseteq got[m.key] \cup m.due

PassInv == \A p \in Procs : PassOK(pass[p], Raised, delivered)

(* A key waits to be exported, or may become so, only if it never was.     *)
ExportInv ==
  /\ \A k \in Keys : exported[k] \in {0, 1}
  /\ \A k \in Keys : exported[k] # 0 => k \in Raised
  /\ \A k \in pass[Sweeper].fresh : k \in Raised /\ exported[k] = 0
  /\ pass[Sweeper].at = "upsert" /\ pass[Sweeper].existed = "no" =>
       exported[pass[Sweeper].key] = 0 /\ pass[Sweeper].key \notin pass[Sweeper].fresh

AnalystInv == AnalystWorkKept /\ \A k \in Keys \ Raised : worked[k] = "new"

IInv == TypeOK /\ PassInv /\ RoutedWasDelivered /\ ExportInv /\ AnalystInv
-----------------------------------------------------------------------------
LEMMA IdleFacts ==
  /\ Idle \in Pass
  /\ \A raised, got : PassOK(Idle, raised, got)
  /\ Idle.fresh = {} /\ Idle.at # "upsert"
  BY DEF Idle, Pass, Found, NoneFound, PassOK

LEMMA IInvInit == Init => IInv
<1> SUFFICES ASSUME Init PROVE IInv
  OBVIOUS
<1>1. Raised = {}
  BY DEF Init, Raised
<1>2. Sweeper \in Procs
  BY DEF Procs
<1>3. TypeOK
  BY AlertsAssumption, IdleFacts DEF Init, TypeOK, States
<1>4. PassInv
  BY IdleFacts DEF Init, PassInv
<1>5. ExportInv
  BY <1>2, IdleFacts DEF Init, ExportInv
<1>6. RoutedWasDelivered /\ AnalystInv
  BY <1>1 DEF Init, RoutedWasDelivered, AnalystInv, AnalystWorkKept
<1>7. QED
  BY <1>3, <1>4, <1>5, <1>6 DEF IInv

(* More raised keys and more deliveries never hurt a pass.                 *)
LEMMA PassMonotone ==
  ASSUME NEW m, NEW raised, NEW raised2, NEW got, NEW got2,
         raised \subseteq raised2,
         \A k \in Keys : got[k] \subseteq got2[k],
         PassOK(m, raised, got)
  PROVE  PassOK(m, raised2, got2)
  BY DEF PassOK

(* One process moves: its own pass is checked, the others' are kept.       *)
LEMMA OneMoves ==
  ASSUME TypeOK, PassInv, NEW p \in Procs, NEW m \in Pass,
         pass' = [pass EXCEPT ![p] = m],
         Raised \subseteq Raised',
         \A k \in Keys : delivered[k] \subseteq delivered'[k],
         PassOK(m, Raised', delivered')
  PROVE  pass' \in [Procs -> Pass] /\ PassInv'
<1>1. pass' \in [Procs -> Pass]
  BY DEF TypeOK
<1>2. ASSUME NEW q \in Procs
      PROVE  PassOK(pass'[q], Raised', delivered')
  <2>1. CASE q = p
    BY <2>1 DEF TypeOK
  <2>2. CASE q # p
    <3>1. pass'[q] = pass[q] /\ PassOK(pass[q], Raised, delivered)
      BY <2>2 DEF TypeOK, PassInv
    <3>2. QED
      BY <3>1, PassMonotone
  <2>3. QED
    BY <2>1, <2>2
<1>3. QED
  BY <1>1, <1>2 DEF PassInv
-----------------------------------------------------------------------------
(* Steps that change nothing but a pass.                                   *)

(* The three invariants about rows, if only a pass changed.                *)
LEMMA RowsKept ==
  ASSUME IInv, UNCHANGED <<rows, history>>
  PROVE  Raised' = Raised /\ RoutedWasDelivered' /\ AnalystInv'
  BY DEF IInv, history, Raised, RoutedWasDelivered, AnalystInv, AnalystWorkKept

(* A pass is replaced by m, one no closer to exporting.                    *)
LEMMA PassStep ==
  ASSUME IInv, NEW p \in Procs, NEW m \in Pass,
         pass' = [pass EXCEPT ![p] = m],
         UNCHANGED <<rows, history>>,
         finding' \in Found, events' \in 0..MaxEvents,
         PassOK(m, Raised, delivered),
         m.fresh \subseteq pass[p].fresh,
         m.at = "upsert" /\ m.existed = "no" => m.key \in Keys \ Raised
  PROVE  IInv'
<1>1. Raised' = Raised /\ RoutedWasDelivered' /\ AnalystInv'
  BY RowsKept
<1>2. delivered' = delivered /\ exported' = exported /\ worked' = worked
  BY DEF history
<1>3. pass' \in [Procs -> Pass] /\ PassInv'
  BY <1>1, <1>2, OneMoves DEF IInv
<1>4. TypeOK'
  BY <1>2, <1>3 DEF IInv, TypeOK
<1>5. ExportInv'
  <2>1. Sweeper \in Procs
    BY DEF Procs
  <2>2. CASE p = Sweeper
    <3>1. pass'[Sweeper] = m
      BY <2>2 DEF IInv, TypeOK
    <3>2. m.at = "upsert" /\ m.existed = "no" =>
             exported[m.key] = 0 /\ m.key \notin m.fresh
      BY <2>2 DEF IInv, ExportInv
    <3>3. QED
      BY <1>1, <1>2, <2>2, <3>1, <3>2 DEF IInv, ExportInv
  <2>3. CASE p # Sweeper
    <3>1. pass'[Sweeper] = pass[Sweeper]
      BY <2>1, <2>3 DEF IInv, TypeOK
    <3>2. QED
      BY <1>1, <1>2, <3>1 DEF IInv, ExportInv
  <2>4. QED
    BY <2>2, <2>3
<1>6. QED
  BY <1>1, <1>3, <1>4, <1>5 DEF IInv

LEMMA AbortStep ==
  ASSUME IInv, NEW p \in Procs, pass' = [pass EXCEPT ![p] = Idle],
         UNCHANGED <<finding, rows, history>>, events' \in 0..MaxEvents
  PROVE  IInv'
  BY PassStep, IdleFacts DEF IInv, TypeOK

LEMMA AnalyseStep ==
  ASSUME IInv, NEW p \in Procs, Analyse(p)
  PROVE  IInv'
<1> DEFINE m == [pass[p] EXCEPT !.at = "raise", !.todo = finding]
<1>1. /\ pass' = [pass EXCEPT ![p] = m]
      /\ UNCHANGED <<rows, history>> /\ finding' \in Found
      /\ events' \in 0..MaxEvents
  BY DEF Analyse, IInv, TypeOK
<1>2. m \in Pass
  BY DEF IInv, TypeOK, Pass
<1>3. PassOK(m, Raised, delivered)
  BY IdleFacts DEF Analyse, PassOK, Idle, NoneFound
<1>4. m.fresh \subseteq pass[p].fresh /\ m.at = "raise"
  BY DEF IInv, TypeOK, Pass
<1> HIDE DEF m
<1>5. QED
  BY <1>1, <1>2, <1>3, <1>4, PassStep

LEMMA LookupStep ==
  ASSUME IInv, NEW p \in Procs, NEW k \in Keys, Lookup(p, k)
  PROVE  IInv'
<1> DEFINE m == [pass[p] EXCEPT !.at = "upsert", !.key = k,
                                !.existed = IF k \in Raised THEN "yes" ELSE "no"]
<1>0. pass[p] \in Pass
  BY DEF IInv, TypeOK
<1>1. /\ pass' = [pass EXCEPT ![p] = m]
      /\ UNCHANGED <<rows, history>> /\ finding' \in Found
      /\ events' \in 0..MaxEvents
  BY DEF Lookup, IInv, TypeOK
<1>2. m \in Pass
  BY <1>0 DEF Pass
<1>3. PassOK(m, Raised, delivered)
  <2>1. pass[p].todo[k] \in Rules
    BY <1>0 DEF Lookup, First, Pass, Found
  <2>2. PassOK(pass[p], Raised, delivered)
    BY DEF IInv, PassInv
  <2>3. /\ m.at = "upsert" /\ m.key = k /\ m.todo = pass[p].todo
        /\ m.batch = pass[p].batch
    BY <1>0 DEF Pass
  <2> HIDE DEF m
  <2>4. QED
    BY <2>1, <2>2, <2>3 DEF PassOK
<1>4. /\ m.fresh \subseteq pass[p].fresh
      /\ m.existed = "no" => m.key \in Keys \ Raised
  BY <1>0 DEF Pass
<1> HIDE DEF m
<1>5. QED
  BY <1>1, <1>2, <1>3, <1>4, PassStep

LEMMA RenderDoneStep ==
  ASSUME IInv, NEW p \in Procs, RenderDone(p)
  PROVE  IInv'
  BY AbortStep DEF RenderDone, IInv, TypeOK

LEMMA QueryStep ==
  ASSUME IInv, NEW p \in Procs, Query(p)
  PROVE  IInv'
<1>1. PICK some \in SUBSET Unrouted :
        pass' = [pass EXCEPT ![p] =
            [Idle EXCEPT !.batch = [k \in Keys |-> IF k \in some THEN rows[k].rule
                                                    ELSE Nothing]]]
  BY DEF Query
<1> DEFINE b == [k \in Keys |-> IF k \in some THEN rows[k].rule ELSE Nothing]
<1> DEFINE m == [Idle EXCEPT !.batch = b]
<1>2. \A k \in some : k \in Raised /\ rows[k] \in Row
  BY DEF Unrouted, Raised, IInv, TypeOK
<1>3. b \in Found
  BY <1>2 DEF Found, Row
<1>4. \A k \in Keys : b[k] # Nothing => k \in Raised
  BY <1>2
<1> HIDE DEF b
<1>5. m \in Pass /\ m.at = "route" /\ m.fresh = {} /\ m.batch = b
  BY <1>3, IdleFacts DEF Idle, Pass
<1>6. pass' = [pass EXCEPT ![p] = m]
  BY <1>1 DEF b
<1>7. /\ UNCHANGED <<rows, history>> /\ finding' \in Found
      /\ events' \in 0..MaxEvents
  BY DEF Query, IInv, TypeOK
<1> HIDE DEF m
<1>8. PassOK(m, Raised, delivered)
  BY <1>4, <1>5 DEF PassOK
<1>9. QED
  BY <1>5, <1>6, <1>7, <1>8, PassStep

LEMMA NextAlertStep ==
  ASSUME IInv, NEW p \in Procs, NEW k \in Keys, NextAlert(p, k)
  PROVE  IInv'
<1> DEFINE targets == Notify[pass[p].batch[k]]
<1> DEFINE passed == [pass[p] EXCEPT !.batch[k] = Nothing]
<1> DEFINE taken == [pass[p] EXCEPT !.at = "send", !.key = k, !.due = targets,
                                    !.ok = "yes"]
<1>0. pass[p] \in Pass /\ pass[p].at = "route"
  BY DEF IInv, TypeOK, NextAlert
<1>1. /\ pass' = IF targets = {} THEN [pass EXCEPT ![p] = passed]
                 ELSE [pass EXCEPT ![p] = taken]
      /\ UNCHANGED <<rows, history>> /\ finding' \in Found
      /\ events' \in 0..MaxEvents
  BY DEF NextAlert, IInv, TypeOK
<1>2. pass[p].batch[k] \in Rules /\ k \in Raised
  BY <1>0 DEF NextAlert, First, Pass, Found, IInv, PassInv, PassOK
<1>3. PassOK(pass[p], Raised, delivered)
  BY DEF IInv, PassInv
<1>4. CASE targets = {}
  <2>1. /\ passed \in Pass /\ passed.at = "route"
        /\ passed.fresh = pass[p].fresh
        /\ passed.batch = [pass[p].batch EXCEPT ![k] = Nothing]
    BY <1>0 DEF Pass, Found
  <2>2. PassOK(passed, Raised, delivered)
    <3>1. \A j \in Keys : passed.batch[j] # Nothing => j \in Raised
      BY <1>0, <1>3, <2>1 DEF PassOK, Pass, Found
    <3> HIDE DEF passed
    <3>2. QED
      BY <2>1, <3>1 DEF PassOK
  <2> HIDE DEF passed
  <2>3. QED
    BY <1>1, <1>4, <2>1, <2>2, PassStep
<1>5. CASE targets # {}
  <2>1. targets \subseteq Sinks
    BY <1>2, AlertsAssumption
  <2>2. /\ taken \in Pass /\ taken.at = "send" /\ taken.key = k
        /\ taken.fresh = pass[p].fresh /\ taken.due = targets
        /\ taken.batch = pass[p].batch
    BY <1>0, <2>1 DEF Pass
  <2> HIDE DEF taken
  <2>3. PassOK(taken, Raised, delivered)
    BY <1>2, <1>3, <1>5, <2>2 DEF PassOK
  <2>4. QED
    BY <1>1, <1>5, <2>2, <2>3, PassStep
<1>6. QED
  BY <1>4, <1>5

-----------------------------------------------------------------------------
(* Steps that change more than a pass.                                     *)

(* An upsert inserts or refreshes one row and loses nothing an analyst or  *)
(* a delivery wrote there.                                                 *)
LEMMA UpsertStep ==
  ASSUME IInv, NEW p \in Procs, Upsert(p)
  PROVE  IInv'
<1> DEFINE k == pass[p].key
<1> DEFINE r == pass[p].todo[k]
<1> DEFINE fr == IF pass[p].existed = "no" THEN pass[p].fresh \cup {k} ELSE pass[p].fresh
<1> DEFINE td == [pass[p].todo EXCEPT ![k] = Nothing]
<1> DEFINE m == [pass[p] EXCEPT !.at = "raise", !.todo = td, !.key = Nothing,
                                !.existed = "no", !.fresh = fr]
<1>0. pass[p] \in Pass /\ pass[p].at = "upsert"
  BY DEF IInv, TypeOK, Upsert
<1>1. k \in Keys /\ r \in Rules
  BY <1>0 DEF IInv, PassInv, PassOK
<1>2. /\ rows' = [rows EXCEPT ![k] = Stored(rows[k], r)]
      /\ pass' = [pass EXCEPT ![p] = m]
      /\ finding' = finding /\ events' = events /\ delivered' = delivered
      /\ exported' = exported /\ worked' = worked
  BY DEF Upsert, history
<1>3. rows \in [Keys -> Row \cup {Nothing}] /\ exported \in [Keys -> Nat]
      /\ worked \in [Keys -> States]
  BY DEF IInv, TypeOK
<1>4. Stored(rows[k], r) \in Row
  BY <1>1, <1>3 DEF Stored, NewRow, Row, States
<1>5. rows' \in [Keys -> Row \cup {Nothing}]
  BY <1>2, <1>3, <1>4
<1>6. Stored(rows[k], r) # Nothing
  BY <1>4, RowAssumption
<1>7. Raised' = Raised \cup {k}
  BY <1>1, <1>2, <1>3, <1>6 DEF Raised
<1>8. /\ m \in Pass /\ m.at = "raise" /\ m.batch = pass[p].batch /\ m.fresh = fr
  BY <1>0, <1>1 DEF Pass, Found
<1> HIDE DEF m
<1>9. PassOK(m, Raised', delivered')
  <2>1. PassOK(pass[p], Raised, delivered)
    BY DEF IInv, PassInv
  <2>2. QED
    BY <1>7, <1>8, <2>1 DEF PassOK
<1>10. pass' \in [Procs -> Pass] /\ PassInv'
  BY <1>2, <1>7, <1>8, <1>9, OneMoves DEF IInv
<1>11. TypeOK'
  BY <1>2, <1>5, <1>10 DEF IInv, TypeOK
<1>12. \A j \in Keys : j # k => rows'[j] = rows[j]
  BY <1>2, <1>3
<1>13. rows'[k] = Stored(rows[k], r)
  BY <1>1, <1>2, <1>3
<1>14. RoutedWasDelivered'
  <2>1. ASSUME NEW j \in Raised'
        PROVE  rows'[j].routed # Nothing =>
                 /\ Notify[rows'[j].routed] # {}
                 /\ Notify[rows'[j].routed] \subseteq delivered[j]
    <3>1. CASE j \in Raised
      <4>1. rows'[j].routed = rows[j].routed
        BY <1>3, <1>12, <1>13, <3>1 DEF Stored, Raised, Row
      <4>2. QED
        BY <3>1, <4>1 DEF IInv, RoutedWasDelivered
    <3>2. CASE j \notin Raised
      <4>1. j = k /\ rows[k] = Nothing
        BY <1>1, <1>7, <2>1, <3>2 DEF Raised
      <4>2. rows'[j].routed = Nothing
        BY <1>13, <4>1 DEF Stored, NewRow
      <4>3. QED
        BY <4>2
    <3>3. QED
      BY <3>1, <3>2
  <2>2. QED
    BY <1>2, <2>1 DEF RoutedWasDelivered
<1>15. AnalystInv'
  <2>1. ASSUME NEW j \in Raised', j \in Raised
        PROVE  rows'[j].state = rows[j].state /\ rows'[j].stamps = rows[j].stamps
    BY <1>3, <1>12, <1>13, <2>1 DEF Stored, Raised, Row
  <2>2. ASSUME NEW j \in Raised', j \notin Raised
        PROVE  rows'[j].state = "new" /\ rows'[j].stamps = {} /\ worked[j] = "new"
    <3>1. j = k /\ rows[k] = Nothing
      BY <1>1, <1>7, <2>2 DEF Raised
    <3>2. QED
      BY <1>1, <1>13, <2>2, <3>1 DEF Stored, NewRow, IInv, AnalystInv
  <2>3. QED
    BY <1>2, <1>7, <2>1, <2>2 DEF IInv, AnalystInv, AnalystWorkKept
<1>16. ExportInv'
  <2>1. Sweeper \in Procs
    BY DEF Procs
  <2>2. CASE p = Sweeper
    <3>1. pass'[Sweeper] = m
      BY <1>2, <2>2 DEF IInv, TypeOK
    <3>2. \A j \in fr : j \in Raised' /\ exported[j] = 0
      BY <1>0, <1>7, <2>2 DEF IInv, ExportInv
    <3>3. QED
      BY <1>2, <1>7, <1>8, <3>1, <3>2 DEF IInv, ExportInv
  <2>3. CASE p # Sweeper
    <3>1. pass'[Sweeper] = pass[Sweeper]
      BY <1>2, <2>1, <2>3 DEF IInv, TypeOK
    <3>2. QED
      BY <1>2, <1>7, <3>1 DEF IInv, ExportInv
  <2>4. QED
    BY <2>2, <2>3
<1>17. QED
  BY <1>10, <1>11, <1>14, <1>15, <1>16 DEF IInv

LEMMA ExportStep ==
  ASSUME IInv, NEW p \in Procs, NEW k \in Keys, Export(p, k)
  PROVE  IInv'
<1> DEFINE m == [pass[p] EXCEPT !.fresh = @ \ {k}]
<1>0. p = Sweeper /\ pass[p] \in Pass /\ k \in pass[p].fresh /\ pass[p].at = "raise"
  BY DEF IInv, TypeOK, Export, AllRaised
<1>1. /\ pass' = [pass EXCEPT ![p] = m]
      /\ exported' = [exported EXCEPT ![k] = @ + 1]
      /\ rows' = rows /\ finding' = finding /\ events' = events
      /\ delivered' = delivered /\ worked' = worked
  BY DEF Export
<1>2. /\ m \in Pass /\ m.at = "raise" /\ m.batch = pass[p].batch
      /\ m.fresh = pass[p].fresh \ {k}
  BY <1>0 DEF Pass
<1> HIDE DEF m
<1>3. Raised' = Raised /\ RoutedWasDelivered' /\ AnalystInv'
  BY <1>1 DEF IInv, Raised, RoutedWasDelivered, AnalystInv, AnalystWorkKept
<1>4. PassOK(m, Raised', delivered')
  BY <1>1, <1>2, <1>3 DEF PassOK, IInv, PassInv
<1>5. pass' \in [Procs -> Pass] /\ PassInv'
  BY <1>1, <1>2, <1>3, <1>4, OneMoves DEF IInv
<1>6. exported[k] = 0 /\ k \in Raised /\ exported \in [Keys -> Nat]
  BY <1>0 DEF IInv, ExportInv, TypeOK
<1>7. exported' \in [Keys -> Nat] /\ exported'[k] = 1
      /\ \A j \in Keys : j # k => exported'[j] = exported[j]
  BY <1>1, <1>6
<1>8. TypeOK'
  BY <1>1, <1>5, <1>7 DEF IInv, TypeOK
<1>9. ExportInv'
  <2>1. pass'[Sweeper] = m
    BY <1>0, <1>1 DEF IInv, TypeOK
  <2>2. \A j \in m.fresh : j \in Keys /\ j # k
    BY <1>0, <1>2 DEF Pass
  <2>3. QED
    BY <1>0, <1>2, <1>3, <1>6, <1>7, <2>1, <2>2 DEF IInv, ExportInv
<1>10. QED
  BY <1>3, <1>5, <1>8, <1>9 DEF IInv

(* A try on one sink, of the alert k: taken, or failed and not to be       *)
(* stamped.                                                                *)
LEMMA SendStep ==
  ASSUME IInv, NEW p \in Procs, NEW s \in Sinks, Send(p, s)
  PROVE  IInv'
<1> DEFINE k == pass[p].key
<1> DEFINE d == pass[p].due \ {s}
<1>0. pass[p] \in Pass /\ pass[p].at = "send" /\ s \in pass[p].due
  BY DEF IInv, TypeOK, Send
<1>1. PassOK(pass[p], Raised, delivered) /\ k \in Keys
  BY <1>0 DEF IInv, PassInv, PassOK
<1>2. CASE /\ delivered' = [delivered EXCEPT ![k] = @ \cup {s}]
           /\ pass' = [pass EXCEPT ![p].due = @ \ {s}]
           /\ UNCHANGED events
  <2> DEFINE m == [pass[p] EXCEPT !.due = d]
  <2>1. /\ pass' = [pass EXCEPT ![p] = m]
        /\ rows' = rows /\ finding' = finding /\ exported' = exported
        /\ worked' = worked /\ events' = events
    BY <1>2 DEF Send
  <2>2. /\ m \in Pass /\ m.at = "send" /\ m.key = k /\ m.due = d
        /\ m.batch = pass[p].batch /\ m.ok = pass[p].ok
        /\ m.fresh = pass[p].fresh
    BY <1>0 DEF Pass
  <2> HIDE DEF m
  <2>3. /\ delivered' \in [Keys -> SUBSET Sinks]
        /\ delivered'[k] = delivered[k] \cup {s}
        /\ \A j \in Keys : delivered[j] \subseteq delivered'[j]
    BY <1>1, <1>2 DEF IInv, TypeOK
  <2>4. Raised' = Raised
    BY <2>1 DEF Raised
  <2>5. PassOK(m, Raised', delivered')
    BY <1>0, <1>1, <2>2, <2>3, <2>4 DEF PassOK
  <2>6. pass' \in [Procs -> Pass] /\ PassInv'
    BY <2>1, <2>2, <2>3, <2>4, <2>5, OneMoves DEF IInv
  <2>7. TypeOK'
    BY <2>1, <2>3, <2>6 DEF IInv, TypeOK
  <2>8. RoutedWasDelivered' /\ AnalystInv'
    BY <2>1, <2>3, <2>4
    DEF IInv, RoutedWasDelivered, Raised, AnalystInv, AnalystWorkKept
  <2>9. ExportInv'
    <3>1. Sweeper \in Procs /\ pass \in [Procs -> Pass]
      BY DEF Procs, IInv, TypeOK
    <3>2. /\ pass'[Sweeper].fresh = pass[Sweeper].fresh
          /\ pass'[Sweeper].at = "upsert" => pass'[Sweeper] = pass[Sweeper]
      BY <1>0, <2>1, <2>2, <3>1
    <3>3. QED
      BY <2>1, <2>4, <3>2 DEF IInv, ExportInv
  <2>10. QED
    BY <2>6, <2>7, <2>8, <2>9 DEF IInv
<1>3. CASE /\ Outside
           /\ pass' = [pass EXCEPT ![p].due = @ \ {s}, ![p].ok = "no"]
           /\ UNCHANGED delivered
  <2> DEFINE m == [pass[p] EXCEPT !.due = d, !.ok = "no"]
  <2>1. /\ pass' = [pass EXCEPT ![p] = m]
        /\ UNCHANGED <<rows, history>> /\ finding' = finding
    BY <1>0, <1>3 DEF Send, history, IInv, TypeOK, Pass
  <2>2. /\ m \in Pass /\ m.at = "send" /\ m.key = k /\ m.ok = "no"
        /\ m.batch = pass[p].batch /\ m.fresh = pass[p].fresh
    BY <1>0 DEF Pass
  <2> HIDE DEF m
  <2>3. events' \in 0..MaxEvents /\ finding' \in Found
    BY <1>3, <2>1, AlertsAssumption DEF IInv, TypeOK, Outside
  <2>4. PassOK(m, Raised, delivered)
    BY <1>0, <1>1, <2>2 DEF PassOK
  <2>5. QED
    BY <2>1, <2>2, <2>3, <2>4, PassStep
<1>4. QED
  BY <1>2, <1>3 DEF Send

(* The stamp: only an alert none of whose targets failed gets it, so every *)
(* one of them has taken it.                                               *)
LEMMA SendDoneStep ==
  ASSUME IInv, NEW p \in Procs, SendDone(p)
  PROVE  IInv'
<1> DEFINE k == pass[p].key
<1> DEFINE r == pass[p].batch[k]
<1> DEFINE bt == [pass[p].batch EXCEPT ![k] = Nothing]
<1> DEFINE m == [pass[p] EXCEPT !.at = "route", !.key = Nothing, !.batch = bt, !.ok = "no"]
<1>0. pass[p] \in Pass /\ pass[p].at = "send" /\ pass[p].due = {}
  BY DEF IInv, TypeOK, SendDone
<1>1. PassOK(pass[p], Raised, delivered)
  BY DEF IInv, PassInv
<1>2. /\ k \in Keys /\ k \in Raised /\ r \in Rules /\ Notify[r] # {}
      /\ pass[p].ok = "yes" => Notify[r] \subseteq delivered[k]
  BY <1>0, <1>1 DEF PassOK
<1>3. /\ rows' = IF pass[p].ok = "yes" THEN [rows EXCEPT ![k].routed = r] ELSE rows
      /\ pass' = [pass EXCEPT ![p] = m]
      /\ finding' = finding /\ events' = events /\ delivered' = delivered
      /\ exported' = exported /\ worked' = worked
  BY DEF SendDone, history
<1>4. /\ m \in Pass /\ m.at = "route" /\ m.batch = bt /\ m.fresh = pass[p].fresh
  BY <1>0, <1>2 DEF Pass, Found
<1>5. \A j \in Keys : bt[j] # Nothing => pass[p].batch[j] # Nothing
  BY <1>0, <1>2 DEF Pass, Found
<1> HIDE DEF m, bt
<1>6. rows \in [Keys -> Row \cup {Nothing}] /\ rows[k] \in Row
  BY <1>2 DEF IInv, TypeOK, Raised
<1>7. [rows[k] EXCEPT !.routed = r] \in Row
  BY <1>2, <1>6 DEF Row
<1>8. rows' \in [Keys -> Row \cup {Nothing}] /\ rows'[k] \in Row
  BY <1>2, <1>3, <1>6, <1>7
<1>9. /\ \A j \in Keys : j # k => rows'[j] = rows[j]
      /\ rows'[k].state = rows[k].state /\ rows'[k].stamps = rows[k].stamps
      /\ \/ rows'[k].routed = rows[k].routed
         \/ pass[p].ok = "yes" /\ rows'[k].routed = r
  <2>1. CASE pass[p].ok = "yes"
    <3>1. rows' = [rows EXCEPT ![k] = [rows[k] EXCEPT !.routed = r]]
      BY <1>3, <2>1
    <3>2. rows'[k] = [rows[k] EXCEPT !.routed = r]
      BY <1>2, <1>6, <3>1
    <3>3. QED
      BY <1>6, <2>1, <3>1, <3>2 DEF Row
  <2>2. CASE pass[p].ok # "yes"
    BY <1>3, <2>2
  <2>3. QED
    BY <2>1, <2>2
<1>10. Raised' = Raised
  BY <1>2, <1>6, <1>8, <1>9, RowAssumption DEF Raised
<1>11. PassOK(m, Raised', delivered')
  BY <1>1, <1>4, <1>5, <1>10 DEF PassOK
<1>12. pass' \in [Procs -> Pass] /\ PassInv'
  BY <1>3, <1>4, <1>10, <1>11, OneMoves DEF IInv
<1>13. TypeOK'
  BY <1>3, <1>8, <1>12 DEF IInv, TypeOK
<1>14. RoutedWasDelivered'
  BY <1>2, <1>3, <1>9, <1>10 DEF IInv, RoutedWasDelivered, Raised
<1>15. AnalystInv'
  <2>1. \A j \in Raised : rows'[j].state = rows[j].state /\ rows'[j].stamps = rows[j].stamps
    BY <1>9 DEF Raised
  <2>2. QED
    BY <1>3, <1>10, <2>1 DEF IInv, AnalystInv, AnalystWorkKept
<1>16. ExportInv'
  <2>1. Sweeper \in Procs /\ pass \in [Procs -> Pass]
    BY DEF Procs, IInv, TypeOK
  <2>2. /\ pass'[Sweeper].fresh = pass[Sweeper].fresh
        /\ pass'[Sweeper].at = "upsert" => pass'[Sweeper] = pass[Sweeper]
    BY <1>3, <1>4, <2>1
  <2>3. QED
    BY <1>3, <1>10, <2>2 DEF IInv, ExportInv
<1>17. QED
  BY <1>12, <1>13, <1>14, <1>15, <1>16 DEF IInv

LEMMA ObserveStep ==
  ASSUME IInv, NEW k \in Keys, Observe(k)
  PROVE  IInv'
<1>1. /\ rows' = rows /\ pass' = pass /\ delivered' = delivered
      /\ exported' = exported /\ worked' = worked
      /\ finding' \in Found /\ events' \in 0..MaxEvents
  BY AlertsAssumption DEF Observe, Outside, history, IInv, TypeOK, Found
<1>2. QED
  BY <1>1 DEF IInv, TypeOK, PassInv, Raised, RoutedWasDelivered, ExportInv,
              AnalystInv, AnalystWorkKept

(* An analyst's click changes the state and its timestamps, and nothing a  *)
(* pass knows.                                                             *)
LEMMA SetStateStep ==
  ASSUME IInv, NEW k \in Keys, NEW s \in States, SetState(k, s)
  PROVE  IInv'
<1> DEFINE st == Stamped(rows[k].stamps, s)
<1> DEFINE row == [rows[k] EXCEPT !.state = s, !.stamps = st]
<1>1. /\ rows \in [Keys -> Row \cup {Nothing}] /\ worked \in [Keys -> States]
      /\ k \in Raised /\ rows[k] \in Row
  BY DEF IInv, TypeOK, SetState, Raised
<1>2. st \subseteq {"acknowledged_at", "closed_at"}
      /\ (s = "new" => st = {})
      /\ (s = "acknowledged" => "acknowledged_at" \in st)
      /\ (s = "closed" => "closed_at" \in st)
  BY <1>1 DEF Stamped, States, Row
<1>3. /\ rows' = [rows EXCEPT ![k] = row]
      /\ worked' = [worked EXCEPT ![k] = s]
      /\ pass' = pass /\ delivered' = delivered /\ exported' = exported
      /\ finding' = finding /\ Outside
  BY DEF SetState
<1> HIDE DEF st
<1>4. /\ row \in Row /\ row.state = s /\ row.stamps = st
      /\ row.routed = rows[k].routed
  BY <1>1, <1>2 DEF Row
<1> HIDE DEF row
<1>5. /\ rows' \in [Keys -> Row \cup {Nothing}] /\ worked' \in [Keys -> States]
      /\ rows'[k] = row /\ worked'[k] = s
      /\ \A j \in Keys : j # k => rows'[j] = rows[j] /\ worked'[j] = worked[j]
  BY <1>1, <1>3, <1>4
<1>6. Raised' = Raised
  BY <1>1, <1>4, <1>5, RowAssumption DEF Raised
<1>7. TypeOK'
  <2>1. events' \in 0..MaxEvents
    BY <1>3, AlertsAssumption DEF Outside, IInv, TypeOK
  <2>2. QED
    BY <1>3, <1>5, <2>1 DEF IInv, TypeOK
<1>8. PassInv' /\ ExportInv'
  BY <1>3, <1>6 DEF IInv, PassInv, ExportInv
<1>9. RoutedWasDelivered'
  BY <1>3, <1>4, <1>5, <1>6 DEF IInv, RoutedWasDelivered, Raised
<1>10. AnalystInv'
  <2>1. ASSUME NEW j \in Raised
        PROVE  /\ rows'[j].state = worked'[j]
               /\ worked'[j] = "new" => rows'[j].stamps = {}
               /\ worked'[j] = "acknowledged" => "acknowledged_at" \in rows'[j].stamps
               /\ worked'[j] = "closed" => "closed_at" \in rows'[j].stamps
    <3>1. CASE j = k
      BY <1>2, <1>4, <1>5, <3>1
    <3>2. CASE j # k
      BY <1>5, <3>2 DEF IInv, AnalystInv, AnalystWorkKept, Raised
    <3>3. QED
      BY <3>1, <3>2
  <2>2. \A j \in Keys \ Raised : worked'[j] = "new"
    BY <1>1, <1>5 DEF IInv, AnalystInv
  <2>3. QED
    BY <1>6, <2>1, <2>2 DEF AnalystInv, AnalystWorkKept
<1>11. QED
  BY <1>7, <1>8, <1>9, <1>10 DEF IInv
-----------------------------------------------------------------------------
LEMMA IInvNext == IInv /\ [Next]_vars => IInv'
<1> SUFFICES ASSUME IInv, [Next]_vars PROVE IInv'
  OBVIOUS
<1>1. ASSUME NEW k \in Keys, Observe(k) PROVE IInv'
  BY <1>1, ObserveStep
<1>2. ASSUME NEW k \in Keys, NEW s \in States, SetState(k, s) PROVE IInv'
  BY <1>2, SetStateStep
<1>3. ASSUME NEW p \in Procs, Abort(p) PROVE IInv'
  <2>1. events' \in 0..MaxEvents
    BY <1>3, AlertsAssumption DEF Abort, Outside, IInv, TypeOK
  <2>2. QED
    BY <1>3, <2>1, AbortStep DEF Abort
<1>4. ASSUME NEW p \in Procs, Step(p) PROVE IInv'
  <2>1. CASE Analyse(p)
    BY <2>1, AnalyseStep
  <2>2. CASE Upsert(p)
    BY <2>2, UpsertStep
  <2>3. CASE RenderDone(p)
    BY <2>3, RenderDoneStep
  <2>4. CASE Query(p)
    BY <2>4, QueryStep
  <2>5. CASE SendDone(p)
    BY <2>5, SendDoneStep
  <2>6. ASSUME NEW k \in Keys, Lookup(p, k) PROVE IInv'
    BY <2>6, LookupStep
  <2>7. ASSUME NEW k \in Keys, Export(p, k) PROVE IInv'
    BY <2>7, ExportStep
  <2>8. ASSUME NEW k \in Keys, NextAlert(p, k) PROVE IInv'
    BY <2>8, NextAlertStep
  <2>9. ASSUME NEW s \in Sinks, Send(p, s) PROVE IInv'
    BY <2>9, SendStep
  <2>10. QED
    BY <1>4, <2>1, <2>2, <2>3, <2>4, <2>5, <2>6, <2>7, <2>8, <2>9 DEF Step
<1>5. CASE UNCHANGED vars
  BY <1>5 DEF vars, IInv, TypeOK, PassInv, Raised, RoutedWasDelivered, ExportInv,
              AnalystInv, AnalystWorkKept
<1>6. QED
  BY <1>1, <1>2, <1>3, <1>4, <1>5 DEF Next

LEMMA Invariance == Spec => []IInv
<1>1. QED
  BY IInvInit, IInvNext, PTL DEF Spec
-----------------------------------------------------------------------------
(* The alert table, the passes over it and what was sent keep their types  *)
(* whatever two processes do to them at once.                              *)
THEOREM AlertsTypeCorrect == Spec => []TypeOK
<1>1. IInv => TypeOK
  BY DEF IInv
<1>2. QED
  BY <1>1, Invariance, PTL

(* mark_alert_routed is never reached for an alert a sink of its rule did  *)
(* not take, however many processes deliver and however passes end.        *)
THEOREM StampedWasDelivered == Spec => []RoutedWasDelivered
<1>1. IInv => RoutedWasDelivered
  BY DEF IInv
<1>2. QED
  BY <1>1, Invariance, PTL

(* upsert_alert's two transactions let two processes insert one alert, but *)
(* never make the sweeper export a finding twice: it alone exports, and it *)
(* finds its own rows.                                                     *)
THEOREM FindingExportedOnce == Spec => []ExportedAtMostOnce
<1>1. IInv => ExportedAtMostOnce
  <2> SUFFICES ASSUME IInv, NEW k \in Keys PROVE exported[k] <= 1
    BY DEF ExportedAtMostOnce
  <2>1. exported[k] \in {0, 1}
    BY DEF IInv, ExportInv
  <2>2. QED
    BY <2>1
<1>2. QED
  BY <1>1, Invariance, PTL

(* No refresh and no stamp undoes what an analyst did to an alert.         *)
THEOREM AnalystWorkSurvives == Spec => []AnalystWorkKept
<1>1. IInv => AnalystWorkKept
  BY DEF IInv, AnalystInv
<1>2. QED
  BY <1>1, Invariance, PTL
=============================================================================
