----------------------------- MODULE Retention -----------------------------
(* Deleting old rows: prune of core/storage.py, run by tools/prune_logs.py  *)
(* and, when configured, at start-up by main.py, while the sensor goes on   *)
(* inserting.  One table is modelled; the loop treats each alike.  A row    *)
(* is its id, the sensor that wrote it and whether its timestamp is before  *)
(* the cut-off.  Imported captures arrive with timestamps that are old.     *)
(* A policy is [days, max, protect, dry]: 0 days and 0 rows mean off.       *)
EXTENDS Naturals, FiniteSets

CONSTANTS Instances,
          Policies,
          MaxId        \* bound: how many rows are ever inserted

ASSUME RetentionAssumption ==
    /\ MaxId \in Nat
    /\ Policies \subseteq [days : Nat, max : Nat, protect : SUBSET Instances, dry : {"yes", "no"}]

Rows == [id : 1..MaxId, instance : Instances, stamp : {"old", "recent"}]

NoPolicy == [days |-> 0, max |-> 0, protect |-> {}, dry |-> "yes"]

VARIABLES
    rows,      \* the table as others see it
    last,      \* AUTOINCREMENT: the last id given out
    policy, pc,
    mine,      \* the table as the connection of prune sees it
    tx,        \* "open" from its first DELETE to its commit
    total,     \* the rows prune counted at its start
    deleted,   \* what it has counted, and will report
    from       \* the last id when it began

prune == <<policy, pc, mine, tx, total, deleted, from>>
vars == <<rows, last, prune>>

Newest(n, set) == {r \in set : Cardinality({s \in set : s.id > r.id}) < n}

Protected(r) == r.instance \in policy.protect

\* WHERE timestamp < cutoff AND instance NOT IN (...), either part when asked
\* for: without an age the second stands alone.
AgePass(set) ==
    IF policy.days = 0 /\ policy.protect = {} THEN {}
    ELSE {r \in set : (policy.days > 0 => r.stamp = "old") /\ ~Protected(r)}

(* Mutation: the second pass does not look at who is protected.             *)
MaxPass_Unguarded(set) ==
    IF policy.max = 0 THEN {} ELSE set \ Newest(policy.max, set)

(* Mutation: one row too few is kept.                                       *)
MaxPass_KeepsFewer(set) ==
    IF policy.max = 0 THEN {} ELSE {r \in set \ Newest(policy.max - 1, set) : ~Protected(r)}

(* Mutation: one row too many is kept.                                      *)
MaxPass_KeepsMore(set) ==
    IF policy.max = 0 THEN {} ELSE {r \in set \ Newest(policy.max + 1, set) : ~Protected(r)}

MaxPass(set) ==
    IF policy.max = 0 THEN {} ELSE {r \in set \ Newest(policy.max, set) : ~Protected(r)}

Init == /\ rows = {} /\ last = 0
        /\ policy = NoPolicy /\ pc = "off" /\ mine = {} /\ tx = "none"
        /\ total = 0 /\ deleted = 0 /\ from = 0

\* The sensor, or an import.  A writer waits while prune's transaction is open.
Insert(i, stamp) ==
    /\ last < MaxId /\ tx = "none"
    /\ last' = last + 1
    /\ rows' = rows \cup {[id |-> last', instance |-> i, stamp |-> stamp]}
    /\ UNCHANGED prune

\* Time passes: a row crosses the cut-off.  A call computes its cut-off once.
Ages(r) == /\ pc = "off" /\ r.stamp = "recent"
           /\ rows' = (rows \ {r}) \cup {[r EXCEPT !.stamp = "old"]}
           /\ UNCHANGED <<last, prune>>

Start(k) ==
    /\ pc = "off"
    /\ k.days > 0 \/ k.max > 0
    /\ policy' = k /\ pc' = "age"
    /\ total' = Cardinality(rows) /\ deleted' = 0 /\ from' = last
    /\ UNCHANGED <<rows, last, mine, tx>>

\* What prune reads: its own view once it has written, the table until then.
View == IF tx = "open" THEN mine ELSE rows

(* Mutation: the second pass reports its own count only.                    *)
Count_Last(gone, delete, next) ==
    /\ deleted' = Cardinality(gone)
    /\ pc' = IF policy.dry = "no" /\ gone # {} THEN delete ELSE next
    /\ UNCHANGED <<rows, last, policy, mine, tx, total, from>>

\* SELECT COUNT; a DELETE follows unless the run is dry or there is nothing.
Count(gone, delete, next) ==
    /\ deleted' = deleted + Cardinality(gone)
    /\ pc' = IF policy.dry = "no" /\ gone # {} THEN delete ELSE next
    /\ UNCHANGED <<rows, last, policy, mine, tx, total, from>>

\* DELETE, of what there is to delete by then.
Delete(gone, next) ==
    /\ mine' = View \ gone /\ tx' = "open"
    /\ pc' = next
    /\ UNCHANGED <<rows, last, policy, total, deleted, from>>

CountOld == pc = "age" /\ Count(AgePass(View), "age_delete", "max")
DeleteOld == pc = "age_delete" /\ Delete(AgePass(View), "max")

(* Mutation: a dry run leaves out the second pass.                          *)
CountOver_NotDry ==
    /\ pc = "max"
    /\ Count(IF policy.dry = "yes" THEN {} ELSE MaxPass(View), "max_delete", "commit")

CountOver == pc = "max" /\ Count(MaxPass(View), "max_delete", "commit")
DeleteOver == pc = "max_delete" /\ Delete(MaxPass(View), "commit")

Ends == /\ pc' = "off" /\ tx' = "none" /\ mine' = {}
        /\ policy' = NoPolicy /\ total' = 0 /\ deleted' = 0 /\ from' = 0
        /\ UNCHANGED last

Commit == pc = "commit" /\ rows' = View /\ Ends

\* Killed, or an exception (the database is locked for too long): the
\* transaction is rolled back, and start-up goes on without it.
Fails == pc # "off" /\ rows' = rows /\ Ends

Next == \/ \E i \in Instances, stamp \in {"old", "recent"} : Insert(i, stamp)
        \/ \E r \in rows : Ages(r)
        \/ \E k \in Policies : Start(k)
        \/ CountOld \/ DeleteOld \/ CountOver \/ DeleteOver \/ Commit \/ Fails

Spec == Init /\ [][Next]_vars

\* "instance names that are NEVER deleted, whatever the age" (storage.py:593),
\* by either pass, and however many of them there are.
ProtectedKept == [][\A r \in rows : Protected(r) =>
                       \E s \in rows' : s.id = r.id /\ s.instance = r.instance]_vars

\* A row is only deleted for a reason the policy gives: it is old, or there are
\* as many newer ones as the policy keeps.  The policy without an age that
\* protects an instance is left out: KeepsNewest is about it.
Justified ==
    [][pc = "commit" /\ ~(policy.days = 0 /\ policy.protect # {}) =>
         \A r \in rows \ rows' : \/ policy.days > 0 /\ r.stamp = "old"
                                 \/ policy.max > 0 /\ r \notin Newest(policy.max, rows)]_vars

\* The call ends well and nothing was inserted before its first DELETE.
Undisturbed == pc = "commit" /\ last = from

\* After a run, no unprotected row is left that is old or beyond the cap.
Bounded ==
    [][Commit /\ Undisturbed /\ policy.dry = "no" =>
         LET unprotected == {r \in rows' : ~Protected(r)}
         IN /\ policy.max > 0 => Cardinality(unprotected) <= policy.max
            /\ policy.days > 0 => \A r \in unprotected : r.stamp = "recent"]_vars

\* What prune reports after deleting is what it deleted and what it kept.
ReportIsTrue ==
    [][Commit /\ Undisturbed /\ policy.dry = "no" =>
         /\ deleted = Cardinality(rows \ rows')
         /\ total - deleted = Cardinality(rows')]_vars

\* What the same call would delete if it were not dry.
WouldGo == AgePass(rows) \cup MaxPass(rows \ AgePass(rows))

\* A dry run never promises fewer deletions than the call would make, so that
\* nobody is surprised by a row that went.
DryRunIsSafe ==
    Undisturbed /\ policy.dry = "yes" => deleted >= Cardinality(WouldGo)

\* "per table, keep only this many newest rows" (storage.py:592).
KeepsNewest ==
    [][Commit /\ policy.days = 0 => Newest(policy.max, rows) \subseteq rows']_vars
=============================================================================
