-------------------------- MODULE Retention_proofs --------------------------
(* What prune may delete, for any table, policies and interleaving with the *)
(* sensor: nothing of a protected instance, and nothing without a reason.   *)
(* The invariant is about the open transaction: what is missing from its    *)
(* view of the table is already unprotected and already has its reason, and *)
(* the table cannot change before the commit because the sensor waits.  A   *)
(* second invariant, on top of it, is about the numbers prune reports.      *)
EXTENDS Retention, FiniteSetTheorems, TLAPS

Reason(r) == \/ policy.days > 0 /\ r.stamp = "old"
             \/ policy.max > 0 /\ r \notin Newest(policy.max, rows)

Lawful == ~(policy.days = 0 /\ policy.protect # {})

Table == rows \subseteq Rows /\ IsFiniteSet(rows) /\ last \in 0..MaxId

Policy == policy \in [days : Nat, max : Nat, protect : SUBSET Instances, dry : {"yes", "no"}]

(* Only a real call deletes.                                                *)
Dry == policy.dry = "yes"

InDelete == pc \in {"age_delete", "max_delete"} => ~Dry

InTx == /\ tx \in {"none", "open"}
        /\ pc \in {"off", "age", "age_delete", "max", "max_delete", "commit"}
        /\ pc \in {"off", "age", "age_delete"} => tx = "none"
        /\ InDelete
        /\ tx = "open" => /\ mine \subseteq rows
                          /\ \A r \in rows \ mine : ~Protected(r)
                          /\ Lawful => \A r \in rows \ mine : Reason(r)

IInv == Table /\ Policy /\ InTx

(* The ids are those of AUTOINCREMENT.                                      *)
Ids == /\ from \in Nat /\ from <= last
       /\ \A r \in rows : r.id <= last
       /\ \A r, s \in rows : r.id = s.id => r = s

First == AgePass(rows)

(* What the second pass takes: a dry first pass has left its rows there.    *)
Second == MaxPass(IF Dry THEN rows ELSE rows \ First)

(* As long as nothing was inserted since prune began, the table is the one  *)
(* it counted, and its counter and its view are determined by how far it is.*)
Counted ==
    /\ total \in Nat /\ deleted \in Nat
    /\ Dry => tx = "none"
    /\ pc # "off" /\ last = from =>
         /\ total = Cardinality(rows)
         /\ pc = "age" => deleted = 0
         /\ pc = "age_delete" => deleted = Cardinality(First)
         /\ pc = "max" => /\ deleted = Cardinality(First)
                          /\ ~Dry => View = rows \ First
         /\ pc = "max_delete" => /\ deleted = Cardinality(First) + Cardinality(Second)
                                 /\ View = rows \ First
         /\ pc = "commit" => /\ deleted = Cardinality(First) + Cardinality(Second)
                             /\ ~Dry => View = (rows \ First) \ Second

CInv == Ids /\ Counted

LEMMA IInvInit == Init => IInv
<1> SUFFICES ASSUME Init PROVE IInv
  OBVIOUS
<1>1. Table
  BY FS_EmptySet, RetentionAssumption DEF Init, Table
<1>2. QED
  BY <1>1 DEF Init, IInv, Policy, InTx, InDelete, Dry, NoPolicy
-----------------------------------------------------------------------------
(* The two passes.                                                         *)

(* A row that is not among the newest of a part of the table is not among  *)
(* the newest of the table.                                                *)
LEMMA NewestOfPart ==
  ASSUME NEW S, IsFiniteSet(S), NEW T \in SUBSET S, NEW n \in Nat, NEW r \in T,
         r \notin Newest(n, T)
  PROVE  r \notin Newest(n, S)
<1> DEFINE above(U) == {s \in U : s.id > r.id}
<1>1. IsFiniteSet(above(S)) /\ above(T) \subseteq above(S)
  BY FS_Subset
<1>2. Cardinality(above(T)) <= Cardinality(above(S))
  BY <1>1, FS_Subset
<1>3. IsFiniteSet(above(T))
  BY <1>1, FS_Subset
<1>4. Cardinality(above(S)) \in Nat /\ Cardinality(above(T)) \in Nat
  BY <1>1, <1>3, FS_CardinalityType
<1>5. ~(Cardinality(above(T)) < n)
  BY DEF Newest
<1>6. ~(Cardinality(above(S)) < n)
  <2> HIDE DEF above
  <2> QED
    BY <1>2, <1>4, <1>5
<1>7. QED
  BY <1>6 DEF Newest

LEMMA AgePassLawful ==
  ASSUME Policy
  PROVE  \A r \in AgePass(rows) : r \in rows /\ ~Protected(r) /\ (Lawful => Reason(r))
BY DEF AgePass, Lawful, Reason, Policy

LEMMA MaxPassLawful ==
  ASSUME Table, Policy, NEW T \in SUBSET rows
  PROVE  \A r \in MaxPass(T) : r \in T /\ ~Protected(r) /\ Reason(r)
<1> SUFFICES ASSUME NEW r \in MaxPass(T) PROVE r \in T /\ ~Protected(r) /\ Reason(r)
  OBVIOUS
<1>1. policy.max # 0 /\ policy.max \in Nat /\ r \in T /\ r \notin Newest(policy.max, T) /\ ~Protected(r)
  BY DEF MaxPass, Policy
<1>2. r \notin Newest(policy.max, rows)
  BY <1>1, NewestOfPart DEF Table
<1>3. policy.max > 0
  BY <1>1
<1>4. QED
  BY <1>1, <1>2, <1>3 DEF Reason

(* A pass that only deletes what it may leaves the transaction lawful, and *)
(* counting changes neither the table nor the view.                        *)
LEMMA DeleteStep ==
  ASSUME IInv, NEW gone, NEW next \in {"max", "commit"}, Delete(gone, next),
         \A r \in gone : r \in View /\ ~Protected(r) /\ (Lawful => Reason(r))
  PROVE  IInv'
<1>1. Table' /\ Policy'
  BY DEF IInv, Table, Policy, Delete
<1>2. /\ mine' \subseteq rows
      /\ \A r \in rows \ mine' : ~Protected(r)
      /\ Lawful => \A r \in rows \ mine' : Reason(r)
  BY DEF IInv, InTx, Delete, View
<1>3. /\ \A r : Protected(r)' <=> Protected(r)
      /\ \A r : Reason(r)' <=> Reason(r)
      /\ Lawful' <=> Lawful
  BY DEF Delete, Protected, Reason, Lawful, Newest
<1>4. tx' = "open" /\ pc' \in {"max", "commit"} /\ rows' = rows
  BY DEF Delete
<1>5. InTx'
  BY <1>2, <1>3, <1>4 DEF InTx, InDelete
<1>6. QED
  BY <1>1, <1>5 DEF IInv

LEMMA CountStep ==
  ASSUME IInv, CountOld \/ CountOver
  PROVE  IInv'
<1>1. \E gone, delete, next : Count(gone, delete, next)
  BY DEF CountOld, CountOver
<1>2. UNCHANGED <<rows, last, policy, mine, tx, total, from>>
  BY <1>1 DEF Count
<1>3. /\ \A r : Protected(r)' <=> Protected(r)
      /\ \A r : Reason(r)' <=> Reason(r)
      /\ Lawful' <=> Lawful
  BY <1>2 DEF Protected, Reason, Lawful, Newest
<1>4. /\ \/ pc = "age" /\ pc' \in {"age_delete", "max"}
         \/ pc = "max" /\ pc' \in {"max_delete", "commit"}
      /\ pc' \in {"age_delete", "max_delete"} => ~Dry'
  BY <1>2 DEF CountOld, CountOver, Count, Dry
<1>5. InTx'
  BY <1>2, <1>3, <1>4 DEF IInv, InTx, InDelete
<1>6. QED
  BY <1>2, <1>5 DEF IInv, Table, Policy

LEMMA ViewPart == IInv => View \subseteq rows
BY DEF IInv, InTx, View

LEMMA CommitTable == IInv /\ Commit => Table'
<1> SUFFICES ASSUME IInv, Commit PROVE Table'
  OBVIOUS
<1>1. rows' \subseteq rows
  BY ViewPart DEF Commit
<1>2. QED
  BY <1>1, FS_Subset DEF IInv, Table, Commit, Ends

LEMMA IInvStep == IInv /\ [Next]_vars => IInv'
<1> SUFFICES ASSUME IInv, [Next]_vars PROVE IInv'
  OBVIOUS
<1>1. ASSUME NEW i \in Instances, NEW stamp \in {"old", "recent"}, Insert(i, stamp) PROVE IInv'
  <2>1. IsFiniteSet(rows')
    BY <1>1, FS_AddElement DEF Insert, IInv, Table
  <2>2. last' \in 1..MaxId
    BY <1>1, RetentionAssumption DEF Insert, IInv, Table
  <2>3. rows' \subseteq Rows
    BY <1>1, <2>2 DEF Insert, IInv, Table, Rows
  <2>4. Policy' /\ InTx'
    BY <1>1 DEF Insert, prune, IInv, Policy, InTx, InDelete, Dry
  <2>5. QED
    BY <2>1, <2>2, <2>3, <2>4 DEF IInv, Table
<1>2. ASSUME NEW r \in rows, Ages(r) PROVE IInv'
  <2>1. IsFiniteSet(rows \ {r})
    BY FS_Subset DEF IInv, Table
  <2>2. IsFiniteSet(rows')
    BY <1>2, <2>1, FS_AddElement DEF Ages
  <2>3. rows' \subseteq Rows
    BY <1>2 DEF Ages, IInv, Table, Rows
  <2>4. Policy' /\ InTx'
    BY <1>2 DEF Ages, prune, IInv, Policy, InTx, InDelete, Dry
  <2>5. QED
    BY <1>2, <2>2, <2>3, <2>4 DEF IInv, Table, Ages
<1>3. ASSUME NEW k \in Policies, Start(k) PROVE IInv'
  BY <1>3, RetentionAssumption DEF Start, IInv, Table, Policy, InTx, InDelete, Dry
<1>4. CASE DeleteOld
  <2>1. View = rows
    BY <1>4 DEF DeleteOld, IInv, InTx, View
  <2>2. QED
    BY <1>4, <2>1, AgePassLawful, DeleteStep DEF DeleteOld, IInv
<1>5. CASE DeleteOver
  BY <1>5, ViewPart, MaxPassLawful, DeleteStep DEF DeleteOver, IInv
<1>6. CASE Commit
  BY <1>6, CommitTable DEF Commit, Ends, IInv, Policy, InTx, InDelete, Dry, NoPolicy
<1>7. CASE Fails
  BY <1>7 DEF Fails, Ends, IInv, Table, Policy, InTx, InDelete, Dry, NoPolicy
<1>8. CASE UNCHANGED vars
  <2>1. \A r : (Reason(r)' <=> Reason(r)) /\ (Protected(r)' <=> Protected(r))
    BY <1>8 DEF vars, prune, Reason, Protected, Newest
  <2>2. QED
    BY <1>8, <2>1 DEF vars, prune, IInv, Table, Policy, InTx, InDelete, Dry, Lawful
<1>9. CASE CountOld \/ CountOver
  BY <1>9, CountStep
<1>10. QED
  BY <1>1, <1>2, <1>3, <1>4, <1>5, <1>6, <1>7, <1>8, <1>9 DEF Next

(* What a step may take out of the table.                                  *)
LEMMA StepKeeps ==
  ASSUME IInv, [Next]_vars, NEW r \in rows, Protected(r)
  PROVE  \E s \in rows' : s.id = r.id /\ s.instance = r.instance
<1>1. CASE Commit
  BY <1>1 DEF Commit, View, IInv, InTx
<1>2. ASSUME NEW q \in rows, Ages(q) PROVE \E s \in rows' : s.id = r.id /\ s.instance = r.instance
  <2>1. CASE r = q
    <3>1. r \in Rows /\ [r EXCEPT !.stamp = "old"] \in rows'
      BY <1>2, <2>1 DEF Ages, IInv, Table
    <3>2. [r EXCEPT !.stamp = "old"].id = r.id /\ [r EXCEPT !.stamp = "old"].instance = r.instance
      BY <3>1 DEF Rows
    <3>3. QED
      BY <3>1, <3>2
  <2>2. CASE r # q
    BY <1>2, <2>2 DEF Ages
  <2>3. QED
    BY <2>1, <2>2
<1>3. CASE ~Commit /\ ~\E q \in rows : Ages(q)
  <2>1. rows \subseteq rows'
    BY <1>3 DEF Next, Insert, Start, CountOld, DeleteOld, CountOver, DeleteOver,
       Count, Delete, Fails, vars
  <2>2. QED
    BY <2>1
<1>4. QED
  BY <1>1, <1>2, <1>3

LEMMA CommitJustified ==
  ASSUME IInv, [Next]_vars, pc = "commit", Lawful, NEW r \in rows \ rows'
  PROVE  Reason(r)
<1>1. CASE Commit
  BY <1>1 DEF Commit, View, IInv, InTx
<1>2. CASE ~Commit
  <2>1. rows \subseteq rows'
    BY <1>2 DEF Next, Insert, Ages, Start, CountOld, DeleteOld, CountOver, DeleteOver,
       Count, Delete, Fails, vars
  <2>2. QED
    BY <2>1
<1>3. QED
  BY <1>1, <1>2
-----------------------------------------------------------------------------
(* The rows of a protected instance outlive every call, by age and by      *)
(* number, dry or not, killed or not.                                      *)
THEOREM ProtectedAreKept == Spec => ProtectedKept
<1>1. IInv /\ [Next]_vars =>
        [\A r \in rows : Protected(r) => \E s \in rows' : s.id = r.id /\ s.instance = r.instance]_vars
  BY StepKeeps
<1>2. QED
  BY <1>1, IInvInit, IInvStep, PTL DEF Spec, ProtectedKept

(* Nothing else goes without the reason its policy gives.                  *)
THEOREM DeletionsAreJustified == Spec => Justified
<1>1. IInv /\ [Next]_vars =>
        [pc = "commit" /\ ~(policy.days = 0 /\ policy.protect # {}) =>
           \A r \in rows \ rows' : \/ policy.days > 0 /\ r.stamp = "old"
                                   \/ policy.max > 0 /\ r \notin Newest(policy.max, rows)]_vars
  BY CommitJustified DEF Lawful, Reason
<1>2. QED
  BY <1>1, IInvInit, IInvStep, PTL DEF Spec, Justified
-----------------------------------------------------------------------------
(* What a call that nothing disturbs deletes, and what it says it did.      *)

LEMMA NumbersInit == Init => CInv
<1> SUFFICES ASSUME Init PROVE CInv
  OBVIOUS
<1>1. Ids
  BY DEF Init, Ids
<1>2. Counted
  BY DEF Init, Counted, Dry, NoPolicy
<1>3. QED
  BY <1>1, <1>2 DEF CInv

LEMMA PassesAreFinite ==
  ASSUME IInv
  PROVE  /\ First \subseteq rows /\ IsFiniteSet(First) /\ Cardinality(First) \in Nat
         /\ Second \subseteq rows /\ IsFiniteSet(Second) /\ Cardinality(Second) \in Nat
<1>1. First \subseteq rows /\ Second \subseteq rows
  BY DEF First, Second, AgePass, MaxPass
<1>2. IsFiniteSet(First) /\ IsFiniteSet(Second)
  BY <1>1, FS_Subset DEF IInv, Table
<1>3. QED
  BY <1>1, <1>2, FS_CardinalityType

(* What a count, or a delete, leaves as it is.                              *)
LEMMA SameNumbers ==
  ASSUME CInv, UNCHANGED <<rows, last, policy, total, from>>
  PROVE  First' = First /\ Second' = Second /\ Dry' = Dry /\ Ids'
BY DEF First, Second, Dry, AgePass, MaxPass, Newest, Protected, CInv, Ids

(* The first pass counts what there is.                                     *)
LEMMA FirstCounted == ASSUME IInv, CInv, CountOld PROVE CInv'
<1>1. pc = "age" /\ tx = "none" /\ View = rows /\ AgePass(View) = First
  BY DEF CountOld, IInv, InTx, View, First
<1>2. Cardinality(First) \in Nat
  BY PassesAreFinite
<1>3. /\ deleted' = deleted + Cardinality(First)
      /\ pc' = IF policy.dry = "no" /\ First # {} THEN "age_delete" ELSE "max"
      /\ UNCHANGED <<rows, last, policy, mine, tx, total, from>>
  BY <1>1 DEF CountOld, Count
<1>4. First' = First /\ Second' = Second /\ Dry' = Dry /\ Ids' /\ View' = View
  BY <1>3, SameNumbers DEF View
<1>5. deleted' \in Nat /\ total' \in Nat /\ (Dry' => tx' = "none")
  BY <1>1, <1>2, <1>3 DEF CInv, Counted
<1>6. ASSUME last = from
      PROVE  total = Cardinality(rows) /\ deleted' = Cardinality(First)
  BY <1>1, <1>2, <1>3, <1>6 DEF CInv, Counted
<1>7. CASE policy.dry = "no" /\ First # {}
  <2>1. pc' = "age_delete" /\ ~Dry
    BY <1>3, <1>7 DEF Dry
  <2>2. QED
    BY <1>3, <1>4, <1>5, <1>6, <2>1 DEF CInv, Counted
<1>8. CASE ~(policy.dry = "no" /\ First # {})
  <2>1. pc' = "max" /\ (~Dry => View = rows \ First)
    BY <1>1, <1>3, <1>8 DEF Dry, IInv, Policy
  <2>2. QED
    BY <1>3, <1>4, <1>5, <1>6, <2>1 DEF CInv, Counted
<1>9. QED
  BY <1>7, <1>8

LEMMA FirstDeleted == ASSUME IInv, CInv, DeleteOld PROVE CInv'
<1>1. pc = "age_delete" /\ View = rows /\ AgePass(View) = First
  BY DEF DeleteOld, IInv, InTx, View, First
<1>2. /\ mine' = rows \ First /\ tx' = "open" /\ pc' = "max"
      /\ UNCHANGED <<rows, last, policy, total, deleted, from>>
  BY <1>1 DEF DeleteOld, Delete
<1>3. First' = First /\ Second' = Second /\ Dry' = Dry /\ Ids' /\ View' = rows \ First
  BY <1>2, SameNumbers DEF View
<1>4. ~Dry
  BY <1>1 DEF IInv, InTx, InDelete
<1>5. QED
  BY <1>1, <1>2, <1>3, <1>4 DEF CInv, Counted

(* The second counts what the first left, in the view or, dry, in the table.*)
LEMMA OverIsSecond ==
  ASSUME IInv, CInv, pc \in {"max", "max_delete"}, last = from
  PROVE  MaxPass(View) = Second
<1>1. CASE Dry
  BY <1>1 DEF CInv, Counted, Second, View
<1>2. CASE ~Dry
  BY <1>2 DEF CInv, Counted, Second
<1>3. QED
  BY <1>1, <1>2

LEMMA SecondCounted == ASSUME IInv, CInv, CountOver PROVE CInv'
<1> DEFINE gone == MaxPass(View)
<1>1. pc = "max" /\ Count(gone, "max_delete", "commit") /\ gone \subseteq rows
  BY ViewPart DEF CountOver, MaxPass
<1>2. last = from => gone = Second
  BY <1>1, OverIsSecond
<1> HIDE DEF gone
<1>3. Cardinality(gone) \in Nat
  BY <1>1, FS_Subset, FS_CardinalityType DEF IInv, Table
<1>4. /\ deleted' = deleted + Cardinality(gone)
      /\ pc' = IF policy.dry = "no" /\ gone # {} THEN "max_delete" ELSE "commit"
      /\ UNCHANGED <<rows, last, policy, mine, tx, total, from>>
  BY <1>1 DEF Count
<1>5. First' = First /\ Second' = Second /\ Dry' = Dry /\ Ids' /\ View' = View
  BY <1>4, SameNumbers DEF View
<1>6. deleted' \in Nat /\ total' \in Nat /\ (Dry' => tx' = "none")
  BY <1>3, <1>4, <1>5 DEF CInv, Counted
<1>7. ASSUME last = from
      PROVE  /\ total = Cardinality(rows)
             /\ deleted' = Cardinality(First) + Cardinality(Second)
             /\ ~Dry => View = rows \ First
  BY <1>1, <1>2, <1>4, <1>7 DEF CInv, Counted
<1>8. CASE policy.dry = "no" /\ gone # {}
  <2>1. pc' = "max_delete" /\ ~Dry
    BY <1>4, <1>8 DEF Dry
  <2>2. QED
    BY <1>4, <1>5, <1>6, <1>7, <2>1 DEF CInv, Counted
<1>9. CASE ~(policy.dry = "no" /\ gone # {})
  <2>1. pc' = "commit" /\ (~Dry => gone = {})
    BY <1>4, <1>9 DEF Dry, IInv, Policy
  <2>2. last = from /\ ~Dry => View = (rows \ First) \ Second
    BY <1>2, <1>7, <2>1
  <2>3. QED
    BY <1>4, <1>5, <1>6, <1>7, <2>1, <2>2 DEF CInv, Counted
<1>10. QED
  BY <1>8, <1>9

LEMMA SecondDeleted == ASSUME IInv, CInv, DeleteOver PROVE CInv'
<1> DEFINE gone == MaxPass(View)
<1>1. pc = "max_delete" /\ Delete(gone, "commit")
  BY DEF DeleteOver
<1>2. last = from => gone = Second /\ View = rows \ First
  BY <1>1, OverIsSecond DEF CInv, Counted, IInv, InTx
<1> HIDE DEF gone
<1>3. /\ mine' = View \ gone /\ tx' = "open" /\ pc' = "commit"
      /\ UNCHANGED <<rows, last, policy, total, deleted, from>>
  BY <1>1 DEF Delete
<1>4. First' = First /\ Second' = Second /\ Dry' = Dry /\ Ids' /\ View' = View \ gone
  BY <1>3, SameNumbers DEF View
<1>5. ~Dry
  BY <1>1 DEF IInv, InTx, InDelete
<1>6. QED
  BY <1>1, <1>2, <1>3, <1>4, <1>5 DEF CInv, Counted

LEMMA CInvStep == IInv /\ CInv /\ [Next]_vars => CInv'
<1> SUFFICES ASSUME IInv, CInv, [Next]_vars PROVE CInv'
  OBVIOUS
<1>1. ASSUME NEW i \in Instances, NEW stamp \in {"old", "recent"}, Insert(i, stamp) PROVE CInv'
  <2>1. last \in Nat /\ last' = last + 1 /\ from' = from /\ last' # from'
    BY <1>1 DEF Insert, prune, CInv, Ids, IInv, Table
  <2>2. /\ \A r \in rows' : r.id <= last'
        /\ \A r, s \in rows' : r.id = s.id => r = s
    <3>1. \A r \in rows : r.id \in Nat /\ r.id <= last
      BY DEF IInv, Table, Rows, CInv, Ids
    <3>2. \A r \in rows : r.id <= last' /\ r.id # last'
      BY <2>1, <3>1
    <3>3. rows' = rows \cup {[id |-> last', instance |-> i, stamp |-> stamp]}
      BY <1>1 DEF Insert
    <3>4. last' <= last'
      BY <2>1
    <3>5. QED
      BY <3>2, <3>3, <3>4 DEF CInv, Ids
  <2>3. Ids'
    BY <2>1, <2>2 DEF CInv, Ids
  <2>4. Counted'
    BY <1>1, <2>1 DEF Insert, prune, CInv, Counted, Dry
  <2>5. QED
    BY <2>3, <2>4 DEF CInv
<1>2. ASSUME NEW r \in rows, Ages(r) PROVE CInv'
  <2>1. r \in Rows
    BY DEF IInv, Table
  <2>2. [r EXCEPT !.stamp = "old"].id = r.id
    BY <2>1 DEF Rows
  <2>3. rows' = (rows \ {r}) \cup {[r EXCEPT !.stamp = "old"]}
    BY <1>2 DEF Ages
  <2>4. /\ \A q \in rows' : q.id <= last
        /\ \A q, s \in rows' : q.id = s.id => q = s
    BY <2>2, <2>3 DEF CInv, Ids
  <2>5. pc' = "off" /\ UNCHANGED <<last, prune>>
    BY <1>2 DEF Ages, prune
  <2>6. Ids'
    BY <2>4, <2>5 DEF prune, CInv, Ids
  <2>7. Counted'
    BY <2>5 DEF prune, CInv, Counted, Dry
  <2>8. QED
    BY <2>6, <2>7 DEF CInv
<1>3. ASSUME NEW k \in Policies, Start(k) PROVE CInv'
  <2>1. Cardinality(rows) \in Nat
    BY FS_CardinalityType DEF IInv, Table
  <2>2. Ids'
    BY <1>3 DEF Start, CInv, Ids, IInv, Table
  <2>3. tx' = "none" /\ pc' = "age" /\ total' = Cardinality(rows) /\ deleted' = 0 /\ rows' = rows
    BY <1>3 DEF Start, IInv, InTx
  <2>4. Counted'
    BY <2>1, <2>3 DEF Counted
  <2>5. QED
    BY <2>2, <2>4 DEF CInv
<1>4. CASE CountOld \/ DeleteOld
  BY <1>4, FirstCounted, FirstDeleted
<1>5. CASE CountOver \/ DeleteOver
  BY <1>5, SecondCounted, SecondDeleted
<1>6. CASE Commit \/ Fails
  <2>1. rows' \subseteq rows
    BY <1>6, ViewPart DEF Commit, Fails
  <2>2. last' = last /\ from' = 0 /\ 0 <= last
    BY <1>6 DEF Commit, Fails, Ends, IInv, Table
  <2>3. Ids'
    BY <2>1, <2>2 DEF CInv, Ids
  <2>4. Counted'
    BY <1>6 DEF Commit, Fails, Ends, Counted
  <2>5. QED
    BY <2>3, <2>4 DEF CInv
<1>7. CASE UNCHANGED vars
  <2>1. Ids'
    BY <1>7 DEF vars, prune, CInv, Ids
  <2>2. First' = First /\ Second' = Second /\ Dry' = Dry /\ View' = View
    BY <1>7 DEF vars, prune, First, Second, Dry, View, AgePass, MaxPass, Newest, Protected
  <2>3. Counted'
    BY <1>7, <2>2 DEF vars, prune, CInv, Counted
  <2>4. QED
    BY <2>1, <2>3 DEF CInv
<1>8. QED
  BY <1>1, <1>2, <1>3, <1>4, <1>5, <1>6, <1>7 DEF Next
-----------------------------------------------------------------------------
(* Counting rows.                                                           *)

(* "Keep only this many newest rows": of rows whose ids differ there are    *)
(* no more than n with fewer than n above them, for their ranks differ.     *)
LEMMA NewestAreFew ==
  ASSUME NEW S, IsFiniteSet(S), NEW n \in Nat,
         \A r \in S : r.id \in Nat, \A r, s \in S : r.id = s.id => r = s
  PROVE  IsFiniteSet(Newest(n, S)) /\ Cardinality(Newest(n, S)) <= n
<1> DEFINE above(r) == {s \in S : s.id > r.id}
           rank == [r \in Newest(n, S) |-> Cardinality(above(r))]
<1>1. \A r : IsFiniteSet(above(r)) /\ Cardinality(above(r)) \in Nat
  BY FS_Subset, FS_CardinalityType
<1>2. ASSUME NEW r \in S, NEW q \in S, r.id < q.id
      PROVE  Cardinality(above(q)) # Cardinality(above(r))
  <2>1. above(q) \subseteq above(r)
    BY <1>2
  <2>2. q \in above(r) /\ q \notin above(q)
    BY <1>2
  <2> HIDE DEF above
  <2>3. QED
    BY <1>1, <2>1, <2>2, FS_Subset
<1>3. \A r \in Newest(n, S) : r \in S /\ Cardinality(above(r)) < n
  BY DEF Newest
<1>4. rank \in [Newest(n, S) -> 0..n - 1]
  <2> HIDE DEF above
  <2> QED
    BY <1>1, <1>3
<1>5. ASSUME NEW r \in Newest(n, S), NEW q \in Newest(n, S), rank[r] = rank[q]
      PROVE  r = q
  <2>1. r \in S /\ q \in S /\ Cardinality(above(r)) = Cardinality(above(q))
    BY <1>3, <1>5
  <2>2. ~(r.id < q.id) /\ ~(q.id < r.id)
    <3> HIDE DEF above
    <3> QED
      BY <1>2, <2>1
  <2>3. QED
    BY <2>1, <2>2
<1> HIDE DEF rank
<1>6. rank \in Injection(Newest(n, S), 0..n - 1)
  BY <1>4, <1>5 DEF Injection, IsInjective
<1>7. IsFiniteSet(0..n - 1) /\ Cardinality(0..n - 1) = n
  BY FS_Interval
<1>8. QED
  BY <1>6, <1>7, FS_Injection

(* A call that nothing disturbs takes First, then Second of what is left.   *)
LEMMA CommitExact ==
  ASSUME IInv, CInv, Commit, Undisturbed, ~Dry
  PROVE  /\ rows' = (rows \ First) \ Second /\ Second = MaxPass(rows \ First)
         /\ total = Cardinality(rows)
         /\ deleted = Cardinality(First) + Cardinality(Second)
BY DEF CInv, Counted, Undisturbed, Commit, Second

(* The two passes do not take a row twice, so the counts add up.            *)
LEMMA CommitReports ==
  ASSUME IInv, CInv, Commit, Undisturbed, ~Dry
  PROVE  deleted = Cardinality(rows \ rows') /\ total - deleted = Cardinality(rows')
<1>1. /\ rows' = (rows \ First) \ Second /\ total = Cardinality(rows)
      /\ deleted = Cardinality(First) + Cardinality(Second)
  BY CommitExact
<1>2. First \cap Second = {}
  BY CommitExact DEF MaxPass
<1>3. rows \ rows' = First \cup Second /\ rows' = rows \ (First \cup Second)
      /\ rows \cap (First \cup Second) = First \cup Second
  BY <1>1, PassesAreFinite
<1>4. Cardinality(First \cup Second) = Cardinality(First) + Cardinality(Second)
  <2>1. Cardinality(First \cup Second)
          = Cardinality(First) + Cardinality(Second) - Cardinality(First \cap Second)
    BY PassesAreFinite, FS_Union
  <2>2. Cardinality(First \cap Second) = 0
    BY <1>2, FS_EmptySet
  <2>3. QED
    BY <2>1, <2>2, PassesAreFinite
<1>5. Cardinality(rows \ (First \cup Second)) = Cardinality(rows) - Cardinality(rows \cap (First \cup Second))
  BY FS_Difference DEF IInv, Table
<1>6. QED
  BY <1>1, <1>3, <1>4, <1>5

(* What a call leaves of the rows it may take.                              *)
LEMMA CommitBounds ==
  ASSUME IInv, CInv, Commit, Undisturbed, ~Dry
  PROVE  LET unprotected == {r \in rows' : ~Protected(r)}
         IN  /\ policy.max > 0 => Cardinality(unprotected) <= policy.max
             /\ policy.days > 0 => \A r \in unprotected : r.stamp = "recent"
<1> DEFINE left == rows \ First
           unprotected == {r \in rows' : ~Protected(r)}
<1>1. rows' = left \ MaxPass(left) /\ left \subseteq rows
  BY CommitExact
<1>2. policy.days \in Nat /\ policy.max \in Nat
  BY DEF IInv, Policy
<1>3. ASSUME policy.max > 0 PROVE Cardinality(unprotected) <= policy.max
  <2>1. IsFiniteSet(left)
    BY <1>1, FS_Subset DEF IInv, Table
  <2>2. (\A r \in left : r.id \in Nat) /\ \A r, s \in left : r.id = s.id => r = s
    BY <1>1 DEF IInv, Table, Rows, CInv, Ids
  <2>3. IsFiniteSet(Newest(policy.max, left)) /\ Cardinality(Newest(policy.max, left)) <= policy.max
    <3> HIDE DEF left
    <3> QED
      BY <1>2, <2>1, <2>2, NewestAreFew
  <2>4. unprotected \subseteq Newest(policy.max, left)
    <3>1. policy.max # 0
      BY <1>2, <1>3
    <3> HIDE DEF left
    <3>2. QED
      BY <1>1, <3>1 DEF MaxPass
  <2>5. IsFiniteSet(unprotected) /\ Cardinality(unprotected) <= Cardinality(Newest(policy.max, left))
    BY <2>3, <2>4, FS_Subset
  <2>6. Cardinality(unprotected) \in Nat /\ Cardinality(Newest(policy.max, left)) \in Nat
    BY <2>3, <2>5, FS_CardinalityType
  <2> HIDE DEF unprotected, left
  <2>7. QED
    BY <1>2, <2>3, <2>5, <2>6
<1>4. ASSUME policy.days > 0, NEW r \in unprotected PROVE r.stamp = "recent"
  <2>1. r \in rows /\ r \notin First /\ ~Protected(r)
    BY <1>1
  <2>2. r.stamp \in {"old", "recent"}
    BY <2>1 DEF IInv, Table, Rows
  <2>3. policy.days # 0
    BY <1>2, <1>4
  <2>4. QED
    BY <1>4, <2>1, <2>2, <2>3 DEF First, AgePass
<1>5. QED
  BY <1>3, <1>4

(* A dry second pass looks at the whole table and takes every row that the  *)
(* real one would take of what the first leaves.                            *)
LEMMA DrySecondTakesAll == ASSUME IInv, Dry PROVE MaxPass(rows \ First) \subseteq Second
<1> SUFFICES ASSUME NEW r \in MaxPass(rows \ First) PROVE r \in Second
  OBVIOUS
<1>1. policy.max # 0 /\ r \in rows \ First /\ r \notin Newest(policy.max, rows \ First) /\ ~Protected(r)
  BY DEF MaxPass
<1>2. policy.max \in Nat /\ IsFiniteSet(rows) /\ rows \ First \in SUBSET rows
  BY DEF IInv, Table, Policy
<1>3. r \notin Newest(policy.max, rows)
  BY <1>1, <1>2, NewestOfPart
<1>4. QED
  BY <1>1, <1>3 DEF Second, MaxPass

LEMMA DryPromises == IInv /\ CInv => DryRunIsSafe
<1> SUFFICES ASSUME IInv, CInv, Undisturbed, Dry PROVE deleted >= Cardinality(WouldGo)
  BY DEF DryRunIsSafe, Dry
<1> DEFINE gone == First \cup Second
<1>1. deleted = Cardinality(First) + Cardinality(Second)
  BY DEF CInv, Counted, Undisturbed
<1>2. WouldGo \subseteq gone
  BY DrySecondTakesAll DEF WouldGo, First
<1>3. /\ IsFiniteSet(gone)
      /\ Cardinality(gone) = Cardinality(First) + Cardinality(Second) - Cardinality(First \cap Second)
  BY PassesAreFinite, FS_Union
<1>4. Cardinality(First \cap Second) \in Nat
  BY PassesAreFinite, FS_Subset, FS_CardinalityType
<1>5. Cardinality(WouldGo) \in Nat /\ Cardinality(WouldGo) <= Cardinality(gone)
  <2>1. IsFiniteSet(WouldGo) /\ Cardinality(WouldGo) <= Cardinality(gone)
    <3> HIDE DEF gone
    <3> QED
      BY <1>2, <1>3, FS_Subset
  <2>2. QED
    BY <2>1, FS_CardinalityType
<1> HIDE DEF gone
<1>6. QED
  BY <1>1, <1>3, <1>4, <1>5, PassesAreFinite

LEMMA Invariant == Spec => [](IInv /\ CInv)
BY IInvInit, NumbersInit, IInvStep, CInvStep, PTL DEF Spec

(* A dry run announces at least what the call would delete, for any policy  *)
(* and any table it is not disturbed on.                                    *)
THEOREM DryRunsAreSafe == Spec => []DryRunIsSafe
BY Invariant, DryPromises, PTL

(* After a call that ends well the caps hold: what is left of the sensor's  *)
(* own rows is recent and no more than max.                                 *)
THEOREM TablesAreBounded == Spec => Bounded
<1>1. IInv /\ CInv /\ [Next]_vars =>
        [Commit /\ Undisturbed /\ policy.dry = "no" =>
           LET unprotected == {r \in rows' : ~Protected(r)}
           IN /\ policy.max > 0 => Cardinality(unprotected) <= policy.max
              /\ policy.days > 0 => \A r \in unprotected : r.stamp = "recent"]_vars
  BY CommitBounds DEF Dry
<1>2. QED
  BY <1>1, Invariant, PTL DEF Spec, Bounded

(* The counts prune returns and prints are those of the rows that went and  *)
(* of the rows that are left, though the two passes count separately.       *)
THEOREM ReportsAreTrue == Spec => ReportIsTrue
<1>1. IInv /\ CInv /\ [Next]_vars =>
        [Commit /\ Undisturbed /\ policy.dry = "no" =>
           /\ deleted = Cardinality(rows \ rows')
           /\ total - deleted = Cardinality(rows')]_vars
  BY CommitReports DEF Dry
<1>2. QED
  BY <1>1, Invariant, PTL DEF Spec, ReportIsTrue
=============================================================================
