-------------------------- MODULE Sessions_proofs --------------------------
(***************************************************************************)
(* What a session owns: a slot and the model (Sessions), and its files     *)
(* (ReplayFs), each for any values of its constants.                       *)
(*                                                                         *)
(* Admission and the model lock are two arguments that do not meet: the    *)
(* counter is the size of the set of counted connections, by one element   *)
(* more or less at a time; and the lock's holder is the thread in the      *)
(* model, because a job enters the pool once and leaves it before it runs. *)
(* The argument about the files is with them.                              *)
(***************************************************************************)
EXTENDS Sessions, ReplayFs, FiniteSetTheorems, TLAPS

(* A job is in the pool's queue exactly once, and only while it is queued. *)
PoolOfQueued ==
  /\ \A i \in 1..Len(pool) : job[pool[i]] = "queued"
  /\ \A i, j \in 1..Len(pool) : pool[i] = pool[j] => i = j

(* A coroutine that waits for nothing has nothing in the pool.             *)
RestingIsJobless ==
  \A s \in Shells : shell[s] \in {"none", "idle", "ended"} => job[s] = "none"

LockInv == PoolOfQueued /\ RestingIsJobless /\ OneAtTheModel

IInv == TypeOK /\ SlotsExact /\ LockInv

LEMMA IInvInit == Init => IInv
<1> SUFFICES ASSUME Init PROVE IInv
  OBVIOUS
<1> USE SessionsAssumption DEF Init
<1>1. TypeOK
  <2>1. << >> \in Seq(Shells)
    OBVIOUS
  <2>2. QED
    BY <2>1 DEF TypeOK
<1>2. Counted = {}
  BY DEF Counted
<1>3. SlotsExact
  BY <1>2, FS_EmptySet DEF SlotsExact
<1>4. LockInv
  BY DEF LockInv, PoolOfQueued, RestingIsJobless, OneAtTheModel
<1>5. QED
  BY <1>1, <1>3, <1>4 DEF IInv
-----------------------------------------------------------------------------
(* Admission.                                                              *)

LEMMA CountedFinite == IsFiniteSet(Counted)
<1>1. Counted \subseteq Conns
  BY DEF Counted
<1>2. QED
  BY <1>1, SessionsAssumption, FS_Subset

(* A connection that takes a slot makes the counted set one larger.        *)
LEMMA MadeStep ==
  ASSUME TypeOK, SlotsExact, NEW c \in Conns, ConnectionMade(c)
  PROVE  TypeOK' /\ SlotsExact'
<1>1. /\ Counted' = Counted \cup {c}
      /\ c \notin Counted
  BY DEF TypeOK, ConnectionMade, Counted
<1>2. Cardinality(Counted') = Cardinality(Counted) + 1
  BY <1>1, CountedFinite, FS_AddElement
<1>3. active' = Cardinality(Counted')
  BY <1>2 DEF SlotsExact, ConnectionMade
<1>4. MAX_SESSIONS # 0 => active' <= MAX_SESSIONS
  BY SessionsAssumption DEF ConnectionMade, TypeOK
<1>5. TypeOK'
  BY DEF TypeOK, ConnectionMade, shellVars
<1>6. QED
  BY <1>3, <1>4, <1>5 DEF SlotsExact

LEMMA RefusedStep ==
  ASSUME TypeOK, SlotsExact, NEW c \in Conns, ConnectionRefused(c)
  PROVE  TypeOK' /\ SlotsExact'
<1>1. Counted' = Counted
  BY DEF TypeOK, ConnectionRefused, Counted
<1>2. TypeOK'
  BY DEF TypeOK, ConnectionRefused, shellVars
<1>3. QED
  BY <1>1, <1>2 DEF SlotsExact, ConnectionRefused

(* A drop gives back what the connection took: one slot or none.           *)
LEMMA LostStep ==
  ASSUME TypeOK, SlotsExact, NEW c \in Conns, ConnectionLost(c)
  PROVE  TypeOK' /\ SlotsExact'
<1>1. CASE conn[c] = "counted"
  <2>1. /\ Counted' = Counted \ {c}
        /\ c \in Counted
    BY <1>1 DEF TypeOK, ConnectionLost, Counted
  <2>2. Cardinality(Counted') = Cardinality(Counted) - 1
    BY <2>1, CountedFinite, FS_RemoveElement
  <2>3. Cardinality(Counted) # 0
    BY <2>1, CountedFinite, FS_EmptySet
  <2>4. active > 0 /\ active \in Nat
    BY <2>3 DEF SlotsExact, TypeOK
  <2>5. active' = active - 1
    BY <1>1, <2>4 DEF ConnectionLost
  <2>6. active' = Cardinality(Counted') /\ active' \in Nat
    BY <2>2, <2>4, <2>5 DEF SlotsExact
  <2>7. MAX_SESSIONS # 0 => active' <= MAX_SESSIONS
    BY <2>4, <2>5, SessionsAssumption DEF SlotsExact
  <2>8. TypeOK'
    BY <2>6 DEF TypeOK, ConnectionLost, shellVars
  <2>9. QED
    BY <2>6, <2>7, <2>8 DEF SlotsExact
<1>2. CASE conn[c] = "refused"
  <2>1. Counted' = Counted /\ active' = active
    BY <1>2 DEF TypeOK, ConnectionLost, Counted
  <2>2. TypeOK'
    BY <2>1 DEF TypeOK, ConnectionLost, shellVars
  <2>3. QED
    BY <2>1, <2>2 DEF SlotsExact
<1>3. QED
  BY <1>1, <1>2 DEF ConnectionLost

(* The pool and the lock do not know about slots.                          *)
LEMMA SlotsElsewhere ==
  ASSUME SlotsExact, UNCHANGED <<conn, active>>
  PROVE  SlotsExact'
  BY DEF SlotsExact, Counted
-----------------------------------------------------------------------------
(* The pool and the lock.                                                  *)

LEMMA ConnKeepsLock ==
  ASSUME LockInv, UNCHANGED shellVars
  PROVE  LockInv'
  BY DEF LockInv, PoolOfQueued, RestingIsJobless, OneAtTheModel, shellVars

LEMMA SubmitStep ==
  ASSUME TypeOK, LockInv, NEW s \in Shells, NEW p \in {"building", "command"},
         shell[s] \in {"none", "idle"}, Submit(s, p),
         UNCHANGED <<conn, active, holder>>
  PROVE  TypeOK' /\ LockInv'
<1>1. job[s] = "none"
  BY DEF LockInv, RestingIsJobless
<1>2. \A i \in 1..Len(pool) : pool[i] # s
  BY <1>1 DEF LockInv, PoolOfQueued
<1>3. /\ Len(pool) \in Nat /\ Len(pool') = Len(pool) + 1
      /\ \A i \in 1..Len(pool) : pool'[i] = pool[i]
      /\ pool'[Len(pool) + 1] = s
      /\ pool' \in Seq(Shells)
      /\ \A i \in 1..Len(pool) : pool[i] \in Shells
  BY DEF TypeOK, Submit
<1>4. \A i \in 1..Len(pool') : i \in 1..Len(pool) \/ i = Len(pool) + 1
  BY <1>3
<1>5. job' = [job EXCEPT ![s] = "queued"] /\ job \in [Shells -> {"none",
        "queued", "handler", "wait", "generate"}]
  BY DEF TypeOK, Submit
<1>6. TypeOK'
  BY <1>3 DEF TypeOK, Submit
<1>7. PoolOfQueued'
  <2>1. \A i \in 1..Len(pool') : job'[pool'[i]] = "queued"
    BY <1>3, <1>4, <1>5 DEF LockInv, PoolOfQueued
  <2>2. \A i, j \in 1..Len(pool') : pool'[i] = pool'[j] => i = j
    BY <1>2, <1>3, <1>4 DEF LockInv, PoolOfQueued
  <2>3. QED
    BY <2>1, <2>2 DEF PoolOfQueued
<1>8. RestingIsJobless'
  BY DEF LockInv, RestingIsJobless, TypeOK, Submit
<1>9. OneAtTheModel'
  BY <1>1, <1>5 DEF LockInv, OneAtTheModel, TypeOK
<1>10. QED
  BY <1>6, <1>7, <1>8, <1>9 DEF LockInv

LEMMA StartJobStep ==
  ASSUME TypeOK, LockInv, StartJob
  PROVE  TypeOK' /\ LockInv'
<1> DEFINE s == Head(pool)
<1>1. /\ s \in Shells /\ s = pool[1] /\ 1 \in 1..Len(pool)
      /\ pool' \in Seq(Shells) /\ Len(pool') = Len(pool) - 1
      /\ Len(pool) \in Nat
      /\ \A i \in 1..Len(pool') : pool'[i] = pool[i + 1] /\ i + 1 \in 1..Len(pool)
  BY DEF TypeOK, StartJob
<1>2. /\ job' = [job EXCEPT ![s] = "handler"]
      /\ UNCHANGED <<conn, active, shell, holder, calls>>
  BY DEF StartJob
<1>3. job[s] = "queued"
  BY <1>1 DEF LockInv, PoolOfQueued
<1> HIDE DEF s
<1>4. TypeOK'
  BY <1>1, <1>2 DEF TypeOK
<1>5. PoolOfQueued'
  <2>1. \A i \in 1..Len(pool') : pool'[i] # s
    <3> SUFFICES ASSUME NEW i \in 1..Len(pool'), pool'[i] = s
                 PROVE  FALSE
      OBVIOUS
    <3>1. pool[i + 1] = pool[1] /\ i + 1 \in 1..Len(pool) /\ 1 \in 1..Len(pool)
      BY <1>1
    <3>2. i + 1 = 1
      BY <3>1 DEF LockInv, PoolOfQueued
    <3>3. Len(pool') \in Int
      BY <1>1
    <3>4. i \in Int /\ i >= 1
      BY <3>3
    <3>5. i + 1 # 1
      BY <3>4
    <3>6. QED
      BY <3>2, <3>5
  <2>2. \A i \in 1..Len(pool') : pool'[i] \in Shells
    BY <1>1
  <2>3. \A i \in 1..Len(pool') : job'[pool'[i]] = job[pool'[i]]
    BY <1>2, <2>1, <2>2 DEF TypeOK
  <2>4. \A i \in 1..Len(pool') : job'[pool'[i]] = "queued"
    BY <1>1, <2>3 DEF LockInv, PoolOfQueued
  <2>5. \A i, j \in 1..Len(pool') : pool'[i] = pool'[j] => i = j
    <3> SUFFICES ASSUME NEW i \in 1..Len(pool'), NEW j \in 1..Len(pool'),
                        pool'[i] = pool'[j]
                 PROVE  i = j
      OBVIOUS
    <3>1. /\ pool[i + 1] = pool[j + 1]
          /\ i + 1 \in 1..Len(pool) /\ j + 1 \in 1..Len(pool)
      BY <1>1
    <3>2. i + 1 = j + 1
      BY <3>1 DEF LockInv, PoolOfQueued
    <3>3. Len(pool') \in Int
      BY <1>1
    <3>4. i \in Int /\ j \in Int
      BY <3>3
    <3>5. QED
      BY <3>2, <3>4
  <2>6. QED
    BY <2>4, <2>5 DEF PoolOfQueued
<1>6. RestingIsJobless'
  BY <1>1, <1>2, <1>3 DEF LockInv, RestingIsJobless, TypeOK
<1>7. OneAtTheModel'
  BY <1>1, <1>2, <1>3 DEF LockInv, OneAtTheModel, TypeOK
<1>8. QED
  BY <1>4, <1>5, <1>6, <1>7 DEF LockInv

(* The steps of a thread leave the queue alone: its job is not in it.      *)
LEMMA ThreadStep ==
  ASSUME TypeOK, LockInv, NEW s \in Shells,
         job[s] \in {"handler", "wait", "generate"},
         NEW after \in {"none", "handler", "wait", "generate"},
         job' = [job EXCEPT ![s] = after],
         shell' = shell \/ shell' = [shell EXCEPT ![s] = "idle"],
         shell' # shell => after = "none",
         after = "none" => shell' = [shell EXCEPT ![s] = "idle"],
         after = "generate" <=> holder' = s,
         \A t \in Shells \ {s} : holder' = t <=> holder = t,
         UNCHANGED pool
  PROVE  LockInv'
<1>1. PoolOfQueued'
  <2>1. \A i \in 1..Len(pool) : pool[i] # s /\ pool[i] \in Shells
    BY DEF LockInv, PoolOfQueued, TypeOK
  <2>2. \A i \in 1..Len(pool) : job'[pool[i]] = job[pool[i]]
    BY <2>1 DEF TypeOK
  <2>3. QED
    BY <2>2 DEF LockInv, PoolOfQueued
<1>2. RestingIsJobless'
  BY DEF LockInv, RestingIsJobless, TypeOK
<1>3. OneAtTheModel'
  BY DEF LockInv, OneAtTheModel, TypeOK
<1>4. QED
  BY <1>1, <1>2, <1>3 DEF LockInv

LEMMA EndShellStep ==
  ASSUME TypeOK, LockInv, NEW s \in Shells, EndShell(s)
  PROVE  TypeOK' /\ LockInv'
  BY DEF TypeOK, LockInv, PoolOfQueued, RestingIsJobless, OneAtTheModel,
         EndShell

LEMMA HandlerSteps ==
  ASSUME TypeOK, LockInv, NEW s \in Shells,
         JobDone(s) \/ WantModel(s) \/ GiveUp(s) \/ Acquire(s) \/ Release(s)
  PROVE  TypeOK' /\ LockInv' /\ UNCHANGED <<conn, active>>
<1>0. OneAtTheModel
  BY DEF LockInv
<1>1. CASE JobDone(s)
  <2>1. TypeOK'
    BY <1>1 DEF TypeOK, JobDone
  <2>2. holder # s
    BY <1>0, <1>1 DEF OneAtTheModel, JobDone
  <2>3. LockInv'
    BY <1>1, <2>2, ThreadStep DEF JobDone
  <2>4. QED
    BY <1>1, <2>1, <2>3 DEF JobDone
<1>2. CASE WantModel(s)
  <2>1. TypeOK'
    BY <1>2 DEF TypeOK, WantModel
  <2>2. holder # s
    BY <1>0, <1>2 DEF OneAtTheModel, WantModel
  <2>3. LockInv'
    BY <1>2, <2>2, ThreadStep DEF WantModel
  <2>4. QED
    BY <1>2, <2>1, <2>3 DEF WantModel
<1>3. CASE GiveUp(s)
  <2>1. TypeOK'
    BY <1>3 DEF TypeOK, GiveUp
  <2>2. holder # s
    BY <1>0, <1>3 DEF OneAtTheModel, GiveUp
  <2>3. LockInv'
    BY <1>3, <2>2, ThreadStep DEF GiveUp
  <2>4. QED
    BY <1>3, <2>1, <2>3 DEF GiveUp
<1>4. CASE Acquire(s)
  <2>1. TypeOK'
    BY <1>4 DEF TypeOK, Acquire
  <2>2. \A t \in Shells \ {s} : holder' = t <=> holder = t
    BY <1>4, SessionsAssumption DEF Acquire
  <2>3. LockInv'
    BY <1>4, <2>2, ThreadStep DEF Acquire
  <2>4. QED
    BY <1>4, <2>1, <2>3 DEF Acquire
<1>5. CASE Release(s)
  <2>1. TypeOK'
    BY <1>5 DEF TypeOK, Release
  <2>2. holder = s
    BY <1>0, <1>5 DEF OneAtTheModel, Release
  <2>3. /\ holder' # s
        /\ \A t \in Shells \ {s} : holder' = t <=> holder = t
    BY <1>5, <2>2, SessionsAssumption DEF Release
  <2>4. LockInv'
    BY <1>5, <2>3, ThreadStep DEF Release
  <2>5. QED
    BY <1>5, <2>1, <2>4 DEF Release
<1>6. QED
  BY <1>1, <1>2, <1>3, <1>4, <1>5
-----------------------------------------------------------------------------
LEMMA IInvNext == IInv /\ [Next]_vars => IInv'
<1> SUFFICES ASSUME IInv, [Next]_vars PROVE IInv'
  OBVIOUS
<1>0. TypeOK /\ SlotsExact /\ LockInv
  BY DEF IInv
<1>1. ASSUME NEW c \in Conns,
             ConnectionMade(c) \/ ConnectionRefused(c) \/ ConnectionLost(c)
      PROVE  IInv'
  <2>1. TypeOK' /\ SlotsExact'
    BY <1>0, <1>1, MadeStep, RefusedStep, LostStep
  <2>2. UNCHANGED shellVars
    BY <1>1 DEF ConnectionMade, ConnectionRefused, ConnectionLost
  <2>3. QED
    BY <1>0, <2>1, <2>2, ConnKeepsLock DEF IInv
<1>2. ASSUME NEW s \in Shells, OpenShell(s) \/ Command(s) PROVE IInv'
  <2>1. /\ UNCHANGED <<conn, active, holder>>
        /\ shell[s] \in {"none", "idle"}
        /\ Submit(s, "building") \/ Submit(s, "command")
    BY <1>2 DEF OpenShell, Command
  <2>2. TypeOK' /\ LockInv'
    BY <1>0, <2>1, SubmitStep
  <2>3. QED
    BY <1>0, <2>1, <2>2, SlotsElsewhere DEF IInv
<1>3. ASSUME NEW s \in Shells, EndShell(s) PROVE IInv'
  <2>1. UNCHANGED <<conn, active>>
    BY <1>3 DEF EndShell
  <2>2. QED
    BY <1>0, <1>3, <2>1, EndShellStep, SlotsElsewhere DEF IInv
<1>4. ASSUME NEW s \in Shells,
             JobDone(s) \/ WantModel(s) \/ GiveUp(s) \/ Acquire(s) \/ Release(s)
      PROVE  IInv'
  BY <1>0, <1>4, HandlerSteps, SlotsElsewhere DEF IInv
<1>5. CASE StartJob
  <2>1. UNCHANGED <<conn, active>>
    BY <1>5 DEF StartJob
  <2>2. QED
    BY <1>0, <1>5, <2>1, StartJobStep, SlotsElsewhere DEF IInv
<1>6. CASE UNCHANGED vars
  <2>1. UNCHANGED shellVars /\ UNCHANGED <<conn, active>>
    BY <1>6 DEF vars, shellVars
  <2>2. TypeOK'
    BY <1>0, <1>6 DEF TypeOK, vars
  <2>3. QED
    BY <1>0, <2>1, <2>2, ConnKeepsLock, SlotsElsewhere DEF IInv
<1>7. QED
  BY <1>1, <1>2, <1>3, <1>4, <1>5, <1>6 DEF Next

LEMMA Invariance == Spec => []IInv
  BY IInvInit, IInvNext, PTL DEF Spec

(* Every variable of admission and of the lock keeps its type.             *)
THEOREM SessionsTypeCorrect == Spec => []TypeOK
<1>1. IInv => TypeOK
  BY DEF IInv
<1>2. QED
  BY <1>1, Invariance, PTL

(***************************************************************************)
(* connection_made and connection_lost: the counter is exactly the number  *)
(* of connections that hold a slot and never exceeds max_sessions.         *)
(***************************************************************************)
THEOREM NoSlotLeaks == Spec => []SlotsExact
<1>1. IInv => SlotsExact
  BY DEF IInv
<1>2. QED
  BY <1>1, Invariance, PTL

(***************************************************************************)
(* OnDeviceAgent._generate: the thread in the model is the lock's holder,  *)
(* so there is never a second one.                                         *)
(***************************************************************************)
THEOREM ModelExclusion == Spec => []OneAtTheModel
<1>1. IInv => OneAtTheModel
  BY DEF IInv, LockInv
<1>2. QED
  BY <1>1, Invariance, PTL

-----------------------------------------------------------------------------
(***************************************************************************)
(* The files of a session, and Cowrie's (ReplayFs): for any two trees, any *)
(* commands and a log of any length.  The argument is about pointers.  One *)
(* is due when the pass in hand will still replay it; whatever is logged   *)
(* and not due is on Cowrie as the tracker has it now, and a pass ends     *)
(* with nothing due.  That a replay of one path disturbs no other rests on *)
(* the shape of the trees, and that a value can be made where it belongs   *)
(* on the order of the log: a directory's pointer comes before those of    *)
(* what is in it.                                                          *)
(***************************************************************************)

(* A sequence of two parts holds what its parts hold.                      *)
LEMMA RangeOfConcat ==
  ASSUME NEW S, NEW s \in Seq(S), NEW t \in Seq(S)
  PROVE  /\ s \o t \in Seq(S) /\ Len(s \o t) = Len(s) + Len(t)
         /\ Range(s \o t) = Range(s) \cup Range(t)
<1>1. s \o t \in Seq(S) /\ Len(s \o t) = Len(s) + Len(t)
  OBVIOUS
<1>2. \A i \in 1..Len(s) : (s \o t)[i] = s[i]
  OBVIOUS
<1>3. \A i \in 1..Len(t) : (s \o t)[Len(s) + i] = t[i]
  OBVIOUS
<1>4. \A i \in 1..Len(s \o t) : (s \o t)[i] \in Range(s) \cup Range(t)
  <2>1. SUFFICES ASSUME NEW i \in 1..Len(s \o t) PROVE (s \o t)[i] \in Range(s) \cup Range(t)
    OBVIOUS
  <2>2. CASE i <= Len(s)
    BY <1>2, <2>2 DEF Range
  <2>3. CASE i > Len(s)
    <3>1. i - Len(s) \in 1..Len(t) /\ Len(s) + (i - Len(s)) = i
      BY <1>1, <2>3
    <3>2. (s \o t)[i] = t[i - Len(s)]
      BY <1>3, <3>1
    <3>3. QED
      BY <3>1, <3>2 DEF Range
  <2>4. QED
    BY <2>2, <2>3
<1>5. \A i \in 1..Len(s) : i \in 1..Len(s \o t)
  BY <1>1
<1>6. \A i \in 1..Len(t) : Len(s) + i \in 1..Len(s \o t)
  BY <1>1
<1>7. Range(s \o t) \subseteq Range(s) \cup Range(t)
  BY <1>1, <1>4 DEF Range
<1>8. ASSUME NEW x \in Range(s) PROVE x \in Range(s \o t)
  <2>1. PICK i \in 1..Len(s) : s[i] = x
    BY DEF Range
  <2>2. QED
    BY <1>1, <1>2, <1>5, <2>1 DEF Range
<1>9. ASSUME NEW x \in Range(t) PROVE x \in Range(s \o t)
  <2>1. PICK i \in 1..Len(t) : t[i] = x
    BY DEF Range
  <2>2. Len(s) + i \in 1..Len(s \o t) /\ (s \o t)[Len(s) + i] = x
    BY <1>3, <1>6, <2>1
  <2>3. QED
    BY <1>1, <2>2 DEF Range
<1>10. QED
  BY <1>1, <1>7, <1>8, <1>9

Logged(p) == \E i \in 1..version : log[i].path = p

Pairs == [path : Paths \cup {"cwd"}, ran : {"local", "cowrie"}]

ReplayTyped ==
  /\ files \in [Paths -> Entry] /\ cwd \in Paths /\ log \in Seq(Pairs)
  /\ cowrie \in [tree : [Paths -> Entry], cwd : Paths]
  /\ ckpt \in 0..version /\ synced \in BOOLEAN /\ steady \in BOOLEAN
  /\ pass \in {"idle", "replay", "rebuild"} /\ escaped \subseteq Paths \cup {"cwd"}

-----------------------------------------------------------------------------
(* The pointers of a set of paths are exactly its paths.                   *)
LEMMA SeqOfSet ==
  ASSUME NEW S, IsFiniteSet(S)
  PROVE  SetToSeq(S) \in Seq(S) /\ Range(SetToSeq(S)) = S
<1> DEFINE n == Cardinality(S)
           f == SetToSeq(S)
<1>1. n \in Nat /\ ExistsBijection(1..n, S)
  BY FS_CardinalityType
<1>2. \E g \in [1..n -> S] : IsInjective(g)
  BY <1>1 DEF ExistsBijection, Bijection, Injection
<1>3. f \in [1..n -> S] /\ IsInjective(f)
  BY <1>2 DEF SetToSeq
<1>4. f \in Seq(S)
  BY <1>1, <1>3
<1>5. f \in Surjection(1..n, S)
  <2>1. IsFiniteSet(1..n) /\ Cardinality(1..n) = n
    BY <1>1, FS_Interval
  <2>2. f \in Injection(1..n, S)
    BY <1>3 DEF Injection
  <2>3. QED
    BY <2>1, <2>2, FS_Injection
<1>6. Range(f) = S
  BY <1>5 DEF Surjection, Range
<1>7. QED
  BY <1>4, <1>6

Real == [kind : {"dir", "file"}, text : Texts, mode : {"644", "755"},
         backend : {"ours", "cowrie"}]

(* What tells an entry that is there from none.                            *)
LEMMA EntryFacts ==
  /\ Entry = Real \cup {None} /\ Dir \in Real
  /\ None.kind = "none" /\ Dir.kind = "dir"
  /\ \A e \in Entry : e # None <=> e \in Real
  /\ \A e \in Entry : e = None <=> e.kind = "none"
  /\ \A text \in Texts, b \in {"ours", "cowrie"} :
       /\ File(text, b) \in Real /\ File(text, b).kind = "file" /\ File(text, b).text = text
       /\ File(text, b).mode = "644" /\ File(text, b).backend = b
<1>1. Entry = Real \cup {None} /\ None.kind = "none" /\ Dir.kind = "dir"
  BY DEF Entry, Real, None, Dir
<1>2. Dir \in Real
  BY DEF Real, Dir, Texts
<1>3. \A e \in Real : e.kind # "none"
  BY DEF Real
<1>4. \A e \in Real : e # None
  BY <1>1, <1>3
<1>5. \A text \in Texts, b \in {"ours", "cowrie"} :
       /\ File(text, b) \in Real /\ File(text, b).kind = "file" /\ File(text, b).text = text
       /\ File(text, b).mode = "644" /\ File(text, b).backend = b
  BY DEF File, Real
<1>6. QED
  BY <1>1, <1>2, <1>3, <1>4, <1>5

LEMMA LogEntry ==
  ASSUME ReplayTyped, NEW i \in 1..version
  PROVE  log[i] \in Pairs /\ log[i].path \in Paths \cup {"cwd"} /\ log[i].ran \in {"local", "cowrie"}
<1>1. log[i] \in Pairs
  BY DEF ReplayTyped, version
<1>2. QED
  BY <1>1 DEF Pairs
-----------------------------------------------------------------------------
(* What Cowrie's commands do to a shell. *)
CowrieShells == [tree : [Paths -> Entry], cwd : Paths]
Puts == {"touch", "write", "append", "wget"}
Cmds == [kind : {"cd", "touch", "mkdir", "rm", "rm -rf"}, path : Paths]
        \cup [kind : {"write", "append", "wget"}, path : Paths, text : Texts]
        \cup [kind : {"chmod", "chmod dir"}, path : Paths, mode : {"644", "755"}]
        \cup [kind : {"mv"}, path : Paths, to : Paths]

LEMMA CmdFacts ==
  ASSUME NEW c \in Cmds
  PROVE  /\ c.kind \in AllKinds /\ c.path \in Paths
         /\ c.kind \in {"write", "append", "wget"} => c.text \in Texts
         /\ c.kind \in {"chmod", "chmod dir"} => c.mode \in {"644", "755"}
         /\ c.kind = "mv" => c.to \in Paths
BY DEF Cmds, AllKinds

LEMMA ShellFacts ==
  ASSUME NEW fs \in CowrieShells
  PROVE  /\ fs.tree \in [Paths -> Entry] /\ fs.cwd \in Paths
         /\ \A tree \in [Paths -> Entry] :
              /\ WithTree(fs, tree) \in CowrieShells
              /\ WithTree(fs, tree).tree = tree /\ WithTree(fs, tree).cwd = fs.cwd
BY DEF CowrieShells, WithTree

(* Only the entries of a command's own paths change. *)
LEMMA ExecCd ==
  ASSUME NEW fs \in CowrieShells, NEW c \in Cmds, c.kind = "cd"
  PROVE  /\ Exec(fs, c) \in CowrieShells /\ Exec(fs, c).tree = fs.tree
         /\ Exec(fs, c).cwd = IF IsDir(fs.tree, c.path) THEN c.path ELSE fs.cwd
<1>1. Exec(fs, c) = IF IsDir(fs.tree, c.path) THEN [fs EXCEPT !.cwd = c.path] ELSE fs
  BY DEF Exec
<1>2. [fs EXCEPT !.cwd = c.path] \in CowrieShells
  BY CmdFacts DEF CowrieShells
<1>3. [fs EXCEPT !.cwd = c.path].tree = fs.tree /\ [fs EXCEPT !.cwd = c.path].cwd = c.path
  BY DEF CowrieShells
<1>4. QED
  BY <1>1, <1>2, <1>3

Written(t, c) ==
  LET old == IF IsFile(t, c.path) THEN t[c.path] ELSE File({}, "ours")
  IN  [old EXCEPT !.text = CASE c.kind = "touch"  -> old.text
                             [] c.kind = "append" -> old.text \cup c.text
                             [] OTHER             -> c.text]

LEMMA WrittenFacts ==
  ASSUME NEW t \in [Paths -> Entry], NEW c \in Cmds, c.kind \in Puts, ~IsDir(t, c.path)
  PROVE  /\ Written(t, c) \in Real /\ Written(t, c).kind = "file"
         /\ Written(t, c).mode = IF IsFile(t, c.path) THEN t[c.path].mode ELSE "644"
         /\ c.kind \in {"write", "wget"} => Written(t, c).text = c.text
<1> DEFINE old == IF IsFile(t, c.path) THEN t[c.path] ELSE File({}, "ours")
           text == CASE c.kind = "touch"  -> old.text
                     [] c.kind = "append" -> old.text \cup c.text
                     [] OTHER             -> c.text
<1>0. c.path \in Paths /\ (c.kind \in {"write", "append", "wget"} => c.text \in Texts)
  BY CmdFacts
<1>1. {} \in Texts
  BY DEF Texts
<1>2. old \in Real /\ old.kind = "file" /\ old.mode = IF IsFile(t, c.path) THEN t[c.path].mode ELSE "644"
  <2>1. CASE IsFile(t, c.path)
    <3>1. t[c.path] \in Entry /\ t[c.path].kind = "file"
      BY <1>0, <2>1 DEF IsFile
    <3>2. t[c.path] \in Real
      BY <3>1, EntryFacts
    <3>3. QED
      BY <2>1, <3>1, <3>2
  <2>2. CASE ~IsFile(t, c.path)
    BY <1>1, <2>2, EntryFacts
  <2>3. QED
    BY <2>1, <2>2
<1> HIDE DEF old
<1>3. text \in Texts /\ (c.kind \in {"write", "wget"} => text = c.text)
  <2>1. old.text \in Texts
    BY <1>2 DEF Real
  <2>2. CASE c.kind = "touch"
    BY <2>1, <2>2
  <2>3. CASE c.kind = "append"
    BY <1>0, <2>1, <2>3 DEF Texts
  <2>4. CASE c.kind \in {"write", "wget"}
    BY <1>0, <2>4
  <2>5. QED
    BY <2>2, <2>3, <2>4 DEF Puts
<1> HIDE DEF text
<1>4. Written(t, c) = [old EXCEPT !.text = text]
  BY DEF Written, old, text
<1>5. QED
  BY <1>2, <1>3, <1>4 DEF Real

LEMMA ExecPut ==
  ASSUME NEW fs \in CowrieShells, NEW c \in Cmds, c.kind \in Puts
  PROVE  LET t == fs.tree IN
         /\ Exec(fs, c) \in CowrieShells /\ Exec(fs, c).cwd = fs.cwd
         /\ Exec(fs, c).tree = IF ~IsDir(t, Parent[c.path]) \/ IsDir(t, c.path) THEN t
                               ELSE [t EXCEPT ![c.path] = Written(t, c)]
<1> DEFINE t == fs.tree
<1>1. Exec(fs, c) = IF ~IsDir(t, Parent[c.path]) \/ IsDir(t, c.path) THEN fs
                    ELSE WithTree(fs, [t EXCEPT ![c.path] = Written(t, c)])
  BY DEF Exec, Puts, Written
<1>2. t \in [Paths -> Entry]
  BY ShellFacts
<1>3. CASE ~IsDir(t, Parent[c.path]) \/ IsDir(t, c.path)
  BY <1>1, <1>3
<1>4. CASE ~(~IsDir(t, Parent[c.path]) \/ IsDir(t, c.path))
  <2>1. Written(t, c) \in Entry
    BY <1>2, <1>4, WrittenFacts, EntryFacts
  <2>2. [t EXCEPT ![c.path] = Written(t, c)] \in [Paths -> Entry]
    BY <1>2, <2>1
  <2>3. QED
    BY <1>1, <1>4, <2>2, ShellFacts
<1>5. QED
  BY <1>3, <1>4

LEMMA ExecMkdir ==
  ASSUME NEW fs \in CowrieShells, NEW c \in Cmds, c.kind = "mkdir"
  PROVE  LET t == fs.tree IN
         /\ Exec(fs, c) \in CowrieShells /\ Exec(fs, c).cwd = fs.cwd
         /\ Exec(fs, c).tree =
              IF IsFile(t, c.path) \/ (Parent[c.path] # "/" /\ IsFile(t, Parent[c.path])) THEN t
              ELSE [q \in Paths |-> IF q \in {c.path, Parent[c.path]} /\ t[q] = None
                                    THEN Dir ELSE t[q]]
<1> DEFINE t == fs.tree
           made == [q \in Paths |-> IF q \in {c.path, Parent[c.path]} /\ t[q] = None
                                    THEN Dir ELSE t[q]]
<1>1. Exec(fs, c) = IF IsFile(t, c.path) \/ (Parent[c.path] # "/" /\ IsFile(t, Parent[c.path]))
                    THEN fs ELSE WithTree(fs, made)
  BY DEF Exec
<1>2. t \in [Paths -> Entry]
  BY ShellFacts
<1>3. made \in [Paths -> Entry]
  BY <1>2, EntryFacts
<1> HIDE DEF made
<1>4. QED
  BY <1>1, <1>3, ShellFacts DEF made

LEMMA ExecChmod ==
  ASSUME NEW fs \in CowrieShells, NEW c \in Cmds, c.kind \in {"chmod", "chmod dir"}
  PROVE  LET t == fs.tree IN
         /\ Exec(fs, c) \in CowrieShells /\ Exec(fs, c).cwd = fs.cwd
         /\ Exec(fs, c).tree = IF t[c.path] = None THEN t
                               ELSE [t EXCEPT ![c.path] = [t[c.path] EXCEPT !.mode = c.mode]]
<1> DEFINE t == fs.tree
           new == [t[c.path] EXCEPT !.mode = c.mode]
<1>1. Exec(fs, c) = IF t[c.path] = None THEN fs ELSE WithTree(fs, [t EXCEPT ![c.path] = new])
  BY DEF Exec
<1>2. t \in [Paths -> Entry] /\ c.path \in Paths /\ c.mode \in {"644", "755"}
  BY ShellFacts, CmdFacts
<1>3. ASSUME t[c.path] # None PROVE new \in Entry
  <2>1. t[c.path] \in Real
    BY <1>2, <1>3, EntryFacts
  <2>2. new \in Real
    BY <1>2, <2>1 DEF Real
  <2>3. QED
    BY <2>2, EntryFacts
<1> HIDE DEF new
<1>4. t[c.path] # None => [t EXCEPT ![c.path] = new] \in [Paths -> Entry]
  BY <1>2, <1>3
<1>5. CASE t[c.path] = None
  BY <1>1, <1>5
<1>6. CASE t[c.path] # None
  <2>1. Exec(fs, c) = WithTree(fs, [t EXCEPT ![c.path] = new])
    BY <1>1, <1>6
  <2>2. [t EXCEPT ![c.path] = new] \in [Paths -> Entry]
    BY <1>4, <1>6
  <2> DEFINE after == [t EXCEPT ![c.path] = new]
  <2> HIDE DEF after
  <2>3. Exec(fs, c) \in CowrieShells /\ Exec(fs, c).cwd = fs.cwd /\ Exec(fs, c).tree = after
    BY <2>1, <2>2 DEF after, WithTree, CowrieShells
  <2>4. QED
    BY <1>6, <2>3 DEF after, new
<1>7. QED
  BY <1>5, <1>6

LEMMA ExecRm ==
  ASSUME NEW fs \in CowrieShells, NEW c \in Cmds, c.kind = "rm"
  PROVE  LET t == fs.tree IN
         /\ Exec(fs, c) \in CowrieShells /\ Exec(fs, c).cwd = fs.cwd
         /\ Exec(fs, c).tree = IF IsFile(t, c.path) THEN [t EXCEPT ![c.path] = None] ELSE t
<1> DEFINE t == fs.tree
<1>1. Exec(fs, c) = IF IsFile(t, c.path) THEN WithTree(fs, [t EXCEPT ![c.path] = None]) ELSE fs
  BY DEF Exec
<1>2. t \in [Paths -> Entry] /\ [t EXCEPT ![c.path] = None] \in [Paths -> Entry]
  BY ShellFacts, EntryFacts
<1>3. QED
  BY <1>1, <1>2, ShellFacts

LEMMA ExecRmRf ==
  ASSUME NEW fs \in CowrieShells, NEW c \in Cmds, c.kind = "rm -rf"
  PROVE  LET t == fs.tree IN
         /\ Exec(fs, c) \in CowrieShells /\ Exec(fs, c).cwd = fs.cwd
         /\ Exec(fs, c).tree = [q \in Paths |-> IF q = c.path \/ Parent[q] = c.path
                                                THEN None ELSE t[q]]
<1> DEFINE t == fs.tree
           cut == [q \in Paths |-> IF q = c.path \/ Parent[q] = c.path THEN None ELSE t[q]]
<1>1. cut = [q \in Paths |-> IF q \in Below(t, c.path) THEN None ELSE t[q]]
  BY DEF Below
<1>2. Exec(fs, c) = WithTree(fs, cut)
  BY <1>1 DEF Exec
<1>3. t \in [Paths -> Entry] /\ None \in Entry
  BY ShellFacts, EntryFacts
<1>4. cut \in [Paths -> Entry]
  BY <1>3
<1>5. Exec(fs, c) \in CowrieShells /\ Exec(fs, c).cwd = fs.cwd /\ Exec(fs, c).tree = cut
  <2> HIDE DEF cut
  <2> QED
    BY <1>2, <1>4 DEF WithTree, CowrieShells
<1>6. QED
  BY <1>5

LEMMA ExecMv ==
  ASSUME NEW fs \in CowrieShells, NEW c \in Cmds, c.kind = "mv"
  PROVE  LET t == fs.tree IN
         /\ Exec(fs, c) \in CowrieShells /\ Exec(fs, c).cwd = fs.cwd
         /\ Exec(fs, c).tree =
              IF ~IsFile(t, c.path) \/ IsDir(t, c.to) \/ ~IsDir(t, Parent[c.to]) THEN t
              ELSE [t EXCEPT ![c.to] = t[c.path], ![c.path] = None]
<1> DEFINE t == fs.tree
           new == [t EXCEPT ![c.to] = t[c.path], ![c.path] = None]
<1>1. Exec(fs, c) = IF ~IsFile(t, c.path) \/ IsDir(t, c.to) \/ ~IsDir(t, Parent[c.to]) THEN fs
                    ELSE WithTree(fs, new)
  BY DEF Exec
<1>2. t \in [Paths -> Entry] /\ c.path \in Paths /\ c.to \in Paths
  BY ShellFacts, CmdFacts
<1>3. new \in [Paths -> Entry]
  BY <1>2, EntryFacts
<1> HIDE DEF new
<1>4. QED
  BY <1>1, <1>3, ShellFacts DEF new
(* A path in a directory that was there first: Cowrie's, or the session's. *)
Roots == {"/"} \cup CowrieDirs
HasParent(p) == Parent[p] \in Roots \/ (Parent[p] \in Paths /\ files[Parent[p]] = Dir)

(* What the session tracks was logged, lies in a directory, and is either  *)
(* a directory it made or a file.                                          *)
FilesInv == \A p \in Paths : files[p] # None =>
  /\ Logged(p) /\ HasParent(p)
  /\ \/ files[p] = Dir /\ p \in DirNames \ (CowrieDirs \cup CowrieFiles)
     \/ files[p].kind = "file" /\ p \in FileNames \ CowrieDirs

(* A directory is logged before what is in it, and only files are Cowrie's *)
(* to run.                                                                 *)
LogInv == \A i \in 1..version :
  /\ log[i].ran = "cowrie" => log[i].path \in FileNames
  /\ log[i].path # "cwd" =>
       /\ log[i].path \in FileNames \ CowrieDirs \/ files[log[i].path] = Dir
       /\ \/ Parent[log[i].path] \in Roots
          \/ \E j \in 1..i-1 : log[j].path = Parent[log[i].path] /\ files[log[j].path] = Dir

(* The working directory was made before the cd into it was logged.        *)
CwdInv == \/ cwd \in KnownDirs
          \/ /\ files[cwd] = Dir
             /\ \E i \in 1..version : log[i].path = "cwd" /\ \E j \in 1..i-1 : log[j].path = cwd

(* Cowrie's tree has no directory and no file where the other belongs, and *)
(* is Cowrie's own where the session changed nothing.                      *)
TreeOK(t) ==
  /\ \A p \in CowrieDirs : t[p].kind = "dir"
  /\ \A p \in Paths : t[p].kind = "dir" => p \in CowrieDirs \/ files[p] = Dir
  /\ \A p \in Paths : t[p].kind = "file" => p \in (FileNames \cup CowrieFiles) \ CowrieDirs
  /\ \A p \in Paths : p \notin escaped /\ ~Logged(p) => t[p] = FreshShell.tree[p]
TreeInv == TreeOK(cowrie.tree)

PassInv == pass # "idle" => (synced <=> pass = "replay" /\ steady)

(* The shell is one the checkpoint speaks of: synced, or being rebuilt.    *)
Following == synced \/ (pass = "rebuild" /\ steady)
Due(p) == \E i \in ckpt+1..version : log[i].path = p /\ (synced => log[i].ran = "local")

Same(there, here) ==
  /\ Presence(there) = Presence(here)
  /\ here # None /\ here.backend = "ours" /\ here.text # {} => there.text = here.text
Matches(p) == Same(cowrie.tree[p], files[p])

(* The directories up to the checkpoint stand.                             *)
Made == \A i \in 1..ckpt :
  log[i].path # "cwd" /\ files[log[i].path] = Dir => cowrie.tree[log[i].path].kind = "dir"

Follows == Following =>
  /\ Made
  /\ \A p \in Paths \ escaped : Logged(p) /\ ~Due(p) => Matches(p)
  /\ "cwd" \notin escaped /\ ~Due("cwd") => cowrie.cwd = cwd

TrackerInv == FilesInv /\ LogInv /\ CwdInv
ReplayInv == ReplayTyped /\ TrackerInv /\ TreeInv /\ PassInv /\ Follows
-----------------------------------------------------------------------------
(* What the tracker makes of a command. *)
LEMMA UsedFacts ==
  ASSUME NEW c \in UsedCommands
  PROVE  /\ c \in Cmds /\ c.kind \in Kinds
         /\ c.kind = "cd" => SeenDir(c.path)
         /\ c.kind \in Puts => CanHold(c.path)
         /\ c.kind = "wget" => ~SeenFile(c.path)
         /\ c.kind = "mkdir" => /\ c.path \in DirNames /\ SeenDir(Parent[c.path])
                                /\ ~SeenDir(c.path) /\ ~SeenFile(c.path)
         /\ c.kind \in {"chmod", "rm", "rm -rf", "mv"} => SeenFile(c.path)
         /\ c.kind = "mv" => c.to # c.path /\ CanHold(c.to)
<1>1. c \in Commands /\ c.kind \in Kinds
  BY DEF UsedCommands
<1>2. CASE c \in [kind : {"cd"}, path : Paths] /\ SeenDir(c.path)
  BY <1>1, <1>2 DEF Cmds, Puts
<1>3. CASE c \in [kind : {"touch"}, path : Paths] /\ CanHold(c.path)
  BY <1>1, <1>3 DEF Cmds, Puts
<1>4. CASE c \in [kind : {"write", "append"}, path : Paths, text : {{w} : w \in Words}] /\ CanHold(c.path)
  <2>1. c.text \in Texts
    BY <1>4 DEF Texts
  <2>2. c \in [kind : {"write", "append", "wget"}, path : Paths, text : Texts]
    BY <1>4, <2>1
  <2>3. c.kind \in {"write", "append"}
    BY <1>4
  <2>4. QED
    BY <1>1, <1>4, <2>2, <2>3 DEF Cmds, Puts
<1>5. CASE c \in [kind : {"wget"}, path : Paths, text : {{Bytes}}] /\ CanHold(c.path) /\ ~SeenFile(c.path)
  <2>1. c.text \in Texts
    BY <1>5 DEF Texts
  <2>2. c \in [kind : {"write", "append", "wget"}, path : Paths, text : Texts]
    BY <1>5, <2>1
  <2>3. c.kind = "wget"
    BY <1>5
  <2>4. QED
    BY <1>1, <1>5, <2>2, <2>3 DEF Cmds, Puts
<1>6. CASE c \in [kind : {"mkdir"}, path : DirNames] /\ SeenDir(Parent[c.path]) /\ ~SeenDir(c.path) /\ ~SeenFile(c.path)
  BY <1>1, <1>6, ReplayFsAssumption DEF Cmds, Puts
<1>7. CASE c \in [kind : {"chmod"}, path : Paths, mode : {"644", "755"}] /\ SeenFile(c.path)
  BY <1>1, <1>7 DEF Cmds, Puts
<1>8. CASE c \in [kind : {"chmod dir"}, path : Paths, mode : {"755"}] /\ SeenDir(c.path)
  BY <1>1, <1>8 DEF Cmds, Puts
<1>9. CASE c \in [kind : {"rm", "rm -rf"}, path : Paths] /\ SeenFile(c.path)
  BY <1>1, <1>9 DEF Cmds, Puts
<1>10. CASE c \in [kind : {"mv"}, path : Paths, to : Paths] /\ SeenFile(c.path) /\ c.to # c.path /\ CanHold(c.to)
  BY <1>1, <1>10 DEF Cmds, Puts
<1>11. QED
  BY <1>1, <1>2, <1>3, <1>4, <1>5, <1>6, <1>7, <1>8, <1>9, <1>10 DEF Commands

LEMMA Seen ==
  ASSUME ReplayTyped, FilesInv, NEW p \in Paths
  PROVE  /\ p # "/"
         /\ SeenDir(p) <=> files[p] = Dir \/ p \in CowrieDirs
         /\ SeenFile(p) => \/ files[p].kind = "file" /\ p \in FileNames \ CowrieDirs
                           \/ files[p] = None /\ p \in CowrieFiles
         /\ SeenDir(Parent[p]) => HasParent(p)
         /\ ~SeenDir(p) /\ ~SeenFile(p) => files[p] = None /\ p \notin CowrieFiles
         /\ CanHold(p) => p \in FileNames \ CowrieDirs /\ files[p] # Dir /\ HasParent(p)
<1>1. files[p] \in Entry /\ p # "/" /\ Parent[p] \in Paths \cup {"/"}
  BY ReplayFsAssumption DEF ReplayTyped
<1>2. \A q \in Paths : files[q].kind = "dir" <=> files[q] = Dir
  <2> SUFFICES ASSUME NEW q \in Paths PROVE files[q].kind = "dir" <=> files[q] = Dir
    OBVIOUS
  <2>1. files[q] = Dir => files[q].kind = "dir"
    BY EntryFacts
  <2>2. files[q].kind = "dir" => files[q] # None
    BY EntryFacts
  <2>3. QED
    BY <2>1, <2>2 DEF FilesInv
<1>3. SeenDir(p) <=> files[p] = Dir \/ p \in CowrieDirs
  BY <1>1, <1>2 DEF SeenDir
<1>4. files[p].kind = "file" => p \in FileNames \ CowrieDirs
  BY EntryFacts DEF FilesInv
<1>5. SeenDir(Parent[p]) => HasParent(p)
  BY <1>1, <1>2, ReplayFsAssumption DEF SeenDir, HasParent, Roots
<1>6. ~SeenDir(p) /\ ~SeenFile(p) => files[p] = None /\ p \notin CowrieFiles
  <2> SUFFICES ASSUME ~SeenDir(p), ~SeenFile(p) PROVE files[p] = None /\ p \notin CowrieFiles
    OBVIOUS
  <2>1. files[p] # Dir /\ files[p].kind # "file"
    BY <1>3 DEF SeenFile
  <2>2. files[p] = None
    BY <2>1 DEF FilesInv
  <2>3. QED
    BY <2>2 DEF SeenFile
<1>7. CanHold(p) => p \in FileNames \ CowrieDirs /\ files[p] # Dir /\ HasParent(p)
  BY <1>3, <1>5 DEF CanHold
<1>8. QED
  BY <1>1, <1>3, <1>4, <1>5, <1>6, <1>7 DEF SeenFile

(* A command turns no directory into anything else; what it changes is a directory it makes, or a file. *)
Grows(p, e) ==
  \/ files[p] = None /\ e = Dir /\ p \in DirNames \ (CowrieDirs \cup CowrieFiles) /\ HasParent(p)
  \/ /\ p \in FileNames \ CowrieDirs /\ files[p] # Dir /\ HasParent(p)
     /\ e = None \/ e.kind = "file"

LEMMA TrackedGrows ==
  ASSUME ReplayTyped, NEW p \in Paths, NEW e \in Entry, Grows(p, e)
  PROVE  /\ Tracked(p, e) \in [Paths -> Entry]
         /\ \A q \in Paths : Tracked(p, e)[q] # files[q] => Grows(q, Tracked(p, e)[q])
         /\ \A q \in Paths \ {p} : Tracked(p, e)[q] = files[q]
         /\ Tracked(p, e)[p] = e
BY DEF Tracked, ReplayTyped

LEMMA FilesAfterFacts ==
  ASSUME ReplayTyped, FilesInv, NamesApart, NEW c \in UsedCommands
  PROVE  /\ FilesAfter(c) \in [Paths -> Entry]
         /\ \A p \in Paths : FilesAfter(c)[p] # files[p] => Grows(p, FilesAfter(c)[p])
         /\ c.kind = "mkdir" => FilesAfter(c)[c.path] = Dir
         /\ c.kind = "wget" =>
              /\ files[c.path] = None /\ FilesAfter(c)[c.path] = File({Placeholder}, "cowrie")
              /\ \A p \in Paths \ {c.path} : FilesAfter(c)[p] = files[p]
<1> DEFINE p == c.path
           old == files[p]
<1>1. c \in Cmds /\ p \in Paths /\ old \in Entry /\ files \in [Paths -> Entry] /\ c.kind \in AllKinds
  BY UsedFacts, CmdFacts DEF ReplayTyped
<1>0. c.kind # "chmod dir"
  BY UsedFacts DEF NamesApart
<1> HIDE DEF p
<1>2. CASE c.kind = "touch"
  <2>1. FilesAfter(c) = IF old = None THEN Tracked(p, File({}, "ours")) ELSE files
    BY <1>2 DEF FilesAfter, p
  <2>2. File({}, "ours") \in Entry /\ File({}, "ours").kind = "file"
    BY EntryFacts DEF Texts
  <2>3. Grows(p, File({}, "ours"))
    BY <1>1, <1>2, <2>2, UsedFacts, Seen DEF Grows, Puts, p
  <2>4. QED
    BY <1>1, <1>2, <2>1, <2>2, <2>3, TrackedGrows
<1>3. CASE c.kind \in {"write", "append"}
  <2> DEFINE kept == IF c.kind = "append" /\ old # None THEN old.text ELSE {}
             mode == IF old = None THEN "644" ELSE old.mode
             e == [File(kept \cup c.text, "ours") EXCEPT !.mode = mode]
  <2>1. FilesAfter(c) = Tracked(p, e)
    BY <1>3 DEF FilesAfter, p
  <2>2. old # None => old.text \in Texts /\ old.mode \in {"644", "755"}
    BY <1>1, EntryFacts DEF Real
  <2>3. kept \cup c.text \in Texts /\ mode \in {"644", "755"}
    BY <1>1, <1>3, <2>2, CmdFacts DEF Texts
  <2>4. File(kept \cup c.text, "ours") \in Real /\ File(kept \cup c.text, "ours").kind = "file"
    BY <2>3, EntryFacts
  <2> HIDE DEF mode, kept
  <2>5. e \in Real /\ e.kind = "file"
    BY <2>3, <2>4 DEF Real
  <2> HIDE DEF e
  <2>6. Grows(p, e)
    BY <1>1, <1>3, <2>5, UsedFacts, Seen DEF Grows, Puts, p
  <2>7. QED
    BY <1>1, <1>3, <2>1, <2>5, <2>6, TrackedGrows, EntryFacts
<1>4. CASE c.kind = "wget"
  <2> DEFINE e == File({Placeholder}, "cowrie")
  <2>1. FilesAfter(c) = Tracked(p, e)
    BY <1>4 DEF FilesAfter, p
  <2>2. e \in Entry /\ e.kind = "file"
    BY EntryFacts DEF Texts
  <2> HIDE DEF e
  <2>3. Grows(p, e)
    BY <1>1, <1>4, <2>2, UsedFacts, Seen DEF Grows, Puts, p
  <2>4. files[p] = None
    BY <1>1, <1>4, UsedFacts, Seen DEF Puts, CanHold, p
  <2>5. /\ FilesAfter(c) \in [Paths -> Entry] /\ FilesAfter(c)[p] = e
        /\ \A q \in Paths : FilesAfter(c)[q] # files[q] => Grows(q, FilesAfter(c)[q])
        /\ \A q \in Paths \ {p} : FilesAfter(c)[q] = files[q]
    BY <1>1, <2>1, <2>2, <2>3, TrackedGrows
  <2>6. FilesAfter(c)[p] = File({Placeholder}, "cowrie")
    BY <2>5 DEF e
  <2>7. QED
    BY <1>4, <2>4, <2>5, <2>6 DEF p
<1>5. CASE c.kind = "mkdir"
  <2>1. FilesAfter(c) = Tracked(p, Dir)
    BY <1>5 DEF FilesAfter, p
  <2>2. Grows(p, Dir)
    BY <1>1, <1>5, UsedFacts, Seen DEF Grows, p
  <2>3. QED
    BY <1>1, <1>5, <2>1, <2>2, TrackedGrows, EntryFacts DEF p
<1>6. CASE c.kind = "chmod"
  <2> DEFINE e == Chmodded(old, c.mode)
  <2>1. FilesAfter(c) = IF old = None THEN files ELSE Tracked(p, e)
    BY <1>6 DEF FilesAfter, p
  <2>2. CASE old = None
    BY <1>1, <1>6, <2>1, <2>2
  <2>3. CASE old # None
    <3>1. e \in Real /\ e.kind = "file"
      BY <1>1, <1>6, <2>3, EntryFacts, CmdFacts DEF Chmodded, Real
    <3>2. old.kind = "file" /\ p \in FileNames \ CowrieDirs
      BY <1>1, <1>6, <2>3, UsedFacts, Seen DEF p
    <3>3. Grows(p, e)
      BY <1>1, <2>3, <3>1, <3>2, EntryFacts DEF Grows, FilesInv
    <3>4. QED
      BY <1>1, <1>6, <2>1, <2>3, <3>1, <3>3, TrackedGrows, EntryFacts
  <2>4. QED
    BY <2>2, <2>3
<1>7. CASE c.kind = "rm"
  <2>1. FilesAfter(c) = Tracked(p, None)
    BY <1>7 DEF FilesAfter, p
  <2>2. CASE old = None
    <3>1. Tracked(p, None) = files
      BY <1>1, <2>2 DEF Tracked
    <3>2. QED
      BY <1>1, <1>7, <2>1, <3>1
  <2>3. CASE old # None
    <3>1. old.kind = "file" /\ p \in FileNames \ CowrieDirs
      BY <1>1, <1>7, <2>3, UsedFacts, Seen DEF p
    <3>2. Grows(p, None)
      BY <1>1, <2>3, <3>1, EntryFacts DEF Grows, FilesInv
    <3>3. QED
      BY <1>1, <1>7, <2>1, <3>2, TrackedGrows, EntryFacts
  <2>4. QED
    BY <2>2, <2>3
<1>8. CASE c.kind = "mv"
  <2>1. FilesAfter(c) = IF old = None THEN files ELSE [files EXCEPT ![c.to] = old, ![p] = None]
    BY <1>8 DEF FilesAfter, p
  <2>2. CASE old = None
    BY <1>1, <1>8, <2>1, <2>2
  <2>3. CASE old # None
    <3>1. old.kind = "file" /\ p \in FileNames \ CowrieDirs
      BY <1>1, <1>8, <2>3, UsedFacts, Seen DEF p
    <3>2. Grows(p, None)
      BY <1>1, <2>3, <3>1, EntryFacts DEF Grows, FilesInv
    <3>3. c.to \in Paths /\ c.to # p /\ Grows(c.to, old)
      BY <1>1, <1>8, <3>1, CmdFacts, UsedFacts, Seen DEF Grows, p
    <3>4. FilesAfter(c) = [files EXCEPT ![c.to] = old, ![p] = None]
      BY <2>1, <2>3
    <3>5. FilesAfter(c) \in [Paths -> Entry]
      BY <1>1, <3>4, EntryFacts
    <3>6. \A q \in Paths : FilesAfter(c)[q] = IF q = p THEN None ELSE IF q = c.to THEN old ELSE files[q]
      BY <1>1, <3>3, <3>4
    <3> HIDE DEF old
    <3>7. QED
      BY <1>8, <3>2, <3>3, <3>5, <3>6
  <2>4. QED
    BY <2>2, <2>3
<1>9. CASE c.kind \in {"cd", "rm -rf"}
  <2>1. FilesAfter(c) = files
    BY <1>9 DEF FilesAfter
  <2>2. QED
    BY <1>1, <1>9, <2>1
<1>10. QED
  BY <1>0, <1>1, <1>2, <1>3, <1>4, <1>5, <1>6, <1>7, <1>8, <1>9 DEF AllKinds

LEMMA CwdAfterFacts ==
  ASSUME ReplayTyped, FilesInv, NEW c \in UsedCommands
  PROVE  /\ CwdAfter(c) \in Paths
         /\ CwdAfter(c) # cwd => /\ c.kind = "cd"
                                 /\ CwdAfter(c) \in KnownDirs \/ files[CwdAfter(c)] = Dir
<1>1. c.path \in Paths /\ cwd \in Paths
  BY UsedFacts, CmdFacts DEF ReplayTyped
<1>2. files[c.path].kind = "dir" => files[c.path] = Dir
  BY <1>1, EntryFacts DEF FilesInv
<1>3. QED
  BY <1>1, <1>2 DEF CwdAfter, Directories
(* _log_deltas logs what record changes, and nothing else.                 *)
LEMMA PointersFacts ==
  ASSUME ReplayTyped, FilesInv, NamesApart, NEW c \in UsedCommands
  PROVE  /\ Pointers(c) \in Seq(Paths \cup {"cwd"})
         /\ \A p \in Paths : p \in Range(Pointers(c)) <=> FilesAfter(c)[p] # files[p]
         /\ "cwd" \in Range(Pointers(c)) <=> CwdAfter(c) # cwd
<1> DEFINE after == FilesAfter(c)
           changed == {p \in Paths : after[p] # files[p]}
           gone == {p \in changed : after[p] = None}
           first == IF CwdAfter(c) # cwd THEN <<"cwd">> ELSE << >>
           there == SetToSeq(changed \ gone)
           lost == SetToSeq(gone)
<1>1. IsFiniteSet(changed) /\ IsFiniteSet(gone) /\ IsFiniteSet(changed \ gone)
  BY ReplayFsAssumption, FS_Subset
<1>2. /\ there \in Seq(changed \ gone) /\ Range(there) = changed \ gone
      /\ lost \in Seq(gone) /\ Range(lost) = gone
  BY <1>1, SeqOfSet
<1>3. Pointers(c) = first \o there \o lost
  BY DEF Pointers
<1>4. gone \subseteq changed /\ changed \subseteq Paths
  OBVIOUS
<1>5. \A p \in Paths : p \in changed <=> FilesAfter(c)[p] # files[p]
  OBVIOUS
<1>6. first \in Seq({"cwd"}) /\ (CwdAfter(c) # cwd => Range(first) = {"cwd"})
      /\ (CwdAfter(c) = cwd => Range(first) = {})
  <2>1. CASE CwdAfter(c) # cwd
    <3>1. first = <<"cwd">>
      BY <2>1
    <3>2. DOMAIN first = {1} /\ first[1] = "cwd"
      BY <3>1
    <3>3. Range(first) = {"cwd"}
      BY <3>2 DEF Range
    <3>4. QED
      BY <2>1, <3>1, <3>3
  <2>2. CASE CwdAfter(c) = cwd
    <3>1. first = << >>
      BY <2>2
    <3>2. Range(first) = {}
      BY <3>1 DEF Range
    <3>3. QED
      BY <2>2, <3>1, <3>2
  <2>3. QED
    BY <2>1, <2>2
<1> HIDE DEF after, changed, gone, first, there, lost
<1>7. first \in Seq(Paths \cup {"cwd"}) /\ there \in Seq(Paths \cup {"cwd"}) /\ lost \in Seq(Paths \cup {"cwd"})
  BY <1>2, <1>4, <1>6
<1>9. Pointers(c) \in Seq(Paths \cup {"cwd"})
      /\ Range(Pointers(c)) = Range(first) \cup Range(there) \cup Range(lost)
  <2> DEFINE S == Paths \cup {"cwd"}
  <2> HIDE DEF S
  <2>1. first \in Seq(S) /\ there \in Seq(S) /\ lost \in Seq(S)
    BY <1>7 DEF S
  <2>2. first \o there \in Seq(S) /\ Range(first \o there) = Range(first) \cup Range(there)
    BY <2>1, RangeOfConcat
  <2> DEFINE front == first \o there
  <2> HIDE DEF front
  <2>3. front \in Seq(S) /\ Range(front) = Range(first) \cup Range(there)
    BY <2>2 DEF front
  <2>4. front \o lost \in Seq(S) /\ Range(front \o lost) = Range(front) \cup Range(lost)
    BY <2>1, <2>3, RangeOfConcat
  <2>5. QED
    BY <1>3, <2>3, <2>4 DEF front, S
<1>10. Range(Pointers(c)) = Range(first) \cup changed
  BY <1>2, <1>4, <1>9
<1>11. "cwd" \notin Paths
  BY ReplayFsAssumption
<1>12. QED
  BY <1>4, <1>5, <1>6, <1>9, <1>10, <1>11

(* What record leaves in the log. *)
LEMMA RecordFacts ==
  ASSUME ReplayTyped, FilesInv, NamesApart, NEW c \in UsedCommands, NEW ranBy \in {"local", "cowrie"},
         Record(c, ranBy)
  PROVE  /\ log' \in Seq(Pairs) /\ version \in Nat /\ version' \in Nat /\ version <= version'
         /\ \A i \in 1..version : log'[i] = log[i]
         /\ \A i \in version+1..version' : log'[i].ran = ranBy /\ log'[i].path \in Range(Pointers(c))
         /\ \A x \in Range(Pointers(c)) : \E i \in version+1..version' : log'[i].path = x
<1> DEFINE paths == Pointers(c)
           new == [i \in DOMAIN paths |-> [path |-> paths[i], ran |-> ranBy]]
<1>1. log' = log \o new
  BY DEF Record
<1>2. paths \in Seq(Paths \cup {"cwd"})
  BY PointersFacts
<1> HIDE DEF paths
<1>3. new \in Seq(Pairs) /\ Len(new) = Len(paths) /\ \A i \in 1..Len(paths) : new[i].path = paths[i] /\ new[i].ran = ranBy
  <2>1. \A i \in 1..Len(paths) : [path |-> paths[i], ran |-> ranBy] \in Pairs
    BY <1>2 DEF Pairs
  <2>2. Len(paths) \in Nat /\ DOMAIN paths = 1..Len(paths)
    BY <1>2
  <2>3. new \in [1..Len(paths) -> Pairs]
    BY <2>1, <2>2
  <2>4. new \in Seq(Pairs) /\ Len(new) = Len(paths)
    BY <2>2, <2>3
  <2>5. QED
    BY <2>2, <2>4
<1>4. \A i \in 1..Len(paths) : paths[i] \in Range(paths)
  BY <1>2 DEF Range
<1>5. \A x \in Range(paths) : \E i \in 1..Len(paths) : paths[i] = x
  BY <1>2 DEF Range
<1> HIDE DEF new
<1>6. log \in Seq(Pairs)
  BY DEF ReplayTyped
<1>7. log' \in Seq(Pairs) /\ version \in Nat /\ version' = version + Len(paths) /\ Len(paths) \in Nat
  <2>1. log' \in Seq(Pairs) /\ Len(log') = Len(log) + Len(new)
    <3>1. log \o new \in Seq(Pairs) /\ Len(log \o new) = Len(log) + Len(new)
      BY <1>3, <1>6, RangeOfConcat
    <3>2. QED
      BY <1>1, <3>1
  <2>2. Len(paths) \in Nat /\ Len(log) \in Nat
    BY <1>2, <1>6
  <2>3. QED
    BY <1>3, <2>1, <2>2 DEF version
<1>8. \A i \in 1..version : log'[i] = log[i]
  BY <1>1, <1>3, <1>6 DEF version
<1>9. \A i \in 1..Len(paths) : log'[version + i] = new[i]
  BY <1>1, <1>3, <1>6, <1>7 DEF version
<1>10. ASSUME NEW i \in version+1..version'
       PROVE  log'[i].ran = ranBy /\ log'[i].path \in Range(paths)
  <2>1. i - version \in 1..Len(paths) /\ version + (i - version) = i
    BY <1>7
  <2>2. log'[i] = new[i - version]
    BY <1>9, <2>1
  <2>3. QED
    BY <1>3, <1>4, <2>1, <2>2
<1>11. ASSUME NEW x \in Range(paths) PROVE \E i \in version+1..version' : log'[i].path = x
  <2>1. PICK i \in 1..Len(paths) : paths[i] = x
    BY <1>5
  <2>2. version + i \in version+1..version'
    BY <1>7
  <2>3. QED
    BY <1>3, <1>9, <2>1, <2>2
<1>12. QED
  BY <1>7, <1>8, <1>10, <1>11 DEF paths
LEMMA Recorded ==
  ASSUME ReplayTyped, FilesInv, NamesApart, NEW c \in UsedCommands, NEW ranBy \in {"local", "cowrie"},
         Record(c, ranBy)
  PROVE  /\ files' \in [Paths -> Entry] /\ cwd' \in Paths
         /\ \A p \in Paths : files'[p] # files[p] => Grows(p, files'[p])
         /\ \A p \in Paths : files[p] = Dir => files'[p] = Dir
         /\ \A p \in Paths : files'[p] # files[p] => \E i \in version+1..version' : log'[i].path = p
         /\ cwd' # cwd => \E i \in version+1..version' : log'[i].path = "cwd"
         /\ \A i \in version+1..version' :
              /\ log'[i].ran = ranBy
              /\ \/ log'[i].path = "cwd" /\ cwd' # cwd
                 \/ log'[i].path \in Paths /\ files'[log'[i].path] # files[log'[i].path]
<1>1. files' = FilesAfter(c) /\ cwd' = CwdAfter(c)
  BY DEF Record
<1>2. files' \in [Paths -> Entry] /\ \A p \in Paths : files'[p] # files[p] => Grows(p, files'[p])
  BY <1>1, FilesAfterFacts
<1>3. cwd' \in Paths
  BY <1>1, CwdAfterFacts
<1>4. \A p \in Paths : files[p] = Dir => files'[p] = Dir
  <2>1. Dir # None
    BY EntryFacts
  <2>2. QED
    BY <1>2, <2>1 DEF Grows
<1>5. \A x \in Range(Pointers(c)) : x \in Paths \cup {"cwd"}
  BY PointersFacts DEF Range
<1>6. QED
  BY <1>1, <1>2, <1>3, <1>4, <1>5, PointersFacts, RecordFacts

LEMMA ParentStays ==
  ASSUME \A p \in Paths : files[p] = Dir => files'[p] = Dir
  PROVE  \A p \in Paths : HasParent(p) => HasParent(p)'
BY DEF HasParent

LEMMA LoggedStays ==
  ASSUME version \in Nat, version' \in Nat, version <= version', \A i \in 1..version : log'[i] = log[i]
  PROVE  \A p : Logged(p) => Logged(p)'
<1> SUFFICES ASSUME NEW p, Logged(p) PROVE Logged(p)'
  OBVIOUS
<1>1. PICK i \in 1..version : log[i].path = p
  BY DEF Logged
<1>2. i \in 1..version' /\ log'[i].path = p
  BY <1>1
<1>3. QED
  BY <1>2 DEF Logged

(* record keeps the log in order: what is in a directory comes after it.   *)
LEMMA RecordTracker ==
  ASSUME ReplayTyped, TrackerInv, NamesApart, NEW c \in UsedCommands, NEW ranBy \in {"local", "cowrie"},
         ranBy = "cowrie" => c.kind = "wget", Record(c, ranBy)
  PROVE  TrackerInv'
<1>1. FilesInv /\ LogInv /\ CwdInv
  BY DEF TrackerInv
<1>2. /\ files' \in [Paths -> Entry] /\ cwd' \in Paths
      /\ \A p \in Paths : files'[p] # files[p] => Grows(p, files'[p])
      /\ \A p \in Paths : files[p] = Dir => files'[p] = Dir
      /\ \A p \in Paths : files'[p] # files[p] => \E i \in version+1..version' : log'[i].path = p
      /\ cwd' # cwd => \E i \in version+1..version' : log'[i].path = "cwd"
      /\ \A i \in version+1..version' :
              /\ log'[i].ran = ranBy
              /\ \/ log'[i].path = "cwd" /\ cwd' # cwd
                 \/ log'[i].path \in Paths /\ files'[log'[i].path] # files[log'[i].path]
  BY <1>1, Recorded
<1>3. /\ log' \in Seq(Pairs) /\ version \in Nat /\ version' \in Nat /\ version <= version'
      /\ \A i \in 1..version : log'[i] = log[i]
  BY <1>1, RecordFacts
<1>4. \A p \in Paths : HasParent(p) => HasParent(p)'
  BY <1>2, ParentStays
<1>5. \A p : Logged(p) => Logged(p)'
  BY <1>3, LoggedStays
<1>6. ASSUME NEW p \in Paths, \E i \in version+1..version' : log'[i].path = p PROVE Logged(p)'
  BY <1>3, <1>6 DEF Logged
<1>7. ASSUME NEW p \in Paths, files[p] = Dir PROVE \E j \in 1..version : log[j].path = p /\ log'[j].path = p /\ files'[p] = Dir
  <2>1. Logged(p)
    BY <1>1, <1>7, EntryFacts DEF FilesInv
  <2>2. QED
    BY <1>2, <1>3, <1>7, <2>1 DEF Logged
<1>8. FilesInv'
  <2> SUFFICES ASSUME NEW p \in Paths, files'[p] # None
               PROVE  /\ Logged(p)' /\ HasParent(p)'
                      /\ \/ files'[p] = Dir /\ p \in DirNames \ (CowrieDirs \cup CowrieFiles)
                         \/ files'[p].kind = "file" /\ p \in FileNames \ CowrieDirs
    BY DEF FilesInv
  <2>1. CASE files'[p] = files[p]
    BY <1>1, <1>4, <1>5, <2>1 DEF FilesInv
  <2>2. CASE files'[p] # files[p]
    <3>1. Grows(p, files'[p]) /\ Logged(p)'
      BY <1>2, <1>6, <2>2
    <3>2. QED
      BY <1>4, <3>1 DEF Grows
  <2>3. QED
    BY <2>1, <2>2
<1>9. LogInv'
  <2> SUFFICES ASSUME NEW i \in 1..version'
               PROVE  /\ log'[i].ran = "cowrie" => log'[i].path \in FileNames
                      /\ log'[i].path # "cwd" =>
                           /\ log'[i].path \in FileNames \ CowrieDirs \/ files'[log'[i].path] = Dir
                           /\ \/ Parent[log'[i].path] \in Roots
                              \/ \E j \in 1..i-1 : log'[j].path = Parent[log'[i].path] /\ files'[log'[j].path] = Dir
    BY DEF LogInv
  <2>1. CASE i \in 1..version
    <3>1. log'[i] = log[i]
      BY <1>3, <2>1
    <3>2. log[i].path \in Paths \cup {"cwd"}
      BY <2>1, LogEntry
    <3>3. log[i].ran = "cowrie" => log[i].path \in FileNames
      BY <1>1, <2>1 DEF LogInv
    <3>4. ASSUME log[i].path # "cwd"
          PROVE  log[i].path \in FileNames \ CowrieDirs \/ files'[log[i].path] = Dir
      BY <1>1, <1>2, <2>1, <3>2, <3>4 DEF LogInv
    <3>5. ASSUME log[i].path # "cwd", Parent[log[i].path] \notin Roots
          PROVE  \E j \in 1..i-1 : log'[j].path = Parent[log[i].path] /\ files'[log'[j].path] = Dir
      <4>1. PICK j \in 1..i-1 : log[j].path = Parent[log[i].path] /\ files[log[j].path] = Dir
        BY <1>1, <2>1, <3>5 DEF LogInv
      <4>2. Parent[log[i].path] \in Paths
        BY <3>2, <3>5, ReplayFsAssumption DEF Roots
      <4>3. j \in 1..version
        BY <1>3, <2>1
      <4>4. log'[j] = log[j]
        BY <1>3, <4>3
      <4>5. QED
        BY <1>2, <4>1, <4>2, <4>4
    <3>6. QED
      BY <3>1, <3>3, <3>4, <3>5
  <2>2. CASE i \in version+1..version'
    <3>1. log'[i].ran = ranBy
      BY <1>2, <2>2
    <3>2. CASE log'[i].path = "cwd" /\ cwd' # cwd
      <4>1. c.kind = "cd"
        BY <1>1, <3>2, CwdAfterFacts DEF Record
      <4>2. QED
        BY <3>1, <3>2, <4>1
    <3>3. CASE log'[i].path \in Paths /\ files'[log'[i].path] # files[log'[i].path]
      <4> DEFINE p == log'[i].path
      <4>1. Grows(p, files'[p])
        BY <1>2, <3>3
      <4>2. p \in FileNames \ CowrieDirs \/ files'[p] = Dir
        BY <4>1 DEF Grows
      <4>3. HasParent(p)
        BY <4>1 DEF Grows
      <4>4. Parent[p] \notin Roots => \E j \in 1..version : log'[j].path = Parent[p] /\ files'[Parent[p]] = Dir
        BY <1>7, <4>3 DEF HasParent
      <4>5. Parent[p] \notin Roots => \E j \in 1..i-1 : log'[j].path = Parent[p] /\ files'[log'[j].path] = Dir
        BY <1>3, <2>2, <4>4
      <4>6. ASSUME ranBy = "cowrie" PROVE p \in FileNames
        <5>1. c.kind = "wget"
          BY <4>6
        <5>2. files'[p].kind = "file"
          <6>1. p = c.path /\ files'[p] = File({Placeholder}, "cowrie")
            BY <1>1, <3>3, <5>1, FilesAfterFacts DEF Record
          <6>2. QED
            BY <6>1, EntryFacts DEF Texts
        <5>3. files'[p] # Dir
          BY <5>2, EntryFacts
        <5>4. QED
          BY <4>2, <5>3
      <4>7. QED
        BY <3>1, <4>2, <4>5, <4>6
    <3>4. QED
      BY <1>2, <2>2, <3>2, <3>3
  <2>3. QED
    BY <1>3, <2>1, <2>2
<1>10. CwdInv'
  <2>1. CASE cwd' = cwd
    <3>1. CASE cwd \in KnownDirs
      BY <2>1, <3>1 DEF CwdInv
    <3>2. CASE files[cwd] = Dir /\ \E i \in 1..version : log[i].path = "cwd" /\ \E j \in 1..i-1 : log[j].path = cwd
      <4>1. PICK i \in 1..version : log[i].path = "cwd" /\ \E j \in 1..i-1 : log[j].path = cwd
        BY <3>2
      <4>2. PICK j \in 1..i-1 : log[j].path = cwd
        BY <4>1
      <4>3. i \in 1..version' /\ log'[i].path = "cwd" /\ log'[j].path = cwd'
        BY <1>3, <2>1, <4>1, <4>2
      <4>4. files'[cwd'] = Dir
        BY <1>2, <2>1, <3>2
      <4>5. QED
        BY <4>3, <4>4 DEF CwdInv
    <3>3. QED
      BY <1>1, <3>1, <3>2 DEF CwdInv
  <2>2. CASE cwd' # cwd
    <3>1. cwd' \in KnownDirs \/ files[cwd'] = Dir
      BY <1>1, <2>2, CwdAfterFacts DEF Record
    <3>2. ASSUME files[cwd'] = Dir PROVE CwdInv'
      <4>1. PICK i \in version+1..version' : log'[i].path = "cwd"
        BY <1>2, <2>2
      <4>2. PICK j \in 1..version : log'[j].path = cwd' /\ files'[cwd'] = Dir
        BY <1>2, <1>7, <3>2
      <4>3. i \in 1..version' /\ j \in 1..i-1
        BY <1>3
      <4>4. QED
        BY <4>1, <4>2, <4>3 DEF CwdInv
    <3>3. QED
      BY <3>1, <3>2 DEF CwdInv
  <2>3. QED
    BY <2>1, <2>2
<1>11. QED
  BY <1>8, <1>9, <1>10 DEF TrackerInv
-----------------------------------------------------------------------------
(* The replay of one pointer. *)
Replays(t, u, p) ==
  /\ \A q \in Paths \ {p} :
       \/ u[q] = t[q]
       \/ q = Parent[p] /\ t[q] = None /\ u[q] = Dir /\ files[p] = Dir
       \/ Parent[q] = p /\ files[p] = None /\ u[q] = None
  /\ files[p] = None => u[p] = None
  /\ files[p] = Dir => u[p] \in Real /\ u[p].kind = "dir" /\ u[p].mode = "755"
  /\ files[p].kind = "file" =>
       IF IsDir(t, Parent[p])
       THEN /\ u[p] \in Real /\ u[p].kind = "file" /\ u[p].mode = files[p].mode
            /\ files[p].backend = "ours" /\ files[p].text # {} => u[p].text = files[p].text
       ELSE u[p].kind = t[p].kind

LEMMA ModeSet ==
  ASSUME NEW e \in Real, NEW m \in {"644", "755"}
  PROVE  LET f == [e EXCEPT !.mode = m] IN
         f \in Real /\ f.kind = e.kind /\ f.mode = m /\ f.text = e.text
BY DEF Real

LEMMA LoggedPath ==
  ASSUME ReplayTyped, TrackerInv, NEW i \in 1..version, log[i].path # "cwd"
  PROVE  LET p == log[i].path IN
         /\ p \in Paths /\ Logged(p) /\ HasParent(p)
         /\ \/ files[p] = None /\ p \in FileNames \ CowrieDirs
            \/ files[p] = Dir /\ p \in DirNames \ (CowrieDirs \cup CowrieFiles)
            \/ files[p].kind = "file" /\ files[p] \in Real /\ p \in FileNames \ CowrieDirs
<1> DEFINE p == log[i].path
<1>1. p \in Paths /\ Logged(p)
  BY LogEntry DEF Logged
<1>2. files[p] \in Entry
  BY <1>1 DEF ReplayTyped
<1>3. HasParent(p)
  BY <1>1, ReplayFsAssumption DEF TrackerInv, LogInv, HasParent, Roots
<1>4. CASE files[p] = None
  <2>1. files[p] # Dir
    BY <1>4, EntryFacts
  <2>2. p \in FileNames \ CowrieDirs
    BY <2>1 DEF TrackerInv, LogInv
  <2>3. QED
    BY <1>1, <1>3, <1>4, <2>2
<1>5. CASE files[p] # None
  <2>1. files[p] \in Real
    BY <1>2, <1>5, EntryFacts
  <2>2. QED
    BY <1>1, <1>3, <1>5, <2>1 DEF TrackerInv, FilesInv
<1>6. QED
  BY <1>4, <1>5

(* The commands _delta_cmds makes.                                         *)
LEMMA ReplayCmds ==
  ASSUME ReplayTyped, NEW p \in Paths
  PROVE  /\ Cd \in Cmds /\ Cd.kind = "cd" /\ Cd.path = cwd
         /\ RmRf(p) \in Cmds /\ RmRf(p).kind = "rm -rf" /\ RmRf(p).path = p
         /\ files[p] # None => /\ Chmod(p, files[p]) \in Cmds /\ Chmod(p, files[p]).kind = "chmod"
                               /\ Chmod(p, files[p]).path = p /\ Chmod(p, files[p]).mode = files[p].mode
         /\ files[p] = Dir => /\ Make(p, files[p]) \in Cmds /\ Make(p, files[p]).kind = "mkdir"
                              /\ Make(p, files[p]).path = p
         /\ files[p].kind = "file" =>
              /\ Make(p, files[p]) \in Cmds /\ Make(p, files[p]).kind \in {"touch", "write"}
              /\ Make(p, files[p]).path = p
              /\ files[p].backend = "ours" /\ files[p].text # {} =>
                   Make(p, files[p]).kind = "write" /\ Make(p, files[p]).text = files[p].text
<1>1. cwd \in Paths /\ files[p] \in Entry
  BY DEF ReplayTyped
<1>2. Cd \in Cmds /\ Cd.kind = "cd" /\ Cd.path = cwd
  BY <1>1 DEF Cd, Cmds
<1>3. RmRf(p) \in Cmds /\ RmRf(p).kind = "rm -rf" /\ RmRf(p).path = p
  BY DEF RmRf, Cmds
<1>4. ASSUME files[p] # None
      PROVE  /\ Chmod(p, files[p]) \in Cmds /\ Chmod(p, files[p]).kind = "chmod"
             /\ Chmod(p, files[p]).path = p /\ Chmod(p, files[p]).mode = files[p].mode
  <2>1. files[p].mode \in {"644", "755"}
    BY <1>1, <1>4, EntryFacts DEF Real
  <2>2. Chmod(p, files[p]) \in [kind : {"chmod", "chmod dir"}, path : Paths, mode : {"644", "755"}]
    BY <2>1 DEF Chmod
  <2>3. QED
    BY <2>2 DEF Chmod, Cmds
<1>5. ASSUME files[p] = Dir
      PROVE  /\ Make(p, files[p]) \in Cmds /\ Make(p, files[p]).kind = "mkdir"
             /\ Make(p, files[p]).path = p
  <2>1. Make(p, files[p]) = [kind |-> "mkdir", path |-> p]
    BY <1>5, EntryFacts DEF Make
  <2>2. Make(p, files[p]) \in [kind : {"cd", "touch", "mkdir", "rm", "rm -rf"}, path : Paths]
    BY <2>1
  <2>3. Make(p, files[p]) \in Cmds
    BY <2>2 DEF Cmds
  <2>4. QED
    BY <2>1, <2>3
<1>6. ASSUME files[p].kind = "file"
      PROVE  /\ Make(p, files[p]) \in Cmds /\ Make(p, files[p]).kind \in {"touch", "write"}
             /\ Make(p, files[p]).path = p
             /\ files[p].backend = "ours" /\ files[p].text # {} =>
                  Make(p, files[p]).kind = "write" /\ Make(p, files[p]).text = files[p].text
  <2>1. files[p].text \in Texts
    BY <1>1, <1>6, EntryFacts DEF Real
  <2>2. Make(p, files[p]) = WriteCmd(p, files[p])
    BY <1>6 DEF Make
  <2>3. CASE files[p].backend = "cowrie" \/ files[p].text = {}
    <3>1. Make(p, files[p]) = [kind |-> "touch", path |-> p]
      BY <2>2, <2>3 DEF WriteCmd
    <3>2. Make(p, files[p]) \in [kind : {"cd", "touch", "mkdir", "rm", "rm -rf"}, path : Paths]
      BY <3>1
    <3>3. Make(p, files[p]) \in Cmds
      BY <3>2 DEF Cmds
    <3>4. QED
      BY <2>3, <3>1, <3>3
  <2>4. CASE ~(files[p].backend = "cowrie" \/ files[p].text = {})
    <3>1. Make(p, files[p]) = [kind |-> "write", path |-> p, text |-> files[p].text]
      BY <2>2, <2>4 DEF WriteCmd
    <3>2. Make(p, files[p]) \in [kind : {"write", "append", "wget"}, path : Paths, text : Texts]
      BY <2>1, <3>1
    <3>3. Make(p, files[p]) \in Cmds
      BY <3>2 DEF Cmds
    <3>4. QED
      BY <3>1, <3>3
  <2>5. QED
    BY <2>3, <2>4
<1>7. QED
  BY <1>2, <1>3, <1>4, <1>5, <1>6

LEMMA ReplayedGone ==
  ASSUME ReplayTyped, NEW fs \in CowrieShells, NEW p \in Paths, files[p] = None
  PROVE  /\ Replayed(fs, p) \in CowrieShells /\ Replayed(fs, p).cwd = fs.cwd
         /\ Replays(fs.tree, Replayed(fs, p).tree, p)
<1>1. p # "cwd" /\ None.kind = "none" /\ Dir # None
  BY ReplayFsAssumption, EntryFacts
<1>2. Replayed(fs, p) = Exec(fs, RmRf(p))
  BY <1>1 DEF Replayed
<1> DEFINE c == RmRf(p)
<1>0. c \in Cmds /\ c.kind = "rm -rf" /\ c.path = p
  BY ReplayCmds
<1> HIDE DEF c
<1>3. /\ Exec(fs, c) \in CowrieShells /\ Exec(fs, c).cwd = fs.cwd
      /\ Exec(fs, c).tree = [q \in Paths |-> IF q = c.path \/ Parent[q] = c.path
                                             THEN None ELSE fs.tree[q]]
  BY <1>0, ExecRmRf
<1> DEFINE u == Exec(fs, c).tree
<1>4. /\ \A q \in Paths \ {p} : u[q] = fs.tree[q] \/ (Parent[q] = p /\ u[q] = None)
      /\ u[p] = None
  BY <1>0, <1>3
<1> HIDE DEF u
<1>5. files[p] # Dir /\ files[p].kind # "file"
  BY <1>1
<1>6. Replays(fs.tree, u, p)
  BY <1>4, <1>5 DEF Replays
<1>7. QED
  BY <1>2, <1>3, <1>6 DEF c, u

(* mode_to_perms and chmod come second: they find what was just made.      *)
LEMMA ReplayedDir ==
  ASSUME ReplayTyped, NEW fs \in CowrieShells, NEW p \in Paths, files[p] = Dir,
         ~IsFile(fs.tree, p), Parent[p] = "/" \/ ~IsFile(fs.tree, Parent[p])
  PROVE  /\ Replayed(fs, p) \in CowrieShells /\ Replayed(fs, p).cwd = fs.cwd
         /\ Replays(fs.tree, Replayed(fs, p).tree, p)
<1> DEFINE t == fs.tree
           m == Make(p, files[p])
           x == Chmod(p, files[p])
           gs == Exec(fs, m)
           hs == Exec(gs, x)
<1>1. p # "cwd" /\ files[p] # None /\ Dir.kind = "dir" /\ Dir.mode = "755" /\ Dir \in Real
  BY ReplayFsAssumption, EntryFacts DEF Dir
<1>2. Replayed(fs, p) = hs
  BY <1>1 DEF Replayed
<1>3. t \in [Paths -> Entry]
  BY ShellFacts
<1>0. /\ m \in Cmds /\ m.kind = "mkdir" /\ m.path = p
      /\ x \in Cmds /\ x.kind = "chmod" /\ x.path = p /\ x.mode = "755"
  BY <1>1, ReplayCmds
<1> HIDE DEF m, x
<1>4. /\ gs \in CowrieShells /\ gs.cwd = fs.cwd
      /\ gs.tree = [q \in Paths |-> IF q \in {p, Parent[p]} /\ t[q] = None THEN Dir ELSE t[q]]
  BY <1>0, ExecMkdir
<1> HIDE DEF gs
<1>5. gs.tree[p] \in Real /\ gs.tree[p].kind = "dir"
  <2>1. CASE t[p] = None
    BY <1>1, <1>4, <2>1
  <2>2. CASE t[p] # None
    <3>1. t[p] \in Real
      BY <1>3, <2>2, EntryFacts
    <3>2. t[p].kind = "dir"
      BY <3>1 DEF Real, IsFile
    <3>3. QED
      BY <1>4, <2>2, <3>1, <3>2
  <2>3. QED
    BY <2>1, <2>2
<1>6. /\ hs \in CowrieShells /\ hs.cwd = gs.cwd
      /\ hs.tree = IF gs.tree[x.path] = None THEN gs.tree
                   ELSE [gs.tree EXCEPT ![x.path] = [gs.tree[x.path] EXCEPT !.mode = x.mode]]
  BY <1>0, <1>4, ExecChmod
<1>7. gs.tree[p] # None /\ gs.tree \in [Paths -> Entry]
  BY <1>4, <1>5, EntryFacts, ShellFacts
<1> HIDE DEF hs
<1>8. hs.tree[p] = [gs.tree[p] EXCEPT !.mode = "755"] /\ \A q \in Paths \ {p} : hs.tree[q] = gs.tree[q]
  BY <1>0, <1>6, <1>7
<1>9. hs.tree[p] \in Real /\ hs.tree[p].kind = "dir" /\ hs.tree[p].mode = "755"
  BY <1>5, <1>8 DEF Real
<1>10. \A q \in Paths \ {p} : hs.tree[q] = t[q] \/ (q = Parent[p] /\ t[q] = None /\ hs.tree[q] = Dir)
  BY <1>4, <1>8
<1>11. Replays(t, hs.tree, p)
  BY <1>1, <1>9, <1>10 DEF Replays
<1>12. QED
  BY <1>2, <1>4, <1>6, <1>11

LEMMA ReplayedFile ==
  ASSUME ReplayTyped, NEW fs \in CowrieShells, NEW p \in Paths, files[p] \in Real, files[p].kind = "file",
         ~IsDir(fs.tree, p)
  PROVE  /\ Replayed(fs, p) \in CowrieShells /\ Replayed(fs, p).cwd = fs.cwd
         /\ Replays(fs.tree, Replayed(fs, p).tree, p)
<1> DEFINE t == fs.tree
           e == files[p]
           m == Make(p, e)
           x == Chmod(p, e)
           gs == Exec(fs, m)
           hs == Exec(gs, x)
<1>1. p # "cwd" /\ e # None /\ e # Dir /\ e.mode \in {"644", "755"}
  BY ReplayFsAssumption, EntryFacts DEF Real
<1>2. Replayed(fs, p) = hs
  BY <1>1 DEF Replayed
<1>3. t \in [Paths -> Entry]
  BY ShellFacts
<1>4. /\ m \in Cmds /\ m.kind \in {"touch", "write"} /\ m.path = p
      /\ e.backend = "ours" /\ e.text # {} => m.kind = "write" /\ m.text = e.text
      /\ x \in Cmds /\ x.kind = "chmod" /\ x.path = p /\ x.mode = e.mode
  BY <1>1, ReplayCmds
<1> HIDE DEF m, x
<1>5. /\ gs \in CowrieShells /\ gs.cwd = fs.cwd
      /\ gs.tree = IF ~IsDir(t, Parent[p]) THEN t ELSE [t EXCEPT ![p] = Written(t, m)]
  BY <1>4, ExecPut DEF Puts
<1> HIDE DEF gs
<1>6. /\ hs \in CowrieShells /\ hs.cwd = gs.cwd
      /\ hs.tree = IF gs.tree[x.path] = None THEN gs.tree
                   ELSE [gs.tree EXCEPT ![x.path] = [gs.tree[x.path] EXCEPT !.mode = x.mode]]
  BY <1>4, <1>5, ExecChmod
<1> HIDE DEF hs
<1>7. gs.tree \in [Paths -> Entry]
  BY <1>5, ShellFacts
<1>8. \A q \in Paths \ {p} : hs.tree[q] = t[q]
  BY <1>3, <1>4, <1>5, <1>6, <1>7
<1>9. CASE IsDir(t, Parent[p])
  <2>1. gs.tree[p] = Written(t, m)
    BY <1>3, <1>5, <1>9
  <2>2. /\ gs.tree[p] \in Real /\ gs.tree[p].kind = "file"
        /\ e.backend = "ours" /\ e.text # {} => gs.tree[p].text = e.text
    BY <1>3, <1>4, <2>1, WrittenFacts DEF Puts
  <2>3. gs.tree[p] # None
    BY <2>2, EntryFacts
  <2>4. hs.tree[p] = [gs.tree[p] EXCEPT !.mode = e.mode]
    BY <1>4, <1>6, <1>7, <2>3
  <2>5. /\ hs.tree[p] \in Real /\ hs.tree[p].kind = "file" /\ hs.tree[p].mode = e.mode
        /\ e.backend = "ours" /\ e.text # {} => hs.tree[p].text = e.text
    BY <1>1, <2>2, <2>4 DEF Real
  <2>6. QED
    BY <1>1, <1>2, <1>5, <1>6, <1>8, <1>9, <2>5 DEF Replays
<1>10. CASE ~IsDir(t, Parent[p])
  <2>1. gs.tree = t
    BY <1>5, <1>10
  <2>2. hs.tree[p].kind = t[p].kind
    <3>1. CASE t[p] = None
      BY <1>4, <1>6, <2>1, <3>1
    <3>2. CASE t[p] # None
      <4>1. t[p] \in Real
        BY <1>3, <3>2, EntryFacts
      <4>2. hs.tree[p] = [t[p] EXCEPT !.mode = e.mode]
        BY <1>4, <1>6, <1>7, <2>1, <3>2
      <4>3. QED
        BY <1>1, <4>1, <4>2, ModeSet
    <3>3. QED
      BY <3>1, <3>2
  <2>3. QED
    BY <1>1, <1>2, <1>5, <1>6, <1>8, <1>10, <2>2 DEF Replays
<1>11. QED
  BY <1>9, <1>10
(* On Cowrie no file stands where a directory belongs.                     *)
LEMMA NeverFiles ==
  ASSUME ReplayTyped, TrackerInv, NamesApart, NEW t \in [Paths -> Entry], TreeOK(t),
         NEW p \in Paths, files[p] = Dir \/ p \in CowrieDirs
  PROVE  ~IsFile(t, p)
<1>1. files[p] = Dir => p \in DirNames \ (CowrieDirs \cup CowrieFiles)
  BY EntryFacts DEF TrackerInv, FilesInv
<1>2. CASE p \in CowrieDirs
  BY <1>2 DEF TreeOK, IsFile
<1>3. CASE files[p] = Dir
  BY <1>1, <1>3 DEF TreeOK, IsFile, NamesApart
<1>4. QED
  BY <1>2, <1>3

LEMMA FreshTree ==
  \A q \in Paths : /\ q \notin CowrieDirs \cup CowrieFiles => FreshShell.tree[q] = None
                   /\ q \in CowrieDirs => FreshShell.tree[q] = Dir
                   /\ q \in CowrieFiles => FreshShell.tree[q] = File({OwnText}, "ours")
BY ReplayFsAssumption DEF FreshShell

(* Replaying one pointer brings its path up to date and undoes no other.   *)
LEMMA ReplaysKeep ==
  ASSUME ReplayTyped, TrackerInv, NamesApart, NEW t \in [Paths -> Entry], TreeOK(t),
         NEW u \in [Paths -> Entry], NEW i \in 1..version, log[i].path # "cwd",
         Replays(t, u, log[i].path)
  PROVE  LET p == log[i].path IN
         /\ TreeOK(u)
         /\ \A q \in Paths : t[q].kind = "dir" => u[q].kind = "dir"
         /\ files[p] = Dir => u[p].kind = "dir"
         /\ IsDir(t, Parent[p]) => Same(u[p], files[p])
         /\ \A q \in Paths \ {p} : Same(t[q], files[q]) /\ IsDir(t, Parent[p]) => Same(u[q], files[q])
         /\ \A q \in Paths \ {p} : q \notin escaped /\ ~Logged(q) => u[q] = t[q]
<1> DEFINE p == log[i].path
<1>1. /\ p \in Paths /\ Logged(p) /\ HasParent(p)
      /\ \/ files[p] = None /\ p \in FileNames \ CowrieDirs
         \/ files[p] = Dir /\ p \in DirNames \ (CowrieDirs \cup CowrieFiles)
         \/ files[p].kind = "file" /\ files[p] \in Real /\ p \in FileNames \ CowrieDirs
  BY LoggedPath
<1> HIDE DEF p
<1>2. Replays(t, u, p) /\ p # "cwd"
  BY DEF p
<1>3. /\ None.kind = "none" /\ Dir.kind = "dir" /\ Dir # None /\ Dir \in Real
      /\ \A e \in Entry : e = None <=> e.kind = "none"
  BY EntryFacts
<1>5. \A q \in Paths : files[q] = Dir => HasParent(q) /\ Logged(q) /\ q \notin CowrieDirs
  BY <1>3 DEF TrackerInv, FilesInv
<1>6. ASSUME NEW q \in Paths, Parent[q] = p, files[p] = None PROVE files[q] = None /\ q \notin CowrieDirs \cup CowrieFiles
  <2>1. p \notin CowrieDirs /\ p # "/" /\ files[p] # Dir
    BY <1>1, <1>3, <1>6, ReplayFsAssumption
  <2>2. ~HasParent(q)
    BY <1>6, <2>1 DEF HasParent, Roots
  <2>3. files[q] = None
    BY <2>2 DEF TrackerInv, FilesInv
  <2>4. QED
    BY <1>6, <2>1, <2>3, ReplayFsAssumption
<1>7. ASSUME NEW q \in Paths, q = Parent[p], files[p] = Dir, t[q] = None PROVE files[q] = Dir /\ Logged(q) /\ q \notin CowrieDirs
  <2>1. q \notin CowrieDirs
    BY <1>3, <1>7 DEF TreeOK
  <2>2. q # "/"
    BY ReplayFsAssumption
  <2>3. QED
    BY <1>1, <1>5, <1>7, <2>1, <2>2 DEF HasParent, Roots
<1>8. \A q \in Paths \ {p} :
       \/ u[q] = t[q]
       \/ q = Parent[p] /\ t[q] = None /\ u[q] = Dir /\ files[p] = Dir /\ files[q] = Dir /\ Logged(q) /\ q \notin CowrieDirs
       \/ files[q] = None /\ u[q] = None /\ q \notin CowrieDirs \cup CowrieFiles
  BY <1>2, <1>6, <1>7 DEF Replays
<1>9. /\ files[p] = None => u[p] = None
      /\ files[p] = Dir => u[p].kind = "dir" /\ u[p].mode = "755"
      /\ files[p].kind = "file" => u[p].kind \in {"file", t[p].kind}
  BY <1>2 DEF Replays
<1>10. p \notin CowrieDirs /\ (t[p].kind = "dir" => files[p] = Dir)
  BY <1>1 DEF TreeOK
<1>11. \A q \in CowrieDirs : u[q].kind = "dir"
  BY <1>8, <1>10, ReplayFsAssumption DEF TreeOK
<1>12. ASSUME NEW q \in Paths, u[q].kind = "dir" PROVE q \in CowrieDirs \/ files[q] = Dir
  BY <1>1, <1>3, <1>8, <1>9, <1>10, <1>12 DEF TreeOK
<1>13. ASSUME NEW q \in Paths, u[q].kind = "file" PROVE q \in (FileNames \cup CowrieFiles) \ CowrieDirs
  BY <1>1, <1>3, <1>8, <1>9, <1>10, <1>13 DEF TreeOK
<1>14. ASSUME NEW q \in Paths, q \notin escaped, ~Logged(q) PROVE u[q] = FreshShell.tree[q]
  BY <1>1, <1>8, <1>14, FreshTree DEF TreeOK
<1>15. TreeOK(u)
  BY <1>11, <1>12, <1>13, <1>14 DEF TreeOK
<1>16. ASSUME NEW q \in Paths, t[q].kind = "dir" PROVE u[q].kind = "dir"
  <2>1. q \in CowrieDirs \/ files[q] = Dir
    BY <1>16 DEF TreeOK
  <2>2. QED
    BY <1>3, <1>8, <1>9, <1>11, <1>16, <2>1
<1>17. ASSUME IsDir(t, Parent[p]) PROVE Same(u[p], files[p])
  <2>1. CASE files[p] = None
    BY <1>9, <2>1 DEF Same
  <2>2. CASE files[p] = Dir
    <3>1. u[p] # None /\ u[p].kind = "dir" /\ u[p].mode = "755"
      BY <1>2, <2>2, EntryFacts DEF Replays
    <3>2. Dir.mode = "755" /\ Dir.text = {}
      BY DEF Dir
    <3>3. QED
      BY <1>3, <2>2, <3>1, <3>2 DEF Same, Presence
  <2>3. CASE files[p].kind = "file"
    <3>1. /\ u[p] \in Real /\ u[p].kind = "file" /\ u[p].mode = files[p].mode
          /\ files[p].backend = "ours" /\ files[p].text # {} => u[p].text = files[p].text
      BY <1>2, <1>17, <2>3 DEF Replays
    <3>2. u[p] # None /\ files[p] # None
      BY <1>3, <2>3, <3>1
    <3>3. QED
      BY <2>3, <3>1, <3>2 DEF Same, Presence
  <2>4. QED
    BY <1>1, <2>1, <2>2, <2>3
<1>18. ASSUME NEW q \in Paths \ {p}, Same(t[q], files[q]), IsDir(t, Parent[p]) PROVE Same(u[q], files[q])
  <2>1. CASE u[q] = t[q]
    BY <1>18, <2>1
  <2>2. CASE q = Parent[p] /\ t[q] = None
    <3>1. q # "/" /\ t[q].kind = "none"
      BY <1>3, <2>2, ReplayFsAssumption
    <3>2. QED
      BY <1>18, <2>2, <3>1 DEF IsDir
  <2>3. CASE files[q] = None /\ u[q] = None
    BY <2>3 DEF Same
  <2>4. QED
    BY <1>8, <2>1, <2>2, <2>3
<1>19. QED
  BY <1>1, <1>8, <1>9, <1>14, <1>15, <1>16, <1>17, <1>18 DEF TreeOK, p
-----------------------------------------------------------------------------
(* The steps. *)
(* The directory of the next pointer stands: its own pointer came before.  *)
LEMMA ParentMade ==
  ASSUME ReplayTyped, TrackerInv, TreeInv, Made, ckpt < version, log[ckpt + 1].path # "cwd"
  PROVE  IsDir(cowrie.tree, Parent[log[ckpt + 1].path])
<1> DEFINE i == ckpt + 1
<1>1. i \in 1..version /\ i - 1 = ckpt
  BY DEF ReplayTyped, version
<1>2. \/ Parent[log[i].path] \in Roots
      \/ \E j \in 1..ckpt : log[j].path = Parent[log[i].path] /\ files[log[j].path] = Dir
  BY <1>1 DEF TrackerInv, LogInv
<1>3. CASE Parent[log[i].path] \in Roots
  BY <1>3 DEF Roots, IsDir, TreeInv, TreeOK
<1>4. CASE Parent[log[i].path] # "/" /\ \E j \in 1..ckpt : log[j].path = Parent[log[i].path] /\ files[log[j].path] = Dir
  <2>1. PICK j \in 1..ckpt : log[j].path = Parent[log[i].path] /\ files[log[j].path] = Dir
    BY <1>4
  <2>2. log[i].path \in Paths /\ Parent[log[i].path] \in Paths
    BY <1>1, <1>4, LogEntry, ReplayFsAssumption
  <2>3. log[j].path # "cwd"
    BY <2>1, <2>2, ReplayFsAssumption
  <2>4. QED
    BY <2>1, <2>3 DEF Made, IsDir
<1>5. QED
  BY <1>2, <1>3, <1>4 DEF Roots

(* The replay of a pointer, or the passing over it, settles its path alone. *)
LEMMA DueNext ==
  ASSUME ReplayTyped, ckpt < version, ckpt' = ckpt + 1, UNCHANGED <<log, synced>>,
         NEW p, log[ckpt + 1].path # p \/ (synced /\ log[ckpt + 1].ran # "local")
  PROVE  Due(p)' <=> Due(p)
<1>1. ckpt \in Nat /\ version \in Nat /\ version' = version
  BY DEF ReplayTyped, version
<1>2. \A i : i \in ckpt+1..version <=> i = ckpt + 1 \/ i \in ckpt'+1..version'
  BY <1>1
<1>3. QED
  BY <1>2 DEF Due

LEMMA ReplayStep ==
  ASSUME NamesApart, ReplayInv, Replay
  PROVE  ReplayInv'
<1> DEFINE i == ckpt + 1
           d == log[i]
           t == cowrie.tree
<1>1. ReplayTyped /\ TrackerInv /\ TreeInv /\ PassInv /\ Follows
  BY DEF ReplayInv
<1>2. /\ UNCHANGED <<files, cwd, log, synced, pass, steady, escaped>>
      /\ pass # "idle" /\ ckpt < version /\ ckpt' = i
      /\ cowrie' = IF pass = "rebuild" \/ d.ran = "local" THEN Replayed(cowrie, d.path) ELSE cowrie
  BY DEF Replay, tracker
<1>3. i \in 1..version /\ version' = version /\ i \in 0..version /\ ckpt \in Nat
  BY <1>1, <1>2 DEF ReplayTyped, version
<1>4. cowrie \in CowrieShells /\ t \in [Paths -> Entry]
  BY <1>1 DEF ReplayTyped, CowrieShells
<1>5. d.path \in Paths \cup {"cwd"} /\ d.ran \in {"local", "cowrie"}
  BY <1>1, <1>3, LogEntry
<1>6. TrackerInv' /\ PassInv'
  <2>1. TrackerInv'
    BY <1>1, <1>2, <1>3 DEF TrackerInv, FilesInv, LogInv, CwdInv, Logged, HasParent
  <2>2. PassInv'
    BY <1>1, <1>2 DEF PassInv
  <2>3. QED
    BY <2>1, <2>2
<1>7. cowrie' \in CowrieShells => ReplayTyped'
  BY <1>1, <1>2, <1>3 DEF ReplayTyped, CowrieShells
<1>8. \A q : Logged(q)' <=> Logged(q)
  BY <1>2, <1>3 DEF Logged
<1>9. TreeOK(cowrie'.tree) => TreeInv'
  BY <1>2, <1>8 DEF TreeInv, TreeOK
<1>10. Following' <=> Following
  BY <1>2 DEF Following
<1>11. ASSUME Following PROVE Made /\ (\A p \in Paths \ escaped : Logged(p) /\ ~Due(p) => Matches(p))
                              /\ ("cwd" \notin escaped /\ ~Due("cwd") => cowrie.cwd = cwd)
  BY <1>1, <1>11 DEF Follows
<1>12. \A j \in 1..ckpt' : j \in 1..ckpt \/ j = i
  BY <1>2, <1>3
<1>13. CASE ~(pass = "rebuild" \/ d.ran = "local")
  <2>1. cowrie' = cowrie /\ d.ran = "cowrie"
    BY <1>2, <1>5, <1>13
  <2>2. d.path \in FileNames
    BY <1>1, <1>3, <2>1 DEF TrackerInv, LogInv
  <2>3. files[d.path] # Dir
    <3>1. d.path \in Paths /\ d.path \notin DirNames
      BY <2>2, ReplayFsAssumption DEF NamesApart
    <3>2. Dir # None /\ Dir.kind = "dir"
      BY EntryFacts
    <3>3. QED
      BY <1>1, <3>1, <3>2 DEF TrackerInv, FilesInv
  <2>4. ASSUME Following PROVE Follows'
    <3>1. synced
      BY <1>13, <2>4 DEF Following
    <3>2. \A p : Due(p)' <=> Due(p)
      BY <1>1, <1>2, <1>13, <3>1, DueNext
    <3>3. Made'
      BY <1>2, <1>11, <1>12, <2>1, <2>3, <2>4 DEF Made
    <3>4. QED
      BY <1>2, <1>8, <1>11, <2>1, <2>4, <3>2, <3>3 DEF Follows, Matches
  <2>5. QED
    BY <1>1, <1>4, <1>6, <1>7, <1>9, <1>10, <2>1, <2>4 DEF ReplayInv, Follows, TreeInv
<1>14. CASE (pass = "rebuild" \/ d.ran = "local") /\ d.path = "cwd"
  <2>1. cowrie' = Exec(cowrie, Cd)
    BY <1>2, <1>14 DEF Replayed
  <2>2. Home \in Paths
    BY ReplayFsAssumption
  <2>3. Cd \in Cmds /\ Cd.kind = "cd" /\ Cd.path = cwd
    BY <1>1, <2>2, ReplayCmds
  <2>4. cowrie' \in CowrieShells /\ cowrie'.tree = t /\ cowrie'.cwd = IF IsDir(t, cwd) THEN cwd ELSE cowrie.cwd
    BY <1>4, <2>1, <2>3, ExecCd
  <2>5. ASSUME Following PROVE Follows'
    <3>1. \A p \in Paths : Due(p)' <=> Due(p)
      BY <1>1, <1>2, <1>14, DueNext, ReplayFsAssumption
    <3>2. Made'
      BY <1>2, <1>11, <1>12, <1>14, <2>4, <2>5 DEF Made
    <3>3. ASSUME ~Due("cwd")' PROVE IsDir(t, cwd)
      <4>1. CASE cwd \in KnownDirs
        BY <1>1, <4>1, ReplayFsAssumption DEF TreeInv, TreeOK, IsDir
      <4>2. CASE files[cwd] = Dir /\ \E k \in 1..version : log[k].path = "cwd" /\ \E j \in 1..k-1 : log[j].path = cwd
        <5>1. PICK k \in 1..version : log[k].path = "cwd" /\ \E j \in 1..k-1 : log[j].path = cwd
          BY <4>2
        <5>2. PICK j \in 1..k-1 : log[j].path = cwd
          BY <5>1
        <5>3. log[k].ran = "local"
          BY <1>1, <5>1, LogEntry, ReplayFsAssumption DEF TrackerInv, LogInv
        <5>4. k \notin i+1..version
          BY <1>2, <1>3, <3>3, <5>1, <5>3 DEF Due
        <5>5. j \in 1..ckpt
          BY <1>3, <5>2, <5>4
        <5>6. cwd # "cwd"
          BY <1>1, ReplayFsAssumption DEF ReplayTyped
        <5>7. QED
          BY <1>11, <2>5, <4>2, <5>2, <5>5, <5>6 DEF Made, IsDir
      <4>3. QED
        BY <1>1, <4>1, <4>2 DEF TrackerInv, CwdInv
    <3>4. QED
      BY <1>2, <1>8, <1>11, <2>4, <2>5, <3>1, <3>2, <3>3 DEF Follows, Matches
  <2>6. QED
    BY <1>1, <1>6, <1>7, <1>9, <1>10, <2>4, <2>5 DEF ReplayInv, Follows, TreeInv
<1>15. CASE (pass = "rebuild" \/ d.ran = "local") /\ d.path # "cwd"
  <2> DEFINE p == d.path
             u == cowrie'.tree
  <2>1. /\ p \in Paths /\ Logged(p) /\ HasParent(p)
        /\ \/ files[p] = None /\ p \in FileNames \ CowrieDirs
           \/ files[p] = Dir /\ p \in DirNames \ (CowrieDirs \cup CowrieFiles)
           \/ files[p].kind = "file" /\ files[p] \in Real /\ p \in FileNames \ CowrieDirs
    BY <1>1, <1>3, <1>15, LoggedPath
  <2>2. cowrie' = Replayed(cowrie, p)
    BY <1>2, <1>15
  <2>3. TreeOK(t)
    BY <1>1 DEF TreeInv
  <2>4. cowrie' \in CowrieShells /\ cowrie'.cwd = cowrie.cwd /\ Replays(t, u, p)
    <3>1. CASE files[p] = None
      BY <1>1, <1>4, <2>1, <2>2, <3>1, ReplayedGone
    <3>2. CASE files[p] = Dir
      <4>1. ~IsFile(t, p)
        BY <1>1, <1>4, <2>1, <2>3, <3>2, NeverFiles
      <4>2. Parent[p] = "/" \/ ~IsFile(t, Parent[p])
        BY <1>1, <1>4, <2>1, <2>3, NeverFiles, ReplayFsAssumption DEF HasParent, Roots
      <4>3. QED
        BY <1>1, <1>4, <2>1, <2>2, <3>2, <4>1, <4>2, ReplayedDir
    <3>3. CASE files[p].kind = "file"
      <4>1. files[p] \in Real /\ p \notin CowrieDirs /\ files[p] # Dir
        BY <2>1, <3>3, EntryFacts
      <4>2. ~IsDir(t, p)
        BY <2>1, <2>3, <4>1, ReplayFsAssumption DEF TreeOK, IsDir
      <4>3. QED
        BY <1>1, <1>4, <2>1, <2>2, <3>3, <4>1, <4>2, ReplayedFile
    <3>4. QED
      BY <2>1, <3>1, <3>2, <3>3
  <2>5. u \in [Paths -> Entry]
    BY <2>4, ShellFacts
  <2> HIDE DEF u
  <2>6. /\ TreeOK(u)
        /\ \A q \in Paths : t[q].kind = "dir" => u[q].kind = "dir"
        /\ files[p] = Dir => u[p].kind = "dir"
        /\ IsDir(t, Parent[p]) => Same(u[p], files[p])
        /\ \A q \in Paths \ {p} : Same(t[q], files[q]) /\ IsDir(t, Parent[p]) => Same(u[q], files[q])
    BY <1>1, <1>3, <1>4, <1>15, <2>3, <2>4, <2>5, ReplaysKeep
  <2>7. ASSUME Following PROVE Follows'
    <3>1. \A q : q # p => (Due(q)' <=> Due(q))
      BY <1>1, <1>2, DueNext
    <3>2. IsDir(t, Parent[p])
      BY <1>1, <1>2, <1>11, <1>15, <2>7, ParentMade
    <3>3. \A j \in 1..ckpt : log[j].path # "cwd" => log[j].path \in Paths
      <4>1. \A j \in 1..ckpt : j \in 1..version
        BY <1>1, <1>3 DEF ReplayTyped, version
      <4>2. QED
        BY <1>1, <4>1, LogEntry
    <3>4. Made'
      BY <1>2, <1>11, <1>12, <2>6, <2>7, <3>3 DEF Made, u
    <3>5. ASSUME NEW q \in Paths \ escaped, Logged(q), ~Due(q)' PROVE Same(u[q], files[q])
      <4>1. CASE q = p
        BY <2>6, <3>2, <4>1
      <4>2. CASE q # p
        BY <1>11, <2>6, <2>7, <3>1, <3>2, <3>5, <4>2 DEF Matches
      <4>3. QED
        BY <4>1, <4>2
    <3>6. ("cwd" \notin escaped /\ ~Due("cwd")') => cowrie'.cwd = cwd
      BY <1>11, <1>15, <2>4, <2>7, <3>1
    <3>7. QED
      BY <1>2, <1>8, <3>4, <3>5, <3>6 DEF Follows, Matches, u
  <2>8. QED
    BY <1>1, <1>6, <1>7, <1>9, <1>10, <2>4, <2>6, <2>7 DEF ReplayInv, Follows, u
<1>16. QED
  BY <1>13, <1>14, <1>15
(* A session that logged no cd works in a directory Cowrie has.            *)
LEMMA SeenWorks ==
  ASSUME ReplayTyped, TrackerInv, TreeInv, \A k \in 1..version : log[k].path # "cwd"
  PROVE  IsDir(cowrie.tree, cwd)
BY ReplayFsAssumption DEF TrackerInv, CwdInv, TreeInv, TreeOK, IsDir

LEMMA BeginStep ==
  ASSUME NamesApart, ReplayInv, BeginPass
  PROVE  ReplayInv'
<1>1. ReplayTyped /\ TrackerInv /\ TreeInv /\ PassInv /\ Follows
  BY DEF ReplayInv
<1>2. UNCHANGED <<files, cwd, log, synced, escaped>> /\ steady' = TRUE
  BY DEF BeginPass, tracker
<1>3. version \in Nat /\ version' = version /\ ckpt \in 0..version
  BY <1>1, <1>2 DEF ReplayTyped, version
<1>4. TrackerInv'
  BY <1>1, <1>2, <1>3 DEF TrackerInv, FilesInv, LogInv, CwdInv, Logged, HasParent
<1>5. \A q : Logged(q)' <=> Logged(q)
  BY <1>2, <1>3 DEF Logged
<1>6. CASE synced
  <2>1. pass' = "replay" /\ UNCHANGED <<cowrie, ckpt>>
    BY <1>6 DEF BeginPass
  <2>2. ReplayTyped' /\ PassInv'
    BY <1>1, <1>2, <1>3, <1>6, <2>1 DEF ReplayTyped, PassInv
  <2>3. TreeInv'
    BY <1>1, <1>2, <1>5, <2>1 DEF TreeInv, TreeOK
  <2>4. \A q : Due(q)' <=> Due(q)
    BY <1>2, <1>3, <2>1 DEF Due
  <2>5. Made /\ (\A p \in Paths \ escaped : Logged(p) /\ ~Due(p) => Matches(p))
             /\ ("cwd" \notin escaped /\ ~Due("cwd") => cowrie.cwd = cwd)
    BY <1>1, <1>6 DEF Follows, Following
  <2>6. Made'
    BY <1>2, <2>1, <2>5 DEF Made
  <2>7. Follows'
    BY <1>2, <1>5, <2>1, <2>4, <2>5, <2>6 DEF Follows, Matches
  <2>8. QED
    BY <1>4, <2>2, <2>3, <2>7 DEF ReplayInv
<1>7. CASE ~synced
  <2>1. pass' = "rebuild" /\ ckpt' = 0 /\ cowrie' = Exec(cowrie, Cd)
    BY <1>7 DEF BeginPass
  <2>2. Home \in Paths /\ cowrie \in CowrieShells
    BY <1>1, ReplayFsAssumption DEF ReplayTyped, CowrieShells
  <2>3. Cd \in Cmds /\ Cd.kind = "cd" /\ Cd.path = cwd
    BY <1>1, <2>2, ReplayCmds
  <2>4. cowrie' \in CowrieShells /\ cowrie'.tree = cowrie.tree
        /\ cowrie'.cwd = IF IsDir(cowrie.tree, cwd) THEN cwd ELSE cowrie.cwd
    BY <2>1, <2>2, <2>3, ExecCd
  <2>5. ReplayTyped' /\ PassInv'
    BY <1>1, <1>2, <1>3, <1>7, <2>1, <2>4 DEF ReplayTyped, PassInv, CowrieShells
  <2>6. TreeInv'
    BY <1>1, <1>2, <1>5, <2>4 DEF TreeInv, TreeOK
  <2>7. \A q : Logged(q) => Due(q)'
    BY <1>2, <1>3, <1>7, <2>1 DEF Due, Logged
  <2>8. Made'
    BY <2>1 DEF Made
  <2>9. ASSUME ~Due("cwd")' PROVE cowrie'.cwd = cwd
    <3>1. ~Logged("cwd")
      BY <2>7, <2>9
    <3>2. QED
      BY <1>1, <2>4, <3>1, SeenWorks DEF Logged
  <2>10. Follows'
    BY <1>2, <1>5, <2>7, <2>8, <2>9 DEF Follows
  <2>11. QED
    BY <1>4, <2>5, <2>6, <2>10 DEF ReplayInv
<1>8. QED
  BY <1>6, <1>7

(* A path that is logged becomes a directory only if it was one. *)
LEMMA LoggedDirs ==
  ASSUME ReplayTyped, TrackerInv, NamesApart, NEW c \in UsedCommands, NEW ranBy \in {"local", "cowrie"},
         Record(c, ranBy), NEW j \in 1..version, log[j].path # "cwd", files'[log[j].path] = Dir
  PROVE  log[j].path \in Paths /\ files[log[j].path] = Dir
<1> DEFINE p == log[j].path
<1>1. p \in Paths
  BY LogEntry
<1>2. p \in FileNames \ CowrieDirs \/ files[p] = Dir
  BY DEF TrackerInv, LogInv
<1>3. ASSUME files[p] # Dir PROVE FALSE
  <2>1. Grows(p, files'[p])
    BY <1>1, <1>3, Recorded DEF TrackerInv
  <2>2. Dir # None /\ Dir.kind = "dir"
    BY EntryFacts
  <2>3. p \in DirNames
    BY <2>1, <2>2 DEF Grows
  <2>4. QED
    BY <1>2, <1>3, <2>3 DEF NamesApart
<1>4. QED
  BY <1>1, <1>3

LEMMA OursStep ==
  ASSUME NamesApart, ReplayInv, AnsweredByUs
  PROVE  ReplayInv'
<1>1. ReplayTyped /\ TrackerInv /\ TreeInv /\ PassInv /\ Follows /\ FilesInv
  BY DEF ReplayInv, TrackerInv
<1>2. UNCHANGED <<cowrie, ckpt, synced, pass, steady, escaped>> /\ pass = "idle"
  BY DEF AnsweredByUs
<1>3. PICK c \in UsedCommands : Record(c, "local")
  BY DEF AnsweredByUs
<1>4. TrackerInv'
  BY <1>1, <1>3, RecordTracker
<1>5. /\ files' \in [Paths -> Entry] /\ cwd' \in Paths
      /\ \A p \in Paths : files[p] = Dir => files'[p] = Dir
      /\ \A p \in Paths : files'[p] # files[p] => \E i \in version+1..version' : log'[i].path = p
      /\ cwd' # cwd => \E i \in version+1..version' : log'[i].path = "cwd"
      /\ \A i \in version+1..version' : log'[i].ran = "local"
  BY <1>1, <1>3, Recorded
<1>6. /\ log' \in Seq(Pairs) /\ version \in Nat /\ version' \in Nat /\ version <= version'
      /\ \A i \in 1..version : log'[i] = log[i]
  BY <1>1, <1>3, RecordFacts
<1>7. ckpt \in 0..version /\ ckpt \in 0..version'
  BY <1>1, <1>6 DEF ReplayTyped
<1>8. ReplayTyped' /\ PassInv'
  BY <1>1, <1>2, <1>5, <1>6, <1>7 DEF ReplayTyped, PassInv
<1>9. \A p : Logged(p) => Logged(p)'
  BY <1>6, LoggedStays
<1>10. TreeInv'
  BY <1>1, <1>2, <1>5, <1>9 DEF TreeInv, TreeOK
<1>11. \A p : (\E i \in version+1..version' : log'[i].path = p) => Due(p)'
  BY <1>2, <1>5, <1>6, <1>7 DEF Due
<1>12. \A p : Due(p) => Due(p)'
  <2> SUFFICES ASSUME NEW p, Due(p) PROVE Due(p)'
    OBVIOUS
  <2>1. PICK i \in ckpt+1..version : log[i].path = p /\ (synced => log[i].ran = "local")
    BY DEF Due
  <2>2. i \in ckpt'+1..version' /\ log'[i] = log[i]
    BY <1>2, <1>6, <1>7
  <2>3. QED
    BY <1>2, <2>1, <2>2 DEF Due
<1>13. \A p : Logged(p)' => Logged(p) \/ Due(p)'
  <2> SUFFICES ASSUME NEW p, Logged(p)', ~Due(p)' PROVE Logged(p)
    OBVIOUS
  <2>1. PICK i \in 1..version' : log'[i].path = p
    BY DEF Logged
  <2>2. i \in 1..version
    BY <1>6, <1>11, <2>1
  <2>3. QED
    BY <1>6, <2>1, <2>2 DEF Logged
<1>14. ASSUME Following' PROVE Follows'
  <2>1. Made /\ (\A p \in Paths \ escaped : Logged(p) /\ ~Due(p) => Matches(p))
             /\ ("cwd" \notin escaped /\ ~Due("cwd") => cowrie.cwd = cwd)
    BY <1>1, <1>2, <1>14 DEF Follows, Following
  <2>2. Made'
    <3> SUFFICES ASSUME NEW j \in 1..ckpt, log'[j].path # "cwd", files'[log'[j].path] = Dir
                 PROVE  cowrie.tree[log'[j].path].kind = "dir"
      BY <1>2 DEF Made
    <3>1. j \in 1..version /\ log'[j] = log[j]
      BY <1>6, <1>7
    <3>2. files[log[j].path] = Dir
      BY <1>1, <1>3, <3>1, LoggedDirs
    <3>3. QED
      BY <2>1, <3>1, <3>2 DEF Made
  <2>3. ASSUME NEW p \in Paths \ escaped, Logged(p)', ~Due(p)' PROVE Matches(p)'
    <3>1. files'[p] = files[p] /\ Logged(p) /\ ~Due(p)
      BY <1>5, <1>11, <1>12, <1>13, <2>3
    <3>2. QED
      BY <1>2, <2>1, <3>1 DEF Matches
  <2>4. ASSUME "cwd" \notin escaped, ~Due("cwd")' PROVE cowrie.cwd = cwd'
    BY <1>5, <1>11, <1>12, <2>1, <2>4
  <2>5. QED
    BY <1>2, <2>2, <2>3, <2>4 DEF Follows
<1>15. QED
  BY <1>4, <1>8, <1>10, <1>14 DEF ReplayInv, Follows

(* What a command does to the directories and files of Cowrie's tree. *)
LEMMA RunShape ==
  ASSUME ReplayTyped, TrackerInv, TreeInv, NamesApart, NEW c \in UsedCommands
  PROVE  LET t == cowrie.tree
             u == Exec(cowrie, c).tree
         IN  /\ Exec(cowrie, c) \in CowrieShells
             /\ \A q \in Paths : t[q].kind = "dir" => u[q].kind = "dir"
             /\ \A q \in Paths : u[q].kind = "dir" =>
                  t[q].kind = "dir" \/ (c.kind = "mkdir" /\ q \in {c.path, Parent[c.path]})
             /\ \A q \in Paths : u[q].kind = "file" => t[q].kind = "file" \/ q \in FileNames \ CowrieDirs
<1> DEFINE t == cowrie.tree
           u == Exec(cowrie, c).tree
           p == c.path
<1>1. cowrie \in CowrieShells /\ t \in [Paths -> Entry] /\ FilesInv /\ TreeOK(t)
  BY DEF ReplayTyped, CowrieShells, TrackerInv, TreeInv
<1>2. c \in Cmds /\ p \in Paths /\ c.kind \in AllKinds \ {"chmod dir"}
  BY UsedFacts, CmdFacts DEF NamesApart
<1>3. None.kind = "none" /\ Dir.kind = "dir" /\ Dir # None /\ (\A e \in Entry : e # None <=> e \in Real)
  BY EntryFacts
<1>4. p # "/" /\ Parent[p] \in Paths \cup {"/"}
  BY <1>2, ReplayFsAssumption
<1> DEFINE Goal == /\ Exec(cowrie, c) \in CowrieShells
                   /\ \A q \in Paths : t[q].kind = "dir" => u[q].kind = "dir"
                   /\ \A q \in Paths : u[q].kind = "dir" =>
                        t[q].kind = "dir" \/ (c.kind = "mkdir" /\ q \in {p, Parent[p]})
                   /\ \A q \in Paths : u[q].kind = "file" => t[q].kind = "file" \/ q \in FileNames \ CowrieDirs
<1>5. ASSUME c.kind = "cd" PROVE Goal
  <2>1. Exec(cowrie, c) \in CowrieShells /\ u = t
    BY <1>1, <1>2, <1>5, ExecCd
  <2> HIDE DEF u, t
  <2>2. QED
    BY <2>1
<1>6. ASSUME c.kind \in Puts PROVE Goal
  <2>1. /\ Exec(cowrie, c) \in CowrieShells
        /\ u = IF ~IsDir(t, Parent[p]) \/ IsDir(t, p) THEN t ELSE [t EXCEPT ![p] = Written(t, c)]
    BY <1>1, <1>2, <1>6, ExecPut
  <2>2. p \in FileNames \ CowrieDirs
    BY <1>1, <1>2, <1>6, UsedFacts, Seen
  <2> HIDE DEF u, t, p
  <2>3. CASE ~IsDir(t, Parent[p]) \/ IsDir(t, p)
    BY <2>1, <2>3
  <2>4. CASE ~(~IsDir(t, Parent[p]) \/ IsDir(t, p))
    <3>1. Written(t, c).kind = "file"
      BY <1>1, <1>2, <1>6, <2>4, WrittenFacts DEF p
    <3>2. u = [t EXCEPT ![p] = Written(t, c)] /\ t[p].kind # "dir"
      BY <2>1, <2>4 DEF IsDir
    <3>3. \A q \in Paths : q # p => u[q] = t[q]
      BY <1>1, <3>2
    <3>4. u[p].kind = "file"
      BY <1>1, <1>2, <3>1, <3>2
    <3>5. QED
      BY <2>1, <2>2, <3>2, <3>3, <3>4
  <2>5. QED
    BY <2>3, <2>4
<1>7. ASSUME c.kind = "mkdir" PROVE Goal
  <2>1. /\ Exec(cowrie, c) \in CowrieShells
        /\ u = IF IsFile(t, p) \/ (Parent[p] # "/" /\ IsFile(t, Parent[p])) THEN t
               ELSE [q \in Paths |-> IF q \in {p, Parent[p]} /\ t[q] = None THEN Dir ELSE t[q]]
    BY <1>1, <1>2, <1>7, ExecMkdir
  <2> HIDE DEF u, t
  <2>2. \A q \in Paths : u[q] = t[q] \/ (q \in {p, Parent[p]} /\ t[q] = None /\ u[q] = Dir)
    BY <2>1
  <2>3. QED
    BY <1>3, <1>7, <2>1, <2>2
<1>8. ASSUME c.kind = "chmod" PROVE Goal
  <2>1. /\ Exec(cowrie, c) \in CowrieShells
        /\ u = IF t[p] = None THEN t ELSE [t EXCEPT ![p] = [t[p] EXCEPT !.mode = c.mode]]
    BY <1>1, <1>2, <1>8, ExecChmod
  <2>2. c.mode \in {"644", "755"}
    BY <1>2, <1>8, CmdFacts
  <2>3. t[p] # None => [t[p] EXCEPT !.mode = c.mode].kind = t[p].kind
    BY <1>1, <1>2, <1>3, <2>2, ModeSet
  <2> DEFINE new == [t[p] EXCEPT !.mode = c.mode]
  <2> HIDE DEF u, t, new
  <2>4. \A q \in Paths : u[q].kind = t[q].kind
    <3>1. CASE t[p] = None
      BY <2>1, <3>1
    <3>2. CASE t[p] # None
      <4>1. u = [t EXCEPT ![p] = new] /\ new.kind = t[p].kind
        BY <2>1, <2>3, <3>2 DEF new
      <4>2. QED
        BY <1>1, <4>1
    <3>3. QED
      BY <3>1, <3>2
  <2>5. QED
    BY <2>1, <2>4
<1>9. ASSUME c.kind = "rm" PROVE Goal
  <2>1. /\ Exec(cowrie, c) \in CowrieShells
        /\ u = IF IsFile(t, p) THEN [t EXCEPT ![p] = None] ELSE t
    BY <1>1, <1>2, <1>9, ExecRm
  <2> HIDE DEF u, t
  <2>2. \A q \in Paths : u[q] = t[q] \/ (t[q].kind = "file" /\ u[q] = None)
    BY <1>1, <2>1 DEF IsFile
  <2>3. QED
    BY <1>3, <2>1, <2>2
<1>10. ASSUME c.kind = "rm -rf" PROVE Goal
  <2>1. /\ Exec(cowrie, c) \in CowrieShells
        /\ u = [q \in Paths |-> IF q = p \/ Parent[q] = p THEN None ELSE t[q]]
    BY <1>1, <1>2, <1>10, ExecRmRf
  <2>2. SeenFile(p)
    BY <1>10, UsedFacts
  <2>3. p \notin CowrieDirs /\ files[p] # Dir
    BY <1>1, <1>2, <1>3, <2>2, Seen, ReplayFsAssumption
  <2> HIDE DEF u, t
  <2>4. ASSUME NEW q \in Paths, t[q].kind = "dir" PROVE u[q].kind = "dir"
    <3>1. q \in CowrieDirs \/ files[q] = Dir
      BY <1>1, <2>4 DEF TreeOK
    <3>2. q # p
      BY <2>3, <3>1
    <3>3. Parent[q] # p
      <4>1. CASE q \in CowrieDirs
        BY <1>4, <2>3, <4>1, ReplayFsAssumption
      <4>2. CASE files[q] = Dir
        BY <1>1, <1>3, <1>4, <2>3, <4>2 DEF FilesInv, HasParent, Roots
      <4>3. QED
        BY <3>1, <4>1, <4>2
    <3>4. QED
      BY <2>1, <2>4, <3>2, <3>3
  <2>5. \A q \in Paths : u[q] = t[q] \/ u[q] = None
    BY <2>1
  <2>6. QED
    BY <1>3, <2>1, <2>4, <2>5
<1>11. ASSUME c.kind = "mv" PROVE Goal
  <2>1. /\ Exec(cowrie, c) \in CowrieShells
        /\ u = IF ~IsFile(t, p) \/ IsDir(t, c.to) \/ ~IsDir(t, Parent[c.to]) THEN t
               ELSE [t EXCEPT ![c.to] = t[p], ![p] = None]
    BY <1>1, <1>2, <1>11, ExecMv
  <2>2. c.to \in Paths /\ c.to # p
    BY <1>2, <1>11, CmdFacts, UsedFacts
  <2>3. c.to \in FileNames \ CowrieDirs
    BY <1>1, <1>11, <2>2, UsedFacts, Seen
  <2> HIDE DEF u, t
  <2>4. \A q \in Paths : \/ u[q] = t[q]
                         \/ q = c.to /\ t[q].kind # "dir" /\ u[q].kind = "file"
                         \/ q = p /\ t[q].kind = "file" /\ u[q] = None
    BY <1>1, <1>2, <2>1, <2>2 DEF IsFile, IsDir
  <2>5. QED
    BY <1>3, <2>1, <2>3, <2>4
<1>12. Goal
  BY <1>2, <1>5, <1>6, <1>7, <1>8, <1>9, <1>10, <1>11 DEF AllKinds, Puts
<1>13. QED
  BY <1>12

(* A download lands where the tracker expects it: nothing was there, and its directory is. *)
LEMMA Downloaded ==
  ASSUME ReplayTyped, TrackerInv, TreeInv, NamesApart, NEW c \in UsedCommands, c.kind = "wget",
         \A j \in 1..version : log[j].path # "cwd" /\ files[log[j].path] = Dir => cowrie.tree[log[j].path].kind = "dir",
         c.path \notin escaped, Logged(c.path) => Matches(c.path)
  PROVE  Same(Exec(cowrie, c).tree[c.path], File({Placeholder}, "cowrie"))
<1> DEFINE t == cowrie.tree
           p == c.path
<1>1. cowrie \in CowrieShells /\ t \in [Paths -> Entry] /\ FilesInv /\ TreeOK(t)
  BY DEF ReplayTyped, CowrieShells, TrackerInv, TreeInv
<1>2. c \in Cmds /\ p \in Paths /\ c.kind \in Puts /\ CanHold(p) /\ ~SeenFile(p)
  BY UsedFacts, CmdFacts DEF Puts
<1>3. files[p] = None /\ p \notin CowrieDirs \cup CowrieFiles /\ HasParent(p)
  <2>1. p \in FileNames \ CowrieDirs /\ files[p] # Dir /\ HasParent(p) /\ ~SeenDir(p)
    BY <1>1, <1>2, Seen DEF CanHold
  <2>2. QED
    BY <1>1, <1>2, <2>1, Seen
<1>4. t[p] = None
  <2>1. CASE Logged(p)
    <3>1. Presence(t[p]) = <<"none">>
      BY <1>3, <2>1 DEF Matches, Same, Presence
    <3>2. t[p] \in Entry
      BY <1>1, <1>2
    <3>3. t[p] # None => t[p].kind # "none"
      BY <3>2, EntryFacts
    <3>4. QED
      BY <3>1, <3>3 DEF Presence
  <2>2. CASE ~Logged(p)
    BY <1>1, <1>2, <1>3, <2>2, FreshTree DEF TreeOK
  <2>3. QED
    BY <2>1, <2>2
<1>5. IsDir(t, Parent[p])
  <2>1. CASE Parent[p] \in Roots
    BY <1>1, <2>1 DEF Roots, IsDir, TreeOK
  <2>2. CASE Parent[p] \in Paths /\ files[Parent[p]] = Dir
    <3>1. Logged(Parent[p])
      BY <1>1, <2>2, EntryFacts DEF FilesInv
    <3>2. PICK j \in 1..version : log[j].path = Parent[p]
      BY <3>1 DEF Logged
    <3>3. Parent[p] # "cwd"
      BY <2>2, ReplayFsAssumption
    <3>4. QED
      BY <2>2, <3>2, <3>3 DEF IsDir
  <2>3. QED
    BY <1>3, <2>1, <2>2 DEF HasParent
<1>6. ~IsDir(t, p) /\ ~IsFile(t, p)
  <2>1. p # "/" /\ None.kind = "none"
    BY <1>2, ReplayFsAssumption, EntryFacts
  <2>2. QED
    BY <1>4, <2>1 DEF IsDir, IsFile
<1>7. Exec(cowrie, c).tree = [t EXCEPT ![p] = Written(t, c)]
  BY <1>1, <1>2, <1>5, <1>6, ExecPut
<1>8. Written(t, c) \in Real /\ Written(t, c).kind = "file" /\ Written(t, c).mode = "644"
  BY <1>1, <1>2, <1>6, WrittenFacts
<1>9. Exec(cowrie, c).tree[p] = Written(t, c)
  BY <1>1, <1>2, <1>7
<1> DEFINE f == File({Placeholder}, "cowrie")
<1>10. f \in Real /\ f.kind = "file" /\ f.mode = "644" /\ f.backend = "cowrie"
  BY EntryFacts DEF Texts
<1>11. Written(t, c) # None /\ f # None
  BY <1>8, <1>10, EntryFacts
<1> HIDE DEF f
<1>12. Same(Written(t, c), f)
  BY <1>8, <1>10, <1>11 DEF Same, Presence
<1>13. QED
  BY <1>9, <1>12 DEF f

(* At the end of a pass in a shell that held still nothing is due.         *)
LEMMA SettledFollows ==
  ASSUME ReplayTyped, PassInv, Follows, Settled, steady
  PROVE  /\ \A p : ~Due(p)
         /\ \A j \in 1..version : log[j].path # "cwd" /\ files[log[j].path] = Dir => cowrie.tree[log[j].path].kind = "dir"
         /\ \A p \in Paths \ escaped : Logged(p) => Matches(p)
         /\ "cwd" \notin escaped => cowrie.cwd = cwd
<1>1. ckpt = version /\ pass # "idle" /\ version \in Nat
  BY DEF Settled, PassEnds, ReplayTyped, version
<1>2. pass \in {"replay", "rebuild"} /\ synced \in BOOLEAN
  BY <1>1 DEF ReplayTyped
<1>3. Following
  BY <1>1, <1>2 DEF PassInv, Following
<1>4. \A p : ~Due(p)
  BY <1>1 DEF Due
<1>5. QED
  BY <1>1, <1>3, <1>4 DEF Follows, Made

LEMMA RunStep ==
  ASSUME NamesApart, ReplayInv, AnsweredByCowrie
  PROVE  ReplayInv'
<1>1. ReplayTyped /\ TrackerInv /\ TreeInv /\ PassInv /\ Follows /\ FilesInv
  BY DEF ReplayInv, TrackerInv
<1>2. PICK c \in UsedCommands :
        /\ Settled /\ Record(c, IF c.kind = "wget" THEN "cowrie" ELSE "local")
        /\ cowrie' = Exec(cowrie, c) /\ escaped' = escaped \cup Unnoticed(c, cowrie)
        /\ UNCHANGED ckpt
  BY DEF AnsweredByCowrie
<1> DEFINE ranBy == IF c.kind = "wget" THEN "cowrie" ELSE "local"
<1>3. ranBy \in {"local", "cowrie"} /\ (ranBy = "cowrie" <=> c.kind = "wget") /\ Record(c, ranBy)
  BY <1>2
<1> HIDE DEF ranBy
<1>4. TrackerInv'
  BY <1>1, <1>3, RecordTracker
<1>5. /\ files' \in [Paths -> Entry] /\ cwd' \in Paths
      /\ \A p \in Paths : files'[p] # files[p] => Grows(p, files'[p])
      /\ \A p \in Paths : files[p] = Dir => files'[p] = Dir
      /\ \A p \in Paths : files'[p] # files[p] => \E i \in version+1..version' : log'[i].path = p
      /\ cwd' # cwd => \E i \in version+1..version' : log'[i].path = "cwd"
      /\ \A i \in version+1..version' :
           /\ log'[i].ran = ranBy
           /\ \/ log'[i].path = "cwd" /\ cwd' # cwd
              \/ log'[i].path \in Paths /\ files'[log'[i].path] # files[log'[i].path]
  BY <1>1, <1>3, Recorded
<1>6. /\ log' \in Seq(Pairs) /\ version \in Nat /\ version' \in Nat /\ version <= version'
      /\ \A i \in 1..version : log'[i] = log[i]
      /\ \A x \in Range(Pointers(c)) : \E i \in version+1..version' : log'[i].path = x
  BY <1>1, <1>3, RecordFacts
<1>7. ckpt = version /\ ckpt' = ckpt /\ pass' = "idle" /\ steady' = TRUE /\ synced' = steady
  BY <1>2 DEF Settled, PassEnds
<1> DEFINE t == cowrie.tree
           u == cowrie'.tree
<1>8. /\ cowrie' \in CowrieShells
      /\ \A q \in Paths : t[q].kind = "dir" => u[q].kind = "dir"
      /\ \A q \in Paths : u[q].kind = "dir" =>
           t[q].kind = "dir" \/ (c.kind = "mkdir" /\ q \in {c.path, Parent[c.path]})
      /\ \A q \in Paths : u[q].kind = "file" => t[q].kind = "file" \/ q \in FileNames \ CowrieDirs
  BY <1>1, <1>2, RunShape
<1>9. Unnoticed(c, cowrie) = ({q \in Paths : u[q] # t[q]} \cup (IF cowrie'.cwd # cowrie.cwd THEN {"cwd"} ELSE {}))
                             \ Range(Pointers(c))
  BY <1>2 DEF Unnoticed
<1>10. ReplayTyped' /\ PassInv'
  <2>1. Unnoticed(c, cowrie) \subseteq Paths \cup {"cwd"}
    BY <1>9
  <2>2. ckpt' \in 0..version'
    BY <1>6, <1>7
  <2>3. cowrie' \in [tree : [Paths -> Entry], cwd : Paths]
    BY <1>8 DEF CowrieShells
  <2>4. escaped' \subseteq Paths \cup {"cwd"}
    BY <1>1, <1>2, <2>1 DEF ReplayTyped
  <2>5. synced' \in BOOLEAN
    BY <1>1, <1>7 DEF ReplayTyped
  <2>6. QED
    BY <1>5, <1>6, <1>7, <2>2, <2>3, <2>4, <2>5 DEF ReplayTyped, PassInv
<1> HIDE DEF t, u
<1>11. \A p : Logged(p) => Logged(p)'
  BY <1>6, LoggedStays
<1>12. \A q \in Paths \cup {"cwd"} : q \notin escaped' =>
         /\ q \notin escaped
         /\ q \in Paths /\ u[q] # t[q] => \E i \in version+1..version' : log'[i].path = q
         /\ q = "cwd" /\ cowrie'.cwd # cowrie.cwd => \E i \in version+1..version' : log'[i].path = q
  BY <1>2, <1>6, <1>9
<1>13. ASSUME NEW q, \E i \in version+1..version' : log'[i].path = q PROVE Logged(q)'
  <2>1. PICK i \in version+1..version' : log'[i].path = q
    BY <1>13
  <2>2. i \in 1..version'
    BY <1>6
  <2>3. QED
    BY <2>1, <2>2 DEF Logged
<1>14. TreeInv'
  <2>1. \A q \in CowrieDirs : u[q].kind = "dir"
    BY <1>1, <1>8, ReplayFsAssumption DEF TreeInv, TreeOK, t
  <2>2. ASSUME NEW q \in Paths, u[q].kind = "dir" PROVE q \in CowrieDirs \/ files'[q] = Dir
    <3>1. CASE t[q].kind = "dir"
      BY <1>1, <1>5, <3>1 DEF TreeInv, TreeOK, t
    <3>2. CASE c.kind = "mkdir" /\ q \in {c.path, Parent[c.path]}
      <4>1. files'[c.path] = Dir
        BY <1>1, <1>3, <3>2, FilesAfterFacts DEF Record
      <4>2. c.path \in Paths /\ SeenDir(Parent[c.path])
        BY <3>2, UsedFacts, CmdFacts
      <4>3. HasParent(c.path)
        BY <1>1, <4>2, Seen
      <4>4. q # "/"
        BY ReplayFsAssumption
      <4>5. QED
        BY <1>5, <3>2, <4>1, <4>2, <4>3, <4>4 DEF HasParent, Roots
    <3>3. QED
      BY <1>8, <2>2, <3>1, <3>2
  <2>3. \A q \in Paths : u[q].kind = "file" => q \in (FileNames \cup CowrieFiles) \ CowrieDirs
    BY <1>1, <1>8 DEF TreeInv, TreeOK, t
  <2>4. ASSUME NEW q \in Paths, q \notin escaped', ~Logged(q)' PROVE u[q] = FreshShell.tree[q]
    <3>1. u[q] = t[q] /\ q \notin escaped /\ ~Logged(q)
      BY <1>11, <1>12, <1>13, <2>4
    <3>2. QED
      BY <1>1, <3>1 DEF TreeInv, TreeOK, t
  <2>5. QED
    BY <2>1, <2>2, <2>3, <2>4 DEF TreeInv, TreeOK, u
<1>15. ASSUME Following' PROVE Follows'
  <2>1. steady /\ Settled /\ synced'
    BY <1>2, <1>7, <1>15 DEF Following
  <2>2. /\ \A j \in 1..version : log[j].path # "cwd" /\ files[log[j].path] = Dir => cowrie.tree[log[j].path].kind = "dir"
        /\ \A p \in Paths \ escaped : Logged(p) => Matches(p)
        /\ "cwd" \notin escaped => cowrie.cwd = cwd
    BY <1>1, <2>1, SettledFollows
  <2>3. ASSUME c.kind # "wget", NEW x, ~Due(x)' PROVE ~ \E i \in version+1..version' : log'[i].path = x
    BY <1>3, <1>5, <1>7, <2>3 DEF Due
  <2>4. Made'
    <3> SUFFICES ASSUME NEW j \in 1..version, log'[j].path # "cwd", files'[log'[j].path] = Dir
                 PROVE  u[log'[j].path].kind = "dir"
      BY <1>7 DEF Made, u
    <3>1. log'[j] = log[j]
      BY <1>6
    <3>2. log[j].path \in Paths /\ files[log[j].path] = Dir
      BY <1>1, <1>3, <3>1, LoggedDirs
    <3>3. QED
      BY <1>8, <2>2, <3>1, <3>2 DEF t
  <2>5. \A p : Logged(p)' => Logged(p) \/ \E i \in version+1..version' : log'[i].path = p
    <3> SUFFICES ASSUME NEW p, NEW i \in 1..version', log'[i].path = p, i \notin version+1..version' PROVE Logged(p)
      BY DEF Logged
    <3>1. i \in 1..version
      BY <1>6
    <3>2. QED
      BY <1>6, <3>1 DEF Logged
  <2>6. ASSUME NEW p \in Paths, p \notin escaped', Logged(p)', ~(\E i \in version+1..version' : log'[i].path = p)
        PROVE  Same(u[p], files'[p])
    <3>1. Logged(p) /\ u[p] = t[p] /\ p \notin escaped /\ files'[p] = files[p]
      BY <1>5, <1>12, <2>5, <2>6
    <3>2. QED
      BY <2>2, <3>1 DEF Matches, t
  <2>7. ASSUME NEW p \in Paths, p \notin escaped', Logged(p)', ~Due(p)' PROVE Same(u[p], files'[p])
    <3>1. CASE c.kind # "wget"
      BY <2>3, <2>6, <2>7, <3>1
    <3>2. CASE c.kind = "wget"
      <4>1. \A q \in Paths \ {c.path} : files'[q] = files[q]
        BY <1>1, <1>3, <3>2, FilesAfterFacts DEF Record
      <4>2. files'[c.path] = File({Placeholder}, "cowrie")
        BY <1>1, <1>3, <3>2, FilesAfterFacts DEF Record
      <4>3. CASE p = c.path
        <5>1. p \notin escaped
          BY <1>12, <2>7
        <5>2. Same(Exec(cowrie, c).tree[c.path], File({Placeholder}, "cowrie"))
          BY <1>1, <2>2, <3>2, <4>3, <5>1, Downloaded
        <5>3. QED
          BY <1>2, <4>2, <4>3, <5>2 DEF u
      <4>4. CASE p # c.path
        <5>1. p # "cwd" /\ files'[p] = files[p]
          BY <4>1, <4>4, ReplayFsAssumption
        <5>2. ~ \E i \in version+1..version' : log'[i].path = p
          BY <1>5, <5>1
        <5>3. QED
          BY <2>6, <2>7, <5>2
      <4>5. QED
        BY <4>3, <4>4
    <3>3. QED
      BY <3>1, <3>2
  <2>8. ASSUME "cwd" \notin escaped', ~Due("cwd")' PROVE cowrie'.cwd = cwd'
    <3>1. CASE \E i \in version+1..version' : log'[i].path = "cwd"
      <4>1. c.kind = "wget"
        BY <2>3, <2>8, <3>1
      <4>2. CwdAfter(c) = cwd /\ "cwd" \notin Paths
        BY <4>1, ReplayFsAssumption DEF CwdAfter
      <4>3. QED
        BY <1>3, <1>5, <3>1, <4>2 DEF Record
    <3>2. CASE ~ \E i \in version+1..version' : log'[i].path = "cwd"
      <4>1. cowrie'.cwd = cowrie.cwd /\ cwd' = cwd /\ "cwd" \notin escaped
        BY <1>5, <1>12, <2>8, <3>2
      <4>2. QED
        BY <2>2, <4>1
    <3>3. QED
      BY <3>1, <3>2
  <2>9. QED
    BY <2>4, <2>7, <2>8 DEF Follows, Matches, u
<1>16. QED
  BY <1>4, <1>10, <1>14, <1>15 DEF ReplayInv, Follows

LEMMA ReadStep ==
  ASSUME NamesApart, ReplayInv, ReadFromCowrie
  PROVE  ReplayInv'
<1>1. ReplayTyped /\ TrackerInv /\ TreeInv /\ PassInv /\ Follows /\ Settled
  BY DEF ReplayInv, ReadFromCowrie
<1>2. UNCHANGED <<files, cwd, log, cowrie, ckpt, escaped>>
      /\ pass' = "idle" /\ steady' = TRUE /\ synced' = steady /\ ckpt = version
  BY DEF ReadFromCowrie, Settled, PassEnds, tracker
<1>3. version' = version /\ version \in Nat
  BY <1>1, <1>2 DEF ReplayTyped, version
<1>4. TrackerInv'
  BY <1>1, <1>2, <1>3 DEF TrackerInv, FilesInv, LogInv, CwdInv, Logged, HasParent
<1>5. \A q : Logged(q)' <=> Logged(q)
  BY <1>2, <1>3 DEF Logged
<1>6. ReplayTyped' /\ PassInv'
  BY <1>1, <1>2, <1>3 DEF ReplayTyped, PassInv
<1>7. TreeInv'
  BY <1>1, <1>2, <1>5 DEF TreeInv, TreeOK
<1>8. ASSUME Following' PROVE Follows'
  <2>1. /\ \A j \in 1..version : log[j].path # "cwd" /\ files[log[j].path] = Dir => cowrie.tree[log[j].path].kind = "dir"
        /\ \A p \in Paths \ escaped : Logged(p) => Matches(p)
        /\ "cwd" \notin escaped => cowrie.cwd = cwd
    BY <1>1, <1>2, <1>8, SettledFollows DEF Following
  <2>2. Made'
    BY <1>2, <2>1 DEF Made
  <2>3. QED
    BY <1>2, <1>5, <2>1, <2>2 DEF Follows, Matches
<1>9. QED
  BY <1>4, <1>6, <1>7, <1>8 DEF ReplayInv, Follows

LEMMA FreshOK ==
  /\ FreshShell \in CowrieShells
  /\ \A p \in CowrieDirs : FreshShell.tree[p].kind = "dir"
  /\ \A p \in Paths : FreshShell.tree[p].kind = "dir" => p \in CowrieDirs
  /\ \A p \in Paths : FreshShell.tree[p].kind = "file" => p \in CowrieFiles \ CowrieDirs
<1>1. None \in Entry /\ Dir \in Entry /\ File({OwnText}, "ours") \in Entry
      /\ None.kind = "none" /\ Dir.kind = "dir" /\ File({OwnText}, "ours").kind = "file"
  BY EntryFacts DEF Texts
<1>2. Home \in Paths /\ CowrieDirs \subseteq Paths /\ CowrieDirs \cap CowrieFiles = {}
  BY ReplayFsAssumption
<1>3. FreshShell \in CowrieShells
  BY <1>1, <1>2 DEF FreshShell, CowrieShells
<1>4. \A p \in Paths : p \in CowrieDirs \/ p \in CowrieFiles \/ p \notin CowrieDirs \cup CowrieFiles
  OBVIOUS
<1>5. QED
  BY <1>1, <1>2, <1>3, <1>4, FreshTree

LEMMA ReconnectStep ==
  ASSUME ReplayInv, Reconnect
  PROVE  ReplayInv'
<1>1. ReplayTyped /\ TrackerInv /\ TreeInv /\ PassInv /\ Follows
  BY DEF ReplayInv
<1>2. UNCHANGED <<files, cwd, log, ckpt, pass>> /\ escaped' = {} /\ cowrie' = FreshShell
      /\ synced' = FALSE /\ steady' = (pass = "idle")
  BY DEF Reconnect, tracker
<1>3. version' = version
  BY <1>2 DEF version
<1>4. TrackerInv'
  BY <1>1, <1>2, <1>3 DEF TrackerInv, FilesInv, LogInv, CwdInv, Logged, HasParent
<1>5. ReplayTyped'
  BY <1>1, <1>2, <1>3, FreshOK DEF ReplayTyped, CowrieShells
<1>6. PassInv'
  BY <1>2 DEF PassInv
<1>7. TreeInv'
  BY <1>2, FreshOK DEF TreeInv, TreeOK
<1>8. Follows'
  BY <1>2 DEF Follows, Following
<1>9. QED
  BY <1>4, <1>5, <1>6, <1>7, <1>8 DEF ReplayInv

LEMMA ReplayStarts == ReplayInit => ReplayInv
<1> SUFFICES ASSUME ReplayInit PROVE ReplayInv
  OBVIOUS
<1>1. version = 0 /\ log \in Seq(Pairs)
  BY DEF ReplayInit, version
<1>2. None \in Entry /\ Home \in Paths /\ Home \in KnownDirs
  BY EntryFacts, ReplayFsAssumption
<1>3. ReplayTyped
  <2>1. files \in [Paths -> Entry] /\ cwd \in Paths /\ escaped = {} /\ synced = FALSE
        /\ steady = TRUE /\ pass = "idle" /\ ckpt = 0
    BY <1>2 DEF ReplayInit
  <2>2. cowrie \in [tree : [Paths -> Entry], cwd : Paths]
    BY FreshOK DEF ReplayInit, CowrieShells
  <2>3. ckpt \in 0..version
    BY <1>1, <2>1
  <2>4. synced \in BOOLEAN /\ steady \in BOOLEAN /\ pass \in {"idle", "replay", "rebuild"}
        /\ escaped \subseteq Paths \cup {"cwd"}
    BY <2>1
  <2>5. QED
    BY <1>1, <2>1, <2>2, <2>3, <2>4 DEF ReplayTyped
<1>4. TrackerInv
  BY <1>1, <1>2 DEF ReplayInit, TrackerInv, FilesInv, LogInv, CwdInv
<1>5. TreeInv
  BY FreshOK DEF ReplayInit, TreeInv, TreeOK
<1>6. PassInv /\ Follows
  BY DEF ReplayInit, PassInv, Follows, Following
<1>7. QED
  BY <1>3, <1>4, <1>5, <1>6 DEF ReplayInv

LEMMA ReplayKeeps ==
  ASSUME NamesApart, ReplayInv, [ReplayNext]_replayVars
  PROVE  ReplayInv'
<1>1. CASE AnsweredByUs
  BY <1>1, OursStep
<1>2. CASE CatchUp
  BY <1>2, BeginStep DEF CatchUp
<1>3. CASE Replay
  BY <1>3, ReplayStep
<1>4. CASE PassAgain
  BY <1>4, BeginStep DEF PassAgain
<1>5. CASE AnsweredByCowrie
  BY <1>5, RunStep
<1>6. CASE ReadFromCowrie
  BY <1>6, ReadStep
<1>7. CASE Reconnect
  BY <1>7, ReconnectStep
<1>8. CASE UNCHANGED replayVars
  <2>1. UNCHANGED <<files, cwd, log, cowrie, ckpt, synced, pass, steady, escaped>>
    BY <1>8 DEF replayVars, tracker
  <2>2. QED
    BY <2>1 DEF ReplayInv, ReplayTyped, TrackerInv, FilesInv, LogInv, CwdInv, TreeInv, TreeOK,
      PassInv, Follows, Following, Made, Due, Matches, Logged, HasParent, version
<1>9. QED
  BY <1>1, <1>2, <1>3, <1>4, <1>5, <1>6, <1>7, <1>8 DEF ReplayNext

LEMMA CaughtUpFollows ==
  ASSUME ReplayInv, CaughtUp
  PROVE  /\ \A p \in ChangedPaths \ escaped : Matches(p)
         /\ "cwd" \notin escaped => cowrie.cwd = cwd
<1>1. ReplayTyped /\ Follows /\ synced /\ ckpt = version /\ Following /\ version \in Nat
  BY DEF ReplayInv, CaughtUp, Following, ReplayTyped, version
<1>2. \A p : ~Due(p)
  BY <1>1 DEF Due
<1>3. ASSUME NEW p \in ChangedPaths PROVE p \in Paths /\ Logged(p)
  <2>1. PICK d \in Range(log) : d.path = p /\ p # "cwd"
    BY <1>3 DEF ChangedPaths
  <2>2. PICK i \in 1..version : log[i] = d
    BY <1>1, <2>1 DEF Range, ReplayTyped, version
  <2>3. QED
    BY <1>1, <2>1, <2>2, LogEntry DEF Logged
<1>4. QED
  BY <1>1, <1>2, <1>3 DEF Follows

(* However the commands were split between Cowrie and us, and wherever its *)
(* shell was lost, a caught-up Cowrie has each path the session changed    *)
(* exactly when the tracker has it, of its kind and with its permissions:  *)
(* what _delta_cmds calls "existence + perms".                             *)
THEOREM CowrieHasWhatWasMade ==
  ASSUME NamesApart
  PROVE  ReplaySpec => []ExistenceAndPerms
<1>1. ReplayInit => ReplayInv
  BY ReplayStarts
<1>2. ReplayInv /\ [ReplayNext]_replayVars => ReplayInv'
  BY ReplayKeeps
<1>3. ReplayInv => ExistenceAndPerms
  <2> SUFFICES ASSUME ReplayInv, CaughtUp, NEW p \in ChangedPaths \ escaped
               PROVE  Presence(cowrie.tree[p]) = Presence(files[p])
    BY DEF ExistenceAndPerms
  <2>1. QED
    BY CaughtUpFollows DEF Matches, Same
<1>4. QED
  BY <1>1, <1>2, <1>3, PTL DEF ReplaySpec

(* A file the attacker wrote has its text of now on a caught-up Cowrie,    *)
(* though _log_deltas logged a pointer and no text.                        *)
THEOREM CowrieHasWhatWasWritten ==
  ASSUME NamesApart
  PROVE  ReplaySpec => []WrittenTextArrives
<1>1. ReplayInit => ReplayInv
  BY ReplayStarts
<1>2. ReplayInv /\ [ReplayNext]_replayVars => ReplayInv'
  BY ReplayKeeps
<1>3. ReplayInv => WrittenTextArrives
  BY CaughtUpFollows DEF WrittenTextArrives, Matches, Same
<1>4. QED
  BY <1>1, <1>2, <1>3, PTL DEF ReplaySpec

(* A caught-up Cowrie works where the tracker believes it does: by the     *)
(* pointer of the last cd, or, when no cd was logged, by the realignment a *)
(* rebuild begins with.                                                    *)
THEOREM CowrieWorksWhereWeDo ==
  ASSUME NamesApart
  PROVE  ReplaySpec => []CwdInStep
<1>1. ReplayInit => ReplayInv
  BY ReplayStarts
<1>2. ReplayInv /\ [ReplayNext]_replayVars => ReplayInv'
  BY ReplayKeeps
<1>3. ReplayInv => CwdInStep
  BY CaughtUpFollows DEF CwdInStep
<1>4. QED
  BY <1>1, <1>2, <1>3, PTL DEF ReplaySpec

=============================================================================
