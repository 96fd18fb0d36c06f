-------------------------- MODULE Evidence_proofs --------------------------
(***************************************************************************)
(* What becomes of a command, for any sessions, exporters, filters, batch  *)
(* size, number of events and faults.  The threads meet in two places, the *)
(* table and the locked buffers, and the proofs follow that cut: one       *)
(* invariant about rows, to which the exporters do not belong, and three   *)
(* about the streams, to which the table does not.                         *)
(***************************************************************************)
EXTENDS Evidence, FiniteSetTheorems, SequenceTheorems, TLAPS

Places == {"idle", "answering", "select", "insert", "export", "send", "stopped", "exited"}

ThreadState ==
  [at : Places, n : Nat, seq : Nat, tries : {0, 1}, next : Nat \ {0}]

Types ==
  /\ sid \in [Sessions -> Seconds]
  /\ table \subseteq [sid : Seconds, seq : Nat, of : Event]
  /\ thread \in [Threads -> ThreadState]
  /\ buffer \in [ExporterNames -> Seq(Event)]
  /\ batch \in [ExporterNames -> Seq(Event)]
  /\ wire \in [ExporterNames -> Seq(Event)]
  /\ dropped \in [ExporterNames -> SUBSET Event]
  /\ late \in [ExporterNames -> SUBSET Event]
  /\ lock \in [ExporterNames -> Threads \cup {Nobody}]
  /\ faults \in Nat

(* What only some threads do, and that a thread has an event in its hands. *)
Roles ==
  /\ \A t \in Sources : /\ thread[t].at # "idle" => thread[t].n > 0
                        /\ thread[t].at \notin {"stopped", "exited"}
  /\ \A t \in Threads \ Sessions : thread[t].at \notin {"answering", "select", "insert"}
  /\ \A t \in Threads : thread[t].at \notin {"export", "send"} => thread[t].next = 1

(* A lock is held exactly while its batch goes out, by the thread that is  *)
(* sending to that exporter.                                               *)
Locking ==
  /\ \A x \in ExporterNames :
       /\ lock[x] = Nobody <=> batch[x] = << >>
       /\ lock[x] # Nobody => thread[lock[x]].at = "send" /\ At(lock[x], x)
  /\ \A t \in Threads : thread[t].at = "send" =>
       \E x \in ExporterNames : At(t, x) /\ lock[x] = t

-----------------------------------------------------------------------------
(* The rows.                                                               *)

Mine(second) == {r \in table : r.sid = second}

(* A command is past its row: written, ignored or lost.                    *)
Written(s) == thread[s].n > 0 /\ thread[s].at \notin {"answering", "select", "insert"}

Alone(s) == \A r \in Sessions \ {s} : sid[r] # sid[s]

RowsOfSessions ==
  \A row \in table :
    /\ row.of.by \in Sessions /\ row.sid = sid[row.of.by]
    /\ row.of.n <= thread[row.of.by].n
    /\ row.of.n = thread[row.of.by].n => Written(row.of.by)

RowsAreCounted ==
  /\ IsFiniteSet(table)
  /\ \A second \in Seconds :
       Seqs(second) = 0..Cardinality(Mine(second)) - 1

(* The number a thread has read was free when it read it; it can only have *)
(* been taken by another session of the same SESSION_ID.                   *)
NumberRead ==
  \A s \in Sessions : thread[s].at = "insert" =>
    /\ thread[s].seq <= Cardinality(Mine(sid[s]))
    /\ Alone(s) => thread[s].seq \notin Seqs(sid[s])

RowsAreOrdered ==
  \A a, b \in table :
    a.sid = b.sid /\ a.of.by = b.of.by /\ a.of.n < b.of.n => a.seq < b.seq

WrittenOrLost ==
  \A s \in Sessions : Written(s) /\ Alone(s) =>
    Current(s) \in lost \/ \E row \in table : row.of = Current(s)

RowsInv == RowsOfSessions /\ RowsAreCounted /\ NumberRead /\ RowsAreOrdered /\ WrittenOrLost

-----------------------------------------------------------------------------
(* The streams.                                                            *)

(* Thread t has done its part at the i-th exporter.                        *)
Visited(t, i) ==
  \/ thread[t].at = "idle"
  \/ thread[t].at = "export" /\ i < thread[t].next
  \/ thread[t].at = "send" /\ i <= thread[t].next

Before(e, f) == e.by = f.by => e.n < f.n

Ordered(s) == \A i, j \in DOMAIN s : i < j => Before(s[i], s[j])

AllBefore(s, t) == \A e \in ToSet(s), f \in ToSet(t) : Before(e, f)

(* The three parts of a stream, each in order and each before the next.    *)
InOrder(x) ==
  /\ Ordered(wire[x]) /\ Ordered(batch[x]) /\ Ordered(buffer[x])
  /\ AllBefore(wire[x], batch[x]) /\ AllBefore(wire[x], buffer[x])
  /\ AllBefore(batch[x], buffer[x])

Has(x) == ToSet(wire[x]) \cup ToSet(batch[x]) \cup ToSet(buffer[x])

(* What exporter i has is what its visitors brought.                       *)
Brought(i) ==
  \A e \in Has(Exporters[i]) :
    /\ e.n <= thread[e.by].n
    /\ e.n = thread[e.by].n => Visited(e.by, i)

OrderInv == \A i \in DOMAIN Exporters : Brought(i) /\ InOrder(Exporters[i])

ForwardInv ==
  \A t \in Sources : \A i \in DOMAIN Exporters :
    thread[t].n > 0 /\ Visited(t, i) /\ Brings(t, Exporters[i]) =>
      Current(t) \in dropped[Exporters[i]] \cup Has(Exporters[i])

Pending(x) == ToSet(buffer[x]) \cup ToSet(batch[x])

(* A buffer whose lock is held is empty, so that nothing slips in behind   *)
(* its flush.                                                              *)
LockedIsEmpty == \A x \in ExporterNames : lock[x] # Nobody => buffer[x] = << >>

(* The flush at shutdown has come to the i-th exporter, or is done with it. *)
Reached(i) ==
  \/ thread[Main].at \in {"stopped", "exited"}
  \/ thread[Main].at = "export" /\ i < thread[Main].next
  \/ thread[Main].at = "send" /\ i <= thread[Main].next

Flushed(i) == thread[Main].at \in {"stopped", "exited"} \/ i < thread[Main].next

(* No line begins when the loop has stopped: what is under way was so when *)
(* the flush came, and only that and findings can be buffered after it.    *)
ShutdownInv ==
  \A i \in DOMAIN Exporters :
    /\ Reached(i) => \A s \in Sessions :
         thread[s].at # "idle" => Current(s) \in late[Exporters[i]]
    /\ Flushed(i) => \A e \in Pending(Exporters[i]) :
         e.by = Sweeper \/ e \in late[Exporters[i]]

Base == Types /\ Roles /\ Locking

-----------------------------------------------------------------------------
(* Threads, exporters and events.                                          *)

LEMMA ThreadFacts ==
  /\ Sources \subseteq Threads /\ Sessions \subseteq Sources /\ Main \in Threads
  /\ Sweeper \in Sources /\ Main \notin Sources /\ Sweeper \notin Sessions
  /\ Threads \ Sessions = {Sweeper, Main} /\ Nobody \notin Threads
BY EvidenceAssumption DEF Threads, Sources

LEMMA ExporterFacts ==
  /\ Len(Exporters) \in Nat /\ DOMAIN Exporters = 1..Len(Exporters)
  /\ \A i \in DOMAIN Exporters : Exporters[i] \in ExporterNames
  /\ \A x \in ExporterNames : \E i \in DOMAIN Exporters : Exporters[i] = x
  /\ \A i, j \in DOMAIN Exporters : Exporters[i] = Exporters[j] => i = j
<1>1. Exporters \in Seq(ExporterNames)
  BY EvidenceAssumption
<1>2. QED
  BY <1>1, EvidenceAssumption, LenProperties DEF ExporterNames

LEMMA EventFacts ==
  \A e \in Event : e.by \in Sources /\ e.n \in Nat /\ e.n > 0
BY DEF Event

LEMMA Fields ==
  ASSUME Types, NEW t \in Threads
  PROVE  /\ thread[t] \in ThreadState /\ thread[t].at \in Places
         /\ thread[t].n \in Nat /\ thread[t].seq \in Nat
         /\ thread[t].tries \in {0, 1} /\ thread[t].next \in Nat \ {0}
         /\ thread[t].n + 1 \in Nat /\ thread[t].next + 1 \in Nat \ {0}
BY DEF Types, ThreadState

LEMMA CurrentFacts ==
  ASSUME Types, Roles, NEW t \in Sources, thread[t].n > 0
  PROVE  Current(t) \in Event /\ Current(t).by = t /\ Current(t).n = thread[t].n
<1>1. thread[t].n \in Nat \ {0}
  BY ThreadFacts, Fields
<1>2. QED
  BY <1>1 DEF Current, Event

(* Two threads do not send to one exporter at once.                        *)
LEMMA SenderHoldsLock ==
  ASSUME Types, Locking, NEW t \in Threads, NEW x \in ExporterNames,
         thread[t].at = "send", At(t, x)
  PROVE  lock[x] = t
BY DEF Locking, At

(* Initially every thread is idle, every buffer empty and every lock free. *)
LEMMA BaseInit == Init => Base
<1> SUFFICES ASSUME Init PROVE Base
  OBVIOUS
<1>1. Types
  <2>1. thread \in [Threads -> ThreadState]
    BY DEF Init, ThreadState, Places
  <2>2. << >> \in Seq(Event)
    BY EmptySeq
  <2>3. QED
    BY <2>1, <2>2, EvidenceAssumption DEF Init, Types
<1>2. Roles
  BY EvidenceAssumption, ThreadFacts DEF Init, Roles
<1>3. Locking
  BY ThreadFacts DEF Init, Locking
<1>4. QED
  BY <1>1, <1>2, <1>3 DEF Base
-----------------------------------------------------------------------------
(* What starts a thread, and the table.                                    *)

(* Only thread t moves.                                                    *)
Moves(t) ==
  /\ thread' \in [Threads -> ThreadState]
  /\ \A u \in Threads \ {t} : thread'[u] = thread[u]

Keeps(t, field) == thread'[t][field] = thread[t][field]

LEMMA AskMoves ==
  ASSUME Types, NEW s \in Sessions, Ask(s)
  PROVE  /\ Moves(s) /\ Keeps(s, "next")
         /\ thread'[s].at = "answering" /\ thread'[s].n = thread[s].n + 1
<1>1. s \in Threads /\ thread \in [Threads -> ThreadState] /\ thread[s].n + 1 \in Nat
  BY ThreadFacts, Fields DEF Types
<1>2. QED
  BY <1>1 DEF Moves, Keeps, Ask, ThreadState, Places

LEMMA FinishMoves ==
  ASSUME Types, NEW s \in Sessions, Finish(s)
  PROVE  /\ Moves(s) /\ Keeps(s, "n") /\ Keeps(s, "next")
         /\ thread'[s].at = "select"
<1>1. s \in Threads /\ thread \in [Threads -> ThreadState]
  BY ThreadFacts, Fields DEF Types
<1>2. QED
  BY <1>1 DEF Moves, Keeps, Finish, ThreadState, Places

LEMMA FindMoves ==
  ASSUME Types, Find
  PROVE  /\ Moves(Sweeper) /\ Keeps(Sweeper, "next")
         /\ thread'[Sweeper].at = "export" /\ thread'[Sweeper].n = thread[Sweeper].n + 1
<1>1. Sweeper \in Threads /\ thread \in [Threads -> ThreadState] /\ thread[Sweeper].n + 1 \in Nat
  BY ThreadFacts, Fields DEF Types
<1>2. QED
  BY <1>1 DEF Moves, Keeps, Find, ThreadState, Places

LEMMA ShutdownMoves ==
  ASSUME Types, Shutdown
  PROVE  Moves(Main) /\ Keeps(Main, "next") /\ thread'[Main].at = "export"
<1>1. Main \in Threads /\ thread \in [Threads -> ThreadState]
  BY ThreadFacts, Fields DEF Types
<1>2. QED
  BY <1>1 DEF Moves, Keeps, Shutdown, ThreadState, Places

LEMMA ExitMoves ==
  ASSUME Types, Exit
  PROVE  Moves(Main) /\ Keeps(Main, "next") /\ thread'[Main].at = "exited"
<1>1. Main \in Threads /\ thread \in [Threads -> ThreadState]
  BY ThreadFacts, Fields DEF Types
<1>2. QED
  BY <1>1 DEF Moves, Keeps, Exit, ThreadState, Places

LEMMA InsertMoves ==
  ASSUME Types, NEW s \in Sessions, thread' = ToExport(s)
  PROVE  /\ Moves(s) /\ Keeps(s, "n") /\ Keeps(s, "next")
         /\ thread'[s].at = "export"
<1>1. s \in Threads /\ thread \in [Threads -> ThreadState]
  BY ThreadFacts, Fields DEF Types
<1>2. QED
  BY <1>1 DEF Moves, Keeps, ToExport, ThreadState, Places

LEMMA RetryMoves ==
  ASSUME Types, NEW s \in Sessions,
         thread' = [thread EXCEPT ![s].at = "select", ![s].seq = 0, ![s].tries = 1]
  PROVE  /\ Moves(s) /\ Keeps(s, "n") /\ Keeps(s, "next")
         /\ thread'[s].at = "select"
<1>1. s \in Threads /\ thread \in [Threads -> ThreadState]
  BY ThreadFacts, Fields DEF Types
<1>2. QED
  BY <1>1 DEF Moves, Keeps, ThreadState, Places

LEMMA NextMoves ==
  ASSUME Types, NEW t \in Threads, thread' = [thread EXCEPT ![t].next = @ + 1]
  PROVE  /\ Moves(t) /\ Keeps(t, "n") /\ Keeps(t, "at") /\ Keeps(t, "seq")
         /\ thread'[t].next = thread[t].next + 1
BY Fields DEF Types, Moves, Keeps, ThreadState, Places

LEMMA ReleaseMoves ==
  ASSUME Types, NEW t \in Threads,
         thread' = [thread EXCEPT ![t].at = "export", ![t].next = @ + 1]
  PROVE  /\ Moves(t) /\ Keeps(t, "n") /\ Keeps(t, "seq")
         /\ thread'[t].at = "export" /\ thread'[t].next = thread[t].next + 1
BY Fields DEF Types, Moves, Keeps, ThreadState, Places

LEMMA FlushMoves ==
  ASSUME Types, NEW t \in Threads, thread' = [thread EXCEPT ![t].at = "send"]
  PROVE  /\ Moves(t) /\ Keeps(t, "n") /\ Keeps(t, "next") /\ Keeps(t, "seq")
         /\ thread'[t].at = "send"
BY Fields DEF Types, Moves, Keeps, ThreadState, Places

LEMMA ReturnMoves ==
  ASSUME Types, NEW t \in Threads, Return(t)
  PROVE  /\ Moves(t) /\ Keeps(t, "n") /\ thread'[t].next = 1
         /\ thread'[t].at = IF t = Main THEN "stopped" ELSE "idle"
<1>1. thread \in [Threads -> ThreadState] /\ 1 \in Nat \ {0}
  BY DEF Types
<1>2. CASE t = Main
  <2>1. thread' = [thread EXCEPT ![t].at = "stopped", ![t].next = 1]
    BY <1>2 DEF Return
  <2>2. thread' \in [Threads -> ThreadState]
    BY <1>1, <2>1 DEF ThreadState, Places
  <2>3. /\ thread'[t].n = thread[t].n /\ thread'[t].next = 1 /\ thread'[t].at = "stopped"
        /\ \A u \in Threads \ {t} : thread'[u] = thread[u]
    BY <1>1, <2>1 DEF ThreadState
  <2>4. QED
    BY <1>2, <2>2, <2>3 DEF Moves, Keeps
<1>3. CASE t # Main
  <2>1. thread' = [thread EXCEPT ![t].at = "idle", ![t].next = 1]
    BY <1>3 DEF Return
  <2>2. thread' \in [Threads -> ThreadState]
    BY <1>1, <2>1 DEF ThreadState, Places
  <2>3. /\ thread'[t].n = thread[t].n /\ thread'[t].next = 1 /\ thread'[t].at = "idle"
        /\ \A u \in Threads \ {t} : thread'[u] = thread[u]
    BY <1>1, <2>1 DEF ThreadState
  <2>4. QED
    BY <1>3, <2>2, <2>3 DEF Moves, Keeps
<1>4. QED
  BY <1>2, <1>3

(* The number a thread reads is the number of rows its SESSION_ID has.     *)
LEMMA NextSeqIsCount ==
  ASSUME RowsAreCounted, NEW second \in Seconds
  PROVE  NextSeq(second) = Cardinality(Mine(second)) /\ NextSeq(second) \in Nat
<1> DEFINE k == Cardinality(Mine(second))
           Highest(q) == q \in Seqs(second) \cup {-1} /\ \A r \in Seqs(second) : q >= r
<1>1. k \in Nat /\ Seqs(second) = 0..k - 1
  <2>1. Mine(second) \subseteq table
    BY DEF Mine
  <2>2. QED
    BY <2>1, FS_Subset, FS_CardinalityType DEF RowsAreCounted
<1> HIDE DEF k
<1>2. Highest(k - 1)
  BY <1>1
<1>3. \A q : Highest(q) => q = k - 1
  BY <1>1
<1> DEFINE q0 == CHOOSE q : Highest(q)
<1>4. q0 = k - 1
  <2> HIDE DEF Highest
  <2> QED
    BY <1>2, <1>3
<1>5. NextSeq(second) = 1 + q0
  BY DEF NextSeq
<1>6. QED
  <2> HIDE DEF q0
  <2> QED
    BY <1>1, <1>4, <1>5 DEF k

LEMMA SelectMoves ==
  ASSUME Types, RowsAreCounted, NEW s \in Sessions, Select(s)
  PROVE  /\ Moves(s) /\ Keeps(s, "n") /\ Keeps(s, "next")
         /\ thread'[s].at = "insert"
         /\ thread'[s].seq = Cardinality(Mine(sid[s]))
<1>1. s \in Threads /\ thread \in [Threads -> ThreadState] /\ sid[s] \in Seconds
  BY ThreadFacts DEF Types
<1>2. NextSeq(sid[s]) \in Nat /\ NextSeq(sid[s]) = Cardinality(Mine(sid[s]))
  BY <1>1, NextSeqIsCount
<1>3. QED
  BY <1>1, <1>2 DEF Moves, Keeps, Select, ThreadState, Places
-----------------------------------------------------------------------------
(* Steps that touch no lock.                                               *)

LEMMA TypesKept ==
  ASSUME Types, thread' \in [Threads -> ThreadState],
         UNCHANGED <<sid, table, exportVars>>, faults' \in Nat
  PROVE  Types'
BY DEF Types, exportVars

LEMMA LockingKept ==
  ASSUME Types, Locking, NEW t \in Threads, Moves(t),
         thread[t].at # "send", thread'[t].at # "send", UNCHANGED <<batch, lock>>
  PROVE  Locking'
<1>1. batch' = batch /\ lock' = lock
  OBVIOUS
<1>2. ASSUME NEW x \in ExporterNames, lock[x] # Nobody
      PROVE  thread'[lock[x]].at = "send" /\ At(lock[x], x)'
  <2>1. lock[x] \in Threads \ {t}
    BY <1>2 DEF Types, Locking
  <2>2. thread'[lock[x]] = thread[lock[x]]
    BY <2>1 DEF Moves
  <2>3. QED
    BY <1>1, <1>2, <2>2 DEF Locking, At
<1>3. ASSUME NEW u \in Threads, thread'[u].at = "send"
      PROVE  \E x \in ExporterNames : At(u, x)' /\ lock[x] = u
  <2>1. thread'[u] = thread[u]
    BY <1>3 DEF Moves
  <2>2. QED
    BY <1>3, <2>1 DEF Locking, At
<1>4. QED
  BY <1>1, <1>2, <1>3 DEF Locking

(* A thread between two calls moves on, within what its kind may do.       *)
LEMMA RolesKept ==
  ASSUME Types, Roles, NEW t \in Threads, Moves(t),
         t \in Sources => thread'[t].at \notin {"stopped", "exited"},
         t \in Sources /\ thread'[t].at # "idle" => thread'[t].n > 0,
         t \notin Sessions => thread'[t].at \notin {"answering", "select", "insert"},
         thread'[t].at \notin {"export", "send"} => thread'[t].next = 1
  PROVE  Roles'
BY ThreadFacts DEF Moves, Roles

LEMMA QuietBase ==
  ASSUME Base, NEW t \in Threads, Moves(t), Roles',
         thread[t].at # "send", thread'[t].at # "send",
         UNCHANGED <<sid, table, exportVars>>, faults' \in Nat
  PROVE  Base'
BY TypesKept, LockingKept DEF Base, Moves, exportVars

LEMMA AskBase == ASSUME Base, NEW s \in Sessions, Ask(s) PROVE Base'
<1>1. /\ Moves(s) /\ thread'[s].at = "answering" /\ thread'[s].next = thread[s].next
      /\ thread'[s].n = thread[s].n + 1 /\ thread[s].at = "idle" /\ thread[s].n \in Nat
  BY AskMoves, ThreadFacts, Fields DEF Base, Keeps, Ask, MayBegin
<1>2. Roles'
  BY <1>1, ThreadFacts, RolesKept DEF Base, Roles
<1>3. QED
  BY <1>1, <1>2, ThreadFacts, QuietBase DEF Base, Types, Ask, rowVars

LEMMA FinishBase == ASSUME Base, NEW s \in Sessions, Finish(s) PROVE Base'
<1>1. /\ Moves(s) /\ thread'[s].at = "select" /\ thread'[s].next = thread[s].next
      /\ thread'[s].n = thread[s].n /\ thread[s].at = "answering"
  BY FinishMoves DEF Base, Keeps, Finish
<1>2. Roles'
  BY <1>1, ThreadFacts, RolesKept DEF Base, Roles
<1>3. QED
  BY <1>1, <1>2, ThreadFacts, QuietBase DEF Base, Types, Finish, rowVars

LEMMA FindBase == ASSUME Base, Find PROVE Base'
<1>1. /\ Moves(Sweeper) /\ thread'[Sweeper].at = "export"
      /\ thread'[Sweeper].n = thread[Sweeper].n + 1 /\ thread[Sweeper].at = "idle"
      /\ thread[Sweeper].n \in Nat
  BY FindMoves, ThreadFacts, Fields DEF Base, Find, MayBegin
<1>2. Roles'
  BY <1>1, ThreadFacts, RolesKept DEF Base, Roles
<1>3. QED
  BY <1>1, <1>2, ThreadFacts, QuietBase DEF Base, Types, Find, rowVars

LEMMA ShutdownBase == ASSUME Base, Shutdown PROVE Base'
<1>1. Moves(Main) /\ thread'[Main].at = "export" /\ thread[Main].at = "idle"
  BY ShutdownMoves DEF Base, Shutdown, Serving
<1>2. Roles'
  BY <1>1, ThreadFacts, RolesKept DEF Base
<1>3. QED
  BY <1>1, <1>2, ThreadFacts, QuietBase DEF Base, Types, Shutdown, rowVars

LEMMA ExitBase == ASSUME Base, Exit PROVE Base'
<1>1. /\ Moves(Main) /\ thread'[Main].at = "exited" /\ thread[Main].at = "stopped"
      /\ thread'[Main].next = thread[Main].next
  BY ExitMoves DEF Base, Exit, Keeps
<1>2. Roles'
  BY <1>1, ThreadFacts, RolesKept DEF Base, Roles
<1>3. QED
  BY <1>1, <1>2, ThreadFacts, QuietBase DEF Base, Types, Exit, rowVars

LEMMA SelectBase == ASSUME Base, RowsInv, NEW s \in Sessions, Select(s) PROVE Base'
<1>1. /\ Moves(s) /\ thread'[s].at = "insert" /\ thread'[s].n = thread[s].n
      /\ thread'[s].next = thread[s].next /\ thread[s].at = "select"
  BY SelectMoves DEF Base, RowsInv, Keeps, Select
<1>2. Roles'
  BY <1>1, ThreadFacts, RolesKept DEF Base, Roles
<1>3. QED
  BY <1>1, <1>2, ThreadFacts, QuietBase DEF Base, Types, Select, rowVars

LEMMA InsertBase == ASSUME Base, NEW s \in Sessions, Insert(s) PROVE Base'
<1>1. /\ Moves(s) /\ thread'[s].at = "export" /\ thread'[s].n = thread[s].n
      /\ thread[s].at = "insert"
  BY InsertMoves DEF Base, Keeps, Insert
<1>2. Roles'
  BY <1>1, ThreadFacts, RolesKept DEF Base, Roles
<1>3. Locking'
  BY <1>1, ThreadFacts, LockingKept DEF Base, Insert, exportVars
<1>4. table' \subseteq [sid : Seconds, seq : Nat, of : Event]
  <2>1. thread[s].seq \in Nat /\ sid[s] \in Seconds /\ Current(s) \in Event
    BY <1>1, ThreadFacts, Fields, CurrentFacts DEF Base, Types, Roles
  <2>2. QED
    BY <2>1 DEF Base, Types, Insert
<1>5. Types'
  BY <1>1, <1>4 DEF Base, Types, Moves, Insert, exportVars
<1>6. QED
  BY <1>2, <1>3, <1>5 DEF Base

LEMMA WriteFailsBase == ASSUME Base, NEW s \in Sessions, WriteFails(s) PROVE Base'
<1>1. /\ Moves(s) /\ thread'[s].n = thread[s].n /\ thread'[s].next = thread[s].next
      /\ thread'[s].at \in {"select", "export"} /\ thread[s].at \in {"select", "insert"}
  BY InsertMoves, RetryMoves DEF Base, Keeps, WriteFails
<1>2. Roles'
  BY <1>1, ThreadFacts, RolesKept DEF Base, Roles
<1>3. faults' \in Nat
  BY DEF Base, Types, WriteFails, Fault
<1>4. QED
  BY <1>1, <1>2, <1>3, ThreadFacts, QuietBase DEF Base, WriteFails

LEMMA PassOverBase ==
  ASSUME Base, NEW t \in Threads, NEW x \in ExporterNames, PassOver(t, x) PROVE Base'
<1>1. /\ Moves(t) /\ thread'[t].n = thread[t].n
      /\ thread'[t].at = "export" /\ thread[t].at = "export"
  BY NextMoves DEF Base, Keeps, PassOver
<1>2. Roles'
  BY <1>1, ThreadFacts, RolesKept DEF Base, Roles
<1>3. QED
  BY <1>1, <1>2, QuietBase DEF Base, Types, PassOver, rowVars

LEMMA ReturnBase == ASSUME Base, NEW t \in Threads, Return(t) PROVE Base'
<1>1. /\ Moves(t) /\ thread'[t].n = thread[t].n /\ thread'[t].next = 1
      /\ thread'[t].at \in {"stopped", "idle"} /\ thread[t].at = "export"
      /\ t \in Sources => thread'[t].at = "idle"
  BY ReturnMoves, ThreadFacts DEF Base, Keeps, Return
<1>2. Roles'
  BY <1>1, ThreadFacts, RolesKept DEF Base, Roles
<1>3. QED
  BY <1>1, <1>2, QuietBase DEF Base, Types, Return, rowVars
-----------------------------------------------------------------------------
(* Steps that touch a lock.                                                *)

LEMMA FlushLocking ==
  ASSUME Types, Locking, NEW t \in Threads, NEW x \in ExporterNames,
         thread[t].at = "export", At(t, x), lock[x] = Nobody,
         NEW full \in Seq(Event), full # << >>, Flush(t, x, full)
  PROVE  Locking'
<1>1. Moves(t) /\ thread'[t].at = "send" /\ thread'[t].next = thread[t].next
  BY FlushMoves DEF Flush, Keeps
<1>2. /\ lock'[x] = t /\ batch'[x] = full
      /\ \A y \in ExporterNames \ {x} : lock'[y] = lock[y] /\ batch'[y] = batch[y]
  BY DEF Types, Flush
<1>3. ASSUME NEW y \in ExporterNames
      PROVE  /\ lock'[y] = Nobody <=> batch'[y] = << >>
             /\ lock'[y] # Nobody => thread'[lock'[y]].at = "send" /\ At(lock[y], y)'
  <2>1. CASE y = x
    BY <1>1, <1>2, <2>1, ThreadFacts DEF At
  <2>2. CASE y # x /\ lock[y] = Nobody
    BY <1>2, <2>2 DEF Locking
  <2>3. CASE y # x /\ lock[y] # Nobody
    <3>1. lock[y] \in Threads \ {t}
      BY <2>3 DEF Types, Locking
    <3>2. thread'[lock[y]] = thread[lock[y]]
      BY <1>1, <3>1 DEF Moves
    <3>3. QED
      BY <1>2, <2>3, <3>2 DEF Locking, At
  <2>4. QED
    BY <2>1, <2>2, <2>3
<1>4. ASSUME NEW u \in Threads, thread'[u].at = "send"
      PROVE  \E y \in ExporterNames : At(u, y)' /\ lock'[y] = u
  <2>1. CASE u = t
    BY <1>1, <1>2, <2>1 DEF At
  <2>2. CASE u # t
    <3>1. thread'[u] = thread[u]
      BY <1>1, <2>2 DEF Moves
    <3>2. PICK y \in ExporterNames : At(u, y) /\ lock[y] = u
      BY <1>4, <3>1 DEF Locking
    <3>3. y # x
      BY <3>2, ThreadFacts
    <3>4. QED
      BY <1>2, <3>1, <3>2, <3>3 DEF At
  <2>3. QED
    BY <2>1, <2>2
<1>5. QED
  BY <1>3, <1>4 DEF Locking

LEMMA FlushBase ==
  ASSUME Base, NEW t \in Threads, NEW x \in ExporterNames,
         thread[t].at = "export", At(t, x), lock[x] = Nobody,
         NEW full \in Seq(Event), full # << >>, Flush(t, x, full),
         late' \in [ExporterNames -> SUBSET Event],
         UNCHANGED <<sid, rowVars, wire, dropped, faults>>
  PROVE  Base'
<1>1. Moves(t) /\ thread'[t].at = "send" /\ thread'[t].n = thread[t].n
  BY FlushMoves DEF Base, Flush, Keeps
<1>2. Roles'
  BY <1>1, ThreadFacts, RolesKept DEF Base, Roles
<1>3. Types'
  BY <1>1, EmptySeq DEF Base, Types, Moves, Flush, rowVars
<1>4. QED
  BY <1>2, <1>3, FlushLocking DEF Base

LEMMA EmitBase ==
  ASSUME Base, NEW t \in Threads, NEW x \in ExporterNames, Emit(t, x) PROVE Base'
<1> DEFINE full == Append(buffer[x], Current(t))
<1>1. t \in Sources /\ thread[t].at = "export" /\ At(t, x) /\ lock[x] = Nobody
  BY ThreadFacts DEF Emit, Brings
<1>2. full \in Seq(Event) /\ full # << >>
  <2>1. Current(t) \in Event /\ buffer[x] \in Seq(Event)
    BY <1>1, CurrentFacts DEF Base, Types, Roles
  <2>2. QED
    BY <2>1, AppendProperties
<1>3. CASE Len(full) >= BatchSize
  <2>1. Flush(t, x, full) /\ UNCHANGED <<sid, rowVars, wire, dropped, late, faults>>
    BY <1>3 DEF Emit
  <2> HIDE DEF full
  <2>2. late' \in [ExporterNames -> SUBSET Event]
    BY <2>1 DEF Base, Types
  <2>3. QED
    BY <1>1, <1>2, <2>1, <2>2, FlushBase
<1>4. CASE ~(Len(full) >= BatchSize)
  <2>1. /\ buffer' = [buffer EXCEPT ![x] = full]
        /\ thread' = [thread EXCEPT ![t].next = @ + 1]
        /\ UNCHANGED <<batch, lock, sid, rowVars, wire, dropped, late, faults>>
    BY <1>4 DEF Emit
  <2> HIDE DEF full
  <2>2. Moves(t) /\ thread'[t].at = "export" /\ thread'[t].n = thread[t].n
    BY <1>1, <2>1, NextMoves DEF Base, Keeps
  <2>3. Roles'
    BY <1>1, <2>2, ThreadFacts, RolesKept DEF Base, Roles
  <2>4. Types'
    BY <1>2, <2>1, <2>2 DEF Base, Types, Moves, rowVars
  <2>5. Locking'
    BY <1>1, <2>1, <2>2, LockingKept DEF Base
  <2>6. QED
    BY <2>3, <2>4, <2>5 DEF Base
<1>5. QED
  BY <1>3, <1>4

LEMMA LateTyped ==
  ASSUME Types, Roles, NEW x \in ExporterNames, late' = [late EXCEPT ![x] = UnderWay]
  PROVE  late' \in [ExporterNames -> SUBSET Event]
<1>1. ASSUME NEW s \in Sessions, thread[s].at # "idle" PROVE Current(s) \in Event
  BY <1>1, ThreadFacts, CurrentFacts DEF Roles
<1>2. UnderWay \in SUBSET Event
  BY <1>1 DEF UnderWay
<1>3. QED
  BY <1>2 DEF Types

LEMMA FlushLeftoverBase ==
  ASSUME Base, NEW x \in ExporterNames, FlushLeftover(x) PROVE Base'
<1>1. Main \in Threads /\ thread[Main].at = "export" /\ At(Main, x) /\ lock[x] = Nobody
  BY ThreadFacts DEF FlushLeftover
<1>2. late' \in [ExporterNames -> SUBSET Event]
  BY LateTyped DEF Base, FlushLeftover
<1>3. CASE buffer[x] # << >>
  BY <1>1, <1>2, <1>3, FlushBase DEF Base, Types, FlushLeftover
<1>4. CASE buffer[x] = << >>
  <2>1. /\ thread' = [thread EXCEPT ![Main].next = @ + 1]
        /\ UNCHANGED <<buffer, batch, lock, sid, rowVars, wire, dropped, faults>>
    BY <1>4 DEF FlushLeftover
  <2>2. Moves(Main) /\ thread'[Main].at = "export" /\ thread'[Main].n = thread[Main].n
    BY <1>1, <2>1, NextMoves DEF Base, Keeps
  <2>3. Roles'
    BY <1>1, <2>2, ThreadFacts, RolesKept DEF Base, Roles
  <2>4. Types'
    BY <1>2, <2>1, <2>2 DEF Base, Types, Moves, rowVars
  <2>5. Locking'
    BY <1>1, <2>1, <2>2, LockingKept DEF Base
  <2>6. QED
    BY <2>3, <2>4, <2>5 DEF Base
<1>5. QED
  BY <1>3, <1>4

(* The lock is given back with the last event of the batch.                *)
LEMMA ReleaseLocking ==
  ASSUME Types, Locking, NEW t \in Threads, NEW x \in ExporterNames,
         thread[t].at = "send", At(t, x),
         batch' = [batch EXCEPT ![x] = << >>], Released(t, x)
  PROVE  Locking'
<1>1. Moves(t) /\ thread'[t].at = "export"
  BY ReleaseMoves DEF Released, Keeps
<1>2. lock[x] = t
  BY SenderHoldsLock
<1>3. /\ lock'[x] = Nobody /\ batch'[x] = << >>
      /\ \A y \in ExporterNames \ {x} : lock'[y] = lock[y] /\ batch'[y] = batch[y]
  BY DEF Types, Released
<1>4. ASSUME NEW y \in ExporterNames
      PROVE  /\ lock'[y] = Nobody <=> batch'[y] = << >>
             /\ lock'[y] # Nobody => thread'[lock'[y]].at = "send" /\ At(lock[y], y)'
  <2>1. CASE y = x
    BY <1>3, <2>1
  <2>2. CASE y # x /\ lock[y] = Nobody
    BY <1>3, <2>2 DEF Locking
  <2>3. CASE y # x /\ lock[y] # Nobody
    <3>1. lock[y] \in Threads /\ At(lock[y], y)
      BY <2>3 DEF Types, Locking
    <3>2. lock[y] # t
      BY <2>3, <3>1 DEF At
    <3>3. thread'[lock[y]] = thread[lock[y]]
      BY <1>1, <3>1, <3>2 DEF Moves
    <3>4. QED
      BY <1>3, <2>3, <3>3 DEF Locking, At
  <2>4. QED
    BY <2>1, <2>2, <2>3
<1>5. ASSUME NEW u \in Threads, thread'[u].at = "send"
      PROVE  \E y \in ExporterNames : At(u, y)' /\ lock'[y] = u
  <2>1. u # t /\ thread'[u] = thread[u]
    BY <1>1, <1>5 DEF Moves
  <2>2. PICK y \in ExporterNames : At(u, y) /\ lock[y] = u
    BY <1>5, <2>1 DEF Locking
  <2>3. y # x
    BY <1>2, <2>1, <2>2
  <2>4. QED
    BY <1>3, <2>1, <2>2, <2>3 DEF At
<1>6. QED
  BY <1>4, <1>5 DEF Locking

LEMMA ReleaseBase ==
  ASSUME Base, NEW t \in Threads, NEW x \in ExporterNames,
         thread[t].at = "send", At(t, x),
         batch' = [batch EXCEPT ![x] = << >>], Released(t, x),
         UNCHANGED <<sid, rowVars, buffer, late>>, faults' \in Nat,
         wire' \in [ExporterNames -> Seq(Event)],
         dropped' \in [ExporterNames -> SUBSET Event]
  PROVE  Base'
<1>1. Moves(t) /\ thread'[t].at = "export" /\ thread'[t].n = thread[t].n
  BY ReleaseMoves DEF Base, Released, Keeps
<1>2. Roles'
  BY <1>1, ThreadFacts, RolesKept DEF Base, Roles
<1>3. Types'
  BY <1>1, EmptySeq DEF Base, Types, Moves, Released, rowVars
<1>4. QED
  BY <1>2, <1>3, ReleaseLocking DEF Base

LEMMA SendOneBase ==
  ASSUME Base, NEW t \in Threads, NEW x \in ExporterNames, SendOne(t, x) PROVE Base'
<1>1. /\ batch[x] \in Seq(Event) /\ batch[x] # << >>
      /\ Head(batch[x]) \in Event /\ Tail(batch[x]) \in Seq(Event)
  BY HeadTailProperties DEF Base, Types, SendOne
<1>2. /\ wire' \in [ExporterNames -> Seq(Event)]
      /\ dropped' \in [ExporterNames -> SUBSET Event] /\ faults' \in Nat
  <2>1. Append(wire[x], Head(batch[x])) \in Seq(Event)
    BY <1>1, AppendProperties DEF Base, Types
  <2>2. CASE wire' = [wire EXCEPT ![x] = Append(wire[x], Head(batch[x]))]
             /\ UNCHANGED <<dropped, faults>>
    BY <2>1, <2>2 DEF Base, Types
  <2>3. CASE Fault /\ dropped' = [dropped EXCEPT ![x] = dropped[x] \cup {Head(batch[x])}]
             /\ UNCHANGED wire
    BY <1>1, <2>3 DEF Base, Types, Fault
  <2>4. QED
    BY <2>2, <2>3 DEF SendOne
<1>3. CASE Tail(batch[x]) = << >>
  BY <1>2, <1>3, ReleaseBase DEF SendOne
<1>4. CASE Tail(batch[x]) # << >>
  <2>1. /\ batch' = [batch EXCEPT ![x] = Tail(batch[x])]
        /\ UNCHANGED <<thread, lock, sid, rowVars, buffer, late>>
    BY <1>4 DEF SendOne
  <2>2. Types'
    BY <1>1, <1>2, <2>1 DEF Base, Types, rowVars
  <2>3. \A y \in ExporterNames : batch'[y] = << >> <=> batch[y] = << >>
    BY <1>1, <1>4, <2>1 DEF Base, Types
  <2>4. Locking'
    BY <2>1, <2>3 DEF Base, Locking, At
  <2>5. Roles'
    BY <2>1 DEF Base, Roles
  <2>6. QED
    BY <2>2, <2>4, <2>5 DEF Base
<1>5. QED
  BY <1>3, <1>4

LEMMA SendRaisesBase ==
  ASSUME Base, NEW t \in Threads, NEW x \in ExporterNames, SendRaises(t, x) PROVE Base'
<1>1. ToSet(batch[x]) \subseteq Event
  BY DEF Base, Types, ToSet
<1>2. dropped' \in [ExporterNames -> SUBSET Event] /\ faults' \in Nat
  BY <1>1 DEF Base, Types, SendRaises, Fault
<1>3. QED
  BY <1>2, ReleaseBase DEF Base, Types, SendRaises

LEMMA BaseStep == Base /\ RowsInv /\ [Next]_vars => Base'
<1> SUFFICES ASSUME Base, RowsInv, [Next]_vars PROVE Base'
  OBVIOUS
<1>1. CASE UNCHANGED vars
  BY <1>1 DEF vars, rowVars, exportVars, Base, Types, Roles, Locking, At
<1>2. ASSUME NEW s \in Sessions, Ask(s) \/ Finish(s) PROVE Base'
  BY <1>2, AskBase, FinishBase
<1>3. CASE Find \/ Shutdown \/ Exit
  BY <1>3, FindBase, ShutdownBase, ExitBase
<1>4. ASSUME NEW t \in Threads, Work(t) PROVE Base'
  <2>1. CASE t \in Sessions /\ (Select(t) \/ Insert(t) \/ WriteFails(t))
    BY <2>1, SelectBase, InsertBase, WriteFailsBase
  <2>2. ASSUME NEW x \in ExporterNames,
               \/ PassOver(t, x) \/ Emit(t, x)
               \/ t = Main /\ FlushLeftover(x)
               \/ SendOne(t, x) \/ SendRaises(t, x)
        PROVE  Base'
    BY <2>2, PassOverBase, EmitBase, FlushLeftoverBase, SendOneBase, SendRaisesBase
  <2>3. CASE Return(t)
    BY <2>3, ReturnBase
  <2>4. QED
    BY <1>4, <2>1, <2>2, <2>3 DEF Work, Local, Send
<1>5. QED
  BY <1>1, <1>2, <1>3, <1>4 DEF Next
-----------------------------------------------------------------------------
(* The rows.                                                               *)

(* A thread not yet past its row does not move, another keeps its number.  *)
RowStands(s) ==
  /\ thread'[s].n = thread[s].n
  /\ \/ thread[s].at \in {"answering", "select", "insert"}
     \/ thread'[s].at \in {"answering", "select", "insert"}
     => thread'[s].at = thread[s].at /\ thread'[s].seq = thread[s].seq

LEMMA RowsElsewhere ==
  ASSUME RowsInv, UNCHANGED <<sid, table, lost>>, \A s \in Sessions : RowStands(s)
  PROVE  RowsInv'
<1>1. \A second : Mine(second)' = Mine(second) /\ Seqs(second)' = Seqs(second)
  BY DEF Mine, Seqs
<1>2. \A s \in Sessions : /\ Written(s)' <=> Written(s)
                          /\ Alone(s)' <=> Alone(s)
                          /\ Current(s)' = Current(s)
  BY DEF RowStands, Written, Alone, Current
<1>3. RowsOfSessions'
  BY <1>2 DEF RowsInv, RowsOfSessions, RowStands
<1>4. RowsAreCounted'
  BY <1>1 DEF RowsInv, RowsAreCounted
<1>5. NumberRead'
  BY <1>1, <1>2 DEF RowsInv, NumberRead, RowStands
<1>6. RowsAreOrdered'
  BY DEF RowsInv, RowsAreOrdered
<1>7. WrittenOrLost'
  BY <1>2 DEF RowsInv, WrittenOrLost
<1>8. QED
  BY <1>3, <1>4, <1>5, <1>6, <1>7 DEF RowsInv

LEMMA RowsInit == Init => RowsInv
<1> SUFFICES ASSUME Init PROVE RowsInv
  OBVIOUS
<1>1. table = {} /\ \A second : Mine(second) = {} /\ Seqs(second) = {}
  BY DEF Init, Mine, Seqs
<1>2. RowsAreCounted
  BY <1>1, FS_EmptySet DEF RowsAreCounted
<1>3. \A s \in Sessions : thread[s].at = "idle" /\ thread[s].n = 0
  BY ThreadFacts DEF Init
<1>4. QED
  BY <1>1, <1>2, <1>3
     DEF RowsInv, RowsOfSessions, NumberRead, RowsAreOrdered, WrittenOrLost, Written

(* Another thread's move is nothing to the rows of the rest.               *)
LEMMA OthersStand ==
  ASSUME NEW t \in Threads, Moves(t)
  PROVE  \A s \in Sessions \ {t} : RowStands(s)
BY ThreadFacts DEF Moves, RowStands

LEMMA AskRows == ASSUME Base, RowsInv, NEW s \in Sessions, Ask(s) PROVE RowsInv'
<1>1. /\ thread'[s].at = "answering" /\ thread'[s].n = thread[s].n + 1
      /\ \A r \in Sessions \ {s} : thread'[r] = thread[r]
  BY AskMoves, ThreadFacts DEF Base, Moves
<1>2. UNCHANGED <<sid, table, lost>>
  BY DEF Ask, rowVars
<1>3. \A second : Mine(second)' = Mine(second) /\ Seqs(second)' = Seqs(second)
  BY <1>2 DEF Mine, Seqs
<1>4. RowsOfSessions'
  <2> SUFFICES ASSUME NEW row \in table
               PROVE  /\ row.of.by \in Sessions /\ row.sid = sid[row.of.by]
                      /\ row.of.n <= thread'[row.of.by].n
                      /\ row.of.n = thread'[row.of.by].n => Written(row.of.by)'
    BY <1>2 DEF RowsOfSessions
  <2>1. /\ row.of.by \in Sessions /\ row.sid = sid[row.of.by]
        /\ row.of.n <= thread[row.of.by].n
        /\ row.of.n = thread[row.of.by].n => Written(row.of.by)
    BY DEF RowsInv, RowsOfSessions
  <2>2. row.of.n \in Nat /\ thread[s].n \in Nat
    BY ThreadFacts, Fields, EventFacts DEF Base, Types
  <2>3. CASE row.of.by = s
    BY <1>1, <2>1, <2>2, <2>3
  <2>4. CASE row.of.by # s
    BY <1>1, <2>1, <2>4 DEF Written
  <2>5. QED
    BY <2>3, <2>4
<1>5. RowsAreCounted'
  BY <1>2, <1>3 DEF RowsInv, RowsAreCounted
<1>6. NumberRead'
  BY <1>1, <1>2, <1>3 DEF RowsInv, NumberRead, Alone
<1>7. RowsAreOrdered'
  BY <1>2 DEF RowsInv, RowsAreOrdered
<1>8. WrittenOrLost'
  BY <1>1, <1>2 DEF RowsInv, WrittenOrLost, Written, Alone, Current
<1>9. QED
  BY <1>4, <1>5, <1>6, <1>7, <1>8 DEF RowsInv

LEMMA FinishRows == ASSUME Base, RowsInv, NEW s \in Sessions, Finish(s) PROVE RowsInv'
<1>1. /\ thread[s].at = "answering" /\ thread'[s].at = "select" /\ thread'[s].n = thread[s].n
      /\ \A r \in Sessions \ {s} : thread'[r] = thread[r]
  BY FinishMoves, ThreadFacts DEF Base, Moves, Keeps, Finish
<1>2. UNCHANGED <<sid, table, lost>>
  BY DEF Finish, rowVars
<1>3. \A second : Mine(second)' = Mine(second) /\ Seqs(second)' = Seqs(second)
  BY <1>2 DEF Mine, Seqs
<1>4. \A r \in Sessions : /\ Written(r)' <=> Written(r)
                          /\ Alone(r)' <=> Alone(r)
                          /\ Current(r)' = Current(r)
  BY <1>1, <1>2 DEF Written, Alone, Current
<1>5. NumberRead'
  BY <1>1, <1>2, <1>3, <1>4 DEF RowsInv, NumberRead
<1>6. RowsOfSessions'
  BY <1>1, <1>2, <1>4 DEF RowsInv, RowsOfSessions
<1>7. RowsAreCounted' /\ RowsAreOrdered' /\ WrittenOrLost'
  BY <1>2, <1>3, <1>4 DEF RowsInv, RowsAreCounted, RowsAreOrdered, WrittenOrLost
<1>8. QED
  BY <1>5, <1>6, <1>7 DEF RowsInv

LEMMA SelectRows == ASSUME Base, RowsInv, NEW s \in Sessions, Select(s) PROVE RowsInv'
<1>1. /\ thread[s].at = "select" /\ thread'[s].at = "insert" /\ thread'[s].n = thread[s].n
      /\ thread'[s].seq = Cardinality(Mine(sid[s]))
      /\ \A r \in Sessions \ {s} : thread'[r] = thread[r]
  BY SelectMoves, ThreadFacts DEF Base, RowsInv, Moves, Keeps, Select
<1>2. UNCHANGED <<sid, table, lost>>
  BY DEF Select, rowVars
<1>3. \A second : Mine(second)' = Mine(second) /\ Seqs(second)' = Seqs(second)
  BY <1>2 DEF Mine, Seqs
<1>4. \A r \in Sessions : /\ Written(r)' <=> Written(r)
                          /\ Alone(r)' <=> Alone(r)
                          /\ Current(r)' = Current(r)
  BY <1>1, <1>2 DEF Written, Alone, Current
<1>5. NumberRead'
  <2>1. sid[s] \in Seconds /\ NextSeq(sid[s]) = Cardinality(Mine(sid[s]))
        /\ NextSeq(sid[s]) \in Nat
    BY NextSeqIsCount DEF Base, Types, RowsInv
  <2>2. Cardinality(Mine(sid[s])) \notin Seqs(sid[s])
    BY <2>1 DEF RowsInv, RowsAreCounted
  <2>3. ASSUME NEW r \in Sessions, thread'[r].at = "insert"
        PROVE  /\ thread'[r].seq <= Cardinality(Mine(sid[r]))
               /\ Alone(r) => thread'[r].seq \notin Seqs(sid[r])
    <3>1. CASE r = s
      BY <1>1, <2>1, <2>2, <3>1
    <3>2. CASE r # s
      BY <1>1, <2>3, <3>2 DEF RowsInv, NumberRead
    <3>3. QED
      BY <3>1, <3>2
  <2>4. QED
    BY <1>2, <1>3, <1>4, <2>3 DEF NumberRead
<1>6. RowsOfSessions'
  BY <1>1, <1>2, <1>4 DEF RowsInv, RowsOfSessions
<1>7. RowsAreCounted' /\ RowsAreOrdered' /\ WrittenOrLost'
  BY <1>2, <1>3, <1>4 DEF RowsInv, RowsAreCounted, RowsAreOrdered, WrittenOrLost
<1>8. QED
  BY <1>5, <1>6, <1>7 DEF RowsInv

(* A number that is still free is the next one; one that was taken means   *)
(* that another session writes under this SESSION_ID.                      *)
LEMMA InsertRows == ASSUME Base, RowsInv, NEW s \in Sessions, Insert(s) PROVE RowsInv'
<1> DEFINE k == Cardinality(Mine(sid[s]))
<1>1. /\ thread[s].at = "insert" /\ thread'[s].at = "export" /\ thread'[s].n = thread[s].n
      /\ \A r \in Sessions \ {s} : thread'[r] = thread[r]
      /\ UNCHANGED <<sid, lost>>
  BY InsertMoves, ThreadFacts DEF Base, Moves, Keeps, Insert
<1>2. /\ sid[s] \in Seconds /\ thread[s].n \in Nat /\ thread[s].n > 0
      /\ thread[s].seq \in Nat /\ thread[s].seq <= k
      /\ Alone(s) => thread[s].seq \notin Seqs(sid[s])
  <2>1. thread[s].n \in Nat /\ thread[s].seq \in Nat /\ sid[s] \in Seconds
    BY ThreadFacts, Fields DEF Base, Types
  <2>2. thread[s].n > 0
    BY <1>1, ThreadFacts DEF Base, Roles
  <2>3. QED
    BY <1>1, <2>1, <2>2 DEF RowsInv, NumberRead
<1>3. IsFiniteSet(Mine(sid[s])) /\ k \in Nat /\ Seqs(sid[s]) = 0..k - 1
  <2>1. Mine(sid[s]) \subseteq table
    BY DEF Mine
  <2>2. QED
    BY <1>2, <2>1, FS_Subset, FS_CardinalityType DEF RowsInv, RowsAreCounted
<1>4. Current(s).by = s /\ Current(s).n = thread[s].n
  BY DEF Current
<1>5. \A r \in Sessions : /\ Alone(r)' <=> Alone(r)
                          /\ Current(r)' = Current(r)
                          /\ r # s => (Written(r)' <=> Written(r))
  BY <1>1 DEF Written, Alone, Current
<1>6. Written(s)' /\ ~Written(s)
  BY <1>1, <1>2 DEF Written
<1>7. CASE thread[s].seq \in Seqs(sid[s])
  <2>1. table' = table /\ ~Alone(s)
    BY <1>2, <1>7 DEF Insert
  <2>2. \A second : Mine(second)' = Mine(second) /\ Seqs(second)' = Seqs(second)
    BY <2>1 DEF Mine, Seqs
  <2>3. RowsOfSessions'
    BY <1>1, <1>5, <1>6, <2>1 DEF RowsInv, RowsOfSessions
  <2>4. NumberRead'
    BY <1>1, <1>5, <2>2 DEF RowsInv, NumberRead
  <2>5. RowsAreCounted' /\ RowsAreOrdered'
    BY <2>1, <2>2 DEF RowsInv, RowsAreCounted, RowsAreOrdered
  <2>6. WrittenOrLost'
    BY <1>1, <1>5, <2>1 DEF RowsInv, WrittenOrLost
  <2>7. QED
    BY <2>3, <2>4, <2>5, <2>6 DEF RowsInv
<1>8. CASE thread[s].seq \notin Seqs(sid[s])
  <2>1. PICK row : /\ row = [sid |-> sid[s], seq |-> thread[s].seq, of |-> Current(s)]
                   /\ table' = table \cup {row}
    BY <1>8 DEF Insert
  <2>2. row.sid = sid[s] /\ row.seq = k /\ row.of = Current(s) /\ row \notin Mine(sid[s])
    <3>1. thread[s].seq = k
      <4> HIDE DEF k
      <4> QED
        BY <1>2, <1>3, <1>8
    <3>2. row.sid = sid[s] /\ row.seq = thread[s].seq /\ row.of = Current(s)
      BY <2>1
    <3>3. row \in Mine(sid[s]) => row.seq \in Seqs(sid[s])
      BY DEF Seqs, Mine
    <3>4. QED
      BY <1>8, <3>1, <3>2, <3>3
  <2> HIDE DEF k
  <2>3. /\ Mine(sid[s])' = Mine(sid[s]) \cup {row}
        /\ Seqs(sid[s])' = Seqs(sid[s]) \cup {k}
    BY <1>1, <2>1, <2>2 DEF Mine, Seqs
  <2>4. \A second : second # sid[s] => Mine(second)' = Mine(second) /\ Seqs(second)' = Seqs(second)
    BY <2>1, <2>2 DEF Mine, Seqs
  <2>5. Cardinality(Mine(sid[s]))' = k + 1
    <3>1. Cardinality(Mine(sid[s]) \cup {row}) = k + 1
      BY <1>3, <2>2, FS_AddElement DEF k
    <3>2. QED
      BY <2>3, <3>1
  <2>6. RowsAreCounted'
    <3>1. IsFiniteSet(table')
      BY <2>1, FS_AddElement DEF RowsInv, RowsAreCounted
    <3>2. ASSUME NEW second \in Seconds
          PROVE  Seqs(second)' = 0..Cardinality(Mine(second)') - 1
      <4>1. CASE second = sid[s]
        <5>1. Seqs(sid[s])' = 0..k
          BY <1>3, <2>3
        <5>2. Seqs(second)' = Seqs(sid[s])' /\ Mine(second)' = Mine(sid[s])'
          BY <1>1, <4>1 DEF Seqs, Mine
        <5>3. Cardinality(Mine(second)') = k + 1
          BY <2>5, <5>2
        <5>4. QED
          BY <1>3, <5>1, <5>2, <5>3
      <4>2. CASE second # sid[s]
        BY <2>4, <4>2 DEF RowsInv, RowsAreCounted
      <4>3. QED
        BY <4>1, <4>2
    <3>3. QED
      BY <3>1, <3>2 DEF RowsAreCounted
  <2>7. RowsOfSessions'
    <3>1. ASSUME NEW r \in table
          PROVE  /\ r.of.by \in Sessions /\ r.sid = sid[r.of.by]
                 /\ r.of.n <= thread'[r.of.by].n
                 /\ r.of.n = thread'[r.of.by].n => Written(r.of.by)'
      BY <1>1, <1>5, <1>6 DEF RowsInv, RowsOfSessions
    <3>2. /\ row.of.by \in Sessions /\ row.sid = sid[row.of.by]
          /\ row.of.n <= thread'[row.of.by].n /\ Written(row.of.by)'
      BY <1>1, <1>2, <1>4, <1>6, <2>2
    <3>3. \A r \in table' : r \in table \/ r = row
      BY <2>1
    <3>4. QED
      BY <1>1, <3>1, <3>2, <3>3 DEF RowsOfSessions
  <2>8. NumberRead'
    <3>1. ASSUME NEW r \in Sessions, thread'[r].at = "insert"
          PROVE  /\ thread'[r].seq <= Cardinality(Mine(sid[r])')
                 /\ Alone(r) => thread'[r].seq \notin Seqs(sid[r])'
      <4>1. /\ r # s /\ thread'[r] = thread[r] /\ thread[r].seq <= Cardinality(Mine(sid[r]))
            /\ Alone(r) => thread[r].seq \notin Seqs(sid[r])
        BY <1>1, <3>1 DEF RowsInv, NumberRead
      <4>2. CASE sid[r] = sid[s]
        <5>1. ~Alone(r)
          BY <4>1, <4>2 DEF Alone
        <5>2. thread[r].seq \in Nat /\ thread[r].seq <= k
          BY <4>1, <4>2, ThreadFacts, Fields DEF Base, k
        <5>3. Mine(sid[r])' = Mine(sid[s])'
          BY <1>1, <4>2 DEF Mine
        <5>4. thread[r].seq <= k + 1
          BY <1>3, <5>2
        <5>5. QED
          BY <2>5, <4>1, <5>1, <5>3, <5>4
      <4>3. CASE sid[r] # sid[s]
        BY <1>1, <2>4, <4>1, <4>3
      <4>4. QED
        BY <4>2, <4>3
    <3>2. QED
      BY <1>1, <1>5, <3>1 DEF NumberRead
  <2>9. RowsAreOrdered'
    <3>1. ASSUME NEW a \in table, NEW b \in table,
                 a.sid = b.sid, a.of.by = b.of.by, a.of.n < b.of.n
          PROVE  a.seq < b.seq
      BY <3>1 DEF RowsInv, RowsAreOrdered
    <3>2. ASSUME NEW a \in table, a.sid = row.sid
          PROVE  a.seq < row.seq
      <4>1. a.seq \in Seqs(sid[s])
        BY <2>2, <3>2 DEF Seqs
      <4>2. QED
        BY <1>3, <2>2, <4>1
    <3>3. ASSUME NEW b \in table, b.of.by = row.of.by
          PROVE  ~(row.of.n < b.of.n)
      <4>1. b.of.by = s /\ b.of.n <= thread[s].n /\ row.of.n = thread[s].n
        BY <1>4, <2>2, <3>3 DEF RowsInv, RowsOfSessions
      <4>2. b.of.n \in Nat
        BY EventFacts DEF Base, Types
      <4>3. QED
        BY <1>2, <4>1, <4>2
    <3>4. ~(row.of.n < row.of.n)
      BY <1>2, <1>4, <2>2
    <3>5. QED
      BY <2>1, <3>1, <3>2, <3>3, <3>4 DEF RowsAreOrdered
  <2>10. WrittenOrLost'
    <3>1. \A r \in Sessions \ {s} : Written(r) /\ Alone(r) =>
            Current(r) \in lost \/ \E q \in table' : q.of = Current(r)
      BY <2>1 DEF RowsInv, WrittenOrLost
    <3>2. \E q \in table' : q.of = Current(s)
      BY <2>1, <2>2
    <3>3. QED
      BY <1>1, <1>5, <3>1, <3>2 DEF WrittenOrLost
  <2>11. QED
    BY <2>6, <2>7, <2>8, <2>9, <2>10 DEF RowsInv
<1>9. QED
  BY <1>7, <1>8

LEMMA WriteFailsRows == ASSUME Base, RowsInv, NEW s \in Sessions, WriteFails(s) PROVE RowsInv'
<1>1. /\ thread[s].at \in {"select", "insert"} /\ thread'[s].n = thread[s].n
      /\ \A r \in Sessions \ {s} : thread'[r] = thread[r]
      /\ UNCHANGED <<sid, table>>
      /\ \/ thread'[s].at = "select" /\ lost' = lost
         \/ thread'[s].at = "export" /\ lost' = lost \cup {Current(s)}
  BY InsertMoves, RetryMoves, ThreadFacts DEF Base, Moves, Keeps, WriteFails
<1>2. \A second : Mine(second)' = Mine(second) /\ Seqs(second)' = Seqs(second)
  BY <1>1 DEF Mine, Seqs
<1>3. ~Written(s)
  BY <1>1 DEF Written
<1>4. \A r \in Sessions : /\ Alone(r)' <=> Alone(r)
                          /\ Current(r)' = Current(r)
                          /\ r # s => (Written(r)' <=> Written(r))
  BY <1>1 DEF Written, Alone, Current
<1>5. RowsOfSessions'
  BY <1>1, <1>3, <1>4 DEF RowsInv, RowsOfSessions
<1>6. RowsAreCounted' /\ RowsAreOrdered'
  BY <1>1, <1>2 DEF RowsInv, RowsAreCounted, RowsAreOrdered
<1>7. NumberRead'
  BY <1>1, <1>2, <1>4 DEF RowsInv, NumberRead
<1>8. WrittenOrLost'
  <2>1. \A r \in Sessions \ {s} : Written(r)' /\ Alone(r)' =>
          Current(r)' \in lost' \/ \E q \in table' : q.of = Current(r)'
    BY <1>1, <1>4 DEF RowsInv, WrittenOrLost
  <2>2. Written(s)' => Current(s)' \in lost'
    BY <1>1, <1>4 DEF Written
  <2>3. QED
    BY <2>1, <2>2 DEF WrittenOrLost
<1>9. QED
  BY <1>5, <1>6, <1>7, <1>8 DEF RowsInv

(* Exporting, sweeping and shutting down leave every row alone.            *)
LEMMA ExportRows ==
  ASSUME Base, RowsInv, NEW t \in Threads, Moves(t), UNCHANGED <<sid, table, lost>>,
         t \in Sessions => /\ thread'[t].n = thread[t].n
                           /\ thread[t].at \notin {"answering", "select", "insert"}
                           /\ thread'[t].at \notin {"answering", "select", "insert"}
  PROVE  RowsInv'
<1>1. \A s \in Sessions : RowStands(s)
  BY OthersStand DEF RowStands
<1>2. QED
  BY <1>1, RowsElsewhere

LEMMA FlushThread ==
  ASSUME Base, NEW t \in Threads, NEW x \in ExporterNames,
         PassOver(t, x) \/ Emit(t, x) \/ (t = Main /\ FlushLeftover(x))
  PROVE  /\ Moves(t) /\ thread'[t].n = thread[t].n /\ thread[t].at = "export"
         /\ \/ thread'[t].at = "export" /\ thread'[t].next = thread[t].next + 1
            \/ thread'[t].at = "send" /\ thread'[t].next = thread[t].next
         /\ UNCHANGED <<sid, rowVars>>
<1>1. \/ thread' = [thread EXCEPT ![t].next = @ + 1]
      \/ thread' = [thread EXCEPT ![t].at = "send"]
  BY DEF PassOver, Emit, FlushLeftover, Flush
<1>2. thread[t].at = "export" /\ UNCHANGED <<sid, rowVars>>
  BY DEF PassOver, Emit, FlushLeftover
<1>3. QED
  BY <1>1, <1>2, NextMoves, FlushMoves DEF Base, Keeps

LEMMA SendThread ==
  ASSUME Base, NEW t \in Threads, NEW x \in ExporterNames, SendOne(t, x) \/ SendRaises(t, x)
  PROVE  /\ Moves(t) /\ thread'[t].n = thread[t].n /\ thread[t].at = "send"
         /\ \/ thread'[t].at = "export" /\ thread'[t].next = thread[t].next + 1
            \/ thread'[t] = thread[t]
         /\ UNCHANGED <<sid, rowVars>>
<1>1. \/ thread' = [thread EXCEPT ![t].at = "export", ![t].next = @ + 1]
      \/ thread' = thread
  BY DEF SendOne, SendRaises, Released
<1>2. thread[t].at = "send" /\ UNCHANGED <<sid, rowVars>>
  BY DEF SendOne, SendRaises
<1>3. CASE thread' = thread
  BY <1>2, <1>3 DEF Base, Types, Moves
<1>4. QED
  BY <1>1, <1>2, <1>3, ReleaseMoves DEF Base, Keeps

LEMMA RowsStep == Base /\ RowsInv /\ [Next]_vars => RowsInv'
<1> SUFFICES ASSUME Base, RowsInv, [Next]_vars PROVE RowsInv'
  OBVIOUS
<1>1. CASE UNCHANGED vars
  BY <1>1, RowsElsewhere DEF vars, rowVars, RowStands
<1>2. ASSUME NEW s \in Sessions, Ask(s) \/ Finish(s) PROVE RowsInv'
  BY <1>2, AskRows, FinishRows
<1>3. CASE Find
  BY <1>3, FindMoves, ThreadFacts, ExportRows DEF Base, Find, rowVars
<1>4. CASE Shutdown \/ Exit
  BY <1>4, ShutdownMoves, ExitMoves, ThreadFacts, ExportRows DEF Base, Shutdown, Exit, rowVars
<1>5. ASSUME NEW t \in Threads, Work(t) PROVE RowsInv'
  <2>1. CASE t \in Sessions /\ (Select(t) \/ Insert(t) \/ WriteFails(t))
    BY <2>1, SelectRows, InsertRows, WriteFailsRows
  <2>2. ASSUME NEW x \in ExporterNames,
               \/ PassOver(t, x) \/ Emit(t, x)
               \/ t = Main /\ FlushLeftover(x)
        PROVE  RowsInv'
    BY <2>2, FlushThread, ExportRows DEF rowVars
  <2>3. ASSUME NEW x \in ExporterNames, SendOne(t, x) \/ SendRaises(t, x)
        PROVE  RowsInv'
    BY <2>3, SendThread, ExportRows DEF rowVars
  <2>4. CASE Return(t)
    <3>1. /\ Moves(t) /\ thread'[t].n = thread[t].n /\ thread[t].at = "export"
          /\ thread'[t].at \in {"stopped", "idle"} /\ UNCHANGED <<sid, rowVars>>
      BY <2>4, ReturnMoves DEF Base, Keeps, Return
    <3>2. QED
      BY <3>1, ExportRows DEF rowVars
  <2>5. QED
    BY <1>5, <2>1, <2>2, <2>3, <2>4 DEF Work, Local, Send
<1>6. QED
  BY <1>1, <1>2, <1>3, <1>4, <1>5 DEF Next

(* A command that is answered is in the table or reported LOST, unless two *)
(* sessions have one SESSION_ID: WrittenOrLost at the end of record.       *)
THEOREM CommandsAreAccounted == Spec => []Accounted
<1>1. Base /\ RowsInv => Accounted
  <2> SUFFICES ASSUME RowsInv PROVE Accounted
    OBVIOUS
  <2>1. \A s \in Sessions : Done(s) => Written(s)
    BY DEF Done, Written
  <2>2. QED
    BY <2>1 DEF Accounted, RowsInv, WrittenOrLost, Alone
<1>2. Init => Base /\ RowsInv
  BY BaseInit, RowsInit
<1>3. QED
  BY <1>1, <1>2, BaseStep, RowsStep, PTL DEF Spec

(* The rows of a SESSION_ID are numbered from 0 without gap or repetition  *)
(* and in the order of typing, for any number of sessions that share it.   *)
THEOREM RowsAreNumbered == Spec => []Numbered
<1>1. RowsInv => Numbered
  BY DEF RowsInv, RowsAreCounted, RowsAreOrdered, Numbered, Mine, Seqs
<1>2. Init => Base /\ RowsInv
  BY BaseInit, RowsInit
<1>3. QED
  BY <1>1, <1>2, BaseStep, RowsStep, PTL DEF Spec
-----------------------------------------------------------------------------
(* The streams: what a step does to the sequences of an exporter.          *)

LEMMA SetOfAppend ==
  ASSUME NEW S, NEW s \in Seq(S), NEW e \in S
  PROVE  ToSet(Append(s, e)) = ToSet(s) \cup {e}
<1>1. /\ DOMAIN s = 1..Len(s) /\ Len(s) \in Nat
      /\ DOMAIN Append(s, e) = 1..Len(s) + 1
      /\ \A i \in 1..Len(s) : Append(s, e)[i] = s[i]
      /\ Append(s, e)[Len(s) + 1] = e
  BY AppendProperties, LenProperties
<1>2. 1..Len(s) + 1 = 1..Len(s) \cup {Len(s) + 1}
  BY <1>1
<1>3. QED
  BY <1>1, <1>2 DEF ToSet

LEMMA SetOfTail ==
  ASSUME NEW S, NEW s \in Seq(S), s # << >>
  PROVE  ToSet(s) = {Head(s)} \cup ToSet(Tail(s))
<1>1. /\ Len(s) \in Nat \ {0} /\ DOMAIN s = 1..Len(s) /\ Head(s) = s[1]
      /\ DOMAIN Tail(s) = 1..Len(s) - 1
      /\ \A i \in 1..Len(s) - 1 : Tail(s)[i] = s[i + 1]
  BY HeadTailProperties, EmptySeq, LenProperties
<1>2. \A i \in 1..Len(s) : i = 1 \/ i - 1 \in 1..Len(s) - 1
  BY <1>1
<1>3. \A i \in 1..Len(s) - 1 : i + 1 \in 1..Len(s)
  BY <1>1
<1>4. ASSUME NEW e \in ToSet(s) PROVE e = Head(s) \/ e \in ToSet(Tail(s))
  <2>1. PICK i \in 1..Len(s) : e = s[i]
    BY <1>1 DEF ToSet
  <2>2. CASE i = 1
    BY <1>1, <2>1, <2>2
  <2>3. CASE i # 1
    <3>1. i - 1 \in 1..Len(s) - 1 /\ Tail(s)[i - 1] = s[i]
      BY <1>1, <1>2, <2>3
    <3>2. QED
      BY <1>1, <2>1, <3>1 DEF ToSet
  <2>4. QED
    BY <2>2, <2>3
<1>5. ToSet(Tail(s)) \subseteq ToSet(s) /\ Head(s) \in ToSet(s)
  BY <1>1, <1>3 DEF ToSet
<1>6. QED
  BY <1>4, <1>5

LEMMA SetOfEmpty == ToSet(<< >>) = {}
BY DEF ToSet

LEMMA OrderedAppend ==
  ASSUME NEW s \in Seq(Event), Ordered(s), NEW e \in Event,
         \A f \in ToSet(s) : Before(f, e)
  PROVE  Ordered(Append(s, e))
<1>1. /\ DOMAIN s = 1..Len(s) /\ Len(s) \in Nat
      /\ DOMAIN Append(s, e) = 1..Len(s) + 1
      /\ \A i \in 1..Len(s) : Append(s, e)[i] = s[i]
      /\ Append(s, e)[Len(s) + 1] = e
  BY AppendProperties, LenProperties
<1>2. SUFFICES ASSUME NEW i \in 1..Len(s) + 1, NEW j \in 1..Len(s) + 1, i < j
               PROVE  Before(Append(s, e)[i], Append(s, e)[j])
  BY <1>1 DEF Ordered
<1>3. i \in 1..Len(s) /\ Append(s, e)[i] = s[i] /\ s[i] \in ToSet(s)
  BY <1>1, <1>2 DEF ToSet
<1>4. CASE j = Len(s) + 1
  BY <1>1, <1>3, <1>4
<1>5. CASE j # Len(s) + 1
  <2>1. j \in 1..Len(s)
    BY <1>1, <1>5
  <2>2. QED
    BY <1>1, <1>2, <1>3, <2>1 DEF Ordered
<1>6. QED
  BY <1>4, <1>5

LEMMA OrderedTail ==
  ASSUME NEW s \in Seq(Event), s # << >>, Ordered(s)
  PROVE  Ordered(Tail(s)) /\ \A f \in ToSet(Tail(s)) : Before(Head(s), f)
<1>1. /\ Len(s) \in Nat \ {0} /\ DOMAIN s = 1..Len(s) /\ Head(s) = s[1]
      /\ DOMAIN Tail(s) = 1..Len(s) - 1
      /\ \A i \in 1..Len(s) - 1 : Tail(s)[i] = s[i + 1]
  BY HeadTailProperties, EmptySeq, LenProperties
<1>2. \A i \in 1..Len(s) - 1 : i + 1 \in 1..Len(s) /\ 1 < i + 1 /\ 1 \in 1..Len(s)
  BY <1>1
<1>3. \A i, j \in 1..Len(s) - 1 : i < j => i + 1 < j + 1
  OBVIOUS
<1>4. Ordered(Tail(s))
  BY <1>1, <1>2, <1>3 DEF Ordered
<1>5. \A i \in 1..Len(s) - 1 : Before(Head(s), Tail(s)[i])
  BY <1>1, <1>2 DEF Ordered
<1>6. QED
  BY <1>1, <1>4, <1>5 DEF ToSet

LEMMA OrderedEmpty == Ordered(<< >>)
BY DEF Ordered

(* The other exporters have what they had.                                 *)
SameStream(y) ==
  /\ wire'[y] = wire[y] /\ batch'[y] = batch[y]
  /\ buffer'[y] = buffer[y] /\ dropped'[y] = dropped[y]

Kept(x) == dropped[x] \cup Has(x)

LEMMA SameStreamFacts ==
  ASSUME NEW y, SameStream(y)
  PROVE  Has(y)' = Has(y) /\ Kept(y)' = Kept(y) /\ (InOrder(y) => InOrder(y)')
BY DEF SameStream, Has, Kept, InOrder

(* An event is added at the end, whether it fills the batch or not.        *)
LEMMA EmitStream ==
  ASSUME Base, NEW t \in Threads, NEW x \in ExporterNames, Emit(t, x)
  PROVE  /\ t \in Sources /\ thread[t].n > 0
         /\ Has(x)' = Has(x) \cup {Current(t)} /\ dropped'[x] = dropped[x]
         /\ \A y \in ExporterNames \ {x} : SameStream(y)
         /\ InOrder(x) /\ (\A f \in Has(x) : Before(f, Current(t))) => InOrder(x)'
<1> DEFINE full == Append(buffer[x], Current(t))
<1>1. t \in Sources /\ thread[t].at = "export" /\ lock[x] = Nobody /\ thread[t].n > 0
  BY ThreadFacts DEF Emit, Brings, Base, Roles
<1>2. buffer[x] \in Seq(Event) /\ Current(t) \in Event /\ batch[x] = << >>
  BY <1>1, CurrentFacts DEF Base, Types, Locking
<1>3. ToSet(full) = ToSet(buffer[x]) \cup {Current(t)} /\ ToSet(batch[x]) = {}
  BY <1>2, SetOfAppend, SetOfEmpty
<1>4. InOrder(x) /\ (\A f \in Has(x) : Before(f, Current(t))) =>
        Ordered(full) /\ AllBefore(wire[x], full)
  BY <1>2, <1>3, OrderedAppend DEF InOrder, Has, AllBefore
<1> HIDE DEF full
<1>5. CASE Len(full) >= BatchSize
  <2>1. /\ wire' = wire /\ dropped' = dropped
        /\ batch' = [batch EXCEPT ![x] = full] /\ buffer' = [buffer EXCEPT ![x] = << >>]
    BY <1>5 DEF Emit, Flush, full
  <2>2. /\ wire'[x] = wire[x] /\ batch'[x] = full /\ buffer'[x] = << >>
        /\ \A y \in ExporterNames \ {x} : SameStream(y)
    BY <2>1 DEF Base, Types, SameStream
  <2>3. Has(x)' = Has(x) \cup {Current(t)}
    BY <1>3, <2>2, SetOfEmpty DEF Has
  <2>4. Ordered(full) /\ AllBefore(wire[x], full) /\ InOrder(x) => InOrder(x)'
    BY <2>2, SetOfEmpty, OrderedEmpty DEF InOrder, AllBefore
  <2>5. QED
    BY <1>1, <1>4, <2>1, <2>2, <2>3, <2>4
<1>6. CASE ~(Len(full) >= BatchSize)
  <2>1. /\ wire' = wire /\ dropped' = dropped /\ batch' = batch
        /\ buffer' = [buffer EXCEPT ![x] = full]
    BY <1>6 DEF Emit, full
  <2>2. /\ wire'[x] = wire[x] /\ batch'[x] = batch[x] /\ buffer'[x] = full
        /\ \A y \in ExporterNames \ {x} : SameStream(y)
    BY <2>1 DEF Base, Types, SameStream
  <2>3. Has(x)' = Has(x) \cup {Current(t)}
    BY <1>3, <2>2 DEF Has
  <2>4. Ordered(full) /\ AllBefore(wire[x], full) /\ InOrder(x) => InOrder(x)'
    BY <1>3, <2>2 DEF InOrder, AllBefore
  <2>5. QED
    BY <1>1, <1>4, <2>1, <2>2, <2>3, <2>4
<1>7. QED
  BY <1>5, <1>6

(* What is flushed at shutdown only changes its place.                     *)
LEMMA LeftoverStream ==
  ASSUME Base, NEW x \in ExporterNames, FlushLeftover(x)
  PROVE  /\ Has(x)' = Has(x) /\ dropped' = dropped
         /\ \A y \in ExporterNames \ {x} : SameStream(y)
         /\ InOrder(x) => InOrder(x)'
<1>1. batch[x] = << >> /\ ToSet(batch[x]) = {}
  BY SetOfEmpty DEF FlushLeftover, Base, Locking
<1>2. CASE buffer[x] # << >>
  <2>1. /\ wire' = wire /\ dropped' = dropped
        /\ batch' = [batch EXCEPT ![x] = buffer[x]] /\ buffer' = [buffer EXCEPT ![x] = << >>]
    BY <1>2 DEF FlushLeftover, Flush
  <2>2. /\ wire'[x] = wire[x] /\ batch'[x] = buffer[x] /\ buffer'[x] = << >>
        /\ \A y \in ExporterNames \ {x} : SameStream(y)
    BY <2>1 DEF Base, Types, SameStream
  <2>3. Has(x)' = Has(x)
    BY <1>1, <2>2, SetOfEmpty DEF Has
  <2>4. InOrder(x) => InOrder(x)'
    BY <2>2, SetOfEmpty, OrderedEmpty DEF InOrder, AllBefore
  <2>5. QED
    BY <2>1, <2>2, <2>3, <2>4
<1>3. CASE buffer[x] = << >>
  <2>1. UNCHANGED <<wire, batch, buffer, dropped>>
    BY <1>3 DEF FlushLeftover
  <2>2. QED
    BY <2>1, SameStreamFacts DEF SameStream
<1>4. QED
  BY <1>2, <1>3

(* The collector takes the head of a batch, or the head fails, or all of   *)
(* the batch does.                                                         *)
LEMMA SendStream ==
  ASSUME Base, NEW t \in Threads, NEW x \in ExporterNames,
         SendOne(t, x) \/ SendRaises(t, x)
  PROVE  /\ Has(x)' \subseteq Has(x) /\ Kept(x) \subseteq Kept(x)'
         /\ \A y \in ExporterNames \ {x} : SameStream(y)
         /\ ToSet(batch'[x]) \subseteq ToSet(batch[x]) /\ buffer'[x] = buffer[x]
         /\ InOrder(x) => InOrder(x)'
<1>1. /\ wire[x] \in Seq(Event) /\ batch[x] \in Seq(Event) /\ batch[x] # << >>
      /\ Head(batch[x]) \in Event /\ Tail(batch[x]) \in Seq(Event)
  BY HeadTailProperties DEF Base, Types, SendOne, SendRaises
<1>2. ToSet(batch[x]) = {Head(batch[x])} \cup ToSet(Tail(batch[x]))
  BY <1>1, SetOfTail
<1>3. Ordered(batch[x]) => /\ Ordered(Tail(batch[x]))
                           /\ \A f \in ToSet(Tail(batch[x])) : Before(Head(batch[x]), f)
  BY <1>1, OrderedTail
<1>4. buffer' = buffer /\ buffer'[x] = buffer[x]
  BY DEF SendOne, SendRaises
<1>5. CASE /\ batch' = [batch EXCEPT ![x] = Tail(batch[x])] /\ dropped' = dropped
           /\ wire' = [wire EXCEPT ![x] = Append(wire[x], Head(batch[x]))]
  <2>1. /\ batch'[x] = Tail(batch[x]) /\ wire'[x] = Append(wire[x], Head(batch[x]))
        /\ \A y \in ExporterNames \ {x} : SameStream(y)
    BY <1>4, <1>5 DEF Base, Types, SameStream
  <2>2. ToSet(wire'[x]) = ToSet(wire[x]) \cup {Head(batch[x])}
    BY <1>1, <2>1, SetOfAppend
  <2>3. InOrder(x) => Ordered(wire'[x])
    BY <1>1, <1>2, <2>1, OrderedAppend DEF InOrder, AllBefore
  <2>4. InOrder(x) => InOrder(x)'
    BY <1>2, <1>3, <1>4, <2>1, <2>2, <2>3 DEF InOrder, AllBefore
  <2>5. QED
    BY <1>2, <1>4, <1>5, <2>1, <2>2, <2>4 DEF Has, Kept
<1>6. CASE /\ batch' = [batch EXCEPT ![x] = Tail(batch[x])] /\ wire' = wire
           /\ dropped' = [dropped EXCEPT ![x] = @ \cup {Head(batch[x])}]
  <2>1. /\ batch'[x] = Tail(batch[x]) /\ wire'[x] = wire[x]
        /\ dropped'[x] = dropped[x] \cup {Head(batch[x])}
        /\ \A y \in ExporterNames \ {x} : SameStream(y)
    BY <1>4, <1>6 DEF Base, Types, SameStream
  <2>2. InOrder(x) => InOrder(x)'
    BY <1>2, <1>3, <1>4, <2>1 DEF InOrder, AllBefore
  <2>3. QED
    BY <1>2, <1>4, <2>1, <2>2 DEF Has, Kept
<1>7. CASE /\ batch' = [batch EXCEPT ![x] = << >>] /\ wire' = wire
           /\ dropped' = [dropped EXCEPT ![x] = @ \cup ToSet(batch[x])]
  <2>1. /\ batch'[x] = << >> /\ wire'[x] = wire[x]
        /\ dropped'[x] = dropped[x] \cup ToSet(batch[x])
        /\ \A y \in ExporterNames \ {x} : SameStream(y)
    BY <1>4, <1>7 DEF Base, Types, SameStream
  <2>2. InOrder(x) => InOrder(x)'
    BY <1>4, <2>1, SetOfEmpty, OrderedEmpty DEF InOrder, AllBefore
  <2>3. QED
    BY <1>4, <2>1, <2>2, SetOfEmpty DEF Has, Kept
<1>8. QED
  BY <1>5, <1>6, <1>7 DEF SendOne, SendRaises, Fault
-----------------------------------------------------------------------------
(* The streams: who has been where.                                        *)

(* A step after which every source has been where it was, or has another   *)
(* event in its hands and has been nowhere.                                *)
Steady ==
  \A u \in Sources, i \in DOMAIN Exporters :
    \/ thread'[u].n = thread[u].n /\ (Visited(u, i)' <=> Visited(u, i))
    \/ thread'[u].n = thread[u].n + 1 /\ ~Visited(u, i)'

(* How the thread that moves keeps a step steady.                          *)
LEMMA SteadyMove ==
  ASSUME Base, NEW t \in Threads, Moves(t),
         t \in Sources => \A i \in DOMAIN Exporters :
           \/ thread'[t].n = thread[t].n /\ (Visited(t, i)' <=> Visited(t, i))
           \/ thread'[t].n = thread[t].n + 1 /\ ~Visited(t, i)'
  PROVE  Steady
BY ThreadFacts DEF Steady, Moves, Visited

(* Sending happens where the thread already is; a thread that has returned *)
(* has been everywhere.                                                    *)
LEMMA SendSteady ==
  ASSUME Base, NEW t \in Threads, NEW x \in ExporterNames, SendOne(t, x) \/ SendRaises(t, x)
  PROVE  Steady
<1>1. /\ Moves(t) /\ thread'[t].n = thread[t].n /\ thread[t].at = "send"
      /\ \/ thread'[t].at = "export" /\ thread'[t].next = thread[t].next + 1
         \/ thread'[t] = thread[t]
      /\ thread[t].next \in Nat
  BY SendThread, Fields DEF Base
<1>2. \A i \in DOMAIN Exporters : i \in Nat
  BY ExporterFacts
<1>3. \A i \in DOMAIN Exporters : Visited(t, i)' <=> Visited(t, i)
  BY <1>1, <1>2 DEF Visited
<1>4. QED
  BY <1>1, <1>3, SteadyMove

LEMMA ReturnSteady == ASSUME Base, NEW t \in Threads, Return(t) PROVE Steady
<1>1. /\ Moves(t) /\ thread'[t].n = thread[t].n /\ thread[t].at = "export"
      /\ thread[t].next > Len(Exporters) /\ thread[t].next \in Nat
      /\ t \in Sources => thread'[t].at = "idle"
  BY ReturnMoves, ThreadFacts, Fields DEF Base, Keeps, Return
<1>2. \A i \in DOMAIN Exporters : i < thread[t].next
  BY <1>1, ExporterFacts
<1>3. QED
  BY <1>1, <1>2, SteadyMove DEF Visited

(* Until it exports, a thread has been nowhere.                            *)
LEMMA NotYet ==
  ASSUME Base, NEW t \in Threads, thread[t].at \notin {"idle", "export", "send"}
  PROVE  \A i \in DOMAIN Exporters : ~Visited(t, i)
BY DEF Visited

LEMMA RowSteady ==
  ASSUME Base, RowsInv, NEW s \in Sessions, Select(s) \/ Insert(s) \/ WriteFails(s)
  PROVE  Steady
<1>1. /\ thread[s].at \in {"select", "insert"} /\ thread[s].next = 1
  BY ThreadFacts DEF Base, Roles, Select, Insert, WriteFails
<1>2. /\ Moves(s) /\ thread'[s].n = thread[s].n /\ thread'[s].next = 1
      /\ thread'[s].at \in {"select", "insert", "export"}
  <2>1. CASE Select(s)
    BY <1>1, <2>1, SelectMoves DEF Base, RowsInv, Keeps
  <2>2. CASE thread' = ToExport(s)
    BY <1>1, <2>2, InsertMoves DEF Base, Keeps
  <2>3. CASE thread' = [thread EXCEPT ![s].at = "select", ![s].seq = 0, ![s].tries = 1]
    BY <1>1, <2>3, RetryMoves DEF Base, Keeps
  <2>4. QED
    BY <2>1, <2>2, <2>3 DEF Insert, WriteFails
<1>3. \A i \in DOMAIN Exporters : ~(i < 1)
  BY ExporterFacts
<1>4. \A i \in DOMAIN Exporters : ~Visited(s, i) /\ ~Visited(s, i)'
  BY <1>1, <1>2, <1>3 DEF Visited
<1>5. QED
  BY <1>2, <1>4, ThreadFacts, SteadyMove

LEMMA StartSteady ==
  ASSUME Base, (\E s \in Sessions : Ask(s) \/ Finish(s)) \/ Find \/ Shutdown \/ Exit
  PROVE  Steady
<1>1. \A i \in DOMAIN Exporters : ~(i < 1)
  BY ExporterFacts
<1>2. ASSUME NEW s \in Sessions, Ask(s) PROVE Steady
  <2>1. Moves(s) /\ thread'[s].at = "answering" /\ thread'[s].n = thread[s].n + 1
    BY <1>2, AskMoves DEF Base
  <2>2. \A i \in DOMAIN Exporters : ~Visited(s, i)'
    BY <2>1 DEF Visited
  <2>3. QED
    BY <2>1, <2>2, ThreadFacts, SteadyMove
<1>3. ASSUME NEW s \in Sessions, Finish(s) PROVE Steady
  <2>1. /\ Moves(s) /\ thread'[s].n = thread[s].n
        /\ thread[s].at = "answering" /\ thread'[s].at = "select"
    BY <1>3, FinishMoves DEF Base, Keeps, Finish
  <2>2. \A i \in DOMAIN Exporters : ~Visited(s, i) /\ ~Visited(s, i)'
    BY <2>1 DEF Visited
  <2>3. QED
    BY <2>1, <2>2, ThreadFacts, SteadyMove
<1>4. CASE Find
  <2>1. /\ Moves(Sweeper) /\ thread'[Sweeper].at = "export" /\ thread'[Sweeper].next = 1
        /\ thread'[Sweeper].n = thread[Sweeper].n + 1
    BY <1>4, FindMoves, ThreadFacts DEF Base, Roles, Keeps, Find, MayBegin
  <2>2. \A i \in DOMAIN Exporters : ~Visited(Sweeper, i)'
    BY <1>1, <2>1 DEF Visited
  <2>3. QED
    BY <2>1, <2>2, ThreadFacts, SteadyMove
<1>5. CASE Shutdown \/ Exit
  BY <1>5, ShutdownMoves, ExitMoves, ThreadFacts, SteadyMove DEF Base
<1>6. QED
  BY <1>2, <1>3, <1>4, <1>5

(* Exporters keep their order and lose nothing in a steady step.           *)
LEMMA SteadyStreams ==
  ASSUME Base, OrderInv, ForwardInv, Steady,
         \A x \in ExporterNames : /\ Has(x)' \subseteq Has(x) /\ Kept(x) \subseteq Kept(x)'
                                  /\ InOrder(x) => InOrder(x)'
  PROVE  OrderInv' /\ ForwardInv'
<1>1. ASSUME NEW i \in DOMAIN Exporters PROVE Brought(i)' /\ InOrder(Exporters[i])'
  <2>1. Exporters[i] \in ExporterNames /\ Brought(i) /\ InOrder(Exporters[i])
    BY ExporterFacts DEF OrderInv
  <2>2. ASSUME NEW e \in Has(Exporters[i])'
        PROVE  /\ e.n <= thread'[e.by].n
               /\ e.n = thread'[e.by].n => Visited(e.by, i)'
    <3>1. /\ e \in Has(Exporters[i]) /\ e.n <= thread[e.by].n
          /\ e.n = thread[e.by].n => Visited(e.by, i)
      BY <2>1 DEF Brought
    <3>2. e.by \in Sources /\ e.n \in Nat /\ thread[e.by].n \in Nat
      <4>1. e \in Event
        BY <2>1, <3>1 DEF Base, Types, Has, ToSet
      <4>2. QED
        BY <4>1, EventFacts, ThreadFacts, Fields DEF Base
    <3>3. QED
      BY <3>1, <3>2 DEF Steady
  <2>3. QED
    BY <2>1, <2>2 DEF Brought
<1>2. ASSUME NEW u \in Sources, NEW i \in DOMAIN Exporters,
             thread'[u].n > 0, Visited(u, i)', Brings(u, Exporters[i])'
      PROVE  Current(u)' \in Kept(Exporters[i])'
  <2>1. thread'[u].n = thread[u].n /\ Visited(u, i) /\ Current(u)' = Current(u)
    BY <1>2 DEF Steady, Current
  <2>2. Brings(u, Exporters[i])
    BY <1>2, <2>1 DEF Brings
  <2>3. Current(u) \in Kept(Exporters[i]) /\ Exporters[i] \in ExporterNames
    BY <1>2, <2>1, <2>2, ExporterFacts DEF ForwardInv, Kept
  <2>4. QED
    BY <2>1, <2>3
<1>3. QED
  BY <1>1, <1>2 DEF OrderInv, ForwardInv, Kept

(* After emit or a filter that says no, the thread has been at one more    *)
(* exporter: the one whose turn it was.                                    *)
LEMMA VisitMove ==
  ASSUME Base, NEW t \in Sources, NEW x \in ExporterNames, PassOver(t, x) \/ Emit(t, x)
  PROVE  /\ \A u \in Sources : thread'[u].n = thread[u].n /\ Current(u)' = Current(u)
         /\ \A u \in Sources \ {t}, i \in DOMAIN Exporters : Visited(u, i)' <=> Visited(u, i)
         /\ \A i \in DOMAIN Exporters :
              Visited(t, i)' <=> Visited(t, i) \/ Exporters[i] = x
         /\ \A i \in DOMAIN Exporters : Exporters[i] = x => ~Visited(t, i)
<1>1. /\ Moves(t) /\ thread'[t].n = thread[t].n /\ thread[t].at = "export"
      /\ \/ thread'[t].at = "export" /\ thread'[t].next = thread[t].next + 1
         \/ thread'[t].at = "send" /\ thread'[t].next = thread[t].next
      /\ thread[t].next \in Nat /\ At(t, x)
  BY FlushThread, ThreadFacts, Fields DEF Base, PassOver, Emit
<1>2. \A i \in DOMAIN Exporters : i \in Nat /\ (Exporters[i] = x <=> i = thread[t].next)
  BY <1>1, ExporterFacts DEF At
<1>3. \A u \in Sources \ {t} : thread'[u] = thread[u]
  BY <1>1, ThreadFacts DEF Moves
<1>4. \A i \in DOMAIN Exporters : Visited(t, i) <=> i < thread[t].next
  BY <1>1 DEF Visited
<1>5. \A i \in DOMAIN Exporters : Visited(t, i)' <=> i <= thread[t].next
  BY <1>1, <1>2 DEF Visited
<1>6. \A i \in DOMAIN Exporters : Visited(t, i)' <=> Visited(t, i) \/ Exporters[i] = x
  BY <1>1, <1>2, <1>4, <1>5
<1>7. \A i \in DOMAIN Exporters : Exporters[i] = x => ~Visited(t, i)
  BY <1>1, <1>2, <1>4
<1>8. QED
  BY <1>1, <1>3, <1>6, <1>7 DEF Current, Visited

LEMMA VisitStreams ==
  ASSUME Base, OrderInv, ForwardInv, NEW t \in Sources, NEW x \in ExporterNames,
         PassOver(t, x) \/ Emit(t, x)
  PROVE  OrderInv' /\ ForwardInv'
<1> USE VisitMove
<1>1. /\ \A y \in ExporterNames : Kept(y) \subseteq Kept(y)'
      /\ \A y \in ExporterNames \ {x} : Has(y)' = Has(y) /\ (InOrder(y) => InOrder(y)')
      /\ Has(x)' \subseteq Has(x) \cup {Current(t)}
      /\ Emit(t, x) => Current(t) \in Kept(x)'
  <2>1. CASE PassOver(t, x)
    <3>1. (\A y \in ExporterNames : SameStream(y)) /\ ~Emit(t, x)
      BY <2>1 DEF PassOver, Emit, exportVars, SameStream
    <3>2. QED
      BY <3>1, SameStreamFacts
  <2>2. CASE Emit(t, x)
    BY <2>2, EmitStream, SameStreamFacts, ThreadFacts DEF Kept
  <2>3. QED
    BY <2>1, <2>2
<1>2. ASSUME NEW i \in DOMAIN Exporters, NEW e \in Has(Exporters[i])
      PROVE  /\ e \in Event /\ e.by \in Sources /\ e.n \in Nat /\ thread[e.by].n \in Nat
             /\ e.n <= thread[e.by].n
             /\ e.n = thread[e.by].n => Visited(e.by, i)
  <2>1. e \in Event
    BY ExporterFacts DEF Base, Types, Has, ToSet
  <2>2. QED
    BY <2>1, EventFacts, ThreadFacts, Fields DEF Base, OrderInv, Brought
<1>3. ASSUME NEW i \in DOMAIN Exporters PROVE Brought(i)'
  <2>1. ASSUME NEW e \in Has(Exporters[i])
        PROVE  /\ e.n <= thread'[e.by].n
               /\ e.n = thread'[e.by].n => Visited(e.by, i)'
    BY <1>2
  <2>2. CASE Exporters[i] = x
    <3>1. /\ Current(t).by = t /\ Current(t).n = thread'[t].n /\ Visited(t, i)'
          /\ thread'[t].n \in Nat
      BY <2>2, ThreadFacts, Fields DEF Base, Current
    <3>2. \A e \in Has(Exporters[i])' : e \in Has(Exporters[i]) \/ e = Current(t)
      BY <1>1, <2>2
    <3>3. ASSUME NEW e \in Has(Exporters[i])'
          PROVE  /\ e.n <= thread'[e.by].n
                 /\ e.n = thread'[e.by].n => Visited(e.by, i)'
      BY <2>1, <3>1, <3>2
    <3>4. QED
      BY <3>3 DEF Brought
  <2>3. CASE Exporters[i] # x
    BY <1>1, <2>1, <2>3, ExporterFacts DEF Brought
  <2>4. QED
    BY <2>2, <2>3
<1>4. ASSUME NEW i \in DOMAIN Exporters PROVE InOrder(Exporters[i])'
  <2>1. Exporters[i] \in ExporterNames /\ InOrder(Exporters[i])
    BY ExporterFacts DEF OrderInv
  <2>2. CASE Exporters[i] # x
    BY <1>1, <2>1, <2>2
  <2>3. CASE Exporters[i] = x /\ PassOver(t, x)
    <3>1. SameStream(x)
      BY <2>3 DEF PassOver, exportVars, SameStream
    <3>2. QED
      BY <2>1, <2>3, <3>1, SameStreamFacts
  <2>4. CASE Exporters[i] = x /\ Emit(t, x)
    <3>1. ASSUME NEW f \in Has(x) PROVE Before(f, Current(t))
      <4>1. /\ f.n \in Nat /\ thread[f.by].n \in Nat /\ f.n <= thread[f.by].n
            /\ f.n = thread[f.by].n => Visited(f.by, i)
        BY <1>2, <2>4
      <4>2. ~Visited(t, i)
        BY <2>4
      <4>3. Current(t).by = t /\ Current(t).n = thread[t].n
        BY DEF Current
      <4>4. QED
        BY <4>1, <4>2, <4>3 DEF Before
    <3>2. QED
      BY <2>1, <2>4, <3>1, EmitStream, ThreadFacts
  <2>5. QED
    BY <2>2, <2>3, <2>4
<1>5. ASSUME NEW u \in Sources, NEW i \in DOMAIN Exporters,
             thread'[u].n > 0, Visited(u, i)', Brings(u, Exporters[i])'
      PROVE  Current(u)' \in Kept(Exporters[i])'
  <2>1. thread[u].n > 0 /\ Current(u)' = Current(u) /\ Brings(u, Exporters[i])
    BY <1>5 DEF Brings
  <2>2. CASE Visited(u, i)
    <3>1. Current(u) \in Kept(Exporters[i]) /\ Exporters[i] \in ExporterNames
      BY <2>1, <2>2, ExporterFacts DEF ForwardInv, Kept
    <3>2. QED
      BY <1>1, <2>1, <3>1
  <2>3. CASE ~Visited(u, i)
    <3>1. u = t /\ Exporters[i] = x
      BY <1>5, <2>3
    <3>2. ~PassOver(t, x)
      BY <2>1, <3>1 DEF PassOver
    <3>3. QED
      BY <1>1, <2>1, <3>1, <3>2
  <2>4. QED
    BY <2>2, <2>3
<1>6. QED
  BY <1>3, <1>4, <1>5 DEF OrderInv, ForwardInv, Kept

LEMMA StreamsStep == Base /\ RowsInv /\ OrderInv /\ ForwardInv /\ [Next]_vars => OrderInv' /\ ForwardInv'
<1> SUFFICES ASSUME Base, RowsInv, OrderInv, ForwardInv, [Next]_vars
             PROVE  OrderInv' /\ ForwardInv'
  OBVIOUS
<1>1. ASSUME Steady, UNCHANGED exportVars PROVE OrderInv' /\ ForwardInv'
  <2>1. \A x \in ExporterNames : SameStream(x)
    BY <1>1 DEF exportVars, SameStream
  <2>2. QED
    BY <1>1, <2>1, SameStreamFacts, SteadyStreams
<1>2. CASE UNCHANGED vars
  <2>1. Steady /\ UNCHANGED exportVars
    BY <1>2 DEF vars, exportVars, Steady, Visited
  <2>2. QED
    BY <1>1, <2>1
<1>3. CASE (\E s \in Sessions : Ask(s) \/ Finish(s)) \/ Find \/ Shutdown \/ Exit
  BY <1>1, <1>3, StartSteady DEF Ask, Finish, Find, Shutdown, Exit
<1>4. ASSUME NEW t \in Threads, Work(t) PROVE OrderInv' /\ ForwardInv'
  <2>1. CASE t \in Sessions /\ (Select(t) \/ Insert(t) \/ WriteFails(t))
    BY <1>1, <2>1, RowSteady DEF Select, Insert, WriteFails
  <2>2. ASSUME NEW x \in ExporterNames, PassOver(t, x) \/ Emit(t, x)
        PROVE  OrderInv' /\ ForwardInv'
    <3>1. t \in Sources
      BY <2>2, ThreadFacts DEF PassOver, Emit, Brings
    <3>2. QED
      BY <2>2, <3>1, VisitStreams
  <2>3. ASSUME NEW x \in ExporterNames, t = Main, FlushLeftover(x)
        PROVE  OrderInv' /\ ForwardInv'
    <3>1. Steady
      BY <2>3, FlushThread, ThreadFacts, SteadyMove
    <3>2. \A y \in ExporterNames : /\ Has(y)' \subseteq Has(y) /\ Kept(y) \subseteq Kept(y)'
                                   /\ InOrder(y) => InOrder(y)'
      BY <2>3, LeftoverStream, SameStreamFacts DEF Kept
    <3>3. QED
      BY <3>1, <3>2, SteadyStreams
  <2>4. ASSUME NEW x \in ExporterNames, SendOne(t, x) \/ SendRaises(t, x)
        PROVE  OrderInv' /\ ForwardInv'
    <3>1. \A y \in ExporterNames : /\ Has(y)' \subseteq Has(y) /\ Kept(y) \subseteq Kept(y)'
                                   /\ InOrder(y) => InOrder(y)'
      BY <2>4, SendStream, SameStreamFacts
    <3>2. QED
      BY <2>4, <3>1, SendSteady, SteadyStreams
  <2>5. CASE Return(t)
    BY <1>1, <2>5, ReturnSteady DEF Return
  <2>6. QED
    BY <1>4, <2>1, <2>2, <2>3, <2>4, <2>5 DEF Work, Local, Send
<1>5. QED
  BY <1>2, <1>3, <1>4 DEF Next
-----------------------------------------------------------------------------
(* Shutdown.                                                               *)

LEMMA LockedStep == Base /\ LockedIsEmpty /\ [Next]_vars => LockedIsEmpty'
<1> SUFFICES ASSUME Base, LockedIsEmpty, [Next]_vars PROVE LockedIsEmpty'
  OBVIOUS
<1>1. ASSUME UNCHANGED <<lock, buffer>> PROVE LockedIsEmpty'
  BY <1>1 DEF LockedIsEmpty
<1>2. ASSUME NEW t \in Threads, NEW x \in ExporterNames, Emit(t, x) \/ FlushLeftover(x)
      PROVE  LockedIsEmpty'
  <2>1. \/ /\ buffer' = [buffer EXCEPT ![x] = << >>]
           /\ \A y \in ExporterNames \ {x} : lock'[y] = lock[y]
        \/ /\ \A y \in ExporterNames \ {x} : buffer'[y] = buffer[y]
           /\ lock' = lock /\ lock[x] = Nobody
    BY <1>2 DEF Emit, FlushLeftover, Flush, Base, Types
  <2>2. QED
    BY <2>1 DEF LockedIsEmpty, Base, Types
<1>3. ASSUME NEW t \in Threads, NEW x \in ExporterNames, SendOne(t, x) \/ SendRaises(t, x)
      PROVE  LockedIsEmpty'
  BY <1>3 DEF SendOne, SendRaises, Released, LockedIsEmpty, Base, Types
<1>4. ASSUME NEW t \in Threads, Work(t) PROVE LockedIsEmpty'
  <2>1. CASE \/ t \in Sessions /\ (Select(t) \/ Insert(t) \/ WriteFails(t))
             \/ Return(t) \/ \E x \in ExporterNames : PassOver(t, x)
    BY <1>1, <2>1 DEF Select, Insert, WriteFails, Return, PassOver, exportVars
  <2>2. QED
    BY <1>2, <1>3, <1>4, <2>1 DEF Work, Local, Send
<1>5. CASE UNCHANGED vars \/ (\E s \in Sessions : Ask(s) \/ Finish(s)) \/ Find \/ Shutdown \/ Exit
  BY <1>1, <1>5 DEF vars, Ask, Finish, Find, Shutdown, Exit, exportVars
<1>6. QED
  BY <1>4, <1>5 DEF Next

LEMMA FlushedIsReached ==
  ASSUME Base, NEW i \in DOMAIN Exporters, Flushed(i)
  PROVE  Reached(i)
<1>1. i \in Nat /\ ~(i < 1) /\ thread[Main].next \in Nat /\ thread[Main].at \in Places
  BY ExporterFacts, ThreadFacts, Fields DEF Base
<1>2. /\ thread[Main].at \notin {"answering", "select", "insert"}
      /\ thread[Main].at \notin {"export", "send"} => thread[Main].next = 1
  BY ThreadFacts DEF Base, Roles
<1>3. QED
  BY <1>1, <1>2 DEF Flushed, Reached, Places

(* Another thread ends its line or goes on with it, and brings only it.    *)
LEMMA OthersAtShutdown ==
  ASSUME Base, ShutdownInv, NEW t \in Threads \ {Main}, Moves(t), late' = late,
         t \in Sessions => \/ thread[Main].at = "idle" \/ thread'[t].at = "idle"
                           \/ thread[t].at # "idle" /\ thread'[t].n = thread[t].n,
         \A x \in ExporterNames : \A e \in Pending(x)' :
           \/ e \in Pending(x) \/ e.by = Sweeper
           \/ t \in Sessions /\ thread[t].at # "idle" /\ e = Current(t)
  PROVE  ShutdownInv'
<1>1. thread'[Main] = thread[Main]
  BY ThreadFacts DEF Moves
<1>2. SUFFICES ASSUME NEW i \in DOMAIN Exporters
               PROVE  /\ Reached(i) => \A s \in Sessions :
                           thread'[s].at # "idle" => Current(s)' \in late[Exporters[i]]
                      /\ Flushed(i) => \A e \in Pending(Exporters[i])' :
                           e.by = Sweeper \/ e \in late[Exporters[i]]
  BY <1>1 DEF ShutdownInv, Reached, Flushed
<1>3. ASSUME Reached(i), NEW s \in Sessions, thread'[s].at # "idle"
      PROVE  Current(s)' \in late[Exporters[i]]
  <2>1. thread[Main].at # "idle"
    BY <1>3 DEF Reached
  <2>2. thread[s].at # "idle" /\ thread'[s].n = thread[s].n
    BY <1>3, <2>1, ThreadFacts DEF Moves
  <2>3. QED
    BY <1>3, <2>2 DEF ShutdownInv, Current
<1>4. ASSUME Flushed(i), NEW e \in Pending(Exporters[i])'
      PROVE  e.by = Sweeper \/ e \in late[Exporters[i]]
  <2>1. Reached(i)
    BY <1>4, FlushedIsReached
  <2>2. QED
    BY <1>4, <2>1, ExporterFacts DEF ShutdownInv
<1>5. QED
  BY <1>3, <1>4

(* The main thread goes on to the next exporter when it leaves nothing.    *)
LEMMA MainAtShutdown ==
  ASSUME Base, ShutdownInv, Moves(Main),
         \A i \in DOMAIN Exporters :
           Flushed(i)' => \/ Flushed(i) /\ late'[Exporters[i]] = late[Exporters[i]]
                         \/ Pending(Exporters[i])' = {},
         \A i \in DOMAIN Exporters :
           Reached(i)' => \/ Reached(i) /\ late'[Exporters[i]] = late[Exporters[i]]
                         \/ late'[Exporters[i]] = UnderWay,
         \A y \in ExporterNames : Pending(y)' \subseteq Pending(y)
  PROVE  ShutdownInv'
<1>1. \A s \in Sessions : thread'[s] = thread[s] /\ Current(s)' = Current(s)
  BY ThreadFacts DEF Moves, Current
<1>2. \A s \in Sessions : thread[s].at # "idle" => Current(s) \in UnderWay
  BY DEF UnderWay
<1>3. ASSUME NEW i \in DOMAIN Exporters, Reached(i)', NEW s \in Sessions, thread'[s].at # "idle"
      PROVE  Current(s)' \in late'[Exporters[i]]
  BY <1>1, <1>2, <1>3 DEF ShutdownInv
<1>4. ASSUME NEW i \in DOMAIN Exporters, Flushed(i)', NEW e \in Pending(Exporters[i])'
      PROVE  e.by = Sweeper \/ e \in late'[Exporters[i]]
  BY <1>4, ExporterFacts DEF ShutdownInv
<1>5. QED
  BY <1>3, <1>4 DEF ShutdownInv

(* A step of the main thread at the exporter whose turn it is.             *)
LEMMA TurnAtShutdown ==
  ASSUME Base, Moves(Main), NEW x \in ExporterNames, At(Main, x),
         thread[Main].at \in {"export", "send"}, thread'[Main].at \in {"export", "send"},
         \/ thread'[Main].next = thread[Main].next
         \/ thread'[Main].at = "export" /\ thread'[Main].next = thread[Main].next + 1,
         NEW i \in DOMAIN Exporters
  PROVE  /\ Exporters[i] = x <=> i = thread[Main].next
         /\ Flushed(i)' => Flushed(i) \/ (thread'[Main].next = thread[Main].next + 1 /\ Exporters[i] = x)
         /\ Reached(i)' => Reached(i) \/ (thread[Main].at = "export" /\ Exporters[i] = x)
         /\ Flushed(i) => Exporters[i] # x
<1>1. i \in Nat /\ thread[Main].next \in Nat
  BY ThreadFacts, Fields, ExporterFacts DEF Base
<1>2. Exporters[i] = x <=> i = thread[Main].next
  BY ExporterFacts DEF At
<1>3. (Flushed(i) <=> i < thread[Main].next) /\ (Flushed(i)' <=> i < thread'[Main].next)
  BY DEF Flushed
<1>4. Flushed(i)' =>
        Flushed(i) \/ (thread'[Main].next = thread[Main].next + 1 /\ Exporters[i] = x)
  BY <1>1, <1>2, <1>3
<1>5. Reached(i)' => Reached(i) \/ (thread[Main].at = "export" /\ Exporters[i] = x)
  BY <1>1, <1>2 DEF Reached
<1>6. Flushed(i) => Exporters[i] # x
  BY <1>1, <1>2, <1>3
<1>7. QED
  BY <1>2, <1>4, <1>5, <1>6

LEMMA EmitPending ==
  ASSUME Base, NEW t \in Threads, NEW x \in ExporterNames, Emit(t, x)
  PROVE  \A y \in ExporterNames : \A e \in Pending(y)' : e \in Pending(y) \/ e = Current(t)
<1> DEFINE full == Append(buffer[x], Current(t))
<1>1. t \in Sources /\ thread[t].n > 0 /\ (\A y \in ExporterNames \ {x} : SameStream(y))
  BY EmitStream
<1>2. buffer[x] \in Seq(Event) /\ Current(t) \in Event
  BY <1>1, CurrentFacts DEF Base, Types
<1>3. ToSet(full) = ToSet(buffer[x]) \cup {Current(t)}
  BY <1>2, SetOfAppend
<1> HIDE DEF full
<1>4. \/ buffer'[x] = full /\ batch'[x] = batch[x]
      \/ buffer'[x] = << >> /\ batch'[x] = full
  BY DEF Emit, Flush, Base, Types, full
<1>5. \A e \in Pending(x)' : e \in Pending(x) \/ e = Current(t)
  BY <1>3, <1>4, SetOfEmpty DEF Pending
<1>6. QED
  BY <1>1, <1>5 DEF SameStream, Pending

LEMMA LeftoverPending ==
  ASSUME Base, NEW x \in ExporterNames, FlushLeftover(x)
  PROVE  /\ \A y \in ExporterNames : Pending(y)' = Pending(y)
         /\ thread'[Main].next = thread[Main].next \/ Pending(x)' = {}
<1>1. /\ batch[x] = << >>
      /\ \A y \in ExporterNames \ {x} : SameStream(y)
  BY LeftoverStream DEF FlushLeftover, Base, Locking
<1>2. CASE buffer[x] # << >>
  <2>1. batch'[x] = buffer[x] /\ buffer'[x] = << >>
    BY <1>2 DEF FlushLeftover, Flush, Base, Types
  <2>2. thread'[Main].next = thread[Main].next
    BY <1>2, ThreadFacts, FlushMoves DEF FlushLeftover, Flush, Base, Keeps
  <2>3. QED
    BY <1>1, <2>1, <2>2, SetOfEmpty DEF SameStream, Pending
<1>3. CASE buffer[x] = << >>
  <2>1. batch' = batch /\ buffer' = buffer
    BY <1>3 DEF FlushLeftover
  <2>2. QED
    BY <1>1, <1>3, <2>1, SetOfEmpty DEF Pending
<1>4. QED
  BY <1>2, <1>3

LEMMA ShutdownStep ==
  Base /\ LockedIsEmpty /\ ShutdownInv /\ [Next]_vars /\ RowsInv => ShutdownInv'
<1> SUFFICES ASSUME Base, LockedIsEmpty, ShutdownInv, [Next]_vars, RowsInv PROVE ShutdownInv'
  OBVIOUS
<1>1. ASSUME UNCHANGED exportVars PROVE \A x \in ExporterNames : Pending(x)' = Pending(x)
  BY <1>1 DEF exportVars, Pending
<1>2. CASE UNCHANGED vars
  BY <1>1, <1>2 DEF vars, exportVars, ShutdownInv, Reached, Flushed, Pending, Current
<1>3. ASSUME NEW t \in Threads \ {Main}, Moves(t), late' = late,
             t \in Sessions => thread[t].at # "idle" /\ thread'[t].n = thread[t].n,
             \A x \in ExporterNames : Pending(x)' \subseteq Pending(x)
      PROVE  ShutdownInv'
  BY <1>3, OthersAtShutdown
<1>4. ASSUME NEW s \in Sessions, Ask(s) \/ Finish(s) PROVE ShutdownInv'
  <2>1. CASE Ask(s)
    <3>1. thread[Main].at = "idle" /\ Moves(s) /\ s \in Threads \ {Main} /\ UNCHANGED exportVars
      BY <2>1, AskMoves, ThreadFacts DEF Base, Ask, Serving
    <3>2. QED
      BY <1>1, <3>1, OthersAtShutdown DEF exportVars
  <2>2. CASE Finish(s)
    <3>1. /\ thread[s].at # "idle" /\ Moves(s) /\ s \in Threads \ {Main}
          /\ thread'[s].n = thread[s].n /\ UNCHANGED exportVars
      BY <2>2, FinishMoves, ThreadFacts DEF Base, Finish, Keeps
    <3>2. QED
      BY <1>1, <1>3, <3>1 DEF exportVars
  <2>3. QED
    BY <1>4, <2>1, <2>2
<1>5. CASE Find
  <2>1. Moves(Sweeper) /\ Sweeper \in Threads \ {Main} /\ UNCHANGED exportVars
    BY <1>5, FindMoves, ThreadFacts DEF Base, Find
  <2>2. QED
    BY <1>1, <1>3, <2>1, ThreadFacts DEF exportVars
<1>6. CASE Shutdown \/ Exit
  <2>1. Moves(Main) /\ UNCHANGED exportVars
    BY <1>6, ShutdownMoves, ExitMoves DEF Base, Shutdown, Exit
  <2>2. ASSUME NEW i \in DOMAIN Exporters PROVE (Reached(i)' => Reached(i)) /\ (Flushed(i)' => Flushed(i))
    <3>1. CASE Shutdown
      <4>1. thread'[Main].at = "export" /\ thread'[Main].next = 1 /\ ~(i < 1)
        BY <3>1, ShutdownMoves, ExporterFacts, ThreadFacts DEF Base, Roles, Keeps, Shutdown, Serving
      <4>2. QED
        BY <4>1 DEF Reached, Flushed
    <3>2. CASE Exit
      BY <3>2 DEF Exit, Reached, Flushed
    <3>3. QED
      BY <1>6, <3>1, <3>2
  <2>3. QED
    BY <1>1, <2>1, <2>2, MainAtShutdown DEF exportVars
<1>7. ASSUME NEW s \in Sessions, Select(s) \/ Insert(s) \/ WriteFails(s) PROVE ShutdownInv'
  <2>1. thread[s].at # "idle" /\ s \in Threads \ {Main} /\ UNCHANGED exportVars
    BY <1>7, ThreadFacts DEF Select, Insert, WriteFails
  <2>2. Moves(s) /\ thread'[s].n = thread[s].n
    BY <1>7, SelectMoves, InsertMoves, RetryMoves DEF Base, RowsInv, Insert, WriteFails, Keeps
  <2>3. QED
    BY <1>1, <1>3, <2>1, <2>2 DEF exportVars
<1>8. ASSUME NEW t \in Threads, NEW x \in ExporterNames, PassOver(t, x) PROVE ShutdownInv'
  <2>1. /\ t \in Threads \ {Main} /\ thread[t].at # "idle" /\ Moves(t)
        /\ thread'[t].n = thread[t].n /\ UNCHANGED exportVars
    BY <1>8, FlushThread, ThreadFacts DEF PassOver
  <2>2. QED
    BY <1>1, <1>3, <2>1 DEF exportVars
<1>9. ASSUME NEW t \in Threads, NEW x \in ExporterNames, Emit(t, x) PROVE ShutdownInv'
  <2>1. /\ t \in Threads \ {Main} /\ (t \in Sessions \/ t = Sweeper) /\ thread[t].at # "idle"
        /\ Moves(t)
        /\ thread'[t].n = thread[t].n /\ late' = late
    BY <1>9, FlushThread, ThreadFacts DEF Emit, Brings
  <2>2. \A y \in ExporterNames : \A e \in Pending(y)' : e \in Pending(y) \/ e = Current(t)
    BY <1>9, EmitPending
  <2>3. Current(t).by = t
    BY DEF Current
  <2>4. QED
    BY <2>1, <2>2, <2>3, OthersAtShutdown
<1>10. ASSUME NEW x \in ExporterNames, FlushLeftover(x) PROVE ShutdownInv'
  <2>1. /\ Moves(Main) /\ thread[Main].at = "export" /\ At(Main, x)
        /\ \/ thread'[Main].at = "export" /\ thread'[Main].next = thread[Main].next + 1
           \/ thread'[Main].at = "send" /\ thread'[Main].next = thread[Main].next
    BY <1>10, FlushThread, ThreadFacts DEF FlushLeftover
  <2>2. /\ \A y \in ExporterNames : Pending(y)' = Pending(y)
        /\ thread'[Main].next = thread[Main].next \/ Pending(x)' = {}
    BY <1>10, LeftoverPending
  <2>3. late'[x] = UnderWay /\ \A y \in ExporterNames \ {x} : late'[y] = late[y]
    BY <1>10 DEF FlushLeftover, Base, Types
  <2>4. ASSUME NEW i \in DOMAIN Exporters, Flushed(i)'
        PROVE  \/ Flushed(i) /\ late'[Exporters[i]] = late[Exporters[i]]
               \/ Pending(Exporters[i])' = {}
    <3>1. CASE Flushed(i)
      BY <2>1, <2>3, <3>1, TurnAtShutdown, ExporterFacts
    <3>2. CASE ~Flushed(i)
      <4>1. thread'[Main].next = thread[Main].next + 1 /\ Exporters[i] = x
        BY <2>1, <2>4, <3>2, TurnAtShutdown
      <4>2. thread[Main].next \in Nat
        BY ThreadFacts, Fields DEF Base
      <4>3. QED
        BY <2>2, <4>1, <4>2
    <3>3. QED
      BY <3>1, <3>2
  <2>5. ASSUME NEW i \in DOMAIN Exporters, Reached(i)'
        PROVE  \/ Reached(i) /\ late'[Exporters[i]] = late[Exporters[i]]
               \/ late'[Exporters[i]] = UnderWay
    BY <2>1, <2>3, <2>5, TurnAtShutdown, ExporterFacts
  <2>6. QED
    BY <2>1, <2>2, <2>4, <2>5, MainAtShutdown
<1>11. ASSUME NEW t \in Threads, NEW x \in ExporterNames, SendOne(t, x) \/ SendRaises(t, x)
       PROVE  ShutdownInv'
  <2>1. /\ Moves(t) /\ thread[t].at = "send" /\ At(t, x) /\ thread'[t].n = thread[t].n
        /\ \/ thread'[t].at = "export" /\ thread'[t].next = thread[t].next + 1
           \/ thread'[t] = thread[t]
        /\ late' = late
    BY <1>11, SendThread DEF SendOne, SendRaises
  <2>2. \A y \in ExporterNames : Pending(y)' \subseteq Pending(y)
    BY <1>11, SendStream DEF SameStream, Pending
  <2>3. CASE t # Main
    BY <1>3, <2>1, <2>2, <2>3
  <2>4. CASE t = Main
    <3>1. thread'[t] = thread[t] \/ Pending(x)' = {}
      <4>1. lock[x] = t /\ t # Nobody
        BY <2>1, SenderHoldsLock, ThreadFacts DEF Base
      <4>2. buffer[x] = << >>
        BY <4>1 DEF LockedIsEmpty
      <4>3. thread' = thread \/ batch'[x] = << >>
        BY <1>11 DEF SendOne, SendRaises, Base, Types
      <4>4. buffer'[x] = buffer[x]
        BY <1>11, SendStream
      <4>5. QED
        BY <4>2, <4>3, <4>4, SetOfEmpty DEF Pending
    <3>2. ASSUME NEW i \in DOMAIN Exporters
          PROVE  /\ Flushed(i)' => Flushed(i) \/ Pending(Exporters[i])' = {}
                 /\ Reached(i)' => Reached(i)
      <4>1. thread[Main].next \in Nat
        BY ThreadFacts, Fields DEF Base
      <4>2. /\ Flushed(i)' => \/ Flushed(i)
                              \/ thread'[Main].next = thread[Main].next + 1 /\ Exporters[i] = x
            /\ Reached(i)' => Reached(i)
        BY <2>1, <2>4, TurnAtShutdown
      <4>3. QED
        BY <2>4, <3>1, <4>1, <4>2
    <3>3. QED
      BY <2>1, <2>2, <2>4, <3>2, MainAtShutdown
  <2>5. QED
    BY <2>3, <2>4
<1>12. ASSUME NEW t \in Threads, Return(t) PROVE ShutdownInv'
  <2>1. /\ Moves(t) /\ thread[t].at = "export" /\ thread[t].next > Len(Exporters)
        /\ thread'[t].n = thread[t].n /\ UNCHANGED exportVars
    BY <1>12, ReturnMoves DEF Base, Return, Keeps
  <2>2. CASE t # Main
    BY <1>1, <1>3, <2>1, <2>2 DEF exportVars
  <2>3. CASE t = Main
    <3>1. \A i \in DOMAIN Exporters : i < thread[Main].next
      BY <2>1, <2>3, ThreadFacts, Fields, ExporterFacts DEF Base
    <3>2. \A i \in DOMAIN Exporters : Flushed(i) /\ Reached(i)
      BY <2>1, <2>3, <3>1 DEF Flushed, Reached
    <3>3. QED
      BY <1>1, <2>1, <2>3, <3>2, MainAtShutdown DEF exportVars
  <2>4. QED
    BY <2>2, <2>3
<1>13. QED
  BY <1>2, <1>4, <1>5, <1>6, <1>7, <1>8, <1>9, <1>10, <1>11, <1>12 DEF Next, Work, Local, Send
-----------------------------------------------------------------------------
(* The streams put together: wire, batch and buffer.                       *)

LEMMA SetOfConcat ==
  ASSUME NEW S, NEW a \in Seq(S), NEW b \in Seq(S)
  PROVE  ToSet(a \o b) = ToSet(a) \cup ToSet(b)
<1>1. /\ DOMAIN a = 1..Len(a) /\ Len(a) \in Nat
      /\ DOMAIN b = 1..Len(b) /\ Len(b) \in Nat
      /\ DOMAIN (a \o b) = 1..Len(a) + Len(b)
      /\ \A i \in 1..Len(a) + Len(b) :
           (a \o b)[i] = IF i <= Len(a) THEN a[i] ELSE b[i - Len(a)]
  BY ConcatProperties, LenProperties
<1>2. ASSUME NEW e \in ToSet(a \o b) PROVE e \in ToSet(a) \cup ToSet(b)
  <2>1. PICK i \in 1..Len(a) + Len(b) : e = (a \o b)[i]
    BY <1>1 DEF ToSet
  <2>2. CASE i <= Len(a)
    <3>1. i \in 1..Len(a) /\ e = a[i]
      BY <1>1, <2>1, <2>2
    <3>2. QED
      BY <1>1, <3>1 DEF ToSet
  <2>3. CASE ~(i <= Len(a))
    <3>1. i - Len(a) \in 1..Len(b) /\ e = b[i - Len(a)]
      BY <1>1, <2>1, <2>3
    <3>2. QED
      BY <1>1, <3>1 DEF ToSet
  <2>4. QED
    BY <2>2, <2>3
<1>3. ASSUME NEW i \in 1..Len(a) PROVE a[i] \in ToSet(a \o b)
  <2>1. i \in 1..Len(a) + Len(b) /\ (a \o b)[i] = a[i]
    BY <1>1
  <2>2. QED
    BY <1>1, <2>1 DEF ToSet
<1>4. ASSUME NEW i \in 1..Len(b) PROVE b[i] \in ToSet(a \o b)
  <2>1. Len(a) + i \in 1..Len(a) + Len(b) /\ ~(Len(a) + i <= Len(a)) /\ Len(a) + i - Len(a) = i
    BY <1>1
  <2>2. (a \o b)[Len(a) + i] = b[i]
    BY <1>1, <2>1
  <2>3. QED
    BY <1>1, <2>1, <2>2 DEF ToSet
<1>5. ToSet(a) \subseteq ToSet(a \o b) /\ ToSet(b) \subseteq ToSet(a \o b)
  BY <1>1, <1>3, <1>4 DEF ToSet
<1>6. QED
  BY <1>2, <1>5

LEMMA OrderedConcat ==
  ASSUME NEW a \in Seq(Event), NEW b \in Seq(Event),
         Ordered(a), Ordered(b), AllBefore(a, b)
  PROVE  Ordered(a \o b)
<1>1. /\ DOMAIN a = 1..Len(a) /\ Len(a) \in Nat
      /\ DOMAIN b = 1..Len(b) /\ Len(b) \in Nat
      /\ DOMAIN (a \o b) = 1..Len(a) + Len(b)
      /\ \A i \in 1..Len(a) + Len(b) :
           (a \o b)[i] = IF i <= Len(a) THEN a[i] ELSE b[i - Len(a)]
  BY ConcatProperties, LenProperties
<1>2. SUFFICES ASSUME NEW i \in 1..Len(a) + Len(b), NEW j \in 1..Len(a) + Len(b), i < j
               PROVE  Before((a \o b)[i], (a \o b)[j])
  BY <1>1 DEF Ordered
<1>3. CASE j <= Len(a)
  <2>1. i \in 1..Len(a) /\ j \in 1..Len(a) /\ (a \o b)[i] = a[i] /\ (a \o b)[j] = a[j]
    BY <1>1, <1>2, <1>3
  <2>2. QED
    BY <1>1, <1>2, <2>1 DEF Ordered
<1>4. CASE i <= Len(a) /\ ~(j <= Len(a))
  <2>1. i \in 1..Len(a) /\ (a \o b)[i] = a[i]
    BY <1>1, <1>2, <1>4
  <2>2. j - Len(a) \in 1..Len(b) /\ (a \o b)[j] = b[j - Len(a)]
    BY <1>1, <1>2, <1>4
  <2>3. a[i] \in ToSet(a) /\ b[j - Len(a)] \in ToSet(b)
    BY <1>1, <2>1, <2>2 DEF ToSet
  <2>4. QED
    BY <2>1, <2>2, <2>3 DEF AllBefore
<1>5. CASE ~(i <= Len(a))
  <2>1. /\ i - Len(a) \in 1..Len(b) /\ (a \o b)[i] = b[i - Len(a)]
        /\ j - Len(a) \in 1..Len(b) /\ (a \o b)[j] = b[j - Len(a)]
        /\ i - Len(a) < j - Len(a)
    BY <1>1, <1>2, <1>5
  <2>2. QED
    BY <1>1, <2>1 DEF Ordered
<1>6. QED
  BY <1>3, <1>4, <1>5

(* A stream holds what its parts hold, in their order.                     *)
LEMMA StreamOfParts ==
  ASSUME Types, NEW x \in ExporterNames
  PROVE  ToSet(Stream(x)) = Has(x) /\ (InOrder(x) => Ordered(Stream(x)))
<1> DEFINE sent == wire[x] \o batch[x]
<1>1. wire[x] \in Seq(Event) /\ batch[x] \in Seq(Event) /\ buffer[x] \in Seq(Event)
  BY DEF Types
<1>2. sent \in Seq(Event) /\ Stream(x) = sent \o buffer[x]
  BY <1>1, ConcatProperties DEF Stream
<1>3. ToSet(sent) = ToSet(wire[x]) \cup ToSet(batch[x])
  BY <1>1, SetOfConcat
<1>4. InOrder(x) => Ordered(sent) /\ AllBefore(sent, buffer[x]) /\ Ordered(buffer[x])
  <2> SUFFICES ASSUME InOrder(x)
               PROVE  Ordered(sent) /\ AllBefore(sent, buffer[x]) /\ Ordered(buffer[x])
    OBVIOUS
  <2>1. Ordered(sent)
    BY <1>1, OrderedConcat DEF InOrder
  <2>2. AllBefore(sent, buffer[x])
    BY <1>3 DEF InOrder, AllBefore
  <2>3. QED
    BY <2>1, <2>2 DEF InOrder
<1> HIDE DEF sent
<1>5. ToSet(Stream(x)) = ToSet(sent) \cup ToSet(buffer[x])
  BY <1>1, <1>2, SetOfConcat
<1>6. InOrder(x) => Ordered(Stream(x))
  BY <1>1, <1>2, <1>4, OrderedConcat
<1>7. QED
  BY <1>3, <1>5, <1>6 DEF Has

(* Initially no exporter has anything and nobody has been to one.          *)
LEMMA StreamsInit == Init => OrderInv /\ ForwardInv /\ LockedIsEmpty /\ ShutdownInv
<1> SUFFICES ASSUME Init PROVE OrderInv /\ ForwardInv /\ LockedIsEmpty /\ ShutdownInv
  OBVIOUS
<1>1. \A x \in ExporterNames : wire[x] = << >> /\ batch[x] = << >> /\ buffer[x] = << >>
  BY DEF Init
<1>2. \A x \in ExporterNames : Has(x) = {} /\ InOrder(x)
  BY <1>1, SetOfEmpty, OrderedEmpty DEF Has, InOrder, AllBefore
<1>3. OrderInv
  BY <1>2, ExporterFacts DEF OrderInv, Brought
<1>4. ForwardInv
  BY ThreadFacts DEF Init, ForwardInv
<1>5. LockedIsEmpty
  BY <1>1 DEF LockedIsEmpty
<1>6. ShutdownInv
  <2>1. thread[Main].at = "idle" /\ thread[Main].next = 1 /\ \A i \in DOMAIN Exporters : ~(i < 1)
    BY ThreadFacts, ExporterFacts DEF Init
  <2>2. QED
    BY <2>1 DEF ShutdownInv, Reached, Flushed
<1>7. QED
  BY <1>3, <1>4, <1>5, <1>6

(* The streams' half of the invariant, on the rows' half.                  *)
THEOREM StreamsAreKept == Spec => [](Base /\ RowsInv /\ OrderInv /\ ForwardInv)
BY BaseInit, RowsInit, StreamsInit, BaseStep, RowsStep, StreamsStep, PTL DEF Spec

(* No exporter sends an event twice or turns round two events of a thread, *)
(* whoever fills its batch and whoever's event is next when it is full.    *)
THEOREM StreamsAreInOrder == Spec => []StreamInOrder
<1>1. Base /\ OrderInv => StreamInOrder
  <2> SUFFICES ASSUME Base, OrderInv, NEW x \in ExporterNames PROVE Ordered(Stream(x))
    BY DEF StreamInOrder, Ordered, Before
  <2>1. InOrder(x)
    BY ExporterFacts DEF OrderInv
  <2>2. QED
    BY <2>1, StreamOfParts DEF Base
<1>2. QED
  BY <1>1, StreamsAreKept, PTL

(* An exporter that fails, or raises, costs the ones after it nothing: a   *)
(* thread that is done has been to every exporter that wants its event.    *)
THEOREM EventsAreForwarded == Spec => []ForwardedToAll
<1>1. Base /\ ForwardInv => ForwardedToAll
  <2> SUFFICES ASSUME Base, ForwardInv, NEW t \in Sources, NEW x \in ExporterNames,
                      Done(t), Brings(t, x)
               PROVE  Current(t) \in dropped[x] \cup ToSet(Stream(x))
    BY DEF ForwardedToAll
  <2>1. PICK i \in DOMAIN Exporters : Exporters[i] = x
    BY ExporterFacts
  <2>2. Visited(t, i) /\ thread[t].n > 0
    BY DEF Done, Visited
  <2>3. Current(t) \in dropped[x] \cup Has(x)
    BY <2>1, <2>2 DEF ForwardInv
  <2>4. QED
    BY <2>3, StreamOfParts DEF Base
<1>2. QED
  BY <1>1, StreamsAreKept, PTL

(* Once the flush is over, what a buffer or a batch still holds are the    *)
(* sweeper's findings and lines that were still being answered or recorded *)
(* when the flush came by: every other command was sent or reported as     *)
(* failed.                                                                 *)
THEOREM CommandsAreFlushed == Spec => []FlushedAtShutdown
<1>1. Base /\ ShutdownInv => FlushedAtShutdown
  <2> SUFFICES ASSUME Base, ShutdownInv, thread[Main].at \in {"stopped", "exited"},
                      NEW x \in ExporterNames, NEW e \in ToSet(buffer[x] \o batch[x])
               PROVE  e.by = Sweeper \/ e \in late[x]
    BY DEF FlushedAtShutdown
  <2>1. PICK i \in DOMAIN Exporters : Exporters[i] = x
    BY ExporterFacts
  <2>2. Flushed(i)
    BY DEF Flushed
  <2>3. ToSet(buffer[x] \o batch[x]) = Pending(x)
    BY SetOfConcat DEF Base, Types, Pending
  <2>4. QED
    BY <2>1, <2>2, <2>3 DEF ShutdownInv
<1>2. Init => Base /\ RowsInv /\ LockedIsEmpty /\ ShutdownInv
  BY BaseInit, RowsInit, StreamsInit
<1>3. QED
  BY <1>1, <1>2, BaseStep, RowsStep, LockedStep, ShutdownStep, PTL DEF Spec
=============================================================================
