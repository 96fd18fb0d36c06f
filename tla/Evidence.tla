------------------------------ MODULE Evidence ------------------------------
(***************************************************************************)
(* What becomes of a command once it is answered.                          *)
(*                                                                         *)
(* Telemetry.record (shell/telemetry.py) runs in the session's worker      *)
(* thread: a row for SQLite (core/storage.py insert_command), then an event *)
(* for every SIEM exporter in turn (plugin_loader.py, exporters.py).  The  *)
(* threads share the table, whose writes can fail and whose SELECT and     *)
(* INSERT are two transactions, and the exporters, each a buffer behind a  *)
(* lock that is held through the network sends of a batch.  The sweeper    *)
(* thread pushes findings through the same buffers.  When the event loop   *)
(* has stopped, the main thread flushes them, while workers may still be   *)
(* answering or recording a line; they are joined when the interpreter     *)
(* exits, after the flush.                                                 *)
(*                                                                         *)
(* External: SQLite, where a write may find the file locked and a statement *)
(* is atomic, and the collectors, which take an event or do not.           *)
(***************************************************************************)
EXTENDS Integers, Sequences, FiniteSets, SequencesExt

CONSTANTS
  Sessions,   \* worker threads, one per session
  Seconds,    \* SESSION_ID has no finer resolution
  Starts,     \* the seconds in which the sessions may have started
  Sweeper,    \* the daemon that exports findings
  Main,       \* the thread that flushes the exporters at shutdown
  Exporters,  \* the enabled exporters, in plugin order
  Untimed,    \* the exporters whose socket has no timeout: syslog over TCP
  Wants,      \* Wants[x]: the commands exporter x's filters let through
  BatchSize,  \* settings.batch_size
  MaxEvents,  \* bound: MaxEvents[t], commands of a session, findings of the sweeper
  MaxAll,     \* bound: commands and findings of all threads together
  MaxFaults,  \* bound: commands whose write finds the table locked, sends that fail
  Nobody

Threads == Sessions \cup {Sweeper, Main}
ExporterNames == {Exporters[i] : i \in DOMAIN Exporters}

Sources == Sessions \cup {Sweeper}
Event == [by : Sources, n : Nat \ {0}]

ASSUME EvidenceAssumption ==
  /\ IsFiniteSet(Sessions) /\ Sweeper # Main /\ {Sweeper, Main} \cap Sessions = {}
  /\ Nobody \notin Threads
  /\ Starts \subseteq [Sessions -> Seconds]
  /\ Exporters \in Seq(ExporterNames)
  /\ \A i, j \in DOMAIN Exporters : Exporters[i] = Exporters[j] => i = j
  /\ Wants \in [ExporterNames -> SUBSET Event]
  /\ Untimed \subseteq ExporterNames
  /\ BatchSize \in Nat \ {0} /\ MaxFaults \in Nat

VARIABLES
  sid,     \* SESSION_ID: the second each session started in
  table,   \* the sessions table
  lost,    \* commands whose row was reported LOST
  thread,  \* where each thread stands in record
  buffer,  \* SIEMExporter._buffer
  batch,   \* the events a _flush has taken out and not yet sent
  lock,    \* SIEMExporter._lock
  wire,    \* history: what a collector took, in order
  dropped, \* history: events whose send failed
  late,    \* history: late[x], the lines under way when the flush came to x
  faults   \* what MaxFaults counts

vars == <<sid, table, lost, thread, buffer, batch, lock, wire, dropped, late, faults>>
rowVars == <<table, lost>>
exportVars == <<buffer, batch, lock, wire, dropped, late>>

Current(t) == [by |-> t, n |-> thread[t].n]

Init ==
  /\ sid \in Starts
  /\ table = {}
  /\ lost = {}
  /\ thread = [t \in Threads |-> [at |-> "idle", n |-> 0, seq |-> 0, tries |-> 0,
                                  next |-> 1]]
  /\ buffer = [x \in ExporterNames |-> << >>]
  /\ batch = [x \in ExporterNames |-> << >>]
  /\ lock = [x \in ExporterNames |-> Nobody]
  /\ wire = [x \in ExporterNames |-> << >>]
  /\ dropped = [x \in ExporterNames |-> {}]
  /\ late = [x \in ExporterNames |-> {}]
  /\ faults = 0

Fault == faults < MaxFaults /\ faults' = faults + 1

-----------------------------------------------------------------------------
(* What starts a thread.                                                   *)

Serving == thread[Main].at = "idle"

MayBegin(t) ==
  /\ thread[t].at = "idle" /\ thread[t].n < MaxEvents[t]
  /\ FoldSet(LAMBDA u, sum : sum + thread[u].n, 0, Sources) < MaxAll

(* The loop hands a line to the executor.  (A line whose handler raises    *)
(* comes to no record: for this module it was not asked.)                  *)
Ask(s) ==
  /\ Serving /\ MayBegin(s)
  /\ thread' = [thread EXCEPT ![s].at = "answering", ![s].n = @ + 1]
  /\ UNCHANGED <<sid, rowVars, exportVars, faults>>

(* _finish: the command is answered, whether or not the loop still runs.   *)
Finish(s) ==
  /\ thread[s].at = "answering"
  /\ thread' = [thread EXCEPT ![s].at = "select"]
  /\ UNCHANGED <<sid, rowVars, exportVars, faults>>

(* export_finding, likewise.                                               *)
Find ==
  /\ thread[Main].at # "exited"
  /\ MayBegin(Sweeper)
  /\ thread' = [thread EXCEPT ![Sweeper].at = "export", ![Sweeper].n = @ + 1]
  /\ UNCHANGED <<sid, rowVars, exportVars, faults>>

(* start_server returns: loop.close leaves the executor's threads running. *)
Shutdown ==
  /\ Serving
  /\ thread' = [thread EXCEPT ![Main].at = "export"]
  /\ UNCHANGED <<sid, rowVars, exportVars, faults>>

(* The interpreter has joined the workers; the sweeper is a daemon.        *)
Exit ==
  /\ thread[Main].at = "stopped" /\ \A s \in Sessions : thread[s].at = "idle"
  /\ thread' = [thread EXCEPT ![Main].at = "exited"]
  /\ UNCHANGED <<sid, rowVars, exportVars, faults>>

-----------------------------------------------------------------------------
(* Telemetry._write and insert_command.                                    *)

Seqs(second) == {r.seq : r \in {r \in table : r.sid = second}}

(* Mutation: COALESCE(MAX(seq), 0) + 1                                     *)
NextSeq_FromOne(second) == Cardinality(Seqs(second)) + 1

(* SELECT COALESCE(MAX(seq), -1) + 1                                       *)
NextSeq(second) ==
  1 + CHOOSE q \in Seqs(second) \cup {-1} : \A r \in Seqs(second) : q >= r

Select(s) ==
  /\ thread[s].at = "select"
  /\ thread' = [thread EXCEPT ![s].at = "insert", ![s].seq = NextSeq(sid[s])]
  /\ UNCHANGED <<sid, rowVars, exportVars, faults>>

ToExport(s) ==
  [thread EXCEPT ![s].at = "export", ![s].seq = 0, ![s].tries = 0]

(* INSERT OR IGNORE: a number taken meanwhile is no error.                 *)
Insert(s) ==
  /\ thread[s].at = "insert"
  /\ table' = IF thread[s].seq \in Seqs(sid[s]) THEN table
              ELSE table \cup {[sid |-> sid[s], seq |-> thread[s].seq, of |-> Current(s)]}
  /\ thread' = ToExport(s)
  /\ UNCHANGED <<sid, lost, exportVars, faults>>

(* Mutation: the retry's exception is swallowed like the first.            *)
WriteFails_Silent(s) ==
  /\ thread[s].at \in {"select", "insert"}
  /\ IF thread[s].tries = 0
     THEN /\ Fault
          /\ thread' = [thread EXCEPT ![s].at = "select", ![s].seq = 0, ![s].tries = 1]
     ELSE thread' = ToExport(s) /\ UNCHANGED faults
  /\ UNCHANGED <<sid, rowVars, exportVars>>

(* The table is locked: once more, then the row is reported LOST.          *)
WriteFails(s) ==
  /\ thread[s].at \in {"select", "insert"}
  /\ IF thread[s].tries = 0
     THEN /\ Fault
          /\ thread' = [thread EXCEPT ![s].at = "select", ![s].seq = 0, ![s].tries = 1]
          /\ UNCHANGED lost
     ELSE /\ thread' = ToExport(s)
          /\ lost' = lost \cup {Current(s)}
          /\ UNCHANGED faults
  /\ UNCHANGED <<sid, table, exportVars>>

-----------------------------------------------------------------------------
(* export_event, export_finding and flush_exporters: every exporter in turn. *)

At(t, x) == thread[t].next \in DOMAIN Exporters /\ Exporters[thread[t].next] = x

(* should_export; findings bypass it, and the main thread brings nothing.  *)
Brings(t, x) ==
  \/ t = Sweeper
  \/ t \in Sessions /\ Current(t) \in Wants[x]

PassOver(t, x) ==
  /\ thread[t].at = "export" /\ At(t, x)
  /\ t \in Sessions /\ ~Brings(t, x)
  /\ thread' = [thread EXCEPT ![t].next = @ + 1]
  /\ UNCHANGED <<sid, rowVars, exportVars, faults>>

(* Mutation: a copy is sent and the buffer keeps its events.               *)
Flush_NotCleared(t, x, full) ==
  /\ lock' = [lock EXCEPT ![x] = t]
  /\ batch' = [batch EXCEPT ![x] = full]
  /\ buffer' = [buffer EXCEPT ![x] = full]
  /\ thread' = [thread EXCEPT ![t].at = "send"]

(* The events are out of the buffer before the first of them is sent.      *)
Flush(t, x, full) ==
  /\ lock' = [lock EXCEPT ![x] = t]
  /\ batch' = [batch EXCEPT ![x] = full]
  /\ buffer' = [buffer EXCEPT ![x] = << >>]
  /\ thread' = [thread EXCEPT ![t].at = "send"]

(* Mutation: the lock is released only where _flush returns.               *)
Emit_LockKept(t, x) ==
  LET full == Append(buffer[x], Current(t)) IN
  /\ thread[t].at = "export" /\ At(t, x) /\ Brings(t, x)
  /\ lock[x] = Nobody
  /\ IF Len(full) >= BatchSize
     THEN Flush(t, x, full)
     ELSE /\ buffer' = [buffer EXCEPT ![x] = full]
          /\ lock' = [lock EXCEPT ![x] = t]
          /\ thread' = [thread EXCEPT ![t].next = @ + 1]
          /\ UNCHANGED batch
  /\ UNCHANGED <<sid, rowVars, wire, dropped, late, faults>>

(* emit: the lock is taken, and kept if the batch is full.                 *)
Emit(t, x) ==
  LET full == Append(buffer[x], Current(t)) IN
  /\ thread[t].at = "export" /\ At(t, x) /\ Brings(t, x)
  /\ lock[x] = Nobody
  /\ IF Len(full) >= BatchSize
     THEN Flush(t, x, full)
     ELSE /\ buffer' = [buffer EXCEPT ![x] = full]
          /\ thread' = [thread EXCEPT ![t].next = @ + 1]
          /\ UNCHANGED <<batch, lock>>
  /\ UNCHANGED <<sid, rowVars, wire, dropped, late, faults>>

(* Lines that the executor has been given and that are not yet recorded.   *)
UnderWay == {Current(s) : s \in {s \in Sessions : thread[s].at # "idle"}}

(* Mutation: a batch that is not full waits for the next event.            *)
FlushLeftover_OnlyFull(x) ==
  /\ thread[Main].at = "export" /\ At(Main, x)
  /\ lock[x] = Nobody
  /\ IF Len(buffer[x]) >= BatchSize
     THEN Flush(Main, x, buffer[x])
     ELSE /\ thread' = [thread EXCEPT ![Main].next = @ + 1]
          /\ UNCHANGED <<buffer, batch, lock>>
  /\ late' = [late EXCEPT ![x] = UnderWay]
  /\ UNCHANGED <<sid, rowVars, wire, dropped, faults>>

(* flush                                                                   *)
FlushLeftover(x) ==
  /\ thread[Main].at = "export" /\ At(Main, x)
  /\ lock[x] = Nobody
  /\ IF buffer[x] # << >>
     THEN Flush(Main, x, buffer[x])
     ELSE /\ thread' = [thread EXCEPT ![Main].next = @ + 1]
          /\ UNCHANGED <<buffer, batch, lock>>
  /\ late' = [late EXCEPT ![x] = UnderWay]
  /\ UNCHANGED <<sid, rowVars, wire, dropped, faults>>

(* _flush returns: the lock is released, the next exporter is called.      *)
Released(t, x) ==
  /\ lock' = [lock EXCEPT ![x] = Nobody]
  /\ thread' = [thread EXCEPT ![t].at = "export", ![t].next = @ + 1]

(* _send, one event after the other: taken, or its failure printed.        *)
SendOne(t, x) ==
  /\ thread[t].at = "send" /\ At(t, x) /\ batch[x] # << >>
  /\ batch' = [batch EXCEPT ![x] = Tail(@)]
  /\ \/ /\ wire' = [wire EXCEPT ![x] = Append(@, Head(batch[x]))]
        /\ UNCHANGED <<dropped, faults>>
     \/ /\ Fault
        /\ dropped' = [dropped EXCEPT ![x] = @ \cup {Head(batch[x])}]
        /\ UNCHANGED wire
  /\ IF Tail(batch[x]) = << >> THEN Released(t, x) ELSE UNCHANGED <<thread, lock>>
  /\ UNCHANGED <<sid, rowVars, buffer, late>>

(* Mutation: the exception ends the loop over the exporters.               *)
SendRaises_LoopEnds(t, x) ==
  /\ thread[t].at = "send" /\ At(t, x) /\ batch[x] # << >>
  /\ Fault
  /\ dropped' = [dropped EXCEPT ![x] = @ \cup ToSet(batch[x])]
  /\ batch' = [batch EXCEPT ![x] = << >>]
  /\ lock' = [lock EXCEPT ![x] = Nobody]
  /\ thread' = [thread EXCEPT ![t].at = "export", ![t].next = Len(Exporters) + 1]
  /\ UNCHANGED <<sid, rowVars, buffer, wire, late>>

(* An event that cannot be rendered, or a collector url that is no url:    *)
(* the exception leaves _send and the rest of the batch is gone.           *)
SendRaises(t, x) ==
  /\ thread[t].at = "send" /\ At(t, x) /\ batch[x] # << >>
  /\ Fault
  /\ dropped' = [dropped EXCEPT ![x] = @ \cup ToSet(batch[x])]
  /\ batch' = [batch EXCEPT ![x] = << >>]
  /\ Released(t, x)
  /\ UNCHANGED <<sid, rowVars, buffer, wire, late>>

Return(t) ==
  /\ thread[t].at = "export" /\ thread[t].next > Len(Exporters)
  /\ thread' = [thread EXCEPT ![t].at = IF t = Main THEN "stopped" ELSE "idle",
                              ![t].next = 1]
  /\ UNCHANGED <<sid, rowVars, exportVars, faults>>

-----------------------------------------------------------------------------
(* What a thread does without waiting for a collector.                     *)
Local(t) ==
  \/ t \in Sessions /\ (Select(t) \/ Insert(t) \/ WriteFails(t))
  \/ \E x \in ExporterNames :
       PassOver(t, x) \/ Emit(t, x) \/ (t = Main /\ FlushLeftover(x))
  \/ Return(t)

Send(t, x) == SendOne(t, x) \/ SendRaises(t, x)

Work(t) ==
  /\ thread[Main].at # "exited"
  /\ Local(t) \/ \E x \in ExporterNames : Send(t, x)

(* What ends of itself: writes and the sends of urlopen time out, datagrams *)
(* do not wait.  A send over TCP waits as long as the collector's window   *)
(* stays shut, and nothing else in the code ends it.                       *)
Prompt(t) ==
  /\ thread[Main].at # "exited"
  /\ Local(t) \/ \E x \in ExporterNames \ Untimed : Send(t, x)

Next ==
  \/ \E s \in Sessions : Ask(s) \/ Finish(s)
  \/ Find \/ Shutdown \/ Exit
  \/ \E t \in Threads : Work(t)

Spec == Init /\ [][Next]_vars

(* A thread that can run does.  Nothing makes the attacker type, a command *)
(* be answered, a TCP collector read or the server stop.                   *)
FairSpec == Spec /\ \A t \in Threads : WF_vars(Prompt(t))

-----------------------------------------------------------------------------
Done(s) == thread[s].at = "idle" /\ thread[s].n > 0

(***************************************************************************)
(* "LOST command": a command is in the table or its loss was reported, if  *)
(* no other session has the same SESSION_ID.                               *)
(***************************************************************************)
Accounted ==
  \A s \in Sessions :
    Done(s) /\ (\A r \in Sessions \ {s} : sid[r] # sid[s]) =>
      Current(s) \in lost \/ \E row \in table : row.of = Current(s)

(***************************************************************************)
(* The rows of a SESSION_ID are numbered from 0 without a gap, no number   *)
(* twice, and a session's own commands in the order they were typed, also  *)
(* when two sessions write under one id and when a write is retried.       *)
(***************************************************************************)
Numbered ==
  \A second \in Seconds :
    LET mine == {r \in table : r.sid = second} IN
    /\ {r.seq : r \in mine} = 0..Cardinality(mine) - 1
    /\ \A a, b \in mine :
         a.of.by = b.of.by /\ a.of.n < b.of.n => a.seq < b.seq

(* Everything exporter x has or had, oldest first.                         *)
Stream(x) == wire[x] \o batch[x] \o buffer[x]

(***************************************************************************)
(* An exporter sends no event twice and keeps each thread's events in      *)
(* order, whoever fills the batch and whoever flushes it.                  *)
(***************************************************************************)
StreamInOrder ==
  \A x \in ExporterNames :
    \A i, j \in DOMAIN Stream(x) :
      i < j /\ Stream(x)[i].by = Stream(x)[j].by => Stream(x)[i].n < Stream(x)[j].n

(***************************************************************************)
(* One exporter's failure costs the others nothing: when a thread is done, *)
(* its event is with every exporter that wants it, or failed there.        *)
(***************************************************************************)
ForwardedToAll ==
  \A t \in Sources : \A x \in ExporterNames :
    Done(t) /\ Brings(t, x) =>
      Current(t) \in dropped[x] \cup ToSet(Stream(x))

(***************************************************************************)
(* "call on shutdown": once the flush is over, a buffer holds no command   *)
(* but those that were still being answered or recorded when the flush     *)
(* came to that exporter, and findings, the sweeper being a daemon.        *)
(***************************************************************************)
FlushedAtShutdown ==
  thread[Main].at \in {"stopped", "exited"} =>
    \A x \in ExporterNames :
      \A e \in ToSet(buffer[x] \o batch[x]) : e.by = Sweeper \/ e \in late[x]

Recording(s) == thread[s].at \notin {"idle", "answering"}

(* At an exporter without a timeout a send is on, by s or before s.        *)
StuckBehind(s) ==
  \E x \in Untimed :
    /\ At(s, x) /\ lock[x] # Nobody
    /\ thread[lock[x]].at = "send" /\ At(lock[x], x)

(***************************************************************************)
(* "LOGGING MUST NEVER KILL A SESSION": each command's record ends, with   *)
(* locked tables, dead collectors and exceptions under the lock, unless    *)
(* one and the same send over TCP, its own or the lock holder's, never     *)
(* ends.                                                                   *)
(***************************************************************************)
LoggingEnds ==
  \A s \in Sessions : Recording(s) ~> (thread[s].at = "idle" \/ []StuckBehind(s))
=============================================================================
