------------------------------ MODULE Sessions ------------------------------
(***************************************************************************)
(* Who gets in, and who gets the model.                                    *)
(*                                                                         *)
(* core/ssh_server.py counts connections against max_sessions, and runs    *)
(* each SSH channel of a connection as a coroutine that hands its blocking *)
(* work -- building the handler, then every command -- to the event loop's *)
(* thread pool.  In a worker thread a command may want the on-device model, *)
(* which agent_manager/ondevice_agent.py serialises behind _MODEL_LOCK with *)
(* a bounded wait.  A worker thread cannot be cancelled: when the attacker *)
(* disconnects the slot is released at once and the thread runs on.        *)
(*                                                                         *)
(* asyncssh, the pool and the lock are external: a first-in-first-out pool *)
(* of Workers threads, and a lock that promises no order among its waiters. *)
(***************************************************************************)
EXTENDS Integers, Sequences, FiniteSets

CONSTANTS
  Conns,        \* TCP connections, each made once
  Shells,       \* SSH channels, each opened once
  ConnOf,       \* the connection a channel belongs to
  MAX_SESSIONS, \* honeypot.max_sessions; 0 means unlimited
  Workers,      \* threads of the default executor
  MaxCalls,     \* model calls one command makes: an answer and one retry
  Nobody

ASSUME SessionsAssumption ==
  /\ IsFiniteSet(Conns) /\ IsFiniteSet(Shells)
  /\ ConnOf \in [Shells -> Conns]
  /\ MAX_SESSIONS \in Nat
  /\ Workers \in Nat \ {0}
  /\ MaxCalls \in Nat \ {0}
  /\ Nobody \notin Shells

VARIABLES
  conn,    \* a connection's life; "counted" is HoneypotServer._counted
  active,  \* _active_sessions
  shell,   \* where _shell_session stands
  job,     \* what became of the work it handed to the pool
  pool,    \* the pool's queue of jobs not yet started
  holder,  \* who holds _MODEL_LOCK
  calls    \* model calls the job has made

vars == <<conn, active, shell, job, pool, holder, calls>>

TypeOK ==
  /\ conn \in [Conns -> {"none", "counted", "refused", "gone"}]
  /\ active \in Nat
  /\ shell \in [Shells -> {"none", "building", "command", "idle", "ended"}]
  /\ job \in [Shells -> {"none", "queued", "handler", "wait", "generate"}]
  /\ pool \in Seq(Shells)
  /\ holder \in Shells \cup {Nobody}
  /\ calls \in [Shells -> Nat]

Counted == {c \in Conns : conn[c] = "counted"}
Running == {s \in Shells : job[s] \in {"handler", "wait", "generate"}}

Init ==
  /\ conn = [c \in Conns |-> "none"]
  /\ active = 0
  /\ shell = [s \in Shells |-> "none"]
  /\ job = [s \in Shells |-> "none"]
  /\ pool = << >>
  /\ holder = Nobody
  /\ calls = [s \in Shells |-> 0]

shellVars == <<shell, job, pool, holder, calls>>

-----------------------------------------------------------------------------
(* HoneypotServer.                                                         *)

(* connection_made below the cap, or without one.                          *)
ConnectionMade(c) ==
  /\ conn[c] = "none"
  /\ MAX_SESSIONS = 0 \/ active < MAX_SESSIONS
  /\ active' = active + 1
  /\ conn' = [conn EXCEPT ![c] = "counted"]
  /\ UNCHANGED shellVars

(* connection_made at the cap: logged and aborted, never counted.          *)
ConnectionRefused(c) ==
  /\ conn[c] = "none"
  /\ MAX_SESSIONS # 0 /\ active >= MAX_SESSIONS
  /\ conn' = [conn EXCEPT ![c] = "refused"]
  /\ UNCHANGED <<active, shellVars>>

(* Mutation: the slot is released whether or not it was taken.             *)
ConnectionLost_Uncounted(c) ==
  /\ conn[c] \in {"counted", "refused"}
  /\ active' = IF active > 0 THEN active - 1 ELSE 0
  /\ conn' = [conn EXCEPT ![c] = "gone"]
  /\ UNCHANGED shellVars

(* connection_lost: asyncssh calls it for the aborted connections too.     *)
ConnectionLost(c) ==
  /\ conn[c] \in {"counted", "refused"}
  /\ active' = IF conn[c] = "counted" /\ active > 0 THEN active - 1 ELSE active
  /\ conn' = [conn EXCEPT ![c] = "gone"]
  /\ UNCHANGED shellVars

-----------------------------------------------------------------------------
(* _shell_session.                                                         *)

(* asyncio.to_thread                                                       *)
Submit(s, purpose) ==
  /\ job' = [job EXCEPT ![s] = "queued"]
  /\ pool' = Append(pool, s)
  /\ calls' = [calls EXCEPT ![s] = 0]
  /\ shell' = [shell EXCEPT ![s] = purpose]

(* A channel opens and its command handler is built in the pool.           *)
OpenShell(s) ==
  /\ shell[s] = "none" /\ conn[ConnOf[s]] = "counted"
  /\ Submit(s, "building")
  /\ UNCHANGED <<conn, active, holder>>

(* The attacker types a command.                                           *)
Command(s) ==
  /\ shell[s] = "idle" /\ conn[ConnOf[s]] = "counted"
  /\ Submit(s, "command")
  /\ UNCHANGED <<conn, active, holder>>

(* exit, or the end of stdin that a lost connection leaves behind.         *)
EndShell(s) ==
  /\ shell[s] = "idle"
  /\ shell' = [shell EXCEPT ![s] = "ended"]
  /\ UNCHANGED <<conn, active, job, pool, holder, calls>>

-----------------------------------------------------------------------------
(* A worker thread.                                                        *)

StartJob ==
  /\ pool # << >>
  /\ Cardinality(Running) < Workers
  /\ job' = [job EXCEPT ![Head(pool)] = "handler"]
  /\ pool' = Tail(pool)
  /\ UNCHANGED <<conn, active, shell, holder, calls>>

(* The handler returns: to the coroutine, which reads the next line.       *)
JobDone(s) ==
  /\ job[s] = "handler"
  /\ job' = [job EXCEPT ![s] = "none"]
  /\ shell' = [shell EXCEPT ![s] = "idle"]
  /\ UNCHANGED <<conn, active, pool, holder, calls>>

(* OnDeviceAgent._generate up to the lock.                                 *)
WantModel(s) ==
  /\ job[s] = "handler" /\ shell[s] = "command"
  /\ calls[s] < MaxCalls
  /\ job' = [job EXCEPT ![s] = "wait"]
  /\ calls' = [calls EXCEPT ![s] = @ + 1]
  /\ UNCHANGED <<conn, active, shell, pool, holder>>

(* Mutation: the try block begins above the acquire.                       *)
GiveUp_Releases(s) ==
  /\ job[s] = "wait"
  /\ holder # Nobody
  /\ holder' = Nobody
  /\ job' = [job EXCEPT ![s] = "handler"]
  /\ UNCHANGED <<conn, active, shell, pool, calls>>

(* Mutation: a plain `with _MODEL_LOCK`.                                   *)
GiveUp_Never(s) == FALSE /\ UNCHANGED vars

(* The bounded wait ends: the agent answers "" and holds nothing.          *)
GiveUp(s) ==
  /\ job[s] = "wait"
  /\ holder # Nobody
  /\ job' = [job EXCEPT ![s] = "handler"]
  /\ UNCHANGED <<conn, active, shell, pool, holder, calls>>

Acquire(s) ==
  /\ job[s] = "wait"
  /\ holder = Nobody
  /\ holder' = s
  /\ job' = [job EXCEPT ![s] = "generate"]
  /\ UNCHANGED <<conn, active, shell, pool, calls>>

(* The end of a generation, an exception included (finally).               *)
Release(s) ==
  /\ job[s] = "generate"
  /\ holder' = Nobody
  /\ job' = [job EXCEPT ![s] = "handler"]
  /\ UNCHANGED <<conn, active, shell, pool, calls>>

-----------------------------------------------------------------------------
Next ==
  \/ \E c \in Conns :
       ConnectionMade(c) \/ ConnectionRefused(c) \/ ConnectionLost(c)
  \/ \E s \in Shells :
       \/ OpenShell(s) \/ Command(s) \/ EndShell(s)
       \/ JobDone(s) \/ WantModel(s) \/ GiveUp(s) \/ Acquire(s) \/ Release(s)
  \/ StartJob

Spec == Init /\ [][Next]_vars

(***************************************************************************)
(* The pool starts jobs when a worker is free, a thread that is not in the *)
(* model gets on, and a wait for the lock ends by its timeout at the       *)
(* latest.  A generation may take for ever: no fairness on Release.        *)
(***************************************************************************)
FairSpec ==
  /\ Spec
  /\ WF_vars(StartJob)
  /\ \A s \in Shells : WF_vars(JobDone(s) \/ WantModel(s))
  /\ \A s \in Shells : WF_vars(GiveUp(s) \/ Acquire(s))

-----------------------------------------------------------------------------
(***************************************************************************)
(* "Release the slot exactly once, whatever the reason for the drop":      *)
(* the counter is the number of connections that hold a slot, through any  *)
(* mix of refusals and drops, and never more than the cap.                 *)
(***************************************************************************)
SlotsExact ==
  /\ active = Cardinality(Counted)
  /\ MAX_SESSIONS # 0 => active <= MAX_SESSIONS

(***************************************************************************)
(* "Concurrent access aborts the process": never two threads in the model, *)
(* whatever mix of timeouts and errors came before, and never a lock held  *)
(* by a thread that has left it.                                           *)
(***************************************************************************)
OneAtTheModel ==
  \A s \in Shells : job[s] = "generate" <=> holder = s

(***************************************************************************)
(* "One slow generation" does not stall the sessions behind it: even if    *)
(* the model never returns, every job handed to the pool is finished, the  *)
(* one in the model alone excepted.  It needs the bounded wait and a       *)
(* second worker.                                                          *)
(***************************************************************************)
OthersKeepMoving ==
  \A s \in Shells : job[s] = "queued" ~> job[s] \in {"none", "generate"}
=============================================================================
