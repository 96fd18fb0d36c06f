----------------------------- MODULE CowrieSync -----------------------------
(***************************************************************************)
(* One attacker session's link to the Cowrie container.                    *)
(*                                                                         *)
(* shell/cowrie_link.py keeps Cowrie's filesystem in step with the state   *)
(* shell/state.py tracks: every change is a numbered delta, the link holds *)
(* a checkpoint, and a fresh shell is detected by comparing a generation   *)
(* number of the agent (agent_manager/cowrie_agent.py) with the one the    *)
(* checkpoint belongs to.  A fresh Cowrie shell remembers nothing, so the  *)
(* model keeps, for the current shell, the set of changes it has seen.     *)
(* Change 0 stands for the realignment of the working directory that opens *)
(* every rebuild.  What a replayed change does to a file is ReplayFs.      *)
(*                                                                         *)
(* The session is one thread.  Its only rival is the environment, which    *)
(* may close the connection or leave it hanging at any of the agent's      *)
(* sends and between them; and every reconnect may succeed, fail, or       *)
(* succeed and lose the connection at once.  A line the channel accepted   *)
(* is not yet a line Cowrie ran: on a hanging connection it waits, and is  *)
(* run if the connection comes back or lost if it closes.  The agent stops *)
(* waiting after 2 s (30 s for a download) and notices neither.            *)
(*                                                                         *)
(* `generation` is only ever compared, so a shell is named by any number   *)
(* that no variable still remembers: a command may reconnect for ever.     *)
(***************************************************************************)
EXTENDS Integers, Sequences

CONSTANTS
  Builds,         \* is the agent's attribute `generation` "present" or "absent"?
  MaxPasses,      \* the 4 of "for _ in range(4)" in catch_up
  MaxVersion,     \* bound: state changes a session makes
  Shells          \* values of the agent's `generation`, one per live shell

ASSUME CowrieSyncAssumption ==
  /\ Builds \subseteq {"present", "absent"}
  /\ MaxPasses \in Nat /\ MaxPasses >= 2
  /\ MaxVersion \in Nat
  /\ Shells \subseteq Nat \ {0}
  /\ \A a, b, c \in Shells \cup {0} : \E g \in Shells : g \notin {a, b, c}

VARIABLES
  attribute,  \* the build in use: fixed when the session begins
  shell,      \* the agent's channel: "none" (never opened), "open", "hung"
              \* (it accepts lines and answers none) or "closed"
  gen,        \* the newest shell: what `generation` has to tell; 0 for none
  applied,    \* the changes the newest shell has made
  pending,    \* the changes of the lines that wait in a hung connection
  available,  \* CowrieAgent.available, "up" for True and "down" for False
  deltas,     \* StateTracker.deltas: deltas[v] is "cowrie" if Cowrie ran change v
  ckpt,       \* CowrieLink.cowrie_ckpt
  syncedGen,  \* CowrieLink._synced_gen
  pc,         \* where the session thread stands
  attempt,    \* 1: before the first send of the command, 2: after a reconnect
  download,   \* the command is a wget/curl: streamed, recorded with on_cowrie
  changes,    \* the tracker will record a change for the command
  pass,       \* passes of catch_up's loop begun
  startGen,   \* catch_up's start_gen
  reconnects, \* history: shells opened for this command; 2 is two or more
  reply       \* history: how the last command was answered

agentVars == <<attribute, shell, gen, applied, pending, available>>
linkVars  == <<ckpt, syncedGen>>
cmdVars   == <<attempt, download, changes>>
passVars  == <<pass, startGen>>
vars == <<attribute, shell, gen, applied, pending, available, deltas, ckpt,
          syncedGen, pc, attempt, download, changes, pass, startGen,
          reconnects, reply>>

version == Len(deltas)

Answers == {"none", "cowrie", "on_device", "raised"}
PCs == {"idle", "catch_up", "pass", "realign", "replay", "run"}

(* What becomes of a line: the shell ran it; it waits in a connection that *)
(* stopped answering; the connection died with it; no channel accepted it. *)
Fates == {"ran", "waits", "lost", "refused"}

TypeOK ==
  /\ attribute \in {"present", "absent"}
  /\ shell \in {"none", "open", "hung", "closed"}
  /\ gen \in Shells \cup {0}
  /\ applied \in SUBSET Nat
  /\ pending \in SUBSET Nat
  /\ available \in {"up", "down"}
  /\ deltas \in Seq({"cowrie", "local"})
  /\ ckpt \in Nat
  /\ syncedGen \in Shells \cup {0}
  /\ pc \in PCs
  /\ attempt \in {1, 2}
  /\ download \in BOOLEAN
  /\ changes \in BOOLEAN
  /\ pass \in Nat
  /\ startGen \in Shells \cup {0}
  /\ reconnects \in 0..2
  /\ reply \in [agent : Answers, fate : Fates, synced : BOOLEAN,
                reconnects : 0..2]

-----------------------------------------------------------------------------
(* The agent.                                                              *)

(* A name for a new shell that no variable remembers.                      *)
NewShell == CHOOSE g \in Shells : g \notin {gen, syncedGen, startGen}

(* CowrieAgent._connect up to its end.                                     *)
Reconnected ==
  /\ gen' = NewShell
  /\ available' = "up"
  /\ UNCHANGED attribute

(***************************************************************************)
(* A channel that has made the changes `seen` and holds those in `waiting` *)
(* accepts a line.  Unless the shell answers, _collect_until_prompt or     *)
(* _collect_streaming gives up and returns "", with nothing said of it.    *)
(***************************************************************************)
Carried(answering, seen, waiting, effects, fate) ==
  \/ /\ fate = "ran"
     /\ answering
     /\ shell' = "open"
     /\ applied' = seen \cup effects
     /\ pending' = {}
  \/ /\ fate = "waits"
     /\ shell' = "hung"
     /\ applied' = seen
     /\ pending' = waiting \cup effects
  \/ /\ fate = "lost"
     /\ shell' = "closed"
     /\ applied' = {}
     /\ pending' = {}

(* Mutation: the failed reconnect leaves the health flag as it was.        *)
ConnectFailed_FlagKept == UNCHANGED agentVars

(* The old channel object survives a failed reconnect.                     *)
ConnectFailed ==
  /\ available' = "down"
  /\ UNCHANGED <<attribute, shell, gen, applied, pending>>

(* The reconnect came to nothing, or the line failed a second time.        *)
ReconnectRefused ==
  \/ ConnectFailed
  \/ /\ gen' = NewShell
     /\ available' = "down"
     /\ UNCHANGED <<attribute, shell, applied, pending>>

(***************************************************************************)
(* CowrieAgent.send / send_streaming of a line that makes the changes in   *)
(* `effects`: a live channel accepts it, a closed one is reconnected once  *)
(* and the line sent again, and without a shell object the agent reports   *)
(* failure and never tries to connect.                                     *)
(***************************************************************************)
AgentSend(effects, fate) ==
  \/ /\ shell \in {"open", "hung"}
     /\ Carried(shell = "open", applied, pending, effects, fate)
     /\ UNCHANGED <<attribute, gen, available>>
  \/ /\ shell = "closed"
     /\ Reconnected
     /\ Carried(TRUE, {}, {}, effects, fate)
  \/ /\ shell = "closed"
     /\ fate = "refused"
     /\ ReconnectRefused
  \/ /\ shell = "none"
     /\ fate = "refused"
     /\ ConnectFailed

CountReconnects ==
  reconnects' = IF gen' = gen THEN reconnects
                ELSE IF reconnects = 0 THEN 1 ELSE 2

NoReply == [agent |-> "none", fate |-> "refused", synced |-> FALSE,
            reconnects |-> 0]

Init ==
  /\ attribute \in Builds
  /\ \/ shell = "open" /\ gen = (CHOOSE g \in Shells : TRUE) /\ available = "up"
     \/ shell = "none" /\ gen = 0 /\ available = "down"
  /\ applied = {}
  /\ pending = {}
  /\ deltas = << >>
  /\ ckpt = 0
  /\ syncedGen = 0
  /\ pc = "idle"
  /\ attempt = 1
  /\ download = FALSE
  /\ changes = FALSE
  /\ pass = 0
  /\ startGen = 0
  /\ reconnects = 0
  /\ reply = NoReply

-----------------------------------------------------------------------------
(* The environment.                                                        *)

(* The connection closes (idle timeout, container crash, restart) and      *)
(* takes the lines that wait in it along.                                  *)
Break ==
  /\ shell \in {"open", "hung"}
  /\ shell' = "closed"
  /\ applied' = {}
  /\ pending' = {}
  /\ UNCHANGED <<attribute, gen, available, deltas, linkVars, pc, cmdVars,
                 passVars, reconnects, reply>>

(* A hanging connection comes back and Cowrie runs the lines that waited.  *)
Resume ==
  /\ shell = "hung"
  /\ shell' = "open"
  /\ applied' = applied \cup pending
  /\ pending' = {}
  /\ UNCHANGED <<attribute, gen, available, deltas, linkVars, pc, cmdVars,
                 passVars, reconnects, reply>>

-----------------------------------------------------------------------------
(* Commands answered on our side.                                          *)

(***************************************************************************)
(* CowrieLink.sync_history: skipped while Cowrie is known to be down;      *)
(* otherwise a dead channel is reconnected, with nothing replayed, and a   *)
(* failure after that is not held against Cowrie.                          *)
(***************************************************************************)
SyncHistory ==
  IF available = "up" /\ shell # "none"
  THEN \/ \E fate \in Fates : fate # "refused" /\ AgentSend({}, fate)
       \/ shell = "closed" /\ ConnectFailed
  ELSE UNCHANGED agentVars

(* StateTracker.record of a command that makes one tracked change.         *)
Record(ranBy) ==
  /\ version < MaxVersion
  /\ deltas' = Append(deltas, ranBy)

LocalCommand ==
  /\ pc = "idle"
  /\ SyncHistory \/ UNCHANGED agentVars
  /\ Record("local") \/ UNCHANGED deltas
  /\ UNCHANGED <<linkVars, pc, cmdVars, passVars, reconnects, reply>>

-----------------------------------------------------------------------------
(* CowrieLink.send.                                                        *)

BeginSend ==
  /\ pc = "idle"
  /\ download' \in BOOLEAN
  /\ changes' \in BOOLEAN
  /\ changes' => version < MaxVersion
  /\ attempt' = 1
  /\ reconnects' = 0
  /\ reply' = NoReply
  /\ pc' = "catch_up"
  /\ UNCHANGED <<agentVars, deltas, linkVars, passVars>>

(***************************************************************************)
(* The end of a command: the reply, and StateTracker.record by the caller, *)
(* which passes on_cowrie only for a download credited to Cowrie.  The     *)
(* reply remembers what became of the line, and whether the shell it went  *)
(* to had made, or was still to make before it, every earlier change.      *)
(* The variables of the call end with it.                                  *)
(***************************************************************************)
Finish(agent, fate) ==
  /\ reply' = [agent |-> agent,
               fate |-> fate,
               synced |-> 0..version \subseteq applied' \cup pending',
               reconnects |-> reconnects']
  /\ deltas' = IF changes /\ agent # "raised"
               THEN Append(deltas, IF download /\ agent = "cowrie"
                                   THEN "cowrie" ELSE "local")
               ELSE deltas
  /\ pc' = "idle"
  /\ attempt' = 1 /\ download' = FALSE /\ changes' = FALSE
  /\ pass' = 0 /\ startGen' = 0

(* Reading the missing attribute outside send's try block.                 *)
Raise ==
  /\ UNCHANGED <<agentVars, linkVars, reconnects>>
  /\ Finish("raised", "refused")

(* Any exception inside the try block: Cowrie is marked down.              *)
Caught ==
  /\ ConnectFailed
  /\ UNCHANGED reconnects
  /\ Finish("on_device", "refused")
  /\ UNCHANGED linkVars

(* catch_up: the early return, and the first reading of `generation`.      *)
CatchUp ==
  /\ pc = "catch_up"
  /\ \/ /\ available = "up" /\ attribute = "absent"
        /\ IF attempt = 1 THEN Raise ELSE Caught
     \/ /\ available = "up" => attribute = "present"
        /\ pc' = IF available = "up" THEN "pass" ELSE "run"
        /\ pass' = 0
        /\ UNCHANGED <<agentVars, deltas, linkVars, cmdVars, startGen,
                       reconnects, reply>>

(* catch_up's `rebuild`: the shell is not the one the checkpoint is about. *)
rebuild == startGen # syncedGen

(* Mutation: a rebuild starts from the old checkpoint.                     *)
BeginPass_CheckpointKept ==
  /\ pc = "pass"
  /\ pass < MaxPasses
  /\ pass' = pass + 1
  /\ startGen' = gen
  /\ syncedGen' = syncedGen
  /\ ckpt' = ckpt
  /\ pc' = IF rebuild' THEN "realign" ELSE "replay"
  /\ UNCHANGED <<agentVars, deltas, cmdVars, reconnects, reply>>

(* Mutation: the passes are not counted ("while True").                    *)
BeginPass_Endless ==
  /\ pc = "pass"
  /\ pass < MaxPasses
  /\ startGen' = gen
  /\ IF startGen' # syncedGen
     THEN ckpt' = 0 /\ pc' = "realign"
     ELSE ckpt' = ckpt /\ pc' = "replay"
  /\ UNCHANGED <<agentVars, deltas, cmdVars, syncedGen, pass, reconnects, reply>>

(* The head of catch_up's loop.                                            *)
BeginPass ==
  /\ pc = "pass"
  /\ pass < MaxPasses
  /\ pass' = pass + 1
  /\ startGen' = gen
  /\ syncedGen' = syncedGen
  /\ IF rebuild'
     THEN ckpt' = 0 /\ pc' = "realign"
     ELSE ckpt' = ckpt /\ pc' = "replay"
  /\ UNCHANGED <<agentVars, deltas, cmdVars, reconnects, reply>>

(* A rebuild first puts the new shell in the session's directory.          *)
Realign ==
  /\ pc = "realign"
  /\ \E fate \in Fates : AgentSend({0}, fate)
  /\ CountReconnects
  /\ pc' = "replay"
  /\ UNCHANGED <<deltas, linkVars, cmdVars, passVars, reply>>

(***************************************************************************)
(* One delta past the checkpoint.  The checkpoint moves whatever became of *)
(* the send: sync() swallows every failure.                                *)
(***************************************************************************)
Replay ==
  /\ pc = "replay"
  /\ ckpt < version
  /\ IF rebuild \/ deltas[ckpt + 1] = "local"
     THEN \E fate \in Fates : AgentSend({ckpt + 1}, fate)
     ELSE UNCHANGED agentVars
  /\ CountReconnects
  /\ ckpt' = ckpt + 1
  /\ UNCHANGED <<deltas, syncedGen, pc, cmdVars, passVars, reply>>

(* Mutation: the shell that ends a pass is taken for the one that began it. *)
Settle_Unchecked ==
  /\ pc = "replay"
  /\ ckpt >= version
  /\ syncedGen' = gen
  /\ pc' = "run"
  /\ UNCHANGED <<agentVars, deltas, ckpt, cmdVars, passVars, reconnects, reply>>

(* The end of a pass: trusted if the shell held still, else once more.     *)
Settle ==
  /\ pc = "replay"
  /\ ckpt >= version
  /\ IF gen = startGen
     THEN /\ syncedGen' = startGen
          /\ pc' = "run"
     ELSE /\ pc' = "pass"
          /\ UNCHANGED syncedGen
  /\ UNCHANGED <<agentVars, deltas, ckpt, cmdVars, passVars, reconnects, reply>>

(* The loop ran out of passes; the command runs on the shell as it is.     *)
PassesExhausted ==
  /\ pc = "pass"
  /\ pass = MaxPasses
  /\ pc' = "run"
  /\ UNCHANGED <<agentVars, deltas, linkVars, cmdVars, passVars, reconnects,
                 reply>>

CommandEffects == IF changes THEN {version + 1} ELSE {}

(***************************************************************************)
(* The command itself.  A reconnect during the first attempt catches up    *)
(* and sends it again; nothing is compared after the second.               *)
(***************************************************************************)
Run ==
  /\ pc = "run"
  /\ attribute = "present"
  /\ \E fate \in Fates :
       /\ AgentSend(CommandEffects, fate)
       /\ CountReconnects
       /\ IF attempt = 1 /\ gen' # gen
          THEN /\ attempt' = 2
               /\ pc' = "catch_up"
               /\ UNCHANGED <<deltas, download, changes, passVars, reply>>
          ELSE Finish(IF available' = "up" THEN "cowrie" ELSE "on_device", fate)
  /\ UNCHANGED linkVars

RunWithoutGeneration ==
  /\ pc = "run"
  /\ attribute = "absent"
  /\ Caught

SessionStep ==
  \/ CatchUp \/ BeginPass \/ Realign \/ Replay \/ Settle \/ PassesExhausted
  \/ Run \/ RunWithoutGeneration

Next == Break \/ Resume \/ LocalCommand \/ BeginSend \/ SessionStep

Spec == Init /\ [][Next]_vars

(* The session thread always finishes the command it is in; nothing obliges *)
(* the attacker to type or the network to fail or recover.                  *)
FairSpec == Spec /\ WF_vars(SessionStep)

-----------------------------------------------------------------------------
(***************************************************************************)
(* A command credited to Cowrie ran on, or waits in, a shell that makes    *)
(* every earlier change of the session before it, unless the connection    *)
(* died with the command or had to be opened twice or more during it       *)
(* (cowrie_link.send and catch_up).                                        *)
(***************************************************************************)
AnswerOnSyncedShell ==
  /\ reply.agent = "cowrie"
  /\ reply.fate # "lost"
  /\ reply.reconnects <= 1
  => reply.synced

(***************************************************************************)
(* "send() returns WHICH agent actually answered", as far as the code can  *)
(* tell: Cowrie is credited exactly with the commands a channel accepted,  *)
(* through reconnects and second attempts, and our side with the others.   *)
(* An accepted command that was never answered is credited to Cowrie too.  *)
(***************************************************************************)
CreditedAgentTookIt ==
  /\ reply.agent = "cowrie" => reply.fate # "refused"
  /\ reply.agent = "on_device" => reply.fate = "refused"

(***************************************************************************)
(* The checkpoint is never ahead of the shell it speaks for: as long as    *)
(* the generation is the synced one and the connection lives, every change *)
(* up to it is made or waits in the connection, although sync() swallows   *)
(* failures and takes silence for success.                                 *)
(***************************************************************************)
CheckpointHonest ==
  shell \in {"open", "hung"} /\ syncedGen = gen =>
    0..ckpt \subseteq applied \cup pending

(***************************************************************************)
(* However often the environment makes the agent reconnect -- at every     *)
(* send, for ever -- each command that entered the link is answered: four  *)
(* passes and one second attempt are all that catch_up and send allow.     *)
(***************************************************************************)
EverySendReturns == pc # "idle" ~> pc = "idle"

(***************************************************************************)
(* cowrie_link.py:67: an outage yields a reply "rather than raising -- a   *)
(* dead container must never kill the session".                            *)
(***************************************************************************)
SendNeverRaises == reply.agent # "raised"
=============================================================================
