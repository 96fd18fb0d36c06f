------------------------- MODULE CowrieSync_proofs -------------------------
(***************************************************************************)
(* The link's promise, for every number of changes, shells and passes: a   *)
(* command credited to Cowrie ran on, or waits in, a shell that makes      *)
(* every earlier change before it, unless the connection died with it or   *)
(* was opened twice for that one command.                                  *)
(*                                                                         *)
(* AnswerOnSyncedShell looks only at the finished reply, so it is not      *)
(* inductive.  IInv adds what the protocol keeps true on the way there:    *)
(* the checkpoint describes the shell whose generation it is filed under,  *)
(* a rebuild in progress describes the shell it started on, and every pass *)
(* that had to be repeated cost a reconnect.                               *)
(***************************************************************************)
EXTENDS CowrieSync, TLAPS

Live == shell \in {"open", "hung"}

(* What the shell has made, or makes before anything sent to it from now.  *)
Made == applied \cup pending

(* A live connection and a lowered health flag exclude each other.         *)
LiveIsAvailable == attribute = "present" /\ Live => available = "up"

(* Nothing waits in a connection that answers.                             *)
OpenHasNoQueue == shell = "open" => pending = {}

CkptBounded == ckpt <= version

(* What the tracker was told Cowrie ran is on the synced shell.            *)
RanOnShell ==
  Live /\ syncedGen = gen =>
    \A v \in 1..version : deltas[v] = "cowrie" => v \in Made

RealignBeginsRebuild == pc = "realign" => rebuild /\ ckpt = 0

RebuildHonest ==
  pc = "replay" /\ rebuild /\ gen = startGen /\ Live => 0..ckpt \subseteq Made

(* Every pass after the first was paid for with a reconnect, and so is a   *)
(* pass whose shell has been replaced.                                     *)
RepeatedPassesCostReconnects ==
  /\ pc = "pass" =>
       /\ pass >= 1 => reconnects >= 1
       /\ pass >= 2 => reconnects = 2
  /\ pc \in {"realign", "replay"} =>
       /\ pass >= 1
       /\ pass >= 2 \/ gen # startGen => reconnects >= 1
       /\ pass >= 3 \/ (pass >= 2 /\ gen # startGen) => reconnects = 2

ReadyToRun ==
  attribute = "present" /\ pc = "run" /\ Live /\ reconnects <= 1 =>
    0..version \subseteq Made

SecondAttemptReconnected == attempt = 2 /\ pc # "idle" => reconnects >= 1

IInv ==
  /\ TypeOK
  /\ OpenHasNoQueue
  /\ LiveIsAvailable
  /\ CkptBounded
  /\ CheckpointHonest
  /\ RanOnShell
  /\ RealignBeginsRebuild
  /\ RebuildHonest
  /\ RepeatedPassesCostReconnects
  /\ ReadyToRun
  /\ SecondAttemptReconnected
  /\ AnswerOnSyncedShell
  /\ CreditedAgentTookIt

-----------------------------------------------------------------------------
(* A new shell has a name that nothing remembers.                          *)
LEMMA NewShellIsNew ==
  ASSUME TypeOK
  PROVE  /\ NewShell \in Shells
         /\ NewShell # gen /\ NewShell # syncedGen /\ NewShell # startGen
<1>1. \E g \in Shells : g \notin {gen, syncedGen, startGen}
  BY CowrieSyncAssumption DEF TypeOK
<1>2. QED
  BY <1>1 DEF NewShell

(* What one send of the agent can do, whichever way the connection goes.   *)
SendResult(effects, fate) ==
  /\ attribute' = attribute
  /\ shell' \in {"none", "open", "hung", "closed"}
  /\ gen' \in Shells \cup {0}
  /\ gen' # gen => gen' # syncedGen /\ gen' # startGen
  /\ applied' \in SUBSET Nat /\ pending' \in SUBSET Nat
  /\ shell' = "open" => pending' = {}
  /\ available' \in {"up", "down"}
  /\ Live' /\ gen' = gen =>
       Live /\ available' = available /\ Made' = Made \cup effects
  /\ Live' /\ gen' # gen => available' = "up" /\ Made' = effects
  /\ fate \in {"ran", "waits"} => Live'
  /\ attribute = "present" /\ available' = "up" => fate # "refused"
  /\ attribute = "present" /\ available' = "down" => fate = "refused"

(* What a channel does with a line it accepted.                            *)
LEMMA CarriedOutcome ==
  ASSUME NEW answering, NEW seen \in SUBSET Nat, NEW waiting \in SUBSET Nat,
         NEW effects \in SUBSET Nat, NEW fate \in Fates,
         Carried(answering, seen, waiting, effects, fate),
         answering => waiting = {}
  PROVE  /\ shell' \in {"open", "hung", "closed"}
         /\ applied' \in SUBSET Nat /\ pending' \in SUBSET Nat
         /\ Live' => Made' = (seen \cup waiting) \cup effects
         /\ shell' = "open" => pending' = {}
         /\ fate \in {"ran", "waits"} => Live'
         /\ fate # "refused"
  BY DEF Carried, Live, Made

LEMMA SendOutcome ==
  ASSUME TypeOK, LiveIsAvailable, OpenHasNoQueue, NEW effects \in SUBSET Nat,
         NEW fate \in Fates, AgentSend(effects, fate)
  PROVE  SendResult(effects, fate)
<1>1. CASE /\ shell \in {"open", "hung"}
           /\ Carried(shell = "open", applied, pending, effects, fate)
           /\ UNCHANGED <<attribute, gen, available>>
  <2>1. applied \in SUBSET Nat /\ pending \in SUBSET Nat
    BY DEF TypeOK
  <2>2. /\ shell' \in {"open", "hung", "closed"}
        /\ applied' \in SUBSET Nat /\ pending' \in SUBSET Nat
        /\ Live' => Made' = (applied \cup pending) \cup effects
        /\ shell' = "open" => pending' = {}
        /\ fate \in {"ran", "waits"} => Live'
        /\ fate # "refused"
    BY <1>1, <2>1 DEF Carried, Live, Made, OpenHasNoQueue
  <2>3. Live /\ (attribute = "present" => available = "up")
    BY <1>1 DEF Live, LiveIsAvailable
  <2>4. QED
    BY <1>1, <2>2, <2>3 DEF SendResult, TypeOK, Made
<1>2. CASE shell = "closed" /\ Reconnected /\ Carried(TRUE, {}, {}, effects, fate)
  <2>1. /\ shell' \in {"open", "hung", "closed"}
        /\ applied' \in SUBSET Nat /\ pending' \in SUBSET Nat
        /\ Live' => Made' = ({} \cup {}) \cup effects
        /\ shell' = "open" => pending' = {}
        /\ fate \in {"ran", "waits"} => Live'
        /\ fate # "refused"
    BY <1>2, CarriedOutcome
  <2>2. /\ gen' \in Shells /\ available' = "up" /\ attribute' = attribute
        /\ gen' # gen /\ gen' # syncedGen /\ gen' # startGen
    BY <1>2, NewShellIsNew DEF Reconnected
  <2>3. QED
    BY <2>1, <2>2 DEF SendResult
<1>3. CASE shell = "closed" /\ fate = "refused" /\ ReconnectRefused
  <2>1. CASE ConnectFailed
    BY <1>3, <2>1 DEF TypeOK, ConnectFailed, SendResult, Live, Made
  <2>2. CASE /\ gen' = NewShell /\ available' = "down"
             /\ UNCHANGED <<attribute, shell, applied, pending>>
    BY <1>3, <2>2, NewShellIsNew DEF TypeOK, SendResult, Live, Made
  <2>3. QED
    BY <1>3, <2>1, <2>2 DEF ReconnectRefused
<1>4. CASE shell = "none" /\ fate = "refused" /\ ConnectFailed
  BY <1>4 DEF TypeOK, ConnectFailed, SendResult, Live, Made
<1>5. QED
  BY <1>1, <1>2, <1>3, <1>4 DEF AgentSend

(* The initial state satisfies the invariant.                              *)
LEMMA IInvInit == Init => IInv
<1> SUFFICES ASSUME Init PROVE IInv
  OBVIOUS
<1> USE DEF Init
<1>0. (CHOOSE g \in Shells : TRUE) \in Shells /\ 0 \notin Shells
  <2>1. \E g \in Shells : g \notin {0, 0, 0}
    BY CowrieSyncAssumption
  <2>2. (CHOOSE g \in Shells : TRUE) \in Shells
    BY <2>1
  <2>3. QED
    BY <2>2, CowrieSyncAssumption
<1>1. TypeOK
  <2>1. << >> \in Seq({"cowrie", "local"})
    OBVIOUS
  <2>2. NoReply \in [agent : Answers, fate : Fates, synced : BOOLEAN,
                     reconnects : 0..2]
    BY DEF Answers, Fates, NoReply
  <2>3. /\ shell \in {"none", "open", "hung", "closed"}
        /\ gen \in Shells \cup {0}
        /\ available \in {"up", "down"} /\ pc \in PCs
    BY <1>0 DEF PCs
  <2>4. attribute \in {"present", "absent"}
    BY CowrieSyncAssumption
  <2>5. /\ deltas \in Seq({"cowrie", "local"})
        /\ reply \in [agent : Answers, fate : Fates, synced : BOOLEAN,
                      reconnects : 0..2]
    BY <2>1, <2>2
  <2>6. applied \in SUBSET Nat /\ pending \in SUBSET Nat
    <3>1. applied = {} /\ pending = {}
      OBVIOUS
    <3> HIDE DEF Init
    <3>2. QED
      BY <3>1
  <2>7. /\ ckpt = 0 /\ syncedGen = 0
        /\ attempt = 1 /\ download = FALSE /\ changes = FALSE
        /\ pass = 0 /\ startGen = 0 /\ reconnects = 0
    OBVIOUS
  <2> HIDE DEF Init
  <2>8. ckpt \in Nat /\ pass \in Nat /\ reconnects \in 0..2 /\ attempt \in {1, 2}
    BY <2>7
  <2>9. syncedGen \in Shells \cup {0} /\ startGen \in Shells \cup {0}
    BY <2>7
  <2>10. download \in BOOLEAN /\ changes \in BOOLEAN
    BY <2>7
  <2>11. QED
    BY <2>3, <2>4, <2>5, <2>6, <2>8, <2>9, <2>10 DEF TypeOK
<1>2. gen # 0 \/ shell = "none"
  BY <1>0
<1>3. CheckpointHonest /\ RanOnShell /\ CkptBounded
  BY <1>2 DEF CheckpointHonest, RanOnShell, CkptBounded, version, Live
<1>4. QED
  BY <1>1, <1>3
     DEF IInv, OpenHasNoQueue, LiveIsAvailable, Live, RealignBeginsRebuild,
         RebuildHonest, RepeatedPassesCostReconnects, ReadyToRun,
         SecondAttemptReconnected, AnswerOnSyncedShell, CreditedAgentTookIt,
         NoReply
-----------------------------------------------------------------------------
(* Every step preserves the invariant, one lemma per group of actions.     *)
LEMMA BreakStep == IInv /\ Break => IInv'
<1> SUFFICES ASSUME IInv, Break PROVE IInv'
  OBVIOUS
<1> USE DEF Break, agentVars, linkVars, cmdVars, passVars
<1>1. TypeOK'
  BY DEF IInv, TypeOK
<1>2. QED
  BY <1>1
     DEF IInv, TypeOK, rebuild, version, OpenHasNoQueue, LiveIsAvailable,
         CkptBounded, Live, Made, CheckpointHonest, RanOnShell,
         RealignBeginsRebuild, RebuildHonest, RepeatedPassesCostReconnects,
         ReadyToRun, SecondAttemptReconnected, AnswerOnSyncedShell,
         CreditedAgentTookIt

LEMMA ResumeStep == IInv /\ Resume => IInv'
<1> SUFFICES ASSUME IInv, Resume PROVE IInv'
  OBVIOUS
<1> USE DEF Resume, agentVars, linkVars, cmdVars, passVars
<1>1. TypeOK'
  BY DEF IInv, TypeOK
<1>2. QED
  BY <1>1
     DEF IInv, TypeOK, rebuild, version, OpenHasNoQueue, LiveIsAvailable,
         CkptBounded, Live, Made, CheckpointHonest, RanOnShell,
         RealignBeginsRebuild, RebuildHonest, RepeatedPassesCostReconnects,
         ReadyToRun, SecondAttemptReconnected, AnswerOnSyncedShell,
         CreditedAgentTookIt

LEMMA BeginSendStep == IInv /\ BeginSend => IInv'
<1> SUFFICES ASSUME IInv, BeginSend PROVE IInv'
  OBVIOUS
<1> USE DEF BeginSend, NoReply, agentVars, linkVars, cmdVars, passVars
<1>1. TypeOK'
  BY DEF IInv, TypeOK, PCs, Answers, Fates
<1>2. QED
  BY <1>1
     DEF IInv, TypeOK, rebuild, version, OpenHasNoQueue, LiveIsAvailable,
         CkptBounded, Live, Made, CheckpointHonest, RanOnShell,
         RealignBeginsRebuild, RebuildHonest, RepeatedPassesCostReconnects,
         ReadyToRun, SecondAttemptReconnected, AnswerOnSyncedShell,
         CreditedAgentTookIt

LEMMA BeginPassStep == IInv /\ BeginPass => IInv'
<1> SUFFICES ASSUME IInv, BeginPass PROVE IInv'
  OBVIOUS
<1> USE DEF BeginPass, agentVars, linkVars, cmdVars, passVars, rebuild
<1>1. TypeOK'
  BY DEF IInv, TypeOK, PCs
<1>2. QED
  BY <1>1
     DEF IInv, TypeOK, version, OpenHasNoQueue, LiveIsAvailable,
         CkptBounded, Live, Made, CheckpointHonest, RanOnShell,
         RealignBeginsRebuild, RebuildHonest, RepeatedPassesCostReconnects,
         ReadyToRun, SecondAttemptReconnected, AnswerOnSyncedShell,
         CreditedAgentTookIt

LEMMA SettleStep == IInv /\ Settle => IInv'
<1> SUFFICES ASSUME IInv, Settle PROVE IInv'
  OBVIOUS
<1> USE DEF Settle, agentVars, linkVars, cmdVars, passVars, rebuild
<1>1. TypeOK'
  BY DEF IInv, TypeOK, PCs
<1>2. QED
  BY <1>1
     DEF IInv, TypeOK, version, OpenHasNoQueue, LiveIsAvailable,
         CkptBounded, Live, Made, CheckpointHonest, RanOnShell,
         RealignBeginsRebuild, RebuildHonest, RepeatedPassesCostReconnects,
         ReadyToRun, SecondAttemptReconnected, AnswerOnSyncedShell,
         CreditedAgentTookIt

LEMMA PassesExhaustedStep == IInv /\ PassesExhausted => IInv'
<1> SUFFICES ASSUME IInv, PassesExhausted PROVE IInv'
  OBVIOUS
<1> USE DEF PassesExhausted, agentVars, linkVars, cmdVars, passVars, rebuild
<1>1. TypeOK'
  BY DEF IInv, TypeOK, PCs
<1>2. MaxPasses \in Nat /\ MaxPasses >= 2
  BY CowrieSyncAssumption
<1>3. QED
  BY <1>1, <1>2
     DEF IInv, TypeOK, version, OpenHasNoQueue, LiveIsAvailable,
         CkptBounded, Live, Made, CheckpointHonest, RanOnShell,
         RealignBeginsRebuild, RebuildHonest, RepeatedPassesCostReconnects,
         ReadyToRun, SecondAttemptReconnected, AnswerOnSyncedShell,
         CreditedAgentTookIt

(* The counting half of a send: what it adds to the reconnects.            *)
SendCounted ==
  /\ reconnects' \in 0..2
  /\ reconnects' >= reconnects
  /\ gen' = gen => reconnects' = reconnects
  /\ gen' # gen => reconnects' >= 1
  /\ gen' # gen /\ reconnects >= 1 => reconnects' = 2

LEMMA SendCounts ==
  ASSUME TypeOK, CountReconnects
  PROVE  SendCounted
  BY DEF TypeOK, CountReconnects, SendCounted

LEMMA RealignStep == IInv /\ Realign => IInv'
<1> SUFFICES ASSUME IInv, Realign PROVE IInv'
  OBVIOUS
<1>0. /\ TypeOK /\ CkptBounded /\ CountReconnects
      /\ LiveIsAvailable /\ OpenHasNoQueue
  BY DEF IInv, Realign
<1>1. PICK fate \in Fates : AgentSend({0}, fate)
  BY DEF Realign
<1>2. SendResult({0}, fate)
  BY <1>0, <1>1, SendOutcome
<1>3. /\ pc = "realign" /\ pc' = "replay" /\ ckpt' = ckpt /\ ckpt = 0
      /\ UNCHANGED <<deltas, syncedGen, attempt, download, changes, pass,
                     startGen, reply>>
      /\ rebuild
  BY DEF Realign, linkVars, cmdVars, passVars, IInv, RealignBeginsRebuild
<1>4. SendCounted
  BY <1>0, SendCounts
<1>5. TypeOK'
  <2>1. pc' \in PCs
    BY <1>3 DEF PCs
  <2>2. QED
    BY <1>0, <1>2, <1>3, <1>4, <2>1 DEF TypeOK, SendResult, SendCounted
<1>6. CkptBounded' /\ LiveIsAvailable' /\ OpenHasNoQueue'
  BY <1>0, <1>2, <1>3
     DEF SendResult, CkptBounded, LiveIsAvailable, OpenHasNoQueue, version
<1>7. CheckpointHonest' /\ RanOnShell'
  BY <1>2, <1>3
     DEF SendResult, IInv, TypeOK, CheckpointHonest, RanOnShell, version,
         Live, Made
<1>8. RebuildHonest'
  BY <1>2, <1>3 DEF SendResult, TypeOK, RebuildHonest, rebuild
<1>9. RepeatedPassesCostReconnects' /\ SecondAttemptReconnected'
  BY <1>0, <1>2, <1>3, <1>4
     DEF IInv, TypeOK, SendResult, SendCounted, RepeatedPassesCostReconnects,
         SecondAttemptReconnected
<1>10. /\ RealignBeginsRebuild' /\ ReadyToRun'
       /\ AnswerOnSyncedShell' /\ CreditedAgentTookIt'
  BY <1>3
     DEF IInv, RealignBeginsRebuild, ReadyToRun, AnswerOnSyncedShell,
         CreditedAgentTookIt
<1>11. QED
  BY <1>5, <1>6, <1>7, <1>8, <1>9, <1>10 DEF IInv

LEMMA ReplayStep == IInv /\ Replay => IInv'
<1> SUFFICES ASSUME IInv, Replay PROVE IInv'
  OBVIOUS
<1>0. /\ TypeOK /\ CkptBounded /\ CountReconnects
      /\ LiveIsAvailable /\ OpenHasNoQueue
  BY DEF IInv, Replay
<1>1. /\ ckpt + 1 \in 1..version
      /\ {ckpt + 1} \in SUBSET Nat
  BY <1>0 DEF TypeOK, Replay, version
<1>2. /\ pc = "replay" /\ pc' = "replay" /\ ckpt' = ckpt + 1
      /\ UNCHANGED <<deltas, syncedGen, attempt, download, changes, pass,
                     startGen, reply>>
      /\ version' = version
      /\ rebuild' = rebuild
  BY DEF Replay, cmdVars, passVars, version, rebuild
<1>3. pc' \in PCs /\ ckpt' \in Nat /\ CkptBounded'
  BY <1>0, <1>1, <1>2 DEF PCs, TypeOK, CkptBounded
<1>4. /\ RealignBeginsRebuild' /\ ReadyToRun'
      /\ AnswerOnSyncedShell' /\ CreditedAgentTookIt'
  BY <1>2
     DEF IInv, RealignBeginsRebuild, ReadyToRun, AnswerOnSyncedShell,
         CreditedAgentTookIt
<1>5. SendCounted
  BY <1>0, SendCounts
<1>6. CASE \E fate \in Fates : AgentSend({ckpt + 1}, fate)
  <2>1. PICK fate \in Fates : AgentSend({ckpt + 1}, fate)
    BY <1>6
  <2>2. SendResult({ckpt + 1}, fate)
    BY <1>0, <1>1, <2>1, SendOutcome
  <2>3. TypeOK'
    BY <1>0, <1>2, <1>3, <1>5, <2>2 DEF TypeOK, SendResult, SendCounted
  <2>4. LiveIsAvailable' /\ OpenHasNoQueue'
    BY <1>0, <2>2 DEF SendResult, LiveIsAvailable, OpenHasNoQueue
  <2>5. CheckpointHonest' /\ RanOnShell'
    BY <1>0, <1>2, <2>2
       DEF SendResult, IInv, TypeOK, CheckpointHonest, RanOnShell, Live, Made
  <2>6. RebuildHonest'
    BY <1>0, <1>2, <2>2 DEF SendResult, IInv, TypeOK, RebuildHonest
  <2>7. RepeatedPassesCostReconnects' /\ SecondAttemptReconnected'
    BY <1>0, <1>2, <1>5, <2>2
       DEF IInv, TypeOK, SendResult, SendCounted,
           RepeatedPassesCostReconnects, SecondAttemptReconnected
  <2>8. QED
    BY <1>3, <1>4, <2>3, <2>4, <2>5, <2>6, <2>7 DEF IInv
<1>7. CASE ~rebuild /\ deltas[ckpt + 1] # "local" /\ UNCHANGED agentVars
  <2>1. deltas[ckpt + 1] = "cowrie"
    BY <1>0, <1>1, <1>7 DEF TypeOK, version
  <2>2. reconnects' = reconnects
    BY <1>0, <1>7 DEF CountReconnects, agentVars, TypeOK
  <2>3. TypeOK'
    BY <1>0, <1>2, <1>3, <1>7, <2>2 DEF agentVars, TypeOK
  <2>4. CheckpointHonest' /\ RanOnShell'
    BY <1>1, <1>2, <1>7, <2>1
       DEF agentVars, IInv, TypeOK, CheckpointHonest, RanOnShell, Live, Made
  <2>5. RebuildHonest' /\ RepeatedPassesCostReconnects'
    BY <1>2, <1>7, <2>2
       DEF agentVars, IInv, RebuildHonest, RepeatedPassesCostReconnects
  <2>6. LiveIsAvailable' /\ OpenHasNoQueue' /\ SecondAttemptReconnected'
    BY <1>2, <1>7, <2>2
       DEF agentVars, IInv, LiveIsAvailable, OpenHasNoQueue, Live,
           SecondAttemptReconnected
  <2>7. QED
    BY <1>3, <1>4, <2>3, <2>4, <2>5, <2>6 DEF IInv
<1>8. QED
  BY <1>6, <1>7 DEF Replay

-----------------------------------------------------------------------------
(* Steps that end a command, or happen between commands.                   *)

(* What appending the record of a change does to the log of changes.       *)
LEMMA Appending ==
  ASSUME TypeOK, NEW d \in {"cowrie", "local"}, deltas' = Append(deltas, d)
  PROVE  /\ version \in Nat
         /\ deltas' \in Seq({"cowrie", "local"})
         /\ version' = version + 1
         /\ \A v \in 1..version : deltas'[v] = deltas[v]
         /\ deltas'[version + 1] = d
  BY DEF TypeOK, version

(* Between commands only these conjuncts say anything.                     *)
LEMMA AtRest ==
  ASSUME TypeOK', pc' = "idle", LiveIsAvailable', OpenHasNoQueue',
         CkptBounded', CheckpointHonest', RanOnShell', AnswerOnSyncedShell',
         CreditedAgentTookIt'
  PROVE  IInv'
  BY DEF IInv, RealignBeginsRebuild, RebuildHonest,
         RepeatedPassesCostReconnects, ReadyToRun, SecondAttemptReconnected

(* The shell that is live after a step is the one from before, with what   *)
(* it had made or holds, or a new one.                                     *)
SameShellOrNew ==
  /\ gen' = gen \/ gen' # syncedGen
  /\ Live' /\ gen' = gen => Live /\ Made \subseteq Made'

(* A change our side recorded leaves the link's bookkeeping true, whether  *)
(* the shell stays the same or is replaced.                                *)
LEMMA LoggedLocally ==
  ASSUME TypeOK, CkptBounded, CheckpointHonest, RanOnShell, SameShellOrNew,
         UNCHANGED linkVars,
         deltas' = deltas \/ deltas' = Append(deltas, "local")
  PROVE  /\ deltas' \in Seq({"cowrie", "local"})
         /\ CkptBounded' /\ CheckpointHonest' /\ RanOnShell'
<1>1. /\ version \in Nat /\ version' \in Nat /\ version' >= version
      /\ deltas' \in Seq({"cowrie", "local"})
      /\ \A v \in 1..version' :
           deltas'[v] = "cowrie" => v \in 1..version /\ deltas[v] = "cowrie"
  <2>1. CASE deltas' = deltas
    BY <2>1 DEF TypeOK, version
  <2>2. CASE deltas' = Append(deltas, "local")
    <3>1. /\ version \in Nat
          /\ deltas' \in Seq({"cowrie", "local"})
          /\ version' = version + 1
          /\ \A v \in 1..version : deltas'[v] = deltas[v]
          /\ deltas'[version + 1] = "local"
      BY <2>2, Appending
    <3>2. \A v \in 1..(version + 1) : v \in 1..version \/ v = version + 1
      BY <3>1
    <3>3. QED
      BY <3>1, <3>2
  <2>3. QED
    BY <2>1, <2>2
<1>2. ckpt \in Nat /\ ckpt' = ckpt /\ syncedGen' = syncedGen /\ ckpt <= version
  BY DEF TypeOK, CkptBounded, linkVars
<1>3. CkptBounded'
  BY <1>1, <1>2 DEF CkptBounded
<1>4. CASE Live' /\ syncedGen' = gen'
  <2>1. gen' = gen
    BY <1>2, <1>4 DEF SameShellOrNew
  <2>2. Live /\ syncedGen = gen /\ Made \subseteq Made'
    BY <1>2, <1>4, <2>1 DEF SameShellOrNew
  <2>3. 0..ckpt' \subseteq Made'
    BY <1>2, <2>2 DEF CheckpointHonest, Live, Made
  <2>4. CheckpointHonest'
    BY <2>3 DEF CheckpointHonest, Made
  <2>5. RanOnShell'
    BY <1>1, <2>2 DEF RanOnShell
  <2>6. QED
    BY <1>1, <1>3, <2>4, <2>5
<1>5. CASE ~(Live' /\ syncedGen' = gen')
  BY <1>1, <1>3, <1>5 DEF CheckpointHonest, RanOnShell, Live
<1>6. QED
  BY <1>4, <1>5

(* What sync_history may do to the agent.                                  *)
AgentSound ==
  /\ attribute' = attribute
  /\ shell' \in {"none", "open", "hung", "closed"}
  /\ gen' \in Shells \cup {0}
  /\ applied' \in SUBSET Nat /\ pending' \in SUBSET Nat
  /\ available' \in {"up", "down"}
  /\ SameShellOrNew /\ LiveIsAvailable' /\ OpenHasNoQueue'

LEMMA LocalCommandStep == IInv /\ LocalCommand => IInv'
<1> SUFFICES ASSUME IInv, LocalCommand PROVE IInv'
  OBVIOUS
<1>0. /\ TypeOK /\ CkptBounded /\ CheckpointHonest /\ RanOnShell
      /\ LiveIsAvailable /\ OpenHasNoQueue
  BY DEF IInv
<1>1. /\ UNCHANGED linkVars /\ pc = "idle" /\ pc' = "idle"
      /\ UNCHANGED <<syncedGen, ckpt, attempt, download, changes, pass,
                     startGen, reconnects, reply>>
      /\ deltas' = deltas \/ deltas' = Append(deltas, "local")
      /\ SyncHistory \/ UNCHANGED agentVars
  BY DEF LocalCommand, linkVars, cmdVars, passVars, Record
<1>2. AgentSound
  <2>1. CASE UNCHANGED agentVars
    BY <1>0, <2>1
       DEF TypeOK, agentVars, AgentSound, SameShellOrNew, LiveIsAvailable,
           OpenHasNoQueue, Live, Made
  <2>2. ASSUME NEW fate \in Fates, AgentSend({}, fate)
        PROVE  AgentSound
    <3>1. SendResult({}, fate)
      BY <1>0, <2>2, SendOutcome
    <3>2. QED
      BY <1>0, <3>1
         DEF SendResult, AgentSound, SameShellOrNew, LiveIsAvailable,
             OpenHasNoQueue
  <2>3. CASE shell = "closed" /\ ConnectFailed
    BY <1>0, <2>3
       DEF TypeOK, ConnectFailed, AgentSound, SameShellOrNew,
           LiveIsAvailable, OpenHasNoQueue, Live
  <2>4. QED
    BY <1>1, <2>1, <2>2, <2>3 DEF SyncHistory
<1>3. /\ deltas' \in Seq({"cowrie", "local"})
      /\ CkptBounded' /\ CheckpointHonest' /\ RanOnShell'
  BY <1>0, <1>1, <1>2, LoggedLocally DEF AgentSound
<1>4. TypeOK'
  BY <1>0, <1>1, <1>2, <1>3 DEF TypeOK, AgentSound
<1>5. AnswerOnSyncedShell' /\ CreditedAgentTookIt'
  BY <1>1 DEF IInv, AnswerOnSyncedShell, CreditedAgentTookIt
<1>6. QED
  BY <1>1, <1>2, <1>3, <1>4, <1>5, AtRest DEF AgentSound

(* The reply of a finished command, and the call's variables, have types.  *)
LEMMA FinishedTypes ==
  ASSUME TypeOK, NEW a \in {"cowrie", "on_device", "raised"},
         NEW fate \in Fates, Finish(a, fate), reconnects' \in 0..2
  PROVE  /\ reply' \in [agent : Answers, fate : Fates, synced : BOOLEAN,
                        reconnects : 0..2]
         /\ reply'.agent = a /\ reply'.fate = fate
         /\ reply'.reconnects = reconnects'
         /\ reply'.synced = (0..version \subseteq Made')
         /\ pc' = "idle" /\ pc' \in PCs
         /\ attempt' \in {1, 2} /\ download' \in BOOLEAN
         /\ changes' \in BOOLEAN /\ pass' \in Nat
         /\ startGen' \in Shells \cup {0}
<1>1. a \in Answers
  BY DEF Answers
<1>2. /\ pc' = "idle" /\ pc' \in PCs
      /\ attempt' \in {1, 2} /\ download' \in BOOLEAN
      /\ changes' \in BOOLEAN /\ pass' \in Nat
      /\ startGen' \in Shells \cup {0}
  BY DEF Finish, PCs
<1>3. reply' = [agent |-> a, fate |-> fate, synced |-> 0..version \subseteq Made',
                reconnects |-> reconnects']
  BY DEF Finish, Made
<1>4. QED
  BY <1>1, <1>2, <1>3

(* A command that ends without Cowrie's answer on an unchanged shell.      *)
LEMMA EndedWithoutCowrie ==
  ASSUME IInv, NEW a \in {"on_device", "raised"}, Finish(a, "refused"),
         UNCHANGED <<linkVars, reconnects>>,
         UNCHANGED <<attribute, shell, gen, applied, pending>>,
         available' \in {"up", "down"},
         available' = available \/ attribute = "absent"
  PROVE  IInv'
<1>0. /\ TypeOK /\ CkptBounded /\ CheckpointHonest /\ RanOnShell
      /\ LiveIsAvailable /\ OpenHasNoQueue
  BY DEF IInv
<1>1. /\ UNCHANGED <<syncedGen, ckpt, reconnects>>
      /\ UNCHANGED linkVars
      /\ deltas' = deltas \/ deltas' = Append(deltas, "local")
      /\ SameShellOrNew
  BY <1>0 DEF Finish, linkVars, TypeOK, SameShellOrNew, Live, Made
<1>2. /\ reply' \in [agent : Answers, fate : Fates, synced : BOOLEAN,
                     reconnects : 0..2]
      /\ reply'.agent = a /\ reply'.fate = "refused"
      /\ pc' = "idle" /\ pc' \in PCs
      /\ attempt' \in {1, 2} /\ download' \in BOOLEAN
      /\ changes' \in BOOLEAN /\ pass' \in Nat
      /\ startGen' \in Shells \cup {0}
  <2>1. "refused" \in Fates /\ reconnects' \in 0..2
    BY <1>0 DEF Fates, TypeOK
  <2>2. QED
    BY <1>0, <2>1, FinishedTypes
<1>3. /\ deltas' \in Seq({"cowrie", "local"})
      /\ CkptBounded' /\ CheckpointHonest' /\ RanOnShell'
  BY <1>0, <1>1, LoggedLocally
<1>4. TypeOK'
  BY <1>0, <1>1, <1>2, <1>3 DEF TypeOK
<1>5. LiveIsAvailable' /\ OpenHasNoQueue'
  BY <1>0 DEF LiveIsAvailable, OpenHasNoQueue, Live
<1>6. AnswerOnSyncedShell' /\ CreditedAgentTookIt'
  BY <1>2 DEF AnswerOnSyncedShell, CreditedAgentTookIt
<1>7. QED
  BY <1>2, <1>3, <1>4, <1>5, <1>6, AtRest

LEMMA CatchUpStep == IInv /\ CatchUp => IInv'
<1> SUFFICES ASSUME IInv, CatchUp PROVE IInv'
  OBVIOUS
<1>1. CASE Raise
  BY <1>1, EndedWithoutCowrie DEF Raise, agentVars, IInv, TypeOK
<1>2. CASE attribute = "absent" /\ Caught
  BY <1>2, EndedWithoutCowrie DEF Caught, ConnectFailed
<1>3. CASE /\ available = "up" => attribute = "present"
           /\ pc = "catch_up"
           /\ pc' = IF available = "up" THEN "pass" ELSE "run"
           /\ pass' = 0
           /\ UNCHANGED <<agentVars, deltas, linkVars, cmdVars, startGen,
                          reconnects, reply>>
  <2> USE <1>3 DEF agentVars, linkVars, cmdVars
  <2>1. TypeOK'
    BY DEF IInv, TypeOK, PCs
  <2>2. QED
    BY <2>1
       DEF IInv, TypeOK, rebuild, version, OpenHasNoQueue, LiveIsAvailable,
           CkptBounded, Live, Made, CheckpointHonest, RanOnShell,
           RealignBeginsRebuild, RebuildHonest, RepeatedPassesCostReconnects,
           ReadyToRun, SecondAttemptReconnected, AnswerOnSyncedShell,
           CreditedAgentTookIt
<1>4. QED
  BY <1>1, <1>2, <1>3 DEF CatchUp

LEMMA RunWithoutGenerationStep == IInv /\ RunWithoutGeneration => IInv'
  BY EndedWithoutCowrie DEF RunWithoutGeneration, Caught, ConnectFailed

(***************************************************************************)
(* The command itself.  A shell that survived the send was synced when it  *)
(* began (ReadyToRun); a shell opened during the second attempt is the     *)
(* second of this command, which the property leaves aside.                *)
(***************************************************************************)
LEMMA RunStep == IInv /\ Run => IInv'
<1> SUFFICES ASSUME IInv, Run PROVE IInv'
  OBVIOUS
<1> DEFINE agent == IF available' = "up" THEN "cowrie" ELSE "on_device"
<1>0. /\ TypeOK /\ CkptBounded /\ CheckpointHonest /\ RanOnShell
      /\ LiveIsAvailable /\ OpenHasNoQueue
      /\ attribute = "present" /\ pc = "run"
      /\ version \in Nat
  BY DEF IInv, Run, TypeOK, version
<1>1. CommandEffects \in SUBSET Nat
  BY <1>0 DEF CommandEffects
<1>2. PICK fate \in Fates :
        /\ AgentSend(CommandEffects, fate)
        /\ CountReconnects
        /\ \/ /\ attempt = 1 /\ gen' # gen
              /\ attempt' = 2 /\ pc' = "catch_up"
              /\ UNCHANGED <<deltas, download, changes, passVars, reply>>
           \/ ~(attempt = 1 /\ gen' # gen) /\ Finish(agent, fate)
  BY DEF Run
<1>3. SendResult(CommandEffects, fate)
  BY <1>0, <1>1, <1>2, SendOutcome
<1>4. SendCounted
  BY <1>0, <1>2, SendCounts
<1>5. UNCHANGED <<ckpt, syncedGen>> /\ UNCHANGED linkVars
  BY DEF Run, linkVars
<1>6. LiveIsAvailable' /\ OpenHasNoQueue' /\ SameShellOrNew
  BY <1>0, <1>3
     DEF SendResult, LiveIsAvailable, OpenHasNoQueue, SameShellOrNew
<1>7. CASE /\ attempt = 1 /\ gen' # gen
           /\ attempt' = 2 /\ pc' = "catch_up"
           /\ UNCHANGED <<deltas, download, changes, passVars, reply>>
  <2>1. TypeOK'
    BY <1>0, <1>3, <1>4, <1>5, <1>7
       DEF TypeOK, PCs, SendResult, SendCounted, passVars
  <2>2. CkptBounded' /\ CheckpointHonest' /\ RanOnShell'
    BY <1>0, <1>5, <1>6, <1>7, LoggedLocally
  <2>3. SecondAttemptReconnected'
    BY <1>4, <1>7 DEF SendCounted, SecondAttemptReconnected
  <2>4. QED
    BY <1>6, <1>7, <2>1, <2>2, <2>3
       DEF IInv, RealignBeginsRebuild, RebuildHonest,
           RepeatedPassesCostReconnects, ReadyToRun, AnswerOnSyncedShell,
           CreditedAgentTookIt
<1>8. CASE ~(attempt = 1 /\ gen' # gen) /\ Finish(agent, fate)
  <2>1. /\ reply' \in [agent : Answers, fate : Fates, synced : BOOLEAN,
                       reconnects : 0..2]
        /\ reply'.agent = agent /\ reply'.fate = fate
        /\ reply'.reconnects = reconnects'
        /\ reply'.synced = (0..version \subseteq Made')
        /\ pc' = "idle" /\ pc' \in PCs
        /\ attempt' \in {1, 2} /\ download' \in BOOLEAN
        /\ changes' \in BOOLEAN /\ pass' \in Nat
        /\ startGen' \in Shells \cup {0}
    <3>1. reconnects' \in 0..2 /\ agent \in {"cowrie", "on_device", "raised"}
      BY <1>4 DEF SendCounted
    <3>2. QED
      BY <1>0, <1>8, <3>1, FinishedTypes
  <2>2. CreditedAgentTookIt'
    BY <1>0, <1>3, <2>1 DEF SendResult, CreditedAgentTookIt
  <2>3. ASSUME fate \in {"ran", "waits"}, reconnects' <= 1
        PROVE  0..version \subseteq Made'
    <3>1. Live'
      BY <1>3, <2>3 DEF SendResult
    <3>2. gen' = gen
      <4>1. CASE attempt = 2
        BY <1>0, <1>4, <2>3, <4>1
           DEF IInv, SecondAttemptReconnected, SendCounted, TypeOK
      <4>2. CASE attempt = 1
        BY <1>8, <4>2
      <4>3. QED
        BY <1>0, <4>1, <4>2 DEF TypeOK
    <3>3. Live /\ Made \subseteq Made'
      BY <1>6, <3>1, <3>2 DEF SameShellOrNew
    <3>4. reconnects <= 1
      BY <1>4, <2>3, <3>2 DEF SendCounted
    <3>5. QED
      BY <1>0, <3>3, <3>4 DEF IInv, ReadyToRun
  <2>4. AnswerOnSyncedShell'
    BY <2>1, <2>2, <2>3 DEF AnswerOnSyncedShell, CreditedAgentTookIt, Fates
  <2>5. CASE deltas' = deltas \/ deltas' = Append(deltas, "local")
    <3>1. /\ deltas' \in Seq({"cowrie", "local"})
          /\ CkptBounded' /\ CheckpointHonest' /\ RanOnShell'
      BY <1>0, <1>5, <1>6, <2>5, LoggedLocally
    <3>2. TypeOK'
      BY <1>0, <1>3, <1>4, <1>5, <2>1, <3>1
         DEF TypeOK, SendResult, SendCounted
    <3>3. QED
      BY <1>6, <2>1, <2>2, <2>4, <3>1, <3>2, AtRest
  <2>6. CASE deltas' = Append(deltas, "cowrie") /\ changes
    <3>1. /\ version \in Nat
          /\ deltas' \in Seq({"cowrie", "local"})
          /\ version' = version + 1
          /\ \A v \in 1..version : deltas'[v] = deltas[v]
          /\ deltas'[version + 1] = "cowrie"
      BY <1>0, <2>6, Appending
    <3>2. Live' => version + 1 \in Made'
      BY <1>3, <2>6 DEF SendResult, CommandEffects
    <3>3. CkptBounded'
      BY <1>0, <1>5, <3>1 DEF CkptBounded, TypeOK
    <3>4. CheckpointHonest'
      <4> SUFFICES ASSUME Live', syncedGen' = gen'
                   PROVE  0..ckpt' \subseteq Made'
        BY DEF CheckpointHonest, Live, Made
      <4>1. Live /\ gen = syncedGen /\ Made \subseteq Made'
        BY <1>5, <1>6 DEF SameShellOrNew
      <4>2. QED
        BY <1>0, <1>5, <4>1 DEF CheckpointHonest, Live, Made
    <3>5. RanOnShell'
      <4> SUFFICES ASSUME Live', syncedGen' = gen',
                          NEW v \in 1..version', deltas'[v] = "cowrie"
                   PROVE  v \in Made'
        BY DEF RanOnShell
      <4>1. Live /\ gen = syncedGen /\ Made \subseteq Made'
        BY <1>5, <1>6 DEF SameShellOrNew
      <4>2. CASE v \in 1..version
        BY <1>0, <3>1, <4>1, <4>2 DEF RanOnShell
      <4>3. CASE v = version + 1
        BY <3>2, <4>3
      <4>4. QED
        BY <3>1, <4>2, <4>3
    <3>6. TypeOK'
      BY <1>0, <1>3, <1>4, <1>5, <2>1, <3>1
         DEF TypeOK, SendResult, SendCounted
    <3>7. QED
      BY <1>6, <2>1, <2>2, <2>4, <3>3, <3>4, <3>5, <3>6, AtRest
  <2>7. QED
    BY <1>8, <2>5, <2>6 DEF Finish
<1>9. QED
  BY <1>2, <1>7, <1>8
-----------------------------------------------------------------------------
LEMMA IInvNext == IInv /\ [Next]_vars => IInv'
<1> SUFFICES ASSUME IInv, [Next]_vars PROVE IInv'
  OBVIOUS
<1>1. CASE UNCHANGED vars
  <2> USE <1>1 DEF vars, agentVars, linkVars, cmdVars, passVars
  <2>1. TypeOK'
    BY DEF IInv, TypeOK
  <2>2. QED
    BY <2>1
       DEF IInv, rebuild, version, OpenHasNoQueue, LiveIsAvailable,
           CkptBounded, Live, Made, CheckpointHonest, RanOnShell,
           RealignBeginsRebuild, RebuildHonest, RepeatedPassesCostReconnects,
           ReadyToRun, SecondAttemptReconnected, AnswerOnSyncedShell,
           CreditedAgentTookIt
<1>2. QED
  BY <1>1, BreakStep, ResumeStep, LocalCommandStep, BeginSendStep, CatchUpStep,
     BeginPassStep, RealignStep, ReplayStep, SettleStep, PassesExhaustedStep,
     RunStep, RunWithoutGenerationStep
     DEF Next, SessionStep

LEMMA Invariance == Spec => []IInv
  BY IInvInit, IInvNext, PTL DEF Spec

(* Every variable of the link and the agent keeps its type.                *)
THEOREM TypeCorrect == Spec => []TypeOK
<1>1. IInv => TypeOK
  BY DEF IInv
<1>2. QED
  BY <1>1, Invariance, PTL

(***************************************************************************)
(* cowrie_link.send and catch_up: a command credited to Cowrie ran on, or  *)
(* waits in, a shell that makes every earlier change before it, however    *)
(* often the connection broke or hung before the command and with at most  *)
(* one reconnect during it; a command the connection died with is lost.    *)
(***************************************************************************)
THEOREM SyncedAnswers == Spec => []AnswerOnSyncedShell
<1>1. IInv => AnswerOnSyncedShell
  BY DEF IInv
<1>2. QED
  BY <1>1, Invariance, PTL

(* The checkpoint catch_up keeps never claims more than the live shell has *)
(* made, or will have made when it answers again.                          *)
THEOREM HonestCheckpoint == Spec => []CheckpointHonest
<1>1. IInv => CheckpointHonest
  BY DEF IInv
<1>2. QED
  BY <1>1, Invariance, PTL

(* send() credits Cowrie exactly with the commands a channel accepted.     *)
THEOREM CreditedTook == Spec => []CreditedAgentTookIt
<1>1. IInv => CreditedAgentTookIt
  BY DEF IInv
<1>2. QED
  BY <1>1, Invariance, PTL
=============================================================================
