-------------------------- MODULE Dispatch_proofs --------------------------
(* Whatever is typed, configured and installed, and however the container  *)
(* comes and goes: the turn of a line stays a turn of OneBox, and Cowrie is *)
(* never credited with a model's words.  The inductive invariant says, for  *)
(* each step of handle, what is already settled: how often the effect was   *)
(* applied, that nothing is logged before the end, and whose answer is held. *)
EXTENDS Dispatch, TLAPS

NoRows == [session |-> 0, telemetry |-> 0, impact |-> 0]

Who == Agents \cup {"none", "local", "nobody", "lost", "error"}

USE DEF setup

(* The types without the arithmetic.                                       *)
Shape == /\ config \in Configs /\ attribute \in Builds
         /\ net \in {"up", "down"} /\ shell \in {"opened", "never"} /\ health \in {"up", "down"}
         /\ line \in Lines \cup {NoLine}
         /\ pc \in {"idle", "arms", "link", "link_history", "model", "rescue", "history",
                    "record", "second", "second_rescue"}
         /\ agent \in Agents \cup {"none"} /\ asked \in Models \cup {"none"}
         /\ streamed \in {"yes", "no"}
         /\ text \in Texts
         /\ by \in Who

BoxShape == files \in [Paths -> Tracked] /\ SoftwareTypeOK

Between == pc = "idle" <=> line = NoLine

Logged == /\ rows \in [session : 0..1, telemetry : 0..1, impact : 0..1]
          /\ pc # "idle" => rows = NoRows

(* Only a second opinion finds the effect applied.                         *)
Settled == /\ applied \in 0..2
           /\ pc \in {"second", "second_rescue"} => applied = 1
           /\ pc \notin {"idle", "second", "second_rescue"} => applied = 0

Credited ==
  /\ pc \in {"idle", "history", "record", "second", "second_rescue"} =>
       (agent = "cowrie" => by \notin Models)
  /\ pc \in {"model", "rescue"} => agent \in Models /\ asked \in Models

IInv == Shape /\ BoxShape /\ Between /\ Logged /\ Settled /\ Credited

LEMMA IInvTypeOK == IInv => TypeOK
BY DEF IInv, Shape, BoxShape, Logged, Settled, TypeOK, Who
-----------------------------------------------------------------------------
(* What a line does to the box.                                            *)

LEMMA BecomesTracked ==
  ASSUME NEW l \in Lines, NEW was \in Tracked
  PROVE  Becomes(l, was) \in Tracked
BY DEF Becomes, Edited, Tracked, Ours

(* The box stays one.                                                      *)
LEMMA EffectShape ==
  ASSUME BoxShape, NEW l \in Lines
  PROVE  /\ FilesAfter(l, files) \in [Paths -> Tracked]
         /\ Effect(l, TheBox).installed \subseteq Registered
<1>1. \A p \in Paths : Becomes(l, files[p]) \in Tracked
  BY BecomesTracked DEF BoxShape
<1>2. l.verb = "mv" => files[l.path] \in Tracked
  BY MvAssumption DEF BoxShape
<1>3. FilesAfter(l, files) \in [Paths -> Tracked]
  <2>1. ASSUME NEW p \in Paths PROVE FilesAfter(l, files)[p] \in Tracked
    <3>1. files[p] \in Tracked
      BY DEF BoxShape
    <3>2. QED
      BY <1>1, <1>2, <3>1 DEF FilesAfter
  <2>2. FilesAfter(l, files) = [p \in Paths |-> FilesAfter(l, files)[p]]
    BY DEF FilesAfter
  <2>3. QED
    BY <2>1, <2>2
<1>4. l.form = "apt_install" => Canonical[l.pkg] \in Registered
  BY AptAssumption DEF Registered, Packages
<1>5. Effect(l, TheBox).installed \subseteq Registered
  <2>1. /\ l.form = "apt_install" => With(installed, l.pkg) \subseteq Registered
        /\ Without(installed, l.pkg) \subseteq Registered
        /\ installed \subseteq Registered
    BY <1>4 DEF With, Without, BoxShape, SoftwareTypeOK
  <2>2. Effect(l, TheBox).installed =
          IF l.form = "apt_remove" THEN Without(installed, l.pkg)
          ELSE IF l.form = "apt_install" THEN With(installed, l.pkg)
          ELSE installed
    BY DEF Effect, TheBox
  <2>3. QED
    BY <2>1, <2>2
<1>6. QED
  BY <1>3, <1>5

-----------------------------------------------------------------------------
(* The ways a step can go.  A line is read; it ends, with or without its   *)
(* effect; its turn goes on; or it waits for a second opinion.             *)

Step == IInv' /\ [Box!Next]_(Box!vars)

LEMMA IInvInit == Init => IInv /\ Box!Init
<1> SUFFICES ASSUME Init PROVE IInv /\ Box!Init
  OBVIOUS
<1>1. Shape /\ BoxShape
  BY SoftwareAssumption DEF Init, Shape, BoxShape, SeedPreInstalled, SoftwareTypeOK, Registered,
     Packages, Texts, Tracked, Agents, Models, Who
<1>2. Between /\ Logged /\ Settled /\ Credited
  BY DEF Init, Between, Logged, Settled, Credited
<1>3. Box!Init
  BY DEF Init, Box!Init, SeedPreInstalled, TheBox, Done, InTheLogs
<1>4. QED
  BY <1>1, <1>2, <1>3 DEF IInv

LEMMA ReadStep ==
  ASSUME IInv, NEW l \in Lines, Read(l)
  PROVE  Step
<1>1. Shape' /\ BoxShape'
  BY DEF IInv, Shape, BoxShape, Read, box, link, SoftwareTypeOK, Registered, Packages, Texts, Agents,
     Who
<1>2. Between' /\ Logged' /\ Settled' /\ Credited'
  BY LinesAssumption DEF Read, Between, Logged, Settled, Credited, NoRows
<1>3. Box!Type(l)
  BY DEF IInv, Between, Read, Box!Type, box, TheBox, Done, InTheLogs
<1>4. QED
  BY <1>1, <1>2, <1>3 DEF Step, IInv, Box!Next

(* A line that has been answered is logged once in each log.               *)
LEMMA FinishLogs ==
  ASSUME IInv, pc # "idle", NEW a, NEW b, Finish(a, b)
  PROVE  Logged' /\ Between' /\ InTheLogs' = "once"
<1>1. rows = NoRows
  BY DEF IInv, Logged
<1>2. /\ rows'.session = 1 /\ rows'.telemetry = 1
      /\ rows' \in [session : 0..1, telemetry : 0..1, impact : 0..1]
  BY <1>1 DEF Finish, NoRows
<1>3. InTheLogs' = "once"
  BY <1>2 DEF InTheLogs
<1>4. QED
  BY <1>2, <1>3 DEF Finish, Logged, Between

LEMMA FinishQuiet ==
  ASSUME IInv, pc # "idle",
         NEW a \in Agents \cup {"none"}, NEW b \in Who, Finish(a, b),
         a = "cowrie" => b \notin Models,
         UNCHANGED <<setup, net, shell, files, installed, applied>>, health' \in {"up", "down"}
  PROVE  Step
<1>1. Shape' /\ BoxShape'
  BY DEF IInv, Shape, BoxShape, Finish, SoftwareTypeOK, Registered, Packages, Texts, Who
<1>2. Settled' /\ Credited'
  BY DEF IInv, Settled, Credited, Finish
<1>3. Box!Answer
  BY FinishLogs DEF IInv, Between, Finish, Box!Answer, TheBox, Done
<1>4. QED
  BY <1>1, <1>2, <1>3, FinishLogs DEF Step, IInv, Box!Next

(* Recording a line applies its effect to the box.                         *)
LEMMA RecordShape ==
  ASSUME IInv, pc # "idle", Record
  PROVE  /\ line \in Lines /\ line # NoLine
         /\ BoxShape'
         /\ TheBox' = Effect(line, TheBox)
<1>1. line \in Lines /\ line # NoLine
  BY DEF IInv, Shape, Between
<1>2. TheBox' = Effect(line, TheBox)
  BY DEF Record, Changed, TheBox, Effect
<1>3. files' = FilesAfter(line, files) /\ installed' = Effect(line, TheBox).installed
  BY DEF Record, Changed, TheBox, Effect
<1>4. BoxShape'
  BY <1>1, <1>3, EffectShape DEF IInv, BoxShape, SoftwareTypeOK, Registered, Packages
<1>5. QED
  BY <1>1, <1>2, <1>4

LEMMA RecordCounts ==
  ASSUME IInv, pc # "idle", Record
  PROVE  /\ pc \notin {"second", "second_rescue"} => applied = 0 /\ applied' = 1
         /\ pc \in {"second", "second_rescue"} => applied = 1 /\ applied' = 2
<1>1. /\ pc \notin {"second", "second_rescue"} => applied = 0
      /\ pc \in {"second", "second_rescue"} => applied = 1
  BY Zenon DEF IInv, Settled
<1>2. applied' = applied + 1
  BY Zenon DEF Record
<1>3. CASE pc \in {"second", "second_rescue"}
  <2>1. applied = 1
    BY <1>1, <1>3
  <2>2. QED
    BY <1>2, <1>3, <2>1
<1>4. CASE pc \notin {"second", "second_rescue"}
  <2>1. applied = 0
    BY <1>1, <1>4
  <2>2. QED
    BY <1>2, <1>4, <2>1
<1>5. QED
  BY <1>3, <1>4

LEMMA FinishSettles ==
  ASSUME NEW a, NEW b, Finish(a, b), applied' \in {1, 2}
  PROVE  Settled'
<1>1. pc' = "idle"
  BY DEF Finish
<1>2. pc' \notin {"second", "second_rescue"}
  BY <1>1
<1>3. applied' \in 0..2
  OBVIOUS
<1>4. QED
  BY <1>1, <1>2, <1>3, Zenon DEF Settled

LEMMA FinishRecorded ==
  ASSUME IInv, pc \notin {"idle", "second", "second_rescue"},
         NEW a \in Agents \cup {"none"}, NEW b \in Who, Finish(a, b), Record,
         a = "cowrie" => b \notin Models,
         UNCHANGED <<setup, net, shell>>, health' \in {"up", "down"}
  PROVE  Step
<1>1. Shape'
  BY DEF IInv, Shape, Finish, Texts, Who
<1>2. applied = 0 /\ applied' = 1
  BY RecordCounts
<1>3. Settled' /\ Credited'
  BY <1>2, FinishSettles DEF Credited, Finish
<1>4. Box!Answer
  <2>1. line # NoLine /\ line' = NoLine /\ InTheLogs' = "once"
    BY FinishLogs, RecordShape DEF Finish
  <2>2. TheBox' = Effect(line, TheBox) /\ Done = "pending" /\ Done' = "done"
    BY <1>2, RecordShape DEF Done
  <2>3. QED
    BY <2>1, <2>2 DEF Box!Answer
<1>5. QED
  BY <1>1, <1>3, <1>4, FinishLogs, RecordShape DEF Step, IInv, Box!Next

(* The second time it is applied to what it made the first time.           *)
LEMMA FinishAgain ==
  ASSUME IInv, pc \in {"second", "second_rescue"},
         NEW a \in Agents \cup {"none"}, NEW b \in Who, Finish(a, b), Record,
         a = "cowrie" => b \notin Models,
         UNCHANGED <<setup, net, shell>>, health' \in {"up", "down"}
  PROVE  Step
<1>1. Shape'
  BY DEF IInv, Shape, Finish, Texts, Who
<1>2. applied = 1 /\ applied' = 2
  BY RecordCounts
<1>3. Settled' /\ Credited'
  BY <1>2, FinishSettles DEF Credited, Finish
<1>4. TheBox' = Effect(line, TheBox)
  BY RecordShape
<1>5. Box!Answer
  <2>1. line # NoLine /\ line' = NoLine /\ InTheLogs' = "once"
    BY FinishLogs, RecordShape DEF Finish
  <2>2. Done = "done" /\ Done' = "again"
    BY <1>2 DEF Done
  <2>3. QED
    BY <1>4, <2>1, <2>2 DEF Box!Answer
<1>6. QED
  BY <1>1, <1>3, <1>5, FinishLogs, RecordShape DEF Step, IInv, Box!Next

(* Nothing of the box, nor of the logs, is touched on the way.             *)
LEMMA Onward ==
  ASSUME IInv, pc \notin {"idle", "second", "second_rescue"},
         pc' \notin {"idle", "second", "second_rescue"},
         UNCHANGED <<files, installed, line, rows, applied>>,
         Shape', Credited'
  PROVE  Step
<1>1. BoxShape' /\ Between' /\ Logged' /\ Settled'
  BY DEF IInv, BoxShape, Between, Logged, Settled, SoftwareTypeOK, Registered, Packages
<1>2. UNCHANGED Box!vars
  BY DEF Box!vars, TheBox, Done, InTheLogs
<1>3. QED
  BY <1>1, <1>2 DEF Step, IInv
-----------------------------------------------------------------------------
(* handle, action by action.                                               *)

LEMMA QuietArms ==
  ASSUME IInv,
         PasswdArm \/ AccountArm \/ BareAccountArm \/ EditorArm \/ CannedArm \/ CommandNotFound
           \/ MoveUntracked
  PROVE  Step
<1>0. health \in {"up", "down"} /\ net \in {"up", "down"}
  BY DEF IInv, Shape
<1>1. CASE PasswdArm
  BY <1>0, <1>1, FinishQuiet DEF PasswdArm, link, box, Agents, Who
<1>2. CASE AccountArm
  BY <1>0, <1>2, FinishQuiet DEF AccountArm, link, box, Agents, Who, Models
<1>3. CASE BareAccountArm
  <2>1. PICK h \in {"up", "down"}, who \in Sendings :
          AgentAnswers(h, who) /\ health' = h /\ Finish("cowrie", who)
    BY <1>3 DEF BareAccountArm
  <2>2. pc # "idle" /\ UNCHANGED <<setup, net, shell, files, installed, applied>>
    BY <1>3 DEF BareAccountArm, box
  <2>3. QED
    BY <2>1, <2>2, FinishQuiet DEF Sendings, Agents, Who, Models
<1>4. CASE EditorArm
  BY <1>0, <1>4, FinishQuiet DEF EditorArm, link, box, Agents, Who
<1>5. CASE CannedArm
  BY <1>0, <1>5, FinishQuiet DEF CannedArm, link, box, Agents, Who, Models
<1>6. CASE CommandNotFound
  BY <1>0, <1>6, FinishQuiet DEF CommandNotFound, link, box, Agents, Who, Models
<1>7. CASE MoveUntracked
  <2>1. OwnerRoute(line).agent \in Agents
    BY <1>7 DEF MoveUntracked, Local, Routed, Agents
  <2>2. QED
    BY <1>0, <1>7, <2>1, FinishQuiet
       DEF MoveUntracked, Local, Routed, link, box, Who, Models
<1>8. QED
  BY <1>1, <1>2, <1>3, <1>4, <1>5, <1>6, <1>7

LEMMA RecordedArms ==
  ASSUME IInv, SilentArm \/ InstallArm \/ NoEditorArm \/ LocalAnswer
  PROVE  Step
<1>0. health \in {"up", "down"}
  BY DEF IInv, Shape
<1>1. CASE SilentArm
  BY <1>0, <1>1, FinishRecorded DEF SilentArm, link, Agents, Who, Models
<1>2. CASE InstallArm
  BY <1>0, <1>2, FinishRecorded DEF InstallArm, link, Agents, Who, Models
<1>3. CASE NoEditorArm
  BY <1>0, <1>3, FinishRecorded DEF NoEditorArm, link, Agents, Who, Models
<1>4. CASE LocalAnswer
  <2>1. pc = "arms"
    BY <1>4 DEF LocalAnswer, Local, Routed
  <2>2. QED
    BY <1>0, <1>4, <2>1, FinishRecorded DEF LocalAnswer, link, Agents, Who, Models
<1>5. QED
  BY <1>1, <1>2, <1>3, <1>4

(* What the link says of who answered is true.                             *)
LEMMA ReturnShape ==
  ASSUME NEW h, NEW who \in Agents \cup Sendings, NEW t \in Texts, LinkReturns(h, who, t)
  PROVE  /\ who \in {"cowrie", "on_device", "nobody", "lost"}
         /\ h = "up" => who \notin Models
         /\ who = "nobody" => "on_device" \notin config.enabled
         /\ who = "lost" => t = "empty"
BY DEF LinkReturns, AgentAnswers, Degraded, Sendings, Models

LEMMA LinkShape ==
  ASSUME LinkAnswers
  PROVE  /\ health' \in {"up", "down"}
         /\ by' \in {"cowrie", "on_device", "nobody", "lost"}
         /\ text' \in Texts
         /\ health' = "up" => by' \notin Models
         /\ by' = "nobody" => "on_device" \notin config.enabled
<1>1. PICK h \in {"up", "down"}, who \in Agents \cup Sendings, t \in Texts :
        LinkReturns(h, who, t) /\ health' = h /\ by' = who /\ text' = t
  BY DEF LinkAnswers
<1>2. QED
  BY <1>1, ReturnShape

LEMMA OnwardArms ==
  ASSUME IInv, DownloadArm \/ AskCloud \/ AskOnDevice \/ ToCowrie \/ RunScript \/ RunUntracked
  PROVE  Step
<1>1. pc = "arms"
  BY DEF DownloadArm, AskCloud, AskOnDevice, ToCowrie, RunScript, RunUntracked, Routed, Local
<1>2. /\ UNCHANGED <<files, installed, line, rows, applied>>
      /\ pc' \in {"link", "link_history", "history", "model"}
  BY DEF DownloadArm, AskCloud, AskOnDevice, ToCowrie, RunScript, RunUntracked, Ask, Goto, box
<1>3. Shape'
  BY DEF IInv, Shape, DownloadArm, AskCloud, AskOnDevice, ToCowrie, RunScript, RunUntracked, Ask,
     Goto, box, link, Agents, Models, Who
<1>4. Credited'
  BY <1>1, <1>2 DEF Credited, DownloadArm, AskCloud, AskOnDevice, ToCowrie, RunScript,
     RunUntracked, Ask, Goto, Agents, Models
<1>5. QED
  BY <1>1, <1>2, <1>3, <1>4, Onward

LEMMA OnwardAnswers ==
  ASSUME IInv, Linked \/ Modelled \/ Rescued \/ History
  PROVE  Step
<1>1. /\ UNCHANGED <<files, installed, line, rows, applied>>
      /\ pc \in {"link", "link_history", "model", "rescue", "history"}
      /\ pc' \in {"record", "history", "rescue"}
  BY DEF Linked, Modelled, Rescued, History, Goto, box
<1>2. Shape' /\ Credited'
  <2>1. CASE Linked
    BY <2>1, LinkShape DEF IInv, Shape, Credited, Linked, Goto, box, Agents, Models, Who
  <2>2. CASE Modelled
    BY <2>2 DEF IInv, Shape, Credited, Modelled, Goto, box, link, Agents, Models, Who
  <2>3. CASE Rescued
    BY <2>3, LinkShape DEF IInv, Shape, Credited, Rescued, Goto, box, Agents, Models, Who
  <2>4. CASE History
    BY <2>4 DEF IInv, Shape, Credited, History, Goto, box, Agents, Models, Who
  <2>5. QED
    BY <2>1, <2>2, <2>3, <2>4
<1>3. QED
  BY <1>1, <1>2, Onward

(* A link that raises ends the line with nothing recorded or logged.        *)
LEMMA RaisedStep ==
  ASSUME IInv, Raised
  PROVE  Step
<1>1. Shape' /\ BoxShape'
  BY DEF IInv, Shape, BoxShape, Raised, box, link, SoftwareTypeOK, Registered, Packages, Texts, Who
<1>2. Between' /\ Logged' /\ Settled' /\ Credited'
  BY DEF IInv, Between, Logged, Settled, Credited, Raised, NoRows
<1>3. Box!Fail
  <2>1. line # NoLine /\ line' = NoLine /\ Raises
    BY DEF IInv, Between, Raised
  <2>2. TheBox' = TheBox /\ Done' = Done /\ InTheLogs' = InTheLogs
    BY DEF Raised, TheBox, Done, InTheLogs, box
  <2>3. QED
    BY <2>1, <2>2 DEF Box!Fail
<1>4. QED
  BY <1>1, <1>2, <1>3 DEF Step, IInv, Box!Next

LEMMA RecordedStep ==
  ASSUME IInv, Recorded
  PROVE  Step
<1>0. health \in {"up", "down"} /\ agent \in Agents \cup {"none"} /\ by \in Who
  BY DEF IInv, Shape, Who
<1>1. CASE Refused
  <2>1. /\ Record /\ asked' = "on_device" /\ pc' = "second"
        /\ UNCHANGED <<setup, net, shell, health, line, rows, agent, streamed, text, by>>
    BY <1>1 DEF Recorded, Goto, link
  <2>2. TheBox' = Effect(line, TheBox) /\ BoxShape' /\ line \in Lines
    BY <2>1, RecordShape DEF Recorded
  <2>3. applied = 0 /\ applied' = 1
    BY RecordCounts DEF Recorded
  <2>4. Shape'
    BY <2>1 DEF IInv, Shape, Models
  <2>5. Between' /\ Logged' /\ Credited'
    BY <2>1 DEF IInv, Between, Logged, Credited, Recorded
  <2>6. Settled'
    BY <2>1, <2>3 DEF Settled
  <2>7. Box!Apply
    BY <1>1, <2>1, <2>2, <2>3, RecordShape DEF Recorded, Box!Apply, Done, InTheLogs
  <2>8. QED
    BY <2>2, <2>4, <2>5, <2>6, <2>7 DEF Step, IInv, Box!Next
<1>2. CASE ~Refused
  BY <1>0, <1>2, FinishRecorded DEF Recorded, link, IInv, Credited
<1>3. QED
  BY <1>1, <1>2

LEMMA SecondStep ==
  ASSUME IInv, pc \in {"second", "second_rescue"}, NEW t, NEW who \in Who, Second(t, who),
         UNCHANGED <<setup, net, shell>>, health' \in {"up", "down"}
  PROVE  Step
<1>0. agent \in Agents \cup {"none"} /\ by \in Who /\ (agent = "cowrie" => by \notin Models)
  BY DEF IInv, Shape, Who, Credited
<1>1. CASE t \in {"empty", "not_found"}
  BY <1>0, <1>1, FinishQuiet DEF Second, box
<1>2. CASE t \notin {"empty", "not_found"}
  BY <1>2, FinishAgain DEF Second, Agents
<1>3. QED
  BY <1>1, <1>2

LEMMA SecondAnswers ==
  ASSUME IInv, SecondAnswer \/ SecondRescued
  PROVE  Step
<1>1. CASE SecondAnswer
  <2>0. asked \in Who /\ health \in {"up", "down"} /\ pc = "second"
    BY <1>1 DEF IInv, Shape, Models, Who, Agents, SecondAnswer
  <2>1. PICK t \in Texts :
          IF Broke(t)
          THEN Goto("second_rescue") /\ UNCHANGED <<box, agent, asked, streamed, text, by, applied>>
          ELSE Second(t, asked)
    BY <1>1 DEF SecondAnswer
  <2>2. CASE Broke(t)
    <3>1. /\ pc' = "second_rescue"
          /\ UNCHANGED <<setup, net, shell, health, files, installed, line, rows, agent, asked,
                         streamed, text, by, applied>>
      BY <1>1, <2>1, <2>2 DEF SecondAnswer, Goto, box, link
    <3>2. TheBox' = TheBox /\ Done' = Done /\ InTheLogs' = InTheLogs
      BY <3>1 DEF TheBox, Done, InTheLogs
    <3>3. Shape' /\ BoxShape' /\ Between' /\ Logged' /\ Credited'
      BY <2>0, <3>1 DEF IInv, Shape, BoxShape, Between, Logged, Credited, SoftwareTypeOK, Registered,
         Packages
    <3>4. Settled'
      BY <2>0, <3>1 DEF IInv, Settled
    <3>5. QED
      BY <3>1, <3>2, <3>3, <3>4 DEF Step, IInv, Box!vars
  <2>3. CASE ~Broke(t)
    BY <1>1, <2>0, <2>1, <2>3, SecondStep DEF SecondAnswer, link
  <2>4. QED
    BY <2>2, <2>3
<1>2. CASE SecondRescued
  <2>1. PICK h \in {"up", "down"}, who \in Agents \cup Sendings, t \in Texts :
          LinkReturns(h, who, t) /\ health' = h /\ Second(t, who)
    BY <1>2 DEF SecondRescued
  <2>2. /\ pc = "second_rescue" /\ health' \in {"up", "down"}
        /\ UNCHANGED <<setup, net, shell>>
    BY <1>2, <2>1 DEF SecondRescued
  <2>3. QED
    BY <2>1, <2>2, SecondStep DEF Who, Agents, Sendings
<1>3. QED
  BY <1>1, <1>2

LEMMA QuietStep ==
  ASSUME IInv, NetworkChanges \/ UNCHANGED vars
  PROVE  Step
<1>1. UNCHANGED <<setup, shell, health, files, installed, line, pc, agent, asked, streamed, text, by,
                  applied, rows>>
  BY DEF NetworkChanges, vars, link, box, turn
<1>2. net' \in {"up", "down"}
  BY DEF NetworkChanges, vars, link, IInv, Shape
<1>3. TheBox' = TheBox /\ Done' = Done /\ InTheLogs' = InTheLogs
  BY <1>1 DEF TheBox, Done, InTheLogs
<1>4. Shape' /\ BoxShape' /\ Between' /\ Logged' /\ Credited'
  BY <1>1, <1>2 DEF IInv, Shape, BoxShape, Between, Logged, Credited, SoftwareTypeOK, Registered, Packages
<1>5. Settled'
  BY <1>1 DEF IInv, Settled
<1>6. QED
  BY <1>1, <1>3, <1>4, <1>5 DEF Step, IInv, Box!vars

LEMMA EveryStep == IInv /\ [Next]_vars => Step
BY ReadStep, QuietArms, RecordedArms, OnwardArms, OnwardAnswers, RaisedStep, RecordedStep, SecondAnswers, QuietStep
   DEF Next, Handle
-----------------------------------------------------------------------------
(* Every variable has its type in every reachable state.                   *)
THEOREM TypeCorrect == Spec => []TypeOK
<1>1. IInv /\ [Next]_vars => IInv'
  BY EveryStep DEF Step
<1>2. QED
  BY <1>1, IInvInit, IInvTypeOK, PTL DEF Spec

(* Whoever answers a line, no row in Cowrie's name holds a model's words,  *)
(* for any lines, configurations and outages.                              *)
THEOREM CreditIsTrue == Spec => []NoModelInCowriesName
<1>1. IInv /\ [Next]_vars => IInv'
  BY EveryStep DEF Step
<1>2. IInv => NoModelInCowriesName
  BY DEF IInv, Credited, NoModelInCowriesName
<1>3. QED
  BY <1>1, <1>2, IInvInit, PTL DEF Spec

(* A session is one box: every step of handle is a step of OneBox or none, *)
(* so that a line changes the box twice only after a refusal of Cowrie.    *)
THEOREM OneBoxKept == Spec => Box!Safety
<1>1. IInv /\ [Next]_vars => IInv' /\ [Box!Next]_(Box!vars)
  BY EveryStep DEF Step
<1>2. QED
  BY <1>1, IInvInit, PTL DEF Spec, Box!Safety
-----------------------------------------------------------------------------
(* What an answer leaves undone.                                           *)

(* Where an outage is to be answered by nobody, there is no model.         *)
Silence == pc # "idle" /\ by = "nobody" => "on_device" \notin config.enabled

(* The lines that the answers without Record are for.                      *)
Writing == {"append", "fetch", "fetch_o"}

LEMMA NothingToRecord ==
  ASSUME BoxShape, NEW l \in Lines,
         l.form \notin Writing \cup {"apt_install", "apt_remove"},
         l.verb \notin {"rm", "mkdir", "touch", "sed"},
         l.verb = "mv" => files[l.path] = "none"
  PROVE  Effect(l, TheBox) = TheBox
<1>1. \A p \in Paths : FilesAfter(l, files)[p] = files[p]
  BY MvAssumption DEF FilesAfter, Becomes, Writing
<1>2. FilesAfter(l, files) = [p \in Paths |-> files[p]] /\ files = [p \in Paths |-> files[p]]
  <2>1. FilesAfter(l, files) = [p \in Paths |-> FilesAfter(l, files)[p]]
    BY DEF FilesAfter
  <2>2. QED
    BY <1>1, <2>1 DEF BoxShape
<1>3. QED
  BY <1>2 DEF Effect, TheBox

LEMMA ArmsForgetNothing ==
  ASSUME HasFileTools, IInv, pc # "idle",
         PasswdArm \/ AccountArm \/ BareAccountArm \/ EditorArm \/ CannedArm \/ CommandNotFound
           \/ MoveUntracked
  PROVE  Effect(line, TheBox) = TheBox
<1>0. BoxShape /\ line \in Lines
  BY DEF IInv, Shape, Between
<1>1. /\ line.form \notin Writing \cup {"apt_install", "apt_remove"}
      /\ line.verb \notin {"rm", "mkdir", "touch", "sed"}
      /\ line.verb = "mv" => files[line.path] = "none"
  <2>1. CASE PasswdArm
    BY <1>0, <2>1, FormsAssumption DEF Writing, PasswdArm
  <2>2. CASE AccountArm
    BY <1>0, <2>2, FormsAssumption DEF Writing, AccountArm, Accounts
  <2>3. CASE BareAccountArm
    BY <1>0, <2>3, FormsAssumption DEF Writing, BareAccountArm, Accounts
  <2>4. CASE EditorArm
    BY <1>0, <2>4, FormsAssumption DEF Writing, EditorArm, Editors
  <2>5. CASE CannedArm
    BY <1>0, <2>5, FormsAssumption DEF Writing, CannedArm
  <2>6. CASE CommandNotFound
    <3>1. ~Available(line.verb) /\ line.verb \notin {"echo", "cd", "./", "apt"}
      BY <2>6 DEF CommandNotFound, ReachesAModel
    <3>2. line.verb \notin {"touch", "mkdir", "rm", "mv", "sed"}
      BY <3>1 DEF HasFileTools, Available
    <3>3. line.form \notin {"fetch", "fetch_o"}
      BY <2>6 DEF CommandNotFound, TakenByAnArm
    <3>4. QED
      BY <1>0, <3>1, <3>2, <3>3, FormsAssumption DEF Writing
  <2>7. CASE MoveUntracked
    BY <2>7 DEF Writing, MoveUntracked
  <2>8. QED
    BY <2>1, <2>2, <2>3, <2>4, <2>5, <2>6, <2>7
<1>2. QED
  BY <1>0, <1>1, NothingToRecord

LEMMA AnswerForgetsNothing ==
  ASSUME HasFileTools, IInv, [Next]_vars, line # NoLine, line' = NoLine
  PROVE  \/ applied' >= 1
         \/ Effect(line, TheBox) = TheBox
         \/ by' = "error" /\ attribute = "absent" /\ health = "up"
<1>0. pc # "idle" /\ line \in Lines
  BY DEF IInv, Shape, Between
<1>1. ASSUME NEW l \in Lines, Read(l) PROVE FALSE
  BY <1>0, <1>1 DEF Read
<1>2. ASSUME Record PROVE applied' >= 1
  BY <1>0, <1>2, RecordCounts
<1>3. CASE PasswdArm \/ AccountArm \/ BareAccountArm \/ EditorArm \/ CannedArm \/ CommandNotFound
             \/ MoveUntracked
  BY <1>0, <1>3, ArmsForgetNothing
<1>4. CASE SilentArm \/ InstallArm \/ NoEditorArm \/ LocalAnswer \/ Recorded
  BY <1>2, <1>4 DEF SilentArm, InstallArm, NoEditorArm, LocalAnswer, Recorded
<1>5. CASE SecondAnswer \/ SecondRescued
  <2>1. applied = 1 /\ (applied' = applied \/ Record)
    BY <1>5 DEF IInv, Settled, SecondAnswer, SecondRescued, Second
  <2>2. QED
    BY <1>2, <2>1
<1>6. CASE \/ DownloadArm \/ AskCloud \/ RunScript \/ RunUntracked \/ AskOnDevice \/ ToCowrie
           \/ Linked \/ Modelled \/ Rescued \/ History
  <2>1. line' = line
    BY <1>6 DEF DownloadArm, AskCloud, RunScript, RunUntracked, AskOnDevice, ToCowrie, Linked,
       Modelled, Rescued, History, Goto, Ask
  <2>2. QED
    BY <2>1
<1>7. CASE Raised
  BY <1>7 DEF Raised, Raises
<1>8. CASE NetworkChanges \/ UNCHANGED vars
  BY <1>8 DEF NetworkChanges, vars, turn
<1>9. QED
  BY <1>1, <1>3, <1>4, <1>5, <1>6, <1>7, <1>8 DEF Next, Handle

LEMMA SilenceStep == IInv /\ Silence /\ [Next]_vars => Silence'
<1> SUFFICES ASSUME IInv, Silence, [Next]_vars PROVE Silence'
  OBVIOUS
<1>1. ASSUME NEW l \in Lines, Read(l) PROVE Silence'
  BY <1>1 DEF Read, Silence
<1>2. ASSUME NEW a, NEW b, Finish(a, b) PROVE Silence'
  BY <1>2 DEF Finish, Silence
<1>3. CASE \/ SilentArm \/ InstallArm \/ PasswdArm \/ AccountArm \/ BareAccountArm \/ EditorArm
           \/ NoEditorArm \/ CannedArm \/ CommandNotFound \/ LocalAnswer \/ MoveUntracked
           \/ Raised
  <2>1. pc' = "idle"
    BY <1>3 DEF SilentArm, InstallArm, PasswdArm, AccountArm, BareAccountArm, EditorArm,
       NoEditorArm, CannedArm, CommandNotFound, LocalAnswer, MoveUntracked, Raised, Finish
  <2>2. QED
    BY <2>1 DEF Silence
<1>4. CASE DownloadArm \/ AskCloud \/ RunUntracked \/ AskOnDevice \/ ToCowrie \/ History
  <2>1. by' = by /\ config' = config /\ pc # "idle"
    BY <1>4 DEF DownloadArm, AskCloud, RunUntracked, AskOnDevice, ToCowrie, History, Ask, Local, Routed
  <2>2. QED
    BY <2>1 DEF Silence
<1>5. CASE RunScript
  BY <1>5 DEF RunScript, Silence
<1>6. CASE Linked \/ Rescued
  BY <1>6, LinkShape DEF Linked, Rescued, Silence
<1>7. CASE Modelled
  BY <1>7 DEF Modelled, IInv, Credited, Silence, Models
<1>8. CASE Recorded
  <2>1. CASE Refused
    BY <1>8, <2>1 DEF Recorded, Silence
  <2>2. CASE ~Refused
    BY <1>2, <1>8, <2>2 DEF Recorded
  <2>3. QED
    BY <2>1, <2>2
<1>9. CASE SecondAnswer
  <2>1. PICK t \in Texts :
          IF Broke(t)
          THEN Goto("second_rescue") /\ UNCHANGED <<box, agent, asked, streamed, text, by, applied>>
          ELSE Second(t, asked)
    BY <1>9 DEF SecondAnswer
  <2>2. CASE Broke(t)
    BY <1>9, <2>1, <2>2 DEF SecondAnswer, Silence
  <2>3. CASE ~Broke(t)
    BY <1>2, <2>1, <2>3 DEF Second
  <2>4. QED
    BY <2>2, <2>3
<1>10. CASE SecondRescued
  <2>1. PICK h \in {"up", "down"}, who \in Agents \cup Sendings, t \in Texts :
          LinkReturns(h, who, t) /\ health' = h /\ Second(t, who)
    BY <1>10 DEF SecondRescued
  <2>2. QED
    BY <1>2, <2>1 DEF Second
<1>11. CASE NetworkChanges \/ UNCHANGED vars
  BY <1>11 DEF NetworkChanges, vars, turn, Silence
<1>12. QED
  BY <1>1, <1>3, <1>4, <1>5, <1>6, <1>7, <1>8, <1>9, <1>10, <1>11 DEF Next, Handle

LEMMA OutageStep ==
  ASSUME IInv, Silence, [Next]_vars, line # NoLine, line' = NoLine, by' = "nobody"
  PROVE  "on_device" \notin config.enabled \/ line.form = "bare" \/ line.verb = "mv"
<1>0. pc # "idle" /\ line \in Lines
  BY DEF IInv, Shape, Between
<1>1. ASSUME NEW a, Finish(a, by) PROVE "on_device" \notin config.enabled
  BY <1>0, <1>1 DEF Finish, Silence
<1>2. ASSUME NEW l \in Lines, Read(l) PROVE FALSE
  BY <1>0, <1>2 DEF Read
<1>3. CASE \/ SilentArm \/ InstallArm \/ PasswdArm \/ AccountArm \/ EditorArm
           \/ NoEditorArm \/ CannedArm \/ CommandNotFound \/ LocalAnswer \/ Raised
  <2>1. by' \in {"local", "error"}
    BY <1>3 DEF SilentArm, InstallArm, PasswdArm, AccountArm, EditorArm, NoEditorArm, CannedArm,
       CommandNotFound, LocalAnswer, Raised, Finish
  <2>2. QED
    BY <2>1
<1>4. CASE BareAccountArm \/ MoveUntracked
  BY <1>4 DEF BareAccountArm, MoveUntracked
<1>5. CASE Recorded
  <2>1. CASE Refused
    BY <1>0, <1>5, <2>1 DEF Recorded, Goto
  <2>2. CASE ~Refused
    BY <1>1, <1>5, <2>2 DEF Recorded
  <2>3. QED
    BY <2>1, <2>2
<1>6. CASE SecondAnswer
  <2>1. PICK t \in Texts :
          IF Broke(t)
          THEN Goto("second_rescue") /\ UNCHANGED <<box, agent, asked, streamed, text, by, applied>>
          ELSE Second(t, asked)
    BY <1>6 DEF SecondAnswer
  <2>2. asked # "nobody"
    BY DEF IInv, Shape, Models
  <2>3. CASE Broke(t)
    BY <1>0, <2>1, <2>3 DEF Goto
  <2>4. CASE ~Broke(t)
    BY <1>1, <2>1, <2>2, <2>4 DEF Second, Finish
  <2>5. QED
    BY <2>3, <2>4
<1>7. CASE SecondRescued
  <2>1. PICK h \in {"up", "down"}, who \in Agents \cup Sendings, t \in Texts :
          LinkReturns(h, who, t) /\ health' = h /\ Second(t, who)
    BY <1>7 DEF SecondRescued
  <2>2. who = "nobody" => "on_device" \notin config.enabled
    BY <2>1, ReturnShape
  <2>3. QED
    BY <1>1, <2>1, <2>2 DEF Second, Finish
<1>8. CASE \/ DownloadArm \/ AskCloud \/ RunScript \/ RunUntracked \/ AskOnDevice \/ ToCowrie
           \/ Linked \/ Modelled \/ Rescued \/ History
  <2>1. line' = line
    BY <1>8 DEF DownloadArm, AskCloud, RunScript, RunUntracked, AskOnDevice, ToCowrie, Linked,
       Modelled, Rescued, History, Goto, Ask
  <2>2. QED
    BY <2>1
<1>9. CASE NetworkChanges \/ UNCHANGED vars
  BY <1>9 DEF NetworkChanges, vars, turn
<1>10. QED
  BY <1>2, <1>3, <1>4, <1>5, <1>6, <1>7, <1>8, <1>9 DEF Next, Handle

(* On a box that has the tools for files, a line that ends without being   *)
(* recorded is one that records nothing, the arms that skip record being   *)
(* all for lines of no effect, or one whose link raised, which takes the   *)
(* build without the attribute and a Cowrie believed to be up.             *)
THEOREM NothingIsForgotten ==
  ASSUME HasFileTools
  PROVE  Spec => NothingForgotten
<1>1. IInv /\ [Next]_vars => IInv'
  BY EveryStep DEF Step
<1>2. IInv /\ [Next]_vars =>
        [line # NoLine /\ line' = NoLine =>
           \/ applied' >= 1
           \/ Effect(line, TheBox) = TheBox
           \/ by' = "error" /\ attribute = "absent" /\ health = "up"]_vars
  BY AnswerForgetsNothing
<1>3. QED
  BY <1>1, <1>2, IInvInit, PTL DEF Spec, NothingForgotten

(* Silence at an outage that was found out is for a box without a model,   *)
(* and for the two lines the property names.                               *)
THEOREM OutagesAreAnswered == Spec => OutageIsAnswered
<1>1. IInv /\ [Next]_vars => IInv'
  BY EveryStep DEF Step
<1>2. Init => Silence
  BY DEF Init, Silence
<1>3. IInv /\ Silence /\ [Next]_vars =>
        [line # NoLine /\ line' = NoLine /\ by' = "nobody" =>
           \/ "on_device" \notin config.enabled
           \/ line.form = "bare"
           \/ line.verb = "mv"]_vars
  BY OutageStep
<1>4. QED
  BY <1>1, <1>2, <1>3, SilenceStep, IInvInit, PTL DEF Spec, OutageIsAnswered
=============================================================================
