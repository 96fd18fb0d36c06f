------------------------------ MODULE Dispatch ------------------------------
(* Who answers a line, who is credited with it and what is recorded of it:  *)
(* handle of shell/session.py, with core/router.py, shell/routing.py, the   *)
(* owner tests of shell/fakefs.py, and shell/software.py.  A line is a      *)
(* record of what the code's tests tell apart, after sudo, busybox and the  *)
(* environment prefix have been taken off:                                  *)
(*   verb   its first word; "./" runs a file                                *)
(*   form   the syntax the special arms look for, or "plain"                *)
(*   path, to   the files it names, typed "absolute" or "relative"          *)
(*   pkg    the package of an apt command                                   *)
(* A file is tracked as "empty" (no content: touch, mkdir, what the box     *)
(* starts with), as text we hold, as "placeholder" (a download nobody       *)
(* marked) or "cowrie" (a download marked as Cowrie's).  The text is one of *)
(* two, and an edit turns each into the other: an edit done again shows.    *)
(* The delta log is left to ReplayFs, the link's inner steps to CowrieSync. *)
EXTENDS Software, Naturals, FiniteSets

CONSTANTS Lines,     \* the lines that may be typed
          Paths,
          Configs,   \* [enabled, routing, validate]: config.yaml
          Builds,    \* is the agent's attribute `generation` "present" or "absent"?
          MinFi      \* logging.fi_threshold

Agents  == {"cowrie", "on_device", "cloud"}
Models  == {"on_device", "cloud"}
NoLine  == [verb |-> "none", form |-> "none", path |-> "none", to |-> "none",
            typed |-> "none", pkg |-> "none"]
Texts   == {"ok", "empty", "not_found", "no_exec", "persona_break"}
Ours    == {"ours_1", "ours_2"}
Tracked == {"none", "empty", "placeholder", "cowrie"} \cup Ours

ASSUME LinesAssumption ==
    /\ "none" \notin Paths
    /\ NoLine \notin Lines
    /\ \A l \in Lines : {l.path, l.to} \subseteq Paths \cup {"none"}

ASSUME MvAssumption ==
    \A l \in Lines : l.verb = "mv" => l.form = "plain" /\ l.path \in Paths /\ l.to \in Paths

ASSUME AptAssumption ==
    \A l \in Lines : l.form \in {"apt_install", "apt_remove"} => l.pkg \in Packages

ASSUME BuildsAssumption == Builds \subseteq {"present", "absent"}

\* The patterns of StateTracker are anchored to the word they are about.
ASSUME FormsAssumption ==
    \A l \in Lines : /\ l.form = "append" => l.verb = "echo"
                     /\ l.form \in {"fetch", "fetch_o"} => l.verb \in {"wget", "curl"}
                     /\ l.form \in {"apt_install", "apt_remove"} => l.verb = "apt"
                     /\ l.form = "canned_find" => l.verb = "find"

ASSUME ConfigsAssumption ==
    \A k \in Configs : /\ k.enabled \subseteq Agents
                       /\ k.enabled # {}
                       /\ k.routing \in [0..4 -> Agents]
                       /\ k.validate \in {"on", "off"}

VARIABLES
    config,     \* the configuration, fixed for the run
    attribute,  \* whether the agent has the attribute `generation`
    net,        \* whether Cowrie can be reached: "up", "down"
    shell,      \* the agent's first connection: "opened", "never"
    health,     \* CowrieAgent.available: "up", "down"
    files,      \* SYSTEM_STATE["files"]
    line, pc,   \* the line being answered and what comes next
    agent,      \* who is to be credited
    asked,      \* the model being asked
    streamed,   \* "yes": the attacker has seen the output already
    text, by,   \* the output and who really produced it: "local" for the
                \* session itself, "lost" for a send that nothing came back
                \* of, "error" for an exception
    applied,    \* how often this line's effect was applied
    rows        \* rows of the latest line: session history, telemetry, impact

setup == <<config, attribute>>
link == <<net, shell, health>>
box  == <<files, installed>>
turn == <<line, pc, agent, asked, streamed, text, by, applied>>
vars == <<setup, link, box, turn, rows>>

(* ---------------------------- the FI score ----------------------------- *)
FiVerbs == [f \in 0..4 |->
    CASE f = 0 -> {"cat", "ls", "find", "diff", "hostname"}
      [] f = 1 -> {"touch", "mkdir", "apt", "wget", "curl", "echo"}
      [] f = 2 -> {"mv", "rm", "sed", "chmod", "cd", "vi"}
      [] f = 3 -> {"nc", "bash", "./"}
      [] f = 4 -> {"passwd", "useradd", "userdel"}]

\* The most severe band that matches; text no rule knows scores 3.
Fi(l) == IF \E f \in 0..4 : l.verb \in FiVerbs[f]
         THEN CHOOSE f \in 0..4 : l.verb \in FiVerbs[f] ELSE 3

(* ------------------------------- routing ------------------------------- *)
Authoritative == {"wget", "curl", "cd"}
Unimplemented == {"diff"}
Editors  == {"vi", "vim", "nano", "emacs"}
Accounts == {"adduser", "useradd", "userdel"}

Strongest(s) == CASE "cloud" \in s -> "cloud"
                  [] "cloud" \notin s /\ "on_device" \in s -> "on_device"
                  [] OTHER -> "cowrie"

Classify(l) ==
    LET on == config.enabled
        target == config.routing[Fi(l)]
    IN IF Cardinality(on) = 1 THEN CHOOSE a \in on : TRUE
       ELSE IF l.verb \in Unimplemented
            THEN IF "on_device" \in on THEN "on_device" ELSE Strongest(on \ {"cowrie"})
       ELSE IF l.verb \in Authoritative /\ "cowrie" \in on THEN "cowrie"
       ELSE IF target \in on THEN target ELSE Strongest(on)

CloudRouted(l) == config.routing[Fi(l)] = "cloud"

Named(l) == {l.path, l.to} \cap Paths

\* Exact tokens only: a relative name is not found among the absolute keys.
LocallyOwned(l) == /\ l.typed = "absolute"
                   /\ \E p \in Named(l) : files[p] \notin {"none", "cowrie"}

CowrieOwned(l) == \E p \in Named(l) : files[p] = "cowrie"

WithContent == {"placeholder", "cowrie"} \cup Ours

\* "./x" is looked up by its relative name, which is never a key.
NeedsModel(l) ==
    IF l.form = "version" THEN Available(l.verb)
    ELSE \/ l.verb \in {"hostname"}
         \/ InstalledByAttacker(l.verb)
         \/ l.verb = "bash" /\ l.typed = "absolute" /\ l.path \in Paths
            /\ files[l.path] \in WithContent
         \/ l.verb = "cat" /\ l.path \in Paths /\ files[l.path] \in {"placeholder"} \cup Ours
         \/ l.verb = "sed" /\ l.typed = "absolute" /\ l.path \in Paths /\ files[l.path] # "none"

\* The three corrections that follow classify, in their order.
OwnerRoute(l) ==
    LET first == Classify(l)
        ours  == LocallyOwned(l) /\ first = "cowrie"
        a     == IF ours THEN "on_device" ELSE first
        n     == ours \/ NeedsModel(l)
        his   == CowrieOwned(l) /\ "cowrie" \in config.enabled
        a2    == IF his THEN "cowrie" ELSE a
        dead  == a2 = "cowrie" /\ health = "down"
    IN [agent |-> IF dead THEN "on_device" ELSE a2,
        model |-> dead \/ (n /\ ~his)]

ReachesAModel(l, r) == \/ r.agent # "cowrie"
                       \/ r.model
                       \/ Available(l.verb)
                       \/ l.verb \in {"echo", "cd", "./", "apt"}

(* ------------------------ what a line changes -------------------------- *)
\* StateTracker.record.  A redirection without a command (">f") matches none
\* of its patterns; what is appended is quoted, and a substitution matches.
Edited(was) == IF was = "ours_1" THEN "ours_2" ELSE "ours_1"

Becomes(l, was) ==
    IF l.form = "append" THEN Edited(was)
    ELSE IF l.form = "fetch" THEN "cowrie"
    ELSE IF l.form = "fetch_o" THEN "placeholder"
    ELSE IF l.verb = "sed" /\ was \in Ours THEN Edited(was)
    ELSE IF l.verb \in {"rm", "mv"} THEN "none"
    ELSE IF l.verb = "mkdir" \/ (l.verb = "touch" /\ was = "none") THEN "empty"
    ELSE was

FilesAfter(l, f) ==
    [p \in Paths |-> IF p = l.path THEN Becomes(l, f[p])
                     ELSE IF p = l.to /\ l.verb = "mv" /\ f[l.path] # "none" THEN f[l.path]
                     ELSE f[p]]

Effect(l, b) ==
    [files     |-> FilesAfter(l, b.files),
     installed |-> IF l.form = "apt_remove" THEN Without(b.installed, l.pkg)
                   ELSE IF l.form = "apt_install" THEN With(b.installed, l.pkg)
                   ELSE b.installed]

TheBox == [files |-> files, installed |-> installed]

Changed(l) == LET b == Effect(l, TheBox)
              IN files' = b.files /\ installed' = b.installed

\* tracker.record, for whichever agent answered.
Record == Changed(line) /\ applied' = applied + 1

(* ------------------------------- a turn -------------------------------- *)
Init == /\ config \in Configs
        /\ attribute \in Builds
        /\ net \in {"up", "down"}
        /\ shell = IF net = "up" THEN "opened" ELSE "never"
        /\ health = net
        /\ files \in [Paths -> {"none", "empty"}]
        /\ SeedPreInstalled
        /\ line = NoLine /\ pc = "idle" /\ agent = "none" /\ asked = "none"
        /\ streamed = "no" /\ text = "ok" /\ by = "none" /\ applied = 0
        /\ rows = [session |-> 1, telemetry |-> 1, impact |-> 0]

(* Mutation: the counts of the last line are not reset.                     *)
Read_RowsKept(l) ==
    /\ pc = "idle"
    /\ line' = l /\ pc' = "arms"
    /\ agent' = "none" /\ asked' = "none" /\ streamed' = "no"
    /\ text' = "ok" /\ by' = "none" /\ applied' = 0
    /\ UNCHANGED <<setup, link, box, rows>>

Read(l) == /\ pc = "idle"
           /\ line' = l /\ pc' = "arms"
           /\ agent' = "none" /\ asked' = "none" /\ streamed' = "no"
           /\ text' = "ok" /\ by' = "none" /\ applied' = 0
           /\ rows' = [session |-> 0, telemetry |-> 0, impact |-> 0]
           /\ UNCHANGED <<setup, link, box>>

\* _finish: the three logs, one after the other, and the line is answered.
Finish(a, b) ==
    /\ agent' = a /\ by' = b
    /\ rows' = [session   |-> rows.session + 1,
                telemetry |-> rows.telemetry + 1,
                impact    |-> rows.impact + IF Fi(line) >= MinFi THEN 1 ELSE 0]
    /\ line' = NoLine /\ pc' = "idle"
    /\ asked' = "none" /\ streamed' = "no" /\ text' = "ok"   \* locals of handle

Goto(step) == pc' = step /\ UNCHANGED <<line, rows>>

(* --------------------------- Cowrie's answers --------------------------- *)
\* One send of CowrieAgent, with CowrieSync's outcomes: Cowrie ran it; the
\* channel took it and nothing came back before the time-out, of which the
\* agent notices nothing; or the agent found out that Cowrie is gone.
Sendings    == {"cowrie", "lost", "nobody"}
Unreachable == net = "down" \/ shell = "never"

AgentAnswers(h, who) ==
    \/ ~Unreachable /\ h = "up" /\ who = "cowrie"
    \/ shell = "opened" /\ "up" \in {net, health} /\ h = "up" /\ who = "lost"
    \/ Unreachable /\ h = "down" /\ who = "nobody"

(* Mutation: no model stands in for a dead container.                       *)
Degraded_NoFallback(who, t) == who = "nobody" /\ t = "empty"

\* The on-device model answers in Cowrie's place, unvalidated.
Degraded(who, t) == IF "on_device" \in config.enabled
                    THEN who = "on_device" ELSE who = "nobody" /\ t = "empty"

\* catch_up reads `generation` before the call's own try.
Raises == attribute = "absent" /\ health = "up"

\* CowrieLink.send when it returns: the agent's health, who answered and what.
\* Without the attribute it does so for a Cowrie known to be down, which it
\* then never tries.
LinkReturns(h, who, t) ==
    /\ ~Raises
    /\ \E sent \in Sendings :
         /\ IF attribute = "present" THEN AgentAnswers(h, sent) ELSE h = "down" /\ sent = "nobody"
         /\ CASE sent = "cowrie" -> who = "cowrie" /\ t # "persona_break"
              [] sent = "lost"   -> who = "lost" /\ t = "empty"
              [] sent = "nobody" -> Degraded(who, t)

LinkAnswers == \E h \in {"up", "down"}, who \in Agents \cup Sendings, t \in Texts :
                  LinkReturns(h, who, t) /\ health' = h /\ by' = who /\ text' = t

(* ------------------- the arms that come before routing ------------------ *)
\* Assignments, redirections and the static commands: recorded, answered here.
SilentArm == /\ pc = "arms"
             /\ line.form \in {"assign", "redirect", "static"}
             /\ Record /\ Finish("cowrie", "local")
             /\ UNCHANGED <<setup, link>>

InstallArm == /\ pc = "arms"
              /\ line.form = "apt_install"
              /\ Record /\ Finish("cowrie", "local")
              /\ UNCHANGED <<setup, link>>

\* wget and curl go to Cowrie whatever the routing and its health say.
DownloadArm == /\ pc = "arms"
               /\ line.form \in {"fetch", "fetch_o"}
               /\ streamed' = "yes"
               /\ Goto("link")
               /\ UNCHANGED <<setup, link, box, agent, asked, text, by, applied>>

PasswdArm == /\ pc = "arms"
             /\ line.verb = "passwd" /\ ~CloudRouted(line)
             /\ Finish("on_device", "local")
             /\ UNCHANGED <<setup, link, box, applied>>

AccountArm == /\ pc = "arms"
              /\ line.verb \in Accounts /\ line.form = "plain" /\ ~CloudRouted(line)
              /\ Finish("cowrie", "local")
              /\ UNCHANGED <<setup, link, box, applied>>

\* The same without a name: the agent is used behind the link's back.
BareAccountArm ==
    /\ pc = "arms"
    /\ line.verb \in Accounts /\ line.form = "bare" /\ ~CloudRouted(line)
    /\ \E h \in {"up", "down"}, who \in Sendings :
         AgentAnswers(h, who) /\ health' = h /\ Finish("cowrie", who)
    /\ UNCHANGED <<setup, net, shell, box, applied>>

EditorArm == /\ pc = "arms"
             /\ line.verb \in Editors /\ Available(line.verb)
             /\ Finish("on_device", "local")
             /\ UNCHANGED <<setup, link, box, applied>>

CannedArm == /\ pc = "arms"
             /\ line.form = "canned_find"
             /\ Finish("cowrie", "local")
             /\ UNCHANGED <<setup, link, box, applied>>

\* An editor that is not installed is a static command.
NoEditorArm == /\ pc = "arms"
               /\ line.verb \in Editors /\ ~Available(line.verb)
               /\ Record /\ Finish("cowrie", "local")
               /\ UNCHANGED <<setup, link>>

TakenByAnArm ==
    \/ line.form \in {"assign", "redirect", "static", "apt_install", "fetch", "fetch_o",
                      "canned_find"}
    \/ line.verb \in Editors
    \/ line.verb \in {"passwd"} \cup Accounts /\ ~CloudRouted(line)

(* ------------------------------- routed -------------------------------- *)
Routed(a) == /\ pc = "arms" /\ ~TakenByAnArm
             /\ ReachesAModel(line, OwnerRoute(line))
             /\ OwnerRoute(line).agent = a

\* The branch for the on-device model and for lines that need a model.
Local == /\ \E a \in {"cowrie", "on_device"} : Routed(a)
         /\ OwnerRoute(line).agent = "on_device" \/ OwnerRoute(line).model

CommandNotFound == /\ pc = "arms" /\ ~TakenByAnArm
                   /\ ~ReachesAModel(line, OwnerRoute(line))
                   /\ Finish("cowrie", "local")
                   /\ UNCHANGED <<setup, link, box, applied>>

Ask(model) == /\ agent' = model /\ asked' = model /\ Goto("model")
              /\ UNCHANGED <<setup, link, box, streamed, text, by, applied>>

AskCloud == Routed("cloud") /\ Ask("cloud")

\* sudo-less --version, touch, mkdir, mv of a tracked file and sed.
AnsweredHere == line.form = "version" \/ line.verb \in {"touch", "mkdir", "mv", "sed"}

(* Mutation: an answer given here is not recorded.                          *)
LocalAnswer_Unrecorded ==
    /\ Local /\ AnsweredHere
    /\ ~(line.verb = "mv" /\ files[line.path] = "none")
    /\ Finish(IF line.verb \in {"touch", "mkdir", "mv"} THEN "cowrie" ELSE "on_device", "local")
    /\ UNCHANGED <<setup, link, box, applied>>

LocalAnswer ==
    /\ Local /\ AnsweredHere
    /\ ~(line.verb = "mv" /\ files[line.path] = "none")
    /\ Record
    /\ Finish(IF line.verb \in {"touch", "mkdir", "mv"} THEN "cowrie" ELSE "on_device", "local")
    /\ UNCHANGED <<setup, link>>

\* mv of a file nobody tracks leaves the chain of cases without an answer.
MoveUntracked == /\ Local
                 /\ line.form = "plain" /\ line.verb = "mv" /\ files[line.path] = "none"
                 /\ Finish(OwnerRoute(line).agent, "nobody")
                 /\ UNCHANGED <<setup, link, box, applied>>

Runs(l) == l.verb \in {"./", "bash"} /\ l.path \in Paths

\* A script whose text we hold is run line by line, here or by the model.
RunScript == /\ Local /\ ~AnsweredHere /\ "on_device" \in config.enabled
             /\ Runs(line) /\ files[line.path] \in Ours
             /\ \E who \in {"local", "on_device"} : by' = who
             /\ agent' = "on_device" /\ streamed' = "yes" /\ Goto("history")
             /\ UNCHANGED <<setup, link, box, asked, text, applied>>

\* A file nobody tracks is for Cowrie to run, or to refuse.
RunUntracked == /\ Local /\ ~AnsweredHere /\ "on_device" \in config.enabled
                /\ Runs(line) /\ files[line.path] = "none"
                /\ streamed' = "yes" /\ Goto("link_history")
                /\ UNCHANGED <<setup, link, box, agent, asked, text, by, applied>>

AskOnDevice == /\ Local /\ ~AnsweredHere /\ "on_device" \in config.enabled
               /\ ~(Runs(line) /\ files[line.path] \in {"none"} \cup Ours)
               /\ Ask("on_device")

ToCowrie == /\ \/ Routed("cowrie") /\ ~OwnerRoute(line).model
               \/ Local /\ ~AnsweredHere /\ "on_device" \notin config.enabled
            /\ Goto("link")
            /\ UNCHANGED <<setup, link, box, agent, asked, streamed, text, by, applied>>

(* --------------------------- the agents' answers ------------------------ *)
(* Mutation: the agent that was asked is credited.                          *)
Linked_AskedIsCredited ==
    /\ pc \in {"link", "link_history"}
    /\ LinkAnswers
    /\ agent' = "cowrie"
    /\ Goto(IF pc = "link" THEN "record" ELSE "history")
    /\ UNCHANGED <<setup, net, shell, box, asked, streamed, applied>>

Linked == /\ pc \in {"link", "link_history"}
          /\ LinkAnswers
          /\ agent' = IF health' = "up" THEN "cowrie" ELSE "on_device"
          /\ Goto(IF pc = "link" THEN "record" ELSE "history")
          /\ UNCHANGED <<setup, net, shell, box, asked, streamed, applied>>

\* _llm_send: an answer out of character, after its retry, is not shown.
Broke(t) == t = "persona_break" /\ config.validate = "on"

Modelled == /\ pc = "model"
            /\ \E t \in Texts :
                 IF Broke(t) THEN Goto("rescue") /\ UNCHANGED <<text, by>>
                             ELSE Goto("history") /\ text' = t /\ by' = asked
            /\ UNCHANGED <<setup, link, box, agent, asked, streamed, applied>>

\* Cowrie is asked instead; which agent answered is dropped by the caller.
Rescued == /\ pc = "rescue"
           /\ LinkAnswers
           /\ Goto("history")
           /\ UNCHANGED <<setup, net, shell, box, agent, asked, streamed, applied>>

\* The link raises out of handle: ssh_server answers "bash: error" in its
\* place, and the line is neither recorded nor logged.
Raised == /\ pc \in {"link", "link_history", "rescue", "second_rescue"}
          /\ Raises
          /\ line' = NoLine /\ pc' = "idle"
          /\ agent' = "none" /\ by' = "error"
          /\ asked' = "none" /\ streamed' = "no" /\ text' = "ok"
          /\ UNCHANGED <<setup, link, box, applied, rows>>

\* sync_history: skipped while Cowrie is known to be down, and one more way to
\* find out that it is (the agent's _connect lowers the flag first).
History == /\ pc = "history"
           /\ health' \in IF health = "up" THEN {net, "up"} ELSE {"down"}
           /\ Goto("record")
           /\ UNCHANGED <<setup, net, shell, box, agent, asked, streamed, text, by, applied>>

\* Cowrie refuses what the box has: a second opinion is worth asking for.
Refused == /\ agent = "cowrie" /\ streamed = "no"
           /\ text \in {"not_found", "no_exec"}
           /\ Available(line.verb)
           /\ "on_device" \in config.enabled

(* Mutation: a refusal is logged before the second opinion is asked for.    *)
Recorded_LogsFirst ==
    /\ pc = "record"
    /\ Record
    /\ IF Refused
       THEN /\ asked' = "on_device" /\ pc' = "second"
            /\ rows' = [rows EXCEPT !.session = @ + 1, !.telemetry = @ + 1]
            /\ UNCHANGED <<line, agent, streamed, text, by>>
       ELSE Finish(agent, by)
    /\ UNCHANGED <<setup, link>>

Recorded == /\ pc = "record"
            /\ Record
            /\ IF Refused
               THEN asked' = "on_device" /\ Goto("second") /\ UNCHANGED <<agent, streamed, text, by>>
               ELSE Finish(agent, by)
            /\ UNCHANGED <<setup, link>>

\* A better answer replaces Cowrie's refusal, and the line is recorded again.
Second(t, who) ==
    IF t \in {"empty", "not_found"}
    THEN Finish(agent, by) /\ UNCHANGED <<box, applied>>
    ELSE Finish("on_device", who) /\ Record

SecondAnswer == /\ pc = "second"
                /\ \E t \in Texts :
                     IF Broke(t)
                     THEN Goto("second_rescue")
                          /\ UNCHANGED <<box, agent, asked, streamed, text, by, applied>>
                     ELSE Second(t, asked)
                /\ UNCHANGED <<setup, link>>

SecondRescued ==
    /\ pc = "second_rescue"
    /\ \E h \in {"up", "down"}, who \in Agents \cup Sendings, t \in Texts :
         LinkReturns(h, who, t) /\ health' = h /\ Second(t, who)
    /\ UNCHANGED <<setup, net, shell>>

(* ---------------------------- specification ----------------------------- *)
\* The container stops, or is started again.
NetworkChanges == /\ net' = IF net = "up" THEN "down" ELSE "up"
                  /\ UNCHANGED <<setup, shell, health, box, turn, rows>>

Handle == \/ SilentArm \/ InstallArm \/ DownloadArm \/ PasswdArm \/ AccountArm
          \/ BareAccountArm \/ EditorArm \/ NoEditorArm \/ CannedArm
          \/ CommandNotFound \/ AskCloud \/ LocalAnswer \/ MoveUntracked
          \/ RunScript \/ RunUntracked \/ AskOnDevice \/ ToCowrie
          \/ Linked \/ Modelled \/ Rescued \/ Raised \/ History \/ Recorded
          \/ SecondAnswer \/ SecondRescued

Next == (\E l \in Lines : Read(l)) \/ Handle \/ NetworkChanges

Spec == Init /\ [][Next]_vars

\* handle runs to its end: every wait in it has a time-out.
FairSpec == Spec /\ WF_vars(Handle)

(* ------------------------------ properties ------------------------------ *)
TypeOK == /\ config \in Configs /\ attribute \in Builds
          /\ net \in {"up", "down"} /\ shell \in {"opened", "never"} /\ health \in {"up", "down"}
          /\ files \in [Paths -> Tracked]
          /\ SoftwareTypeOK
          /\ line \in Lines \cup {NoLine}
          /\ pc \in {"idle", "arms", "link", "link_history", "model", "rescue", "history",
                     "record", "second", "second_rescue"}
          /\ agent \in Agents \cup {"none"} /\ asked \in Models \cup {"none"}
          /\ streamed \in {"yes", "no"}
          /\ text \in Texts
          /\ by \in Agents \cup {"none", "local", "nobody", "lost", "error"}
          /\ applied \in 0..2
          /\ rows \in [session : 0..1, telemetry : 0..1, impact : 0..1]

\* "send() returns WHICH agent actually answered so the log records the truth
\* rather than crediting Cowrie for the model's output" (cowrie_link.py:17): no
\* row in Cowrie's name holds what a model wrote, through outages, rescues and
\* second opinions.
NoModelInCowriesName == pc = "idle" /\ agent = "cowrie" => by \notin Models

\* The tools that change files without a redirection or a download: what the
\* box must have for the next property.
HasFileTools == {"touch", "mkdir", "rm", "mv", "sed"} \subseteq Base

\* "RUNS FOR EVERY AGENT, ALWAYS" (state.py:9): when a line is answered, its
\* effect has been recorded, or there is nothing it would still change.  One
\* build forgets, the one at hand: a line for a Cowrie believed to be up, which
\* the link answers with an exception.
NothingForgotten ==
    [][line # NoLine /\ line' = NoLine =>
         \/ applied' >= 1
         \/ Effect(line, TheBox) = TheBox
         \/ by' = "error" /\ attribute = "absent" /\ health = "up"]_vars

\* An outage that the agent finds out is never answered with silence while
\* there is a model to answer (cowrie_link.py:12).  Two lines do not keep this:
\* an account command without a name, and mv of a file nobody tracks.  A send
\* that is "lost" finds out nothing, and is silence whatever is enabled.
OutageIsAnswered ==
    [][line # NoLine /\ line' = NoLine /\ by' = "nobody" =>
         \/ "on_device" \notin config.enabled
         \/ line.form = "bare"
         \/ line.verb = "mv"]_vars

Done == CASE applied = 0 -> "pending" [] applied = 1 -> "done" [] OTHER -> "again"

InTheLogs == IF rows = [session |-> 0, telemetry |-> 0, impact |-> 0] THEN "no"
             ELSE IF rows.session = 1 /\ rows.telemetry = 1 THEN "once" ELSE "wrong"

Box == INSTANCE OneBox WITH
         Starts <- {[files |-> f, installed |-> PreInstalled] : f \in [Paths -> {"none", "empty"}]},
         box    <- TheBox,
         state  <- Done,
         logged <- InTheLogs,
         refused <- IF Refused THEN "yes" ELSE "no",
         link   <- IF Raises THEN "raises" ELSE "returns"

\* The session keeps the promise of OneBox: one row in each log for an answer,
\* one change at most, two where Cowrie's refusal was answered again, none and
\* no row for a line that raised, and in the end an answer.
KeepsOneBox == Box!Spec
=============================================================================
