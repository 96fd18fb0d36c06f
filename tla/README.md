# HydraPoT: verification project

TLA+ models of HydraPoT, the SSH honeypot in `src/`, with the TLC runs that
check them and the TLAPS proofs about them.  Every definition is translated from
the source; `PROJECT.json` says from which lines.

## The system

An attacker's SSH connection is accepted by `core/ssh_server.py` on one asyncio
loop.  Each channel is a coroutine that reads lines; building the session's
handler and answering each command happen in worker threads
(`asyncio.to_thread`).  `shell/session.py` decides for each command who answers
it: a deterministic handler, the Cowrie container (a real emulator behind its
own SSH connection), the on-device model, or a cloud model.  What a command
changes is tracked in the session's state (`shell/state.py`), and because
several of the answering agents have a memory of their own, or none, the state
is replayed into Cowrie before Cowrie answers anything (`shell/cowrie_link.py`).
Each answered command is written to SQLite and pushed to SIEM exporters
(`shell/telemetry.py`, `core/storage.py`, `threat_intel/exporters.py`).  A
sweeper thread, and a dashboard that is another process, correlate the stored
commands into detections, raise alerts in the same SQLite file, and deliver
them (`threat_intel/alert_records.py`).

| component | state it keeps | operations | talks to |
|---|---|---|---|
| Cowrie link and agent (`shell/cowrie_link.py`, `agent_manager/cowrie_agent.py`) | checkpoint, synced generation; channel, health flag | send, catch_up, sync, sync_history, _connect | tracker (reads state and deltas), Cowrie |
| State tracker (`shell/state.py`) | SYSTEM_STATE, delta log | record | link, prompts |
| File view (`shell/fakefs.py`) | none of its own | compute_cd, cowrie_owned, locally_owned | tracker |
| Dispatch (`shell/session.py`, `shell/routing.py`, `core/router.py`) | last agent, session history | handle | all agents, tracker, telemetry |
| Responders, software (`shell/responders.py`, `shell/software.py`, `agent_manager/static_handler.py`) | installed packages, services | answers from state | dispatch |
| SSH server (`core/ssh_server.py`) | session counter, per-connection flag, prompt directory | connection_made, connection_lost, _shell_session | thread pool, dispatch |
| On-device model (`agent_manager/ondevice_agent.py`) | the model, `_MODEL_LOCK` | _generate | dispatch |
| Cloud model (`agent_manager/cloud_agent.py`, `core/key_rotation.py`) | key pool position | send with back-off, rotate | dispatch |
| Guardrail (`guardrail/`) | compiled detectors | detect, validate | dispatch |
| Telemetry (`shell/telemetry.py`) | none | record | storage, exporters |
| Storage (`core/storage.py`) | SQLite tables sessions, auth, impactful, alerts, health | insert_command, upsert_alert, set_alert_state, prune, queries | everyone |
| Exporters (`threat_intel/exporters.py`, `plugins/plugin_loader.py`) | buffer and lock per exporter | emit, export_finding, flush | collectors |
| Alert pipeline (`threat_intel/alert_records.py`, `sweeper.py`) | alert rows | sweep, raise_alerts, route_alerts | storage, exporters, sinks |
| Analysis (`threat_intel/correlation.py`, `detection.py`, `severity.py`, ...) | none (pure) | correlate, detect, rate | alert pipeline |
| Dashboard, API (`console/`, `api/`) | caches | load_detections, warm_caches, set state | storage, alert pipeline |
| Retention (`core/storage.py`, `tools/prune_logs.py`, `main.py`) | none; SQLite's transaction | prune | storage |
| Set-up wizard (`cli/setup_wizard.py`) | config.yaml | run_wizard, review_and_edit, save_config | every part, at its next start |
| HoneyRouter, tools, cost, fine-tuning, experiments | their own files | offline | - |

**What is hard here.**  A remote shell that may vanish between any two sends and comes
back empty; a log that holds pointers, not values; worker threads that outlive their
connection; one lock before one model; statements that look like one transaction and are
two; two processes running the same pipeline on one table; batches whose failure must
cost neither the other exporters nor the attacker's session; twenty branches that each
answer a line and must each record it; deletion while others insert; caches built from
caches; verdicts recomputed from different rows that must not contradict each other.
`PROJECT.json` lists these hazards one by one, at their lines, with the property that
covers each or the reason none does.

**What makes each component correct.**  Link: a line credited to Cowrie was taken by a
connection, and by a shell in step with the session.  Tracker and replay: after a
catch-up the two file systems agree on what the session changed.  Server: exact slots,
one thread in the model, nobody blocked behind a hung generation.  Telemetry, storage,
exporters: every command stored or its loss reported, numbered without gaps, forwarded
once and in order to every exporter that wants it.  Alerts: nothing stamped undelivered,
nothing exported twice, no analyst's work undone, and what names a sink delivered in the
end as long as the unrouted alerts fit in one query.  Dispatch: whoever answers, the
session is one box that answers each line once, logs it once and changes once, with two
exceptions that are named, and no model's words are logged in Cowrie's name.  Retention:
what goes has a reason in the policy, what has one goes, and the report says so.
Dashboard: what is shown is never older than the caches' life allows.  Detection: absent
evidence decides nothing, and one link has one severity.  Wizard: hand-written settings
that are not empty survive, and the routing table names agents that exist.

## The modules

### CowrieSync - one session's link to Cowrie

`CowrieLink.send` and `catch_up`, statement by statement where the connection
can break in between; the tracker's delta log is a sequence that says for each
change who ran it.  `applied` is what the newest shell has really seen, which
the code cannot know; change 0 is the realignment of the directory that opens a
rebuild.

| model | code |
|---|---|
| `shell`, `gen`, `available` | the agent's channel, the count `generation` stands for, the health flag |
| `deltas`, `ckpt`, `syncedGen` | `StateTracker.deltas`, `cowrie_ckpt`, `_synced_gen` |
| `AgentSend`, `Carried` | `CowrieAgent.send` / `send_streaming`: one resend after one reconnect, and what becomes of the line |
| `BeginSend`, `CatchUp`, `BeginPass`, `Realign`, `Replay`, `Settle`, `PassesExhausted`, `Run`, `Finish` | `send` and the loop of `catch_up` |
| `Caught`, `Raise` | an exception inside and outside send's `try` |
| `LocalCommand`, `SyncHistory` | a command another agent answers, and its replay of history |
| `Break`, `Resume` | the environment leaves the connection hanging or closes it; a hung one comes back |

A send has four fates (`Fates`).  The line is run; or it is accepted by a connection
that hangs and waits there (`pending`), to be run if the connection comes back; or it
is accepted by one that dies and is lost; or every attempt is refused.  After the
second and the third the agent's collection times out with `""`, `available` stays True
and nothing reconnects, so the link credits the silence to Cowrie.  The properties say
what is true all the same: a credited line was accepted by a channel
(`CreditedAgentTookIt`), it runs on or waits in a shell that makes every earlier change
first unless the connection died with it (`AnswerOnSyncedShell`), and no checkpoint
claims a change that a living synced shell will not make (`CheckpointHonest`).  A late
answer, read as the answer of the next line, is not modelled: texts are left out.

The constant `Builds` says whether the agent carries the attribute `generation`
("present", as the protocol was written for) or not ("absent", the agent of this
commit); a session has one of them.  The passing run checks both, the run that finds
`send` raising the second alone.  Generations are only compared, so a new shell takes
any of the names `Shells` that no variable remembers, and the environment may force a
reconnect at every send for ever.

### ReplayFs - what the replay does to the files

Both file systems are in the state: the tracked `files` and `cwd` and the tree of
Cowrie's current shell.  `FilesAfter` and `CwdAfter` are `StateTracker.record`,
`Pointers` is `_log_deltas`, `Replayed` is `_delta_cmds` with the `sync` of its
commands. A catch-up goes as in the code: `BeginPass` reads the generation (`synced`
says whether it is the checkpoint's, `steady` whether it still is the one the pass began
with), `Replay` takes one pointer, and at the end of the log the pass is `Settled` or
there is a `PassAgain`; a `Reconnect`, which empties Cowrie's machine, may come between
any two. A text is the set of its lines.  Cowrie's commands (`Exec`) are external and do
what POSIX says.  `escaped` marks what a command that Cowrie ran changed there and the
tracker did not log (`rm -rf`, files it does not know); the properties do not speak of
such a path until the next shell.  What becomes of a single send is CowrieSync's (here a
line is carried out by the time it is looked for), and so is the bound of four passes:
here a pass that did not hold still may settle unsynced at any time.  `NamesApart` names
the sessions the promise is for: a name used for a file and later for a directory, and
`chmod` on a directory, are the two known ways the replay goes wrong
(`cowrie_link.py:184`, `fakefs.py:37`). Not modelled: `sed -i`, `curl -o`, variables,
packages, users and services (their deltas replay nothing).

### Sessions - who gets in, and who gets the model

`ConnectionMade`, `ConnectionRefused`, `ConnectionLost` are `HoneypotServer`;
`OpenShell`, `Command`, `EndShell` are `_shell_session`; `StartJob` is the pool,
first in, first out; `WantModel`, `GiveUp`, `Acquire`, `Release` are
`OnDeviceAgent._generate`.  A job survives its connection.

### Alerts - from a detection to an alert somebody got

The sweeper and any number of dashboard threads run the same pipeline.  `Lookup`
and `Upsert` are the two transactions of `upsert_alert`; `Query`, `NextAlert`,
`Send` and `SendDone` are `route_alerts` over the rows it read at the start;
`Export` is the sweeper's push of new findings; `SetState` is an analyst with a
page that may be old; `Abort` is an exception or a restart anywhere.  The
analysis is the environment: `finding[k]` is the first alert rule the key's
detection clears at the moment.

### Evidence - what becomes of an answered command

A worker is answering a line from `Ask` to `Finish`, which hands over to
`Telemetry.record`.  `Select` and `Insert` are the two statements of `insert_command`;
`WriteFails` the exception with its one retry.  `Emit`, `Flush`, `SendOne`, `SendRaises`
are an exporter, whose lock is held through the sends; `Find` starts `export_finding` in
the sweeper thread.  `Shutdown` is the signal that stops and closes the event loop
(`core/ssh_server.py:443`): from then on no line is read, but the loop's executor is not
joined, so workers go on answering and recording.  `FlushLeftover` is `flush_exporters`
in the main thread beside them, and `Exit` the interpreter's exit, which joins the
workers and flushes no more. The history `late` keeps, for each exporter, the lines
under way when the flush came to it, `wire` and `dropped` what the collectors took and
what they did not.  A collector missing from the settings returns without sending, and a
bulk request fails as a whole: for the batch both are the exception.  Not modelled: the
JSON-lines store, and authentication events, which take the same path as commands.

### Dispatch, Software, OneBox - who answers a line, and what is recorded

`Dispatch` is `handle` of `shell/session.py`.  A line is a record of what the code's
tests tell apart (its verb, the syntax the special arms look for, the files it names
and how they are typed, the package).  `Read` takes a line; the arms that come before
routing (`SilentArm` to `CannedArm`) are actions of their own; `Classify`, `NeedsModel`
and `OwnerRoute` are `core/router.py`, `shell/routing.py` and the three corrections
after `classify`; what follows is the agent's answer in the order of the code:

| model | code |
|---|---|
| `Ask`, `Modelled`, `Rescued` | `_llm_send`: the answer, its retry (one step), Cowrie asked instead |
| `Linked`, `LinkReturns`, `Degraded` | `_cowrie_send` and `CowrieLink.send`: Cowrie, silence, or the fallback to the model |
| `Raised` | the exception of `catch_up` that leaves `handle`, and the server's `bash: error` |
| `LocalAnswer`, `MoveUntracked`, `RunScript`, `RunUntracked` | the branches that answer from the state |
| `History` | `sync_history`, which can discover that Cowrie is gone |
| `Recorded`, `Refused`, `SecondAnswer`, `SecondRescued` | `tracker.record`, then the second opinion after "command not found" |
| `Finish` | `_finish`: history, telemetry, impact log |
| `NetworkChanges` | the container stops or starts, between any two steps |

`setup` is the configuration and the build of the agent (`Builds`, as in CowrieSync); a
session has one of each.  With the attribute absent, a line for a Cowrie that is believed
to be up ends in `Raised`: it is answered with an error, neither recorded nor logged.
With the attribute present a line for Cowrie is taken (`"cowrie"`), or taken and never
answered (`"lost"`: silence in Cowrie's name), or refused by an agent that notices the
outage (`"nobody"`), and then the model or nobody stands in.

`by` is who really produced the output, `agent` who is credited, `applied` how often
the line's effect was applied.  A file is tracked as empty, ours, a placeholder or
Cowrie's; of our text the model keeps two states between which an edit moves, so an append
or a `sed -i` that is recorded twice shows.  Full texts and deltas are ReplayFs', the
link's inner steps CowrieSync's.
Redirection without a command records nothing, `./x` is looked up by its relative
name and so never found, `curl -o` leaves a download nobody marked, and `remove` takes
out the typed name where `install` registered the canonical one: all as the code does.

`Software` is `shell/software.py`.  `OneBox` is an abstract specification: a box, a
line, one answer, one log entry, one change per line, and the two exceptions the code
makes: a line that a first agent refused ("command not found") may change the box a second
time, and a line whose link raised ends without a change and a log entry.  `KeepsOneBox`
is the refinement, with the mapping `box <- TheBox`, `state <- Done`,
`logged <- InTheLogs`; its safety is also proved.

### Retention - what prune deletes

`CountOld`, `DeleteOld`, `CountOver`, `DeleteOver`, `Commit` are the statements of `prune`
over one table and its transaction, which opens at the first DELETE, so that a row may
come between a count and its delete; `Insert` is the sensor or an import,
which brings rows with old timestamps; `Fails` is a kill or an exception anywhere.
VACUUM is left out.

### Console - how old a page may be

`ids` is the sessions table by its row ids, `val`, `age`, `ver` the caches; a value is
the set of rows it was computed from.  Three caches stand for all: `frame` (`load_all`,
by age only), `overview` (`load_overview` and `load_detections`, by age and highest row
id) and `page` (`_cached_page`, built from both).  `Look`, `Query`, `Store` are the
steps between which another thread may run; `Refresh` is `clear_caches`.

### Detection - from rows to verdicts

`Correlate`, `Detecting`, `Shown`, `Evaluate`, `Alerting`, `AlertKey` are
`correlation.py`, `detection.py`, `severity.py` and the rule part of
`alert_records.py`, as pure operators; rules are data, and `Loaded` is what the
loaders make of them, malformed ones included.  `Sweep` analyses all rows of one
sensor, `Render` a window of one or of all; both upsert into `alerts`.

### Setup - the wizard over config.yaml

`Start` reads the file, `Quick` and `Custom` with `Answer`, `GoBack` walk through it,
`Edit` and `CancelEdit` are the review screen, `Save` and `Write` the two steps of
writing (truncate, dump), `HandEdit` the operator between runs.  A block that is carried
over is the template's, written by hand, or written and empty; `OrTemplate` is
`existing or DEFAULT`, which replaces the last.  An address answered with a blank is
left out by the custom road and written as it is by the review screen.

### How the modules fit

Dispatch takes the link as the outcomes CowrieSync gives it - taken, taken and not
answered, refused, and for the agent without the attribute raised -; CowrieSync and
ReplayFs take Dispatch's choice as the environment's; Evidence begins where Dispatch's
`Finish` ends; Retention deletes from the table Evidence fills and Console reads;
Detection computes what Alerts takes as `finding`; Alerts' exports are Evidence's
findings (`export_finding` is one step there and a thread here).

## The runs

| run | configuration | shows |
|---|---|---|
| cowrie_sync | 2 changes, 4 passes, reconnects without a limit, with and without the attribute | the link's promise, the honesty of the checkpoint, and that every send ends |
| cowrie_sync_raises (violation) | the same, without the attribute only | `send` raises |
| replay_fs | five paths, one word, four deltas | existence, permissions, text and directory agree after a catch-up |
| sessions | 3 connections, 3 channels on two of them, cap 2, 2 workers, 2 calls | slots, lock and progress |
| alerts | 2 alerts, a rule with two sinks and one without, a query of one row, sweeper and dashboard, one event | delivery, export and analyst's state |
| evidence | two sessions (2 and 1 commands), one finding, three of these together, 2 exporters, one without a timeout, batches of 2, 1 fault | rows, numbers, streams, shutdown, and that logging ends |
| dispatch | 28 kinds of line, two files, four configurations, both builds | credit, recording, fallback, and the refinement of OneBox |
| retention | 2 sensors, 4 rows, 16 policies | protection, reasons, bounds, the report, the dry run |
| retention_wipe (violation) | the same | a cap with a protected instance deletes everything else |
| console | a request and the warming thread, one row, TTL of 2 | how far a page lags, Refresh, and that every row is shown |
| detection | 3 sessions, 2 sources, 2 sensors, 2 commands, 4 rows, 2 analyses | verdicts that do not contradict each other |
| setup | two carried blocks, three hand-written tables | what survives the wizard |

Deadlock is checked in cowrie_sync, cowrie_sync_raises, alerts, dispatch, retention,
console and setup.  In replay_fs the log reaches its bound, in sessions every
connection may be gone, in evidence the process stops, and detection reaches the
bounds on rows and runs: those systems really come to rest.

### Bounds

- `MaxVersion` 2: a change before and a change by the command.  `Shells` has four
  names because three variables may remember one (`CowrieSyncAssumption`); the number
  of reconnects has no bound, and `reconnects` counts "two or more" as 2.  `MaxPasses`
  is the code's own 4, and all that ends a command whose every send reconnects.
- `MaxLog` 4: a command, one to undo or overwrite it, and a move, which takes two
  deltas.  The five paths are the home, a directory that no configuration
  declares, a file of Cowrie's own, a directory the session makes and a file in
  it.
- Three connections over a cap of two are the least that refuse; two channels on
  one connection are the least that break the count of jobs; two workers, because
  with one a hung generation stops everything (`OthersKeepMoving` needs two, and
  Python's default pool has at least five).
- Alerts: two keys and a query of one row, so that an alert that is never stamped can
  keep another out of the query (checked once also with a query of two); one event from
  outside (a click, a changed finding, a failed delivery or an abort) at every moment.
  The proofs have no such bound.
- Evidence: batches of two are the least that hold back an event.  `MaxFaults` counts
  the commands whose write fails, not the attempts, so that one fault is a retry or a
  row's loss, or an event's.  `MaxAll` 3 keeps any three of the three commands and the
  finding, which meet in one buffer from three threads.
- Dispatch: a line for every arm and every branch; one file that lines write, run and
  remove and one that is only moved; configurations as shipped, without the cloud and
  with every band to Cowrie, Cowrie alone, and without Cowrie.  The length of a session
  is not bounded.
- Retention: four rows over a cap of two put a protected, an old and a new row on both
  sides of the cut.
- Console: one row is enough for a build that missed it, or kept it; the invariants
  were also checked once with two rows (6.9 million states, too long for a regular
  run).  TTL 2 is the least with an age between fresh and expired.
- Detection: three sessions, because two that share something need a third that does
  not; "many" is 2 instead of the shipped 25.
- Setup: no bound but the sets of blocks and tables; the wizard may run again for ever.

### Fairness

- CowrieSync: the session's own steps.  A send ends by its timeouts.
- Sessions: the pool starts jobs, a thread outside the model goes on, and a wait for
  the lock ends by its timeout (`model_wait_timeout`; a value of 0 waits for ever
  and is excluded).  A generation may hang: no fairness on `Release`.
- Alerts: the sweeper's steps only, which `main.py` starts when a channel is
  configured; nobody has to open a dashboard.
- Evidence: each thread's work but the sends of an exporter in `Untimed` (`Prompt`).
  Writes give up after SQLite's busy timeout, HTTP sends after `urlopen`'s 5 s, and a
  datagram does not wait; a syslog exporter over TCP sets no socket timeout, so nothing
  is assumed of its sends, and nothing of a lock behind one: `LoggingEnds` says that a
  record ends or is stuck behind such a send for ever.  Python's lock is not fair, but
  the events are bounded and each rival gives it back or is stuck.  Nothing is assumed of
  an answer, the stop or the exit.
- Dispatch: `handle` runs to its end; every wait in it has a time-out.
- Console: time passes, a call that was begun returns, and an open dashboard goes on
  asking (its interval callback does).

No fairness is assumed of the attacker, the network's recovery, the analyst or
the server's stopping.

## Disagreements met

Shown by a run:

1. `catch_up` and `send` read `CowrieAgent.generation`, which is never set: the
   first command through the link raises (`SendNeverRaises`).
2. `prune` with `max_rows` and `protect_instances` and no age deletes every row of every
   instance that is not protected, instead of keeping the newest (`KeepsNewest`).

Met while modelling, and in the model as the code has them:

- A line accepted by a connection that hangs or is dying is answered with silence, in
  Cowrie's name, and no model stands in: the collection times out with `""`, `available`
  stays True and nothing reconnects (`agent_manager/cowrie_agent.py:181`).
  `shell/cowrie_link.py:98` says `send` returns `agent_that_actually_answered`.
- With an agent without `generation`, every line for a Cowrie believed to be up raises out
  of `handle`: the attacker reads `bash: error` (`core/ssh_server.py:341`), and the line is
  neither recorded in the state nor logged.  Once a send has failed the link does not
  look for Cowrie again before something else has brought the flag back.
- A line recorded twice after "command not found" appends twice or substitutes twice
  (`shell/session.py:1012`), where `shell/state.py:15` calls a repeated record idempotent.
- A syslog collector over TCP that stops reading holds the sending thread, and behind the
  exporter's lock everyone who exports, the final flush included
  (`threat_intel/exporters.py:292`), where `shell/telemetry.py:13` says that logging must
  never kill a session.
- The final flush runs while workers may still answer and record lines
  (`main.py:335`); what they bring after it is never sent
  (`plugins/plugin_loader.py:328`: "call on shutdown").
- Alerts of a rule that only records are never stamped and stay among the 500 newest
  unrouted rows a query returns, so enough of them keep an older alert from ever being
  delivered, which `threat_intel/alert_records.py:418` does not foresee.
- The wizard replaces a hand-written empty value (`static_commands: []`, which
  `core/config_loader.py:632` honours) by the template (`cli/setup_wizard.py:954`), where
  its docstring says that it never wipes hand-edited values (`cli/setup_wizard.py:905`).
- `cd` into a directory only Cowrie knows moves Cowrie and not the tracker
  (`shell/state.py:130` says every `cd` is tracked).
- The connection cap bounds connections; a connection's channels and the worker
  threads that outlive it are not counted (`core/ssh_server.py:60`).
- A finding that a dashboard render raised first is "updated" for every later sweep and
  never exported (`threat_intel/alert_records.py:290`).
- Two sessions of one second share a SESSION_ID; a row can be dropped by INSERT OR
  IGNORE without the report `shell/telemetry.py:115` speaks of.
- `flush_interval_sec` is read and never used (`threat_intel/export/syslog.yml:28`).
- An alert's key begins with the first rule that surfaced it: a link that gains a second
  source is surfaced by another rule first and becomes a second alert
  (`threat_intel/alert_records.py:184` calls the identity stable).
- A cached page is built from cached values, so its half from `load_all` may be twice
  the TTL old (`console/data.py:45` says it adds no staleness); the bound is
  `FrameLagIsBounded`.
- A dry run counts a row that is both old and over the cap twice (`core/storage.py:664`).
- A dashboard render of a window overwrites an alert's counts with the window's.
- Cowrie's shell that could not be opened when the session began is never opened later.
- `mv` of a file nobody tracks is answered with nothing and not recorded.
- The wizard: quick mode drops a remote model's `mode` and `base_url` (`_keep_remote`
  serves the custom road only); a file that is not YAML is read as empty and
  overwritten; an item given up half way keeps its first half and leaves the table as it
  was; `routing.fi_fallback` and some honeypot settings are not carried over; an empty
  answer keeps a cloud address that was set, although two prompts offer "blank" as a
  choice; a single space removes it on the custom road (`cli/setup_wizard.py:838`) and
  is written as the address by the review screen; Ctrl-C after saving prints "No changes
  written".

## The proofs

The proof modules hold for every value of the constants that satisfies the named
assumptions of the modules.

- **CowrieSync_proofs.**  `AnswerOnSyncedShell` looks only at a finished reply, so it
  is not inductive.  `IInv` adds what leads there: the checkpoint describes the shell
  it is filed under and what waits in its connection, also for changes the tracker was
  told Cowrie ran (`Live`, `Made`); a rebuild in progress describes the shell it began on;
  every repeated pass cost a reconnect, so that a command with at most one reconnect
  cannot run out of passes (from `MaxPasses >= 2`).  A new shell's name is one that no
  variable remembers, so an old checkpoint is never taken for its own.
- **Sessions_proofs.**  The counter is the size of a set that grows or shrinks by one
  element; the lock's holder is the thread in the model because a job is in the
  pool's queue once and leaves it before it runs.
  The module's second part is about **ReplayFs**, for any trees, names, words and any
  length of log.  `ExistenceAndPerms`, `WrittenTextArrives` and `CwdInStep` speak of a
  caught-up Cowrie only; `ReplayInv` says what is true at every pointer on the way
  (`Follows`): a path that is logged and has no pointer still due is on Cowrie as the
  tracker has it now, and the directories up to the checkpoint stand.  That the next value
  can be made where it belongs rests on the log's order (`LogInv`: a directory's pointer
  comes before those of what is in it), that it disturbs nothing else on the trees' shape
  (`FilesInv`, `TreeInv`), and that the last `cd` succeeds on `CwdInv`.  What Cowrie ran
  itself is logged as ours and so due again, except a download, which is shown to have
  landed.  The three theorems have the hypothesis `NamesApart`, which TLC evaluates on the
  run's constants; Cowrie's own tree has to be one (`ReplayFsAssumption`).
- **Alerts_proofs.**  What a pass remembers stays true while others work, since rows are
  never deleted and deliveries never undone; a finding can be exported again only if it
  can be new again, which it cannot once its row exists.
- **Dispatch_proofs.**  `NoModelInCowriesName` speaks of an idle session.  `IInv` says
  the same of every later step that holds an answer (`history`, `record`, `second`,
  `second_rescue`), and that at `model` and `rescue` a model is both asked and to be
  credited. `OneBoxKept` needs in addition that no log was written before a line is
  finished (`Shape`) and that the box is what `applied` says of it (`Settled`); the
  second recording maps to OneBox's second change, which only a refused line may make,
  and `Raised` to the step that ends a line without either.  `OutagesAreAnswered` is
  about the outages the agent finds out and follows a second invariant: an answer that
  no responder gave came from a model that was up, or from the rescue.
  `NothingIsForgotten` holds under the hypothesis `HasFileTools` - the shell, the file
  commands and the package manager's way of installing them are in the box's catalogue
  -, without which a responder may refuse a command the tracker has recorded; TLC
  evaluates it on the run's catalogue (`ShippedBox`).  `FormsAssumption` is what
  StateTracker's anchored patterns give: a line is recognised as at most one of the
  forms it records.
- **Evidence_proofs.**  The invariant comes in two halves.  Rows: a thread between SELECT
  and INSERT holds the number of rows its SESSION_ID then had, and nobody else of that
  SESSION_ID is between the two, so the numbers stay `0 .. n-1`; a command is in a row, in a
  thread, or among those the silent error swallowed.  Streams: what was emitted is, exporter
  by exporter, what was sent followed by what a flusher holds followed by the buffer, in
  order, because the exporter's lock (`Roles`, `Locking`) is held from the take to the send;
  `CommandsAreFlushed` follows the final flush from exporter to exporter (`Reached`,
  `Flushed`): behind it a buffer or batch holds nothing but findings and the lines of
  `late`, since a line that was not under way then is never begun.
- **Retention_proofs.**  The set a pass deletes holds no protected row, and the open
  transaction's view differs from the table by rows with a reason; both are kept by every
  insert because a writer waits while the transaction is open.  The counts need a second
  invariant: what each pass counted is the cardinality of what it deletes (or would), and
  the newest rows a cap keeps are no more than the cap, by an injection of ranks.
- **Detection_proofs.**  Members of a shared sequence have the same commands, so the
  evidence is a function of the link; `alerts` only holds severities that are that
  function's.  `MoreIsNeverMilder` needs that every condition of a severity rule is a
  lower bound, which the loader's list of conditions guarantees.  `WhatIsShownStays` says
  that a link an analyst sees is still seen after more rows: between two sweeps members,
  sources and scopes only grow and a sequence's footprint is fixed.  It has a hypothesis
  about the rule files, `LargerIsNotHidden`: no suppressing rule asks for "at least" and no
  surfacing rule for "at most".  `load_rules` does not enforce that; the shipped
  `detection_rules.yml` satisfies it, which TLC evaluates on the run's copy
  (`ShippedRules`).  A rule file without it can hide a campaign because it grew.
  The module's last part is about **Console**: the invariant `PagesInv` says of every value,
  cached or in a thread's hands, that it has every row up to the version it is tagged
  with, every row older than the value itself, and, of what the last undisturbed Refresh
  knew, all that remains and nothing that was gone.  The bound of `FramesLagLittle` comes
  from a page being begun before the frame it asks for.
- **Setup_proofs.**  The draft after each assembly follows the agents, and the edits that
  are not followed by one only switch agents on.  For the hand edits, the invariant says
  what of `existing` the draft still holds at each step, section by section; that an
  assembly keeps what is not empty is a lemma of its own (`BuiltIs`).

Model-checked only: liveness (`EverySendReturns`, `OthersKeepMoving`, `CatchesUp`,
`LoggingEnds`, `EventuallyShown` and the last conjunct of `KeepsOneBox`), which is out of
the prover's reach with ENABLED.

## Not modelled

Text: prompts, formatting, pattern tables, the responders' answers, MITRE mapping, the
guardrail's classifiers.  In Dispatch the arms that only the experiments force, users and
the passwd dialogue, version texts, and the working directory (ReplayFs has it).  The line
loop of the SSH server, with its own copy of the directory.  The cloud agent's back-off
and the rotation of keys.  The dashboard's layout and exports, the API (read-only but for
`SetState`), authentication events, the HoneyRouter and everything offline.
`PROJECT.json` lists each part.

Most of the repository's lines are of these kinds (pages and charts, tables of patterns and
texts, numeric research tooling, experiment scripts): they keep no state of their own, and
a model of them would restate them.

## Plan

Done, in this order: CowrieSync, ReplayFs, Sessions, Alerts, Evidence; then Dispatch with
Software and the refinement of OneBox, Retention, Console, Detection and Setup; proofs of
every safety property a passing run checks.

What is left, most useful first:

1. **KeyPool**: `rotate` under concurrent failures with the cloud agent's retry.
2. Two sessions over the shared starting files; the server's directory against the
   tracked one.
3. Dispatch with ReplayFs: what the second recording of a line sends to Cowrie.
