------------------------------ MODULE ReplayFs ------------------------------
(***************************************************************************)
(* What CowrieLink.catch_up does to Cowrie's files.                        *)
(*                                                                         *)
(* StateTracker.record (shell/state.py) applies each command to the tracked *)
(* state and logs a pointer, never a value, for every path that changed.   *)
(* catch_up (shell/cowrie_link.py) walks the pointers past the checkpoint, *)
(* reads the value each path has NOW, and makes Cowrie match with a few    *)
(* shell commands.  Here the two file systems are both in the state, and a *)
(* catch-up goes pointer by pointer: a reconnect, which throws Cowrie's    *)
(* shell away, may come between any two.  What became of each single send  *)
(* is CowrieSync's.                                                        *)
(*                                                                         *)
(* Cowrie is external: its commands do what the POSIX ones do, which is    *)
(* what the code relies on.  The text of a file is the set of its lines.   *)
(***************************************************************************)
EXTENDS Integers, Sequences, FiniteSets, SequencesExt, Functions

CONSTANTS
  Paths,       \* absolute paths
  Parent,      \* the directory each path is in, "/" for those of the root
  CowrieDirs,  \* directories of Cowrie's own tree
  CowrieFiles, \* files of Cowrie's own tree
  KnownDirs,   \* those of CowrieDirs config.yaml declares (fs.known_dirs)
  Home,        \* where a session and every Cowrie shell start
  Words,       \* what an echo can write
  Kinds,       \* the kinds of command the attacker uses,
  DirNames,    \* the paths used for directories,
  FileNames,   \* and for files
  MaxLog,      \* bound: deltas logged
  Bytes,       \* the text of a downloaded file,
  Placeholder, \* what the tracker writes in its place,
  OwnText      \* and the text of Cowrie's own files

AllKinds == {"cd", "touch", "mkdir", "write", "append", "chmod", "chmod dir",
             "rm", "rm -rf", "mv", "wget"}

(* Both trees are trees: what Cowrie has lies in a directory of Cowrie's.  *)
ASSUME ReplayFsAssumption ==
  /\ IsFiniteSet(Paths) /\ {"/", "cwd"} \cap Paths = {}
  /\ KnownDirs \subseteq CowrieDirs
  /\ CowrieDirs \cup CowrieFiles \subseteq Paths
  /\ CowrieDirs \cap CowrieFiles = {}
  /\ Home \in KnownDirs
  /\ Parent \in [Paths -> Paths \cup {"/"}]
  /\ \A p \in CowrieDirs \cup CowrieFiles : Parent[p] \in CowrieDirs \cup {"/"}
  /\ Kinds \subseteq AllKinds
  /\ DirNames \cup FileNames \subseteq Paths
  /\ Words \cap {Bytes, Placeholder, OwnText} = {}

(* The sessions the promise of catch_up is for: no name is used for a file *)
(* and then for a directory (mkdir -p refuses it), and no directory's mode *)
(* is changed (mode_to_perms forgets it is one).                           *)
NamesApart == DirNames \cap FileNames = {} /\ "chmod dir" \notin Kinds

VARIABLES
  files,   \* SYSTEM_STATE["files"]
  cwd,     \* SYSTEM_STATE["cwd"]
  log,     \* StateTracker.deltas: [path, ran], path "cwd" for the cwd key
  cowrie,  \* the tree and working directory of Cowrie's current shell
  ckpt,    \* CowrieLink.cowrie_ckpt
  synced,  \* is the current shell the one the checkpoint belongs to?
  pass,    \* the pass of catch_up under way: "replay", "rebuild", or "idle"
  steady,  \* the pass's test: is the shell still the one it began with?
  escaped  \* history: what a command Cowrie ran changed there unnoticed

tracker == <<files, cwd, log>>
replayVars == <<tracker, cowrie, ckpt, synced, pass, steady, escaped>>

version == Len(log)
Texts == SUBSET (Words \cup {Bytes, Placeholder, OwnText})
None == [kind |-> "none"]
Dir == [kind |-> "dir", text |-> {}, mode |-> "755", backend |-> "ours"]
File(text, backend) ==
  [kind |-> "file", text |-> text, mode |-> "644", backend |-> backend]
Entry == [kind : {"dir", "file"}, text : Texts, mode : {"644", "755"},
          backend : {"ours", "cowrie"}] \cup {None}

-----------------------------------------------------------------------------
(* Cowrie's own commands.                                                  *)

FreshShell ==
  [tree |-> [p \in Paths |-> IF p \in CowrieDirs THEN Dir
                             ELSE IF p \in CowrieFiles
                             THEN File({OwnText}, "ours") ELSE None],
   cwd |-> Home]

IsDir(tree, p)  == p = "/" \/ tree[p].kind = "dir"
IsFile(tree, p) == tree[p].kind = "file"
Below(tree, p)  == {q \in Paths : q = p \/ Parent[q] = p}
WithTree(fs, tree) == [fs EXCEPT !.tree = tree]

(* One command in the shell fs; what a real shell would refuse changes nothing. *)
Exec(fs, c) ==
  LET t == fs.tree
      p == c.path
  IN CASE c.kind = "cd" -> IF IsDir(t, p) THEN [fs EXCEPT !.cwd = p] ELSE fs
       [] c.kind \in {"touch", "write", "append", "wget"} ->
            IF ~IsDir(t, Parent[p]) \/ IsDir(t, p) THEN fs
            ELSE LET old == IF IsFile(t, p) THEN t[p] ELSE File({}, "ours")
                 IN WithTree(fs, [t EXCEPT ![p] =
                      [old EXCEPT !.text =
                         CASE c.kind = "touch"  -> old.text
                           [] c.kind = "append" -> old.text \cup c.text
                           [] OTHER             -> c.text]])
       [] c.kind = "mkdir" ->  \* -p: missing parents are made too
            IF IsFile(t, p) \/ (Parent[p] # "/" /\ IsFile(t, Parent[p])) THEN fs
            ELSE WithTree(fs, [q \in Paths |->
                   IF q \in {p, Parent[p]} /\ t[q] = None THEN Dir ELSE t[q]])
       [] c.kind \in {"chmod", "chmod dir"} ->
            IF t[p] = None THEN fs
            ELSE WithTree(fs, [t EXCEPT ![p].mode = c.mode])
       [] c.kind = "rm" ->
            IF IsFile(t, p) THEN WithTree(fs, [t EXCEPT ![p] = None]) ELSE fs
       [] c.kind = "rm -rf" ->
            WithTree(fs, [q \in Paths |-> IF q \in Below(t, p) THEN None ELSE t[q]])
       [] c.kind = "mv" ->
            IF ~IsFile(t, p) \/ IsDir(t, c.to) \/ ~IsDir(t, Parent[c.to]) THEN fs
            ELSE WithTree(fs, [t EXCEPT ![c.to] = t[p], ![p] = None])

-----------------------------------------------------------------------------
(* The tracker.                                                            *)

(* FakeFS.compute_cd: the directories this session can cd into.            *)
Directories == KnownDirs \cup {p \in Paths : files[p].kind = "dir"}

Tracked(p, e) == [files EXCEPT ![p] = e]

(* mode_to_perms writes '-' for the type: a directory's record turns plain. *)
Chmodded(e, mode) == [e EXCEPT !.mode = mode, !.kind = "file"]

(***************************************************************************)
(* The effects of record: `rm -rf` is excluded from _remove, and only paths *)
(* the tracker knows are changed by chmod, rm and mv.                      *)
(***************************************************************************)
FilesAfter(c) ==
  LET p == c.path
      old == files[p]
  IN CASE c.kind = "touch" ->
            IF old = None THEN Tracked(p, File({}, "ours")) ELSE files
       [] c.kind \in {"write", "append"} ->
            LET kept == IF c.kind = "append" /\ old # None THEN old.text ELSE {}
                mode == IF old = None THEN "644" ELSE old.mode
            IN Tracked(p, [File(kept \cup c.text, "ours") EXCEPT !.mode = mode])
       [] c.kind = "wget"  -> Tracked(p, File({Placeholder}, "cowrie"))
       [] c.kind = "mkdir" -> Tracked(p, Dir)
       [] c.kind \in {"chmod", "chmod dir"} ->
            IF old = None THEN files ELSE Tracked(p, Chmodded(old, c.mode))
       [] c.kind = "rm"    -> Tracked(p, None)
       [] c.kind = "mv"    ->
            IF old = None THEN files
            ELSE [files EXCEPT ![c.to] = old, ![p] = None]
       [] OTHER -> files

CwdAfter(c) == IF c.kind = "cd" /\ c.path \in Directories THEN c.path ELSE cwd

(* _log_deltas: the cwd, then the paths that are there, then those gone.   *)
Pointers(c) ==
  LET after == FilesAfter(c)
      changed == {p \in Paths : after[p] # files[p]}
      gone == {p \in changed : after[p] = None}
  IN (IF CwdAfter(c) # cwd THEN <<"cwd">> ELSE << >>)
     \o SetToSeq(changed \ gone) \o SetToSeq(gone)

Record(c, ranBy) ==
  LET paths == Pointers(c) IN
  /\ version + Len(paths) <= MaxLog
  /\ files' = FilesAfter(c)
  /\ cwd' = CwdAfter(c)
  /\ log' = log \o [i \in DOMAIN paths |-> [path |-> paths[i], ran |-> ranBy]]

-----------------------------------------------------------------------------
(* catch_up.                                                               *)

(* Mutation: a file is written behind what Cowrie has.                     *)
WriteCmd_Appends(p, e) ==
  IF e.backend = "cowrie" \/ e.text = {} THEN [kind |-> "touch", path |-> p]
  ELSE [kind |-> "append", path |-> p, text |-> e.text]

(* _write_cmd: a file without content, or a download, is only touched.     *)
WriteCmd(p, e) ==
  IF e.backend = "cowrie" \/ e.text = {} THEN [kind |-> "touch", path |-> p]
  ELSE [kind |-> "write", path |-> p, text |-> e.text]

Cd == [kind |-> "cd", path |-> cwd]
RmRf(p) == [kind |-> "rm -rf", path |-> p]
Make(p, e) == IF e.kind = "dir" THEN [kind |-> "mkdir", path |-> p] ELSE WriteCmd(p, e)
Chmod(p, e) == [kind |-> "chmod", path |-> p, mode |-> e.mode]

(* Mutation: the delta of a path that is gone replays nothing.             *)
Replayed_KeepsRemoved(fs, p) ==
  IF p = "cwd" THEN Exec(fs, Cd)
  ELSE IF files[p] = None THEN fs
  ELSE Exec(Exec(fs, Make(p, files[p])), Chmod(p, files[p]))

(* Mutation: the working directory is left to the realignment.             *)
Replayed_NoCd(fs, p) ==
  IF p = "cwd" THEN fs
  ELSE IF files[p] = None THEN Exec(fs, RmRf(p))
  ELSE Exec(Exec(fs, Make(p, files[p])), Chmod(p, files[p]))

(* _delta_cmds: the commands for one pointer, from the path's value now.   *)
Replayed(fs, p) ==
  IF p = "cwd" THEN Exec(fs, Cd)
  ELSE IF files[p] = None THEN Exec(fs, RmRf(p))
  ELSE Exec(Exec(fs, Make(p, files[p])), Chmod(p, files[p]))

(* A shell that is not the checkpoint's is rebuilt from the first pointer, *)
(* after a cd: a session that never ran cd has no pointer to fix it.       *)
BeginPass ==
  /\ IF synced
     THEN pass' = "replay" /\ UNCHANGED <<cowrie, ckpt>>
     ELSE pass' = "rebuild" /\ ckpt' = 0 /\ cowrie' = Exec(cowrie, Cd)
  /\ steady' = TRUE
  /\ UNCHANGED <<tracker, synced, escaped>>

CatchUp == pass = "idle" /\ BeginPass

Replay ==
  /\ pass # "idle" /\ ckpt < version
  /\ LET d == log[ckpt + 1] IN
       cowrie' = IF pass = "rebuild" \/ d.ran = "local" THEN Replayed(cowrie, d.path)
                 ELSE cowrie
  /\ ckpt' = ckpt + 1
  /\ UNCHANGED <<tracker, synced, pass, steady, escaped>>

PassEnds == pass # "idle" /\ ckpt = version

\* The shell changed during the pass: again, from nothing.
PassAgain == PassEnds /\ ~steady /\ BeginPass

\* The shell held still, or the passes are exhausted (CowrieSync counts them).
Settled == PassEnds /\ synced' = steady /\ pass' = "idle" /\ steady' = TRUE

-----------------------------------------------------------------------------
ReplayInit ==
  /\ files = [p \in Paths |-> None]
  /\ cwd = Home
  /\ log = << >>
  /\ cowrie = FreshShell
  /\ ckpt = 0
  /\ synced = FALSE
  /\ pass = "idle"
  /\ steady = TRUE
  /\ escaped = {}

(* What the session's own view calls a directory or a file.                *)
SeenDir(p)  == p = "/" \/ files[p].kind = "dir" \/ p \in CowrieDirs
SeenFile(p) == files[p].kind = "file" \/ (files[p] = None /\ p \in CowrieFiles)

(***************************************************************************)
(* Commands that succeed on the machine the attacker is shown.  (The       *)
(* tracker records a redirect into a missing directory too.)               *)
(***************************************************************************)
CanHold(p) == p \in FileNames /\ SeenDir(Parent[p]) /\ ~SeenDir(p)

Commands ==
  {c \in [kind : {"cd"}, path : Paths] : SeenDir(c.path)}
  \cup {c \in [kind : {"touch"}, path : Paths] : CanHold(c.path)}
  \cup {c \in [kind : {"write", "append"}, path : Paths,
               text : {{w} : w \in Words}] : CanHold(c.path)}
  \cup {c \in [kind : {"wget"}, path : Paths, text : {{Bytes}}] :
          CanHold(c.path) /\ ~SeenFile(c.path)}
  \cup {c \in [kind : {"mkdir"}, path : DirNames] :
          SeenDir(Parent[c.path]) /\ ~SeenDir(c.path) /\ ~SeenFile(c.path)}
  \cup {c \in [kind : {"chmod"}, path : Paths, mode : {"644", "755"}] :
          SeenFile(c.path)}
  \cup {c \in [kind : {"chmod dir"}, path : Paths, mode : {"755"}] :
          SeenDir(c.path)}
  \cup {c \in [kind : {"rm", "rm -rf"}, path : Paths] : SeenFile(c.path)}
  \cup {c \in [kind : {"mv"}, path : Paths, to : Paths] :
          SeenFile(c.path) /\ c.to # c.path /\ CanHold(c.to)}

UsedCommands == {c \in Commands : c.kind \in Kinds}

(* FakeFS.cowrie_owned: the command names a file Cowrie downloaded.        *)
CowrieOwned(c) ==
  \E p \in {c.path} \cup (IF c.kind = "mv" THEN {c.to} ELSE {}) :
    files[p] # None /\ files[p].backend = "cowrie"

(***************************************************************************)
(* A command a model or a handler of ours answers; Cowrie hears nothing.   *)
(* A download, and a command about one, is Cowrie's unless its shell is    *)
(* lost.                                                                   *)
(***************************************************************************)
AnsweredByUs ==
  /\ pass = "idle"
  /\ \E c \in UsedCommands :
       /\ CowrieOwned(c) \/ c.kind = "wget" => ~synced
       /\ Record(c, "local")
  /\ UNCHANGED <<cowrie, ckpt, synced, pass, steady, escaped>>

(* What running c in the shell changes there and record does not log.      *)
Unnoticed(c, shell) ==
  LET after == Exec(shell, c)
      changed == {p \in Paths : after.tree[p] # shell.tree[p]}
                 \cup (IF after.cwd # shell.cwd THEN {"cwd"} ELSE {})
  IN changed \ Range(Pointers(c))

(***************************************************************************)
(* A command Cowrie answers, after the catch-up.  Only a download is       *)
(* recorded as already there, so every other one is replayed later.        *)
(***************************************************************************)
AnsweredByCowrie ==
  \E c \in UsedCommands :
    /\ Settled
    /\ Record(c, IF c.kind = "wget" THEN "cowrie" ELSE "local")
    /\ cowrie' = Exec(cowrie, c)
    /\ escaped' = escaped \cup Unnoticed(c, cowrie)
    /\ UNCHANGED ckpt

(* A command that changes nothing, sent to Cowrie.                         *)
ReadFromCowrie ==
  /\ Settled
  /\ UNCHANGED <<tracker, cowrie, ckpt, escaped>>

(* The socket closed and the agent opened a new shell.                     *)
Reconnect ==
  /\ cowrie' = FreshShell
  /\ synced' = FALSE
  /\ steady' = (pass = "idle")
  /\ escaped' = {}
  /\ UNCHANGED <<tracker, ckpt, pass>>

ReplayNext == \/ AnsweredByUs \/ CatchUp \/ Replay \/ PassAgain
              \/ AnsweredByCowrie \/ ReadFromCowrie \/ Reconnect

ReplaySpec == ReplayInit /\ [][ReplayNext]_replayVars

-----------------------------------------------------------------------------
CaughtUp == synced /\ ckpt = version

ChangedPaths == {d.path : d \in Range(log)} \ {"cwd"}

Presence(e) == IF e = None THEN <<"none">> ELSE <<e.kind, e.mode>>

(***************************************************************************)
(* _delta_cmds' promise, "existence + perms": however the commands were    *)
(* split between Cowrie and us and however often the shell was lost, a     *)
(* caught-up Cowrie has a path the session changed exactly when the        *)
(* tracker has it, of the same kind and with the same permissions.         *)
(***************************************************************************)
ExistenceAndPerms ==
  CaughtUp => \A p \in ChangedPaths \ escaped :
                Presence(cowrie.tree[p]) = Presence(files[p])

(***************************************************************************)
(* A file the attacker wrote has its text on a caught-up Cowrie, although  *)
(* only a pointer was logged and later commands changed what it points to. *)
(***************************************************************************)
WrittenTextArrives ==
  CaughtUp =>
    \A p \in ChangedPaths \ escaped :
      files[p] # None /\ files[p].backend = "ours" /\ files[p].text # {} =>
        cowrie.tree[p].text = files[p].text

(***************************************************************************)
(* A caught-up Cowrie works in the directory the tracker believes it is in, *)
(* even when the shell was lost in a directory that must be made again.    *)
(***************************************************************************)
CwdInStep == CaughtUp /\ "cwd" \notin escaped => cowrie.cwd = cwd
=============================================================================
