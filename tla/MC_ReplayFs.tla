----------------------------- MODULE MC_ReplayFs -----------------------------
(* Cowrie's own tree is the home directory, a directory no configuration    *)
(* declares and a file; the session can make one directory and a file in it. *)
EXTENDS ReplayFs

MCPaths == {"root", "opt", "dir", "dir/in", "own"}
MCParent == [p \in MCPaths |-> IF p = "dir/in" THEN "dir" ELSE "/"]
MCDirs == {"root", "opt"}
MCKinds == AllKinds \ {"chmod dir"}

ASSUME SessionsInScope == NamesApart
=============================================================================
