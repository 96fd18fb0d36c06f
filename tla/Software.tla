------------------------------ MODULE Software ------------------------------
(* What is installed on one session's box: shell/software.py.  A tool is a  *)
(* name that can be typed, a package a name that apt knows; Provider says   *)
(* which package brings a tool of another name.  Version texts are left out. *)
CONSTANTS Base,          \* base_tools and the shell's builtins
          PreInstalled,  \* packages the box ships with
          Provider,      \* tool |-> package, config's tool_packages
          Canonical      \* package |-> the name it registers

VARIABLE installed       \* SYSTEM_STATE["installed"]

ASSUME SoftwareAssumption == /\ PreInstalled \subseteq DOMAIN Canonical
                             /\ "none" \notin DOMAIN Canonical

Packages == DOMAIN Canonical
Registered == Packages \cup {Canonical[p] : p \in Packages}

PackageOf(tool) == IF tool \in DOMAIN Provider THEN Provider[tool] ELSE "none"

SoftwareTypeOK == installed \subseteq Registered

SeedPreInstalled == installed = PreInstalled

Available(tool) == tool \in Base \cup installed \/ PackageOf(tool) \in installed

InstalledByAttacker(tool) ==
    /\ tool \notin Base
    /\ {tool, PackageOf(tool)} \cap (installed \ PreInstalled) # {}

\* install registers the canonical name.
With(set, p) == set \cup {Canonical[p]}

\* remove takes out the name as it was typed: what install has renamed stays.
Without(set, p) == set \ {p}
=============================================================================
