------------------------------- MODULE Setup -------------------------------
(* `hp --init`, the set-up wizard of cli/setup_wizard.py, over config.yaml: *)
(* the file is read once, rebuilt from the answers, edited on the review    *)
(* screen and written back whole.  In between the operator edits it by hand.*)
(* Of a configuration the model keeps which agents are enabled, the routing *)
(* table and what was written by hand; host names, operating systems, ports,*)
(* model names and numbers are answers without an effect here.              *)
EXTENDS Naturals, FiniteSets

CONSTANTS
    Blocks,        \* the values build_config carries over whole: system_state,
                   \* logging, routing.fallback, static_commands
    HandTables     \* the routing tables an operator writes by hand

Agents == {"cowrie", "on_device", "cloud"}
Bands  == 0..4
NoTable == [b \in {} |-> "cowrie"]

ASSUME SetupAssumption == HandTables \subseteq [Bands -> Agents]

Marks == {"none", "own"}
Texts == {"none", "own", "empty"}

Configs == [enabled : SUBSET Agents,
            routing : [Bands -> Agents] \cup {NoTable},
            own     : [Blocks -> Texts],   \* "none": as in the template; "empty"
                                           \* is written, as static_commands: []
            extra   : Marks,           \* a top-level key the wizard has no idea of
            baseUrl : Texts,           \* agents.cloud.base_url; "empty": a blank
            remote  : Marks]           \* agents.on_device.mode and base_url

\* What load_existing makes of no file, an empty one, or one that is not YAML,
\* with the defaults every reader of it falls back to.
Empty == [enabled |-> {"cowrie", "on_device"}, routing |-> NoTable,
          own |-> [b \in Blocks |-> "none"],
          extra |-> "none", baseUrl |-> "none", remote |-> "none"]

VARIABLES
    file,       \* config.yaml, as load_existing reads it
    pc,         \* "off", "mode", "sections", "review", "saving", "menu"
    existing,   \* what load_existing returned
    draft,      \* config_dict, and the answers before it is assembled
    mode, section,
    off         \* the agents that were disabled when a configuration was
                \* assembled in this round, and "base_url" once it was answered
                \* with a blank: for the properties only

vars == <<file, pc, existing, draft, mode, section, off>>

Named(table) == {table[b] : b \in DOMAIN table}

Rank == [a \in Agents |-> CASE a = "cowrie" -> 0 [] a = "on_device" -> 1 [] a = "cloud" -> 2]
Weakest(set) == CHOOSE a \in set : \A b \in set : Rank[a] <= Rank[b]

\* One agent takes every band; of more, the weakest takes the bottom two and
\* the next one the rest.
Default(enabled) ==
    LET agents == IF enabled = {} THEN {"cowrie"} ELSE enabled
        low    == Weakest(agents)
        high   == IF agents = {low} THEN low ELSE Weakest(agents \ {low})
    IN [b \in Bands |-> IF b < 2 THEN low ELSE high]

\* "existing or DEFAULT": what is empty gives way to the template.
OrTemplate(own) == [b \in Blocks |-> IF own[b] = "empty" THEN "none" ELSE own[b]]

(* Mutation: the table is kept only when it names every enabled agent.     *)
Built_AllNamed(c) ==
    [c EXCEPT !.extra = "none",
              !.own = OrTemplate(@),
              !.routing = IF @ # NoTable /\ Named(@) = c.enabled
                          THEN @ ELSE Default(c.enabled)]

Built(c) ==
    [c EXCEPT !.extra = "none",
              !.own = OrTemplate(@),
              !.routing = IF @ # NoTable /\ Named(@) \subseteq c.enabled
                          THEN @ ELSE Default(c.enabled)]

Assembled(c, taken) == /\ draft' = Built(c)
                       /\ off' = off \cup (Agents \ c.enabled) \cup taken
                       /\ pc' = "review"

\* The address answered, when it is none.
Blanked(url) == IF url = "own" THEN {} ELSE {"base_url"}

Init == /\ file = Empty /\ pc = "off" /\ existing = Empty /\ draft = Empty
        /\ mode = "quick" /\ section = 1 /\ off = {}

Reset == /\ existing' = Empty /\ draft' = Empty
         /\ mode' = "quick" /\ section' = 1 /\ off' = {}

\* The operator, with an editor.  What is written between the wizard's reading
\* and its saving is overwritten unseen, so it is enough to edit before.
HandEdit ==
    /\ pc \in {"off", "menu"}
    /\ \/ \E table \in HandTables : file' = [file EXCEPT !.routing = table]
       \/ \E b \in Blocks, value \in {"own", "empty"} : file' = [file EXCEPT !.own[b] = value]
       \/ \E agents \in SUBSET Agents : file' = [file EXCEPT !.enabled = agents]
       \/ file' = [file EXCEPT !.extra = "own"]
       \/ file' = [file EXCEPT !.baseUrl = "own"]
       \/ file' = [file EXCEPT !.remote = "own"]
       \/ file' = Empty      \* a slip that leaves no YAML
    /\ UNCHANGED <<pc, existing, draft, mode, section, off>>

\* The command, or "Edit config again" of the closing menu.
Start == /\ pc \in {"off", "menu"}
         /\ existing' = file
         /\ draft' = existing' /\ pc' = "mode" /\ off' = {}
         /\ UNCHANGED <<file, mode, section>>

\* The on-device block is rebuilt without mode and base_url.
Quick == /\ pc = "mode" /\ mode' = "quick"
         /\ Assembled([existing EXCEPT !.remote = "none"], {})
         /\ UNCHANGED <<file, existing, section>>

Custom == /\ pc = "mode" /\ mode' = "custom" /\ pc' = "sections"
          /\ UNCHANGED <<file, existing, draft, section, off>>

Turn(c, agent, on) ==
    [c EXCEPT !.enabled = IF on THEN @ \cup {agent} ELSE @ \ {agent}]

Accept(c) ==
    IF section < 5
    THEN draft' = c /\ section' = section + 1 /\ UNCHANGED <<pc, off>>
    ELSE Assembled(c, {}) /\ UNCHANGED section

\* The answer of a section comes from the file and the operator, never from an
\* earlier answer to it.  Honeypot and deployment are the first two.  An empty
\* answer keeps the address there was; of one that is blank, new or kept, the
\* custom road leaves nothing.
Answer ==
    /\ pc = "sections"
    /\ \/ section <= 2 /\ Accept(draft)
       \/ section = 3 /\ \E on \in BOOLEAN : Accept(Turn(draft, "cowrie", on))
       \/ section = 4 /\ \E on \in BOOLEAN :
             Accept(Turn([draft EXCEPT !.remote = existing.remote], "on_device", on))
       \/ section = 5 /\ Accept(Turn([draft EXCEPT !.baseUrl = existing.baseUrl], "cloud", FALSE))
       \/ /\ section = 5 /\ UNCHANGED section
          /\ \E url \in {"own", "none"} \cup ({existing.baseUrl} \ {"empty"}) :
                Assembled(Turn([draft EXCEPT !.baseUrl = url], "cloud", TRUE), Blanked(url))
    /\ UNCHANGED <<file, existing, mode>>

GoBack == /\ pc = "sections"
          /\ section' = IF section = 1 THEN 1 ELSE section - 1
          /\ UNCHANGED <<file, pc, existing, draft, mode, off>>

(* Mutation: the review screen leaves the table as it is.                  *)
Edit_NotAssembled ==
    /\ pc = "review"
    /\ \E agent \in {"on_device", "cloud"}, on \in BOOLEAN : draft' = Turn(draft, agent, on)
    /\ UNCHANGED <<file, pc, existing, mode, section, off>>

\* An item of the review screen, answered to its end: everything is assembled
\* anew, also after an item that shows nothing here (a name, a port).  Here a
\* blank address is written as it is.
Edit == /\ pc = "review"
        /\ \/ Assembled(draft, {})
           \/ \E agent \in {"on_device", "cloud"}, on \in BOOLEAN :
                 Assembled(Turn(draft, agent, on), {})
           \/ \E url \in {"own", "empty"} :
                 Assembled([draft EXCEPT !.baseUrl = url], Blanked(url))
        /\ UNCHANGED <<file, existing, mode, section>>

\* Left with "b", or a number that is none, after the agent was switched on:
\* what the item changed so far stays, and nothing is assembled.
CancelEdit == /\ pc = "review"
              /\ \E agent \in {"on_device", "cloud"} : draft' = Turn(draft, agent, TRUE)
              /\ UNCHANGED <<file, pc, existing, mode, section, off>>

\* open(..., "w") empties the file; then the configuration is written, with the
\* top-level keys of the old one that it does not have.
Save  == /\ pc = "review" /\ pc' = "saving" /\ file' = Empty
         /\ UNCHANGED <<existing, draft, mode, section, off>>
Write == /\ pc = "saving" /\ pc' = "menu"
         /\ file' = [draft EXCEPT !.extra = existing.extra]
         /\ Reset

\* Done, Ctrl-C at a menu, or an answer to a section that is not a number.
Leave == /\ pc # "off" /\ pc' = "off" /\ Reset
         /\ UNCHANGED file

Next == \/ HandEdit \/ Start \/ Quick \/ Custom \/ Answer \/ GoBack
        \/ Edit \/ CancelEdit \/ Save \/ Write \/ Leave

Spec == Init /\ [][Next]_vars

(* ------------------------------ properties ------------------------------ *)
\* Whatever the road through the wizard, what was written by hand in the file
\* it read is in the file it writes: the blocks it carries over unless they are
\* empty, the keys it does not know, the cloud's address unless it was answered
\* with a blank, on the custom road the settings of a remote model, and the
\* routing table unless one of its agents was disabled.
HandEditsKept ==
    [][Write =>
         /\ \A b \in Blocks : existing.own[b] = "own" => file'.own[b] = "own"
         /\ existing.extra = "own" => file'.extra = "own"
         /\ existing.baseUrl = "own" /\ "base_url" \notin off => file'.baseUrl = "own"
         /\ mode = "custom" /\ existing.remote = "own" => file'.remote = "own"
         /\ existing.routing # NoTable /\ Named(existing.routing) \cap off = {} =>
                file'.routing = existing.routing]_vars

\* A written table names enabled agents only, or Cowrie alone: "never leave
\* routing with nowhere to go" (setup_wizard.py:882).  Edits given up half way,
\* after which nothing is assembled, leave it so.
RoutingFollowsAgents ==
    [][Write => \/ Named(file'.routing) \subseteq file'.enabled
                \/ Named(file'.routing) = {"cowrie"}]_vars
=============================================================================
