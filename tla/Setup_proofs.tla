---------------------------- MODULE Setup_proofs ----------------------------
(* RoutingFollowsAgents and HandEditsKept for any blocks and any tables the *)
(* operator may write.  The invariant says of every point between reading   *)
(* and writing what the configuration in the making still owes to the file. *)
EXTENDS Setup, TLAPS

TypeInv == /\ file \in Configs /\ existing \in Configs /\ draft \in Configs
           /\ mode \in {"quick", "custom"} /\ section \in 1..5
           /\ off \in SUBSET (Agents \cup {"base_url"})
           /\ pc \in {"off", "mode", "sections", "review", "saving", "menu"}

Followed(c) == Named(c.routing) \subseteq c.enabled \/ Named(c.routing) = {"cowrie"}

Open == pc \in {"mode", "sections", "review", "saving"}
Assembling == pc \in {"review", "saving"}

\* Every block written by hand in the one is in the other.
Keeps(own, now) == \A b \in Blocks : own[b] = "own" => now[b] = "own"

\* What is carried whatever becomes of the agents.
Carried == /\ Keeps(existing.own, draft.own)
           /\ existing.baseUrl = "own" /\ "base_url" \notin off => draft.baseUrl = "own"
           /\ pc = "sections" => mode = "custom"
           /\ pc = "mode" \/ mode = "custom" =>
                (existing.remote = "own" => draft.remote = "own")

\* What becomes of the table: untouched before the first assembly, then kept
\* unless one of its agents was disabled in an assembly.
TableCarried ==
    /\ ~Assembling => draft.routing = existing.routing
    /\ existing.routing # NoTable /\ Named(existing.routing) \cap off = {} =>
           draft.routing = existing.routing

IInv == /\ TypeInv
        /\ Assembling => Followed(draft)
        /\ Open => Carried /\ TableCarried

-----------------------------------------------------------------------------
LEMMA WeakestIn ==
    ASSUME NEW set \in SUBSET Agents, set # {} PROVE Weakest(set) \in set
<1>1. PICK a \in set : \A b \in set : Rank[a] <= Rank[b]
  <2>1. Rank["cowrie"] = 0 /\ Rank["on_device"] = 1 /\ Rank["cloud"] = 2
    BY DEF Rank, Agents
  <2>2. CASE "cowrie" \in set
    BY <2>1, <2>2 DEF Agents
  <2>3. CASE "cowrie" \notin set /\ "on_device" \in set
    BY <2>1, <2>3 DEF Agents
  <2>4. CASE "cowrie" \notin set /\ "on_device" \notin set
    <3>1. set = {"cloud"}
      BY <2>4 DEF Agents
    <3> QED BY <2>1, <3>1
  <2> QED BY <2>2, <2>3, <2>4
<1> QED BY <1>1 DEF Weakest

\* The template names enabled agents, or Cowrie when none is.
LEMMA DefaultFollows ==
    ASSUME NEW enabled \in SUBSET Agents
    PROVE  /\ Default(enabled) \in [Bands -> Agents]
           /\ \/ Named(Default(enabled)) \subseteq enabled
              \/ Named(Default(enabled)) = {"cowrie"}
<1> DEFINE agents == IF enabled = {} THEN {"cowrie"} ELSE enabled
           low    == Weakest(agents)
           high   == IF agents = {low} THEN low ELSE Weakest(agents \ {low})
           table  == [b \in Bands |-> IF b < 2 THEN low ELSE high]
<1>1. Default(enabled) = table
  BY DEF Default
<1>2. agents \in SUBSET Agents /\ agents # {}
  BY DEF Agents
<1> HIDE DEF agents
<1>3. low \in agents
  BY <1>2, WeakestIn
<1>4. high \in agents
  <2>1. CASE agents = {low}
    BY <2>1, <1>3
  <2>2. CASE agents # {low}
    <3>1. agents \ {low} \in SUBSET Agents /\ agents \ {low} # {}
      BY <2>2, <1>2, <1>3
    <3>2. Weakest(agents \ {low}) \in agents \ {low}
      BY <3>1, WeakestIn
    <3> QED BY <3>2, <2>2
  <2> QED BY <2>1, <2>2
<1> HIDE DEF low, high
<1>5. table \in [Bands -> Agents]
  BY <1>2, <1>3, <1>4
<1>6. Named(table) \subseteq agents /\ Named(table) # {}
  <2>1. DOMAIN table = Bands /\ 0 \in Bands
    BY DEF Bands
  <2>2. \A b \in Bands : table[b] \in agents
    BY <1>3, <1>4
  <2> HIDE DEF table
  <2> QED BY <2>1, <2>2 DEF Named
<1>7. agents = enabled \/ agents = {"cowrie"}
  BY DEF agents
<1> HIDE DEF table
<1> QED BY <1>1, <1>5, <1>6, <1>7

\* Assembling keeps what is carried and mends the table.
LEMMA BuiltIs ==
    ASSUME NEW c \in Configs
    PROVE  /\ Built(c) \in Configs
           /\ Followed(Built(c))
           /\ Keeps(c.own, Built(c).own) /\ Built(c).baseUrl = c.baseUrl /\ Built(c).remote = c.remote
           /\ c.routing # NoTable /\ Named(c.routing) \subseteq c.enabled =>
                  Built(c).routing = c.routing
<1> DEFINE keeps == c.routing # NoTable /\ Named(c.routing) \subseteq c.enabled
           table == IF keeps THEN c.routing ELSE Default(c.enabled)
<1>1. Built(c) = [c EXCEPT !.extra = "none", !.own = OrTemplate(c.own), !.routing = table]
  BY DEF Built
<1>0. OrTemplate(c.own) \in [Blocks -> Texts] /\ Keeps(c.own, OrTemplate(c.own))
  <2>1. c.own \in [Blocks -> Texts]
    BY DEF Configs
  <2> QED BY <2>1 DEF OrTemplate, Keeps, Texts
<1>2. c.enabled \in SUBSET Agents /\ c.routing \in [Bands -> Agents] \cup {NoTable}
  BY DEF Configs
<1>3. Default(c.enabled) \in [Bands -> Agents]
  BY <1>2, DefaultFollows
<1>4. table \in [Bands -> Agents] \cup {NoTable}
  BY <1>2, <1>3
<1>5. Named(table) \subseteq c.enabled \/ Named(table) = {"cowrie"}
  <2>1. CASE keeps
    BY <2>1
  <2>2. CASE ~keeps
    BY <2>2, <1>2, DefaultFollows
  <2> QED BY <2>1, <2>2
<1>6. keeps => table = c.routing
  OBVIOUS
<1> DEFINE own == OrTemplate(c.own)
<1> HIDE DEF table, own
<1>7. Built(c) \in Configs
  BY <1>0, <1>1, <1>4 DEF Configs, Marks, own
<1>8. /\ Built(c).own = OrTemplate(c.own) /\ Built(c).baseUrl = c.baseUrl /\ Built(c).remote = c.remote
      /\ Built(c).routing = table /\ Built(c).enabled = c.enabled
  BY <1>1 DEF Configs
<1> QED BY <1>0, <1>5, <1>6, <1>7, <1>8 DEF Followed

\* Switching an agent on or off touches nothing else.
LEMMA TurnIs ==
    ASSUME NEW c \in Configs, NEW agent \in Agents, NEW on \in BOOLEAN
    PROVE  /\ Turn(c, agent, on) \in Configs
           /\ Turn(c, agent, on).enabled = IF on THEN c.enabled \cup {agent} ELSE c.enabled \ {agent}
           /\ Turn(c, agent, on).own = c.own /\ Turn(c, agent, on).routing = c.routing
           /\ Turn(c, agent, on).baseUrl = c.baseUrl /\ Turn(c, agent, on).remote = c.remote
<1> DEFINE set == IF on THEN c.enabled \cup {agent} ELSE c.enabled \ {agent}
<1>1. Turn(c, agent, on) = [c EXCEPT !.enabled = set]
  BY DEF Turn
<1>2. set \in SUBSET Agents
  <2>1. c.enabled \in SUBSET Agents
    BY DEF Configs
  <2>2. CASE on
    BY <2>1, <2>2
  <2>3. CASE ~on
    BY <2>1, <2>3
  <2> QED BY <2>2, <2>3
<1> HIDE DEF set
<1>3. /\ Turn(c, agent, on) \in Configs /\ Turn(c, agent, on).enabled = set
      /\ Turn(c, agent, on).own = c.own /\ Turn(c, agent, on).routing = c.routing
      /\ Turn(c, agent, on).baseUrl = c.baseUrl /\ Turn(c, agent, on).remote = c.remote
  BY <1>1, <1>2 DEF Configs
<1> USE DEF set
<1> QED BY <1>3

\* Assembling on the way to the review screen.
LEMMA AssembledKeeps ==
    ASSUME TypeInv, NEW c \in Configs, NEW taken \in SUBSET {"base_url"}, Assembled(c, taken),
           UNCHANGED <<existing, file>>, c.routing = draft.routing, TableCarried
    PROVE  /\ draft' \in Configs /\ off' \in SUBSET (Agents \cup {"base_url"})
           /\ off \subseteq off' /\ taken \subseteq off'
           /\ pc' = "review" /\ Followed(draft') /\ TableCarried'
           /\ Keeps(c.own, draft'.own) /\ draft'.baseUrl = c.baseUrl /\ draft'.remote = c.remote
<1>1. /\ draft' = Built(c) /\ off' = off \cup (Agents \ c.enabled) \cup taken /\ pc' = "review"
  BY DEF Assembled
<1>2. /\ draft' \in Configs /\ Followed(draft')
      /\ Keeps(c.own, draft'.own) /\ draft'.baseUrl = c.baseUrl /\ draft'.remote = c.remote
      /\ c.routing # NoTable /\ Named(c.routing) \subseteq c.enabled => draft'.routing = c.routing
  BY <1>1, BuiltIs
<1>3. ASSUME existing.routing # NoTable, Named(existing.routing) \cap off' = {}
      PROVE  draft'.routing = existing.routing
  <2>1. Named(existing.routing) \cap off = {}
    BY <1>1, <1>3
  <2>2. c.routing = existing.routing
    BY <2>1, <1>3 DEF TableCarried
  <2>3. Named(existing.routing) \subseteq Agents
    <3>1. existing.routing \in [Bands -> Agents]
      BY <1>3 DEF TypeInv, Configs
    <3> QED BY <3>1 DEF Named
  <2>4. Named(existing.routing) \subseteq c.enabled
    BY <2>3, <1>1, <1>3
  <2> QED BY <2>2, <2>4, <1>2, <1>3
<1>4. TableCarried'
  BY <1>1, <1>3 DEF TableCarried, Assembling
<1>5. /\ off' \in SUBSET (Agents \cup {"base_url"})
      /\ off \subseteq off' /\ taken \subseteq off'
  BY <1>1 DEF TypeInv
<1> QED BY <1>1, <1>2, <1>4, <1>5

LEMMA EmptyIsConfig == Empty \in Configs
BY DEF Empty, Configs, Marks, Texts, Agents

LEMMA HandEditKeeps == ASSUME IInv, HandEdit PROVE IInv'
<1>1. file' \in Configs
  <2>0. file \in Configs
    BY DEF IInv, TypeInv
  <2>1. CASE \E table \in HandTables : file' = [file EXCEPT !.routing = table]
    BY <2>0, <2>1, SetupAssumption DEF Configs
  <2>2. CASE \E b \in Blocks, value \in {"own", "empty"} :
                 file' = [file EXCEPT !.own[b] = value]
    <3>1. PICK b \in Blocks, value \in {"own", "empty"} :
                 file' = [file EXCEPT !.own = [@ EXCEPT ![b] = value]]
      BY <2>2
    <3>2. [file.own EXCEPT ![b] = value] \in [Blocks -> Texts]
      BY <2>0 DEF Configs, Texts
    <3> QED BY <2>0, <3>1, <3>2 DEF Configs
  <2>3. CASE \E agents \in SUBSET Agents : file' = [file EXCEPT !.enabled = agents]
    BY <2>0, <2>3 DEF Configs
  <2>4. CASE file' = [file EXCEPT !.extra = "own"]
    BY <2>0, <2>4 DEF Configs, Marks
  <2>5. CASE file' = [file EXCEPT !.baseUrl = "own"]
    BY <2>0, <2>5 DEF Configs, Texts
  <2>6. CASE file' = [file EXCEPT !.remote = "own"]
    BY <2>0, <2>6 DEF Configs, Marks
  <2>7. CASE file' = Empty
    BY <2>7, EmptyIsConfig
  <2> QED BY <2>1, <2>2, <2>3, <2>4, <2>5, <2>6, <2>7 DEF HandEdit
<1> QED BY <1>1 DEF HandEdit, IInv, TypeInv, Open, Assembling

LEMMA ResetKeeps == ASSUME IInv, Reset, pc' \in {"off", "menu"}, file' \in Configs PROVE IInv'
BY EmptyIsConfig DEF Reset, IInv, TypeInv, Open, Assembling

LEMMA StartKeeps == ASSUME IInv, Start PROVE IInv'
BY DEF Start, IInv, TypeInv, Open, Assembling, Carried, TableCarried, Keeps

LEMMA QuickKeeps == ASSUME IInv, Quick PROVE IInv'
<1> DEFINE c == [existing EXCEPT !.remote = "none"]
<1>1. /\ Assembled(c, {}) /\ UNCHANGED <<existing, file>> /\ mode' = "quick" /\ section' = section
      /\ pc = "mode"
  BY DEF Quick
<1>2. /\ c \in Configs /\ c.own = existing.own /\ c.baseUrl = existing.baseUrl
      /\ c.routing = existing.routing
  BY DEF IInv, TypeInv, Configs, Marks
<1>3. TypeInv /\ TableCarried /\ existing.routing = draft.routing
  BY <1>1 DEF IInv, Open, TableCarried, Assembling
<1> HIDE DEF c
<1>4. /\ draft' \in Configs /\ off' \in SUBSET (Agents \cup {"base_url"})
      /\ pc' = "review" /\ Followed(draft') /\ TableCarried'
      /\ Keeps(c.own, draft'.own) /\ draft'.baseUrl = c.baseUrl /\ draft'.remote = c.remote
  BY <1>1, <1>2, <1>3, AssembledKeeps
<1>5. TypeInv'
  BY <1>1, <1>3, <1>4 DEF TypeInv
<1>6. Carried'
  BY <1>1, <1>2, <1>4 DEF Carried
<1> QED BY <1>4, <1>5, <1>6 DEF IInv

LEMMA CustomKeeps == ASSUME IInv, Custom PROVE IInv'
BY DEF Custom, IInv, TypeInv, Open, Assembling, Carried, TableCarried

LEMMA GoBackKeeps == ASSUME IInv, GoBack PROVE IInv'
<1>1. section' \in 1..5
  BY DEF GoBack, IInv, TypeInv
<1> QED BY <1>1 DEF GoBack, IInv, TypeInv, Open, Assembling, Carried, TableCarried

\* The assembly at the end of the custom road, or at one of the review's items.
LEMMA LastKeeps ==
    ASSUME IInv, Open, pc = "sections" => mode = "custom", pc # "mode",
           NEW c \in Configs, NEW taken \in SUBSET {"base_url"}, Assembled(c, taken),
           UNCHANGED <<file, existing, mode, section>>,
           c.routing = draft.routing, c.own = draft.own,
           existing.baseUrl = "own" /\ "base_url" \notin off /\ taken = {} => c.baseUrl = "own",
           mode = "custom" /\ existing.remote = "own" => c.remote = "own"
    PROVE  IInv'
<1>1. TypeInv /\ Carried /\ TableCarried
  BY DEF IInv
<1>2. /\ draft' \in Configs /\ off' \in SUBSET (Agents \cup {"base_url"})
      /\ off \subseteq off' /\ taken \subseteq off'
      /\ pc' = "review" /\ Followed(draft') /\ TableCarried'
      /\ Keeps(c.own, draft'.own) /\ draft'.baseUrl = c.baseUrl /\ draft'.remote = c.remote
  BY <1>1, AssembledKeeps
<1>3. TypeInv'
  BY <1>1, <1>2 DEF TypeInv
<1>4. Keeps(existing'.own, draft'.own)
  BY <1>1, <1>2 DEF Carried, Keeps
<1>5. existing'.baseUrl = "own" /\ "base_url" \notin off' => draft'.baseUrl = "own"
  BY <1>2
<1>6. Carried'
  BY <1>2, <1>4, <1>5 DEF Carried
<1> QED BY <1>2, <1>3, <1>6 DEF IInv

\* An answer that carries what the draft carried.
LEMMA AcceptKeeps ==
    ASSUME IInv, pc = "sections", NEW c \in Configs, Accept(c),
           UNCHANGED <<file, existing, mode>>,
           c.routing = draft.routing, c.own = draft.own,
           existing.baseUrl = "own" /\ "base_url" \notin off => c.baseUrl = "own",
           existing.remote = "own" => c.remote = "own"
    PROVE  IInv'
<1>1. mode = "custom" /\ Open /\ TypeInv /\ Carried /\ TableCarried
  BY DEF IInv, Open, Carried
<1>2. CASE section < 5
  <2>1. draft' = c /\ section' = section + 1 /\ UNCHANGED <<pc, off>>
    BY <1>2 DEF Accept
  <2>2. section' \in 1..5
    BY <1>1, <1>2, <2>1 DEF TypeInv
  <2> QED BY <1>1, <2>1, <2>2 DEF IInv, TypeInv, Open, Assembling, Carried, TableCarried
<1>3. CASE ~(section < 5)
  <2>1. Assembled(c, {}) /\ section' = section
    BY <1>3 DEF Accept
  <2> QED BY <1>1, <2>1, LastKeeps
<1> QED BY <1>2, <1>3

LEMMA AcceptTurnKeeps ==
    ASSUME IInv, pc = "sections", UNCHANGED <<file, existing, mode>>,
           NEW d \in Configs, NEW agent \in Agents, NEW on \in BOOLEAN, Accept(Turn(d, agent, on)),
           d.routing = draft.routing, d.own = draft.own,
           existing.baseUrl = "own" /\ "base_url" \notin off => d.baseUrl = "own",
           existing.remote = "own" => d.remote = "own"
    PROVE  IInv'
<1> DEFINE c == Turn(d, agent, on)
<1>1. /\ c \in Configs /\ c.routing = d.routing /\ c.own = d.own
      /\ c.baseUrl = d.baseUrl /\ c.remote = d.remote
  BY TurnIs
<1>2. Accept(c)
  OBVIOUS
<1> HIDE DEF c
<1> QED BY <1>1, <1>2, AcceptKeeps

LEMMA AnswerKeeps == ASSUME IInv, Answer PROVE IInv'
<1>1. /\ pc = "sections" /\ UNCHANGED <<file, existing, mode>>
      /\ draft \in Configs /\ existing \in Configs
      /\ existing.baseUrl = "own" /\ "base_url" \notin off => draft.baseUrl = "own"
      /\ existing.remote = "own" => draft.remote = "own"
  BY DEF Answer, IInv, TypeInv, Open, Carried
<1>2. "cowrie" \in Agents /\ "on_device" \in Agents /\ "cloud" \in Agents
  BY DEF Agents
<1>3. CASE Accept(draft)
  BY <1>1, <1>3, AcceptKeeps
<1>4. CASE \E on \in BOOLEAN : Accept(Turn(draft, "cowrie", on))
  BY <1>1, <1>2, <1>4, AcceptTurnKeeps
<1>5. CASE \E on \in BOOLEAN : Accept(Turn([draft EXCEPT !.remote = existing.remote], "on_device", on))
  <2> DEFINE d == [draft EXCEPT !.remote = existing.remote]
  <2>1. \E on \in BOOLEAN : Accept(Turn(d, "on_device", on))
    BY <1>5
  <2>2. /\ d \in Configs /\ d.routing = draft.routing /\ d.own = draft.own
        /\ d.baseUrl = draft.baseUrl /\ d.remote = existing.remote
    BY <1>1 DEF Configs
  <2> HIDE DEF d
  <2> QED BY <1>1, <1>2, <2>1, <2>2, AcceptTurnKeeps
<1>6. CASE Accept(Turn([draft EXCEPT !.baseUrl = existing.baseUrl], "cloud", FALSE))
  <2> DEFINE d == [draft EXCEPT !.baseUrl = existing.baseUrl]
  <2>1. Accept(Turn(d, "cloud", FALSE))
    BY <1>6
  <2>2. /\ d \in Configs /\ d.routing = draft.routing /\ d.own = draft.own
        /\ d.remote = draft.remote /\ d.baseUrl = existing.baseUrl
    BY <1>1 DEF Configs
  <2> HIDE DEF d
  <2> QED BY <1>1, <1>2, <2>1, <2>2, AcceptTurnKeeps
<1>7. ASSUME UNCHANGED section,
             NEW url \in {"own", "none"} \cup ({existing.baseUrl} \ {"empty"}),
             Assembled(Turn([draft EXCEPT !.baseUrl = url], "cloud", TRUE), Blanked(url))
      PROVE  IInv'
  <2> DEFINE d == [draft EXCEPT !.baseUrl = url]
             c == Turn(d, "cloud", TRUE)
             taken == Blanked(url)
  <2>1. /\ d \in Configs /\ d.routing = draft.routing /\ d.own = draft.own
        /\ d.remote = draft.remote /\ d.baseUrl = url
    BY <1>1 DEF Configs, Texts
  <2> HIDE DEF d
  <2>2. /\ c \in Configs /\ c.routing = draft.routing /\ c.own = draft.own
        /\ c.remote = draft.remote /\ c.baseUrl = url
    BY <1>2, <2>1, TurnIs
  <2>3. Assembled(c, taken)
    BY <1>7 DEF d
  <2>4. taken \in SUBSET {"base_url"} /\ (taken = {} => url = "own")
    BY DEF Blanked
  <2>5. Open /\ mode = "custom" /\ pc # "mode"
    BY <1>1 DEF Open, IInv, Carried
  <2> HIDE DEF c, taken
  <2> QED BY <1>1, <1>7, <2>2, <2>3, <2>4, <2>5, LastKeeps
<1> QED BY <1>1, <1>3, <1>4, <1>5, <1>6, <1>7 DEF Answer

\* The review screen: what any completed item hands to the assembly.
LEMMA ReviewedKeeps ==
    ASSUME IInv, pc = "review", NEW c \in Configs, NEW taken \in SUBSET {"base_url"},
           Assembled(c, taken), UNCHANGED <<file, existing, mode, section>>,
           c.routing = draft.routing, c.own = draft.own, c.remote = draft.remote,
           c.baseUrl = draft.baseUrl \/ c.baseUrl = "own" \/ taken # {}
    PROVE  IInv'
<1>1. Open /\ Carried
  BY DEF IInv, Open
<1> QED BY <1>1, LastKeeps DEF Carried

LEMMA EditKeeps == ASSUME IInv, Edit PROVE IInv'
<1>1. pc = "review" /\ UNCHANGED <<file, existing, mode, section>> /\ draft \in Configs
  BY DEF Edit, IInv, TypeInv
<1>2. CASE Assembled(draft, {})
  BY <1>1, <1>2, ReviewedKeeps
<1>3. CASE \E agent \in {"on_device", "cloud"}, on \in BOOLEAN :
                Assembled(Turn(draft, agent, on), {})
  <2>1. PICK agent \in {"on_device", "cloud"}, on \in BOOLEAN :
                Assembled(Turn(draft, agent, on), {})
    BY <1>3
  <2>2. agent \in Agents
    BY DEF Agents
  <2> DEFINE c == Turn(draft, agent, on)
  <2>3. /\ c \in Configs /\ c.routing = draft.routing /\ c.own = draft.own
        /\ c.remote = draft.remote /\ c.baseUrl = draft.baseUrl
    BY <1>1, <2>2, TurnIs
  <2>4. Assembled(c, {})
    BY <2>1
  <2> HIDE DEF c
  <2> QED BY <1>1, <2>3, <2>4, ReviewedKeeps
<1>4. CASE \E url \in {"own", "empty"} :
              Assembled([draft EXCEPT !.baseUrl = url], Blanked(url))
  <2>1. PICK url \in {"own", "empty"} : Assembled([draft EXCEPT !.baseUrl = url], Blanked(url))
    BY <1>4
  <2> DEFINE c == [draft EXCEPT !.baseUrl = url]
             taken == Blanked(url)
  <2>2. /\ c \in Configs /\ c.routing = draft.routing /\ c.own = draft.own
        /\ c.remote = draft.remote /\ c.baseUrl = url
    BY <1>1 DEF Configs, Texts
  <2>3. taken \in SUBSET {"base_url"} /\ (url = "own" \/ taken # {})
    BY DEF Blanked
  <2>4. Assembled(c, taken)
    BY <2>1
  <2> HIDE DEF c, taken
  <2> QED BY <1>1, <2>2, <2>3, <2>4, ReviewedKeeps
<1> QED BY <1>2, <1>3, <1>4 DEF Edit

\* An edit given up only adds an enabled agent.
LEMMA CancelEditKeeps == ASSUME IInv, CancelEdit PROVE IInv'
<1>1. PICK agent \in {"on_device", "cloud"} : draft' = Turn(draft, agent, TRUE)
  BY DEF CancelEdit
<1>2. /\ pc = "review" /\ UNCHANGED <<file, pc, existing, mode, section, off>>
      /\ TypeInv /\ Carried /\ TableCarried /\ Followed(draft)
  BY DEF CancelEdit, IInv, Open, Assembling
<1>3. agent \in Agents /\ draft \in Configs
  BY <1>2 DEF Agents, TypeInv
<1>4. /\ draft' \in Configs /\ draft'.enabled = draft.enabled \cup {agent}
      /\ draft'.own = draft.own /\ draft'.routing = draft.routing
      /\ draft'.baseUrl = draft.baseUrl /\ draft'.remote = draft.remote
  BY <1>1, <1>3, TurnIs
<1>5. Followed(draft')
  BY <1>2, <1>4 DEF Followed
<1>6. TypeInv' /\ Carried' /\ TableCarried'
  BY <1>2, <1>4 DEF TypeInv, Carried, TableCarried, Assembling
<1> QED BY <1>5, <1>6 DEF IInv

LEMMA SaveKeeps == ASSUME IInv, Save PROVE IInv'
BY EmptyIsConfig DEF Save, IInv, TypeInv, Open, Assembling, Carried, TableCarried, Followed

LEMMA WriteKeeps == ASSUME IInv, Write PROVE IInv'
<1>1. [draft EXCEPT !.extra = existing.extra] \in Configs
  BY DEF IInv, TypeInv, Configs
<1> QED BY <1>1, ResetKeeps DEF Write

LEMMA LeaveKeeps == ASSUME IInv, Leave PROVE IInv'
<1>1. file' \in Configs
  BY DEF IInv, TypeInv, Leave
<1> QED BY <1>1, ResetKeeps DEF Leave

LEMMA Invariance == Spec => []IInv
<1>1. Init => IInv
  BY EmptyIsConfig DEF Init, IInv, TypeInv, Open, Assembling
<1>2. IInv /\ [Next]_vars => IInv'
  <2> SUFFICES ASSUME IInv, [Next]_vars PROVE IInv'
    OBVIOUS
  <2>1. CASE UNCHANGED vars
    BY <2>1 DEF vars, IInv, TypeInv, Open, Assembling, Followed, Carried, TableCarried
  <2> QED BY <2>1, HandEditKeeps, StartKeeps, QuickKeeps, CustomKeeps, AnswerKeeps, GoBackKeeps,
             EditKeeps, CancelEditKeeps, SaveKeeps, WriteKeeps, LeaveKeeps DEF Next
<1> QED BY <1>1, <1>2, PTL DEF Spec
-----------------------------------------------------------------------------
\* What Write leaves in the file.
LEMMA Written ==
    ASSUME IInv, Write
    PROVE  /\ pc = "saving" /\ draft \in Configs /\ existing \in Configs
           /\ file'.own = draft.own /\ file'.enabled = draft.enabled
           /\ file'.routing = draft.routing /\ file'.extra = existing.extra
           /\ file'.baseUrl = draft.baseUrl /\ file'.remote = draft.remote
BY DEF IInv, TypeInv, Write, Configs

\* For any tables: a written one names enabled agents only, or Cowrie alone.
THEOREM TableFollowsAgents == Spec => RoutingFollowsAgents
<1>1. IInv /\ [Next]_vars =>
        [Write => \/ Named(file'.routing) \subseteq file'.enabled
                  \/ Named(file'.routing) = {"cowrie"}]_vars
  <2> SUFFICES ASSUME IInv, Write
               PROVE  \/ Named(file'.routing) \subseteq file'.enabled
                      \/ Named(file'.routing) = {"cowrie"}
    OBVIOUS
  <2>1. Followed(draft)
    BY Written DEF IInv, Assembling
  <2> QED BY <2>1, Written DEF Followed
<1> QED BY <1>1, Invariance, PTL DEF Spec, RoutingFollowsAgents

\* For any blocks and tables: what was written by hand, and is not empty, is
\* written again.
THEOREM WizardKeepsHandEdits == Spec => HandEditsKept
<1>1. IInv /\ [Next]_vars =>
        [Write =>
         /\ \A b \in Blocks : existing.own[b] = "own" => file'.own[b] = "own"
         /\ existing.extra = "own" => file'.extra = "own"
         /\ existing.baseUrl = "own" /\ "base_url" \notin off => file'.baseUrl = "own"
         /\ mode = "custom" /\ existing.remote = "own" => file'.remote = "own"
         /\ existing.routing # NoTable /\ Named(existing.routing) \cap off = {} =>
                file'.routing = existing.routing]_vars
  <2> SUFFICES ASSUME IInv, Write
               PROVE  /\ \A b \in Blocks : existing.own[b] = "own" => file'.own[b] = "own"
                      /\ existing.extra = "own" => file'.extra = "own"
                      /\ existing.baseUrl = "own" /\ "base_url" \notin off =>
                             file'.baseUrl = "own"
                      /\ mode = "custom" /\ existing.remote = "own" => file'.remote = "own"
                      /\ existing.routing # NoTable /\ Named(existing.routing) \cap off = {} =>
                             file'.routing = existing.routing
    OBVIOUS
  <2>1. Carried /\ TableCarried
    BY Written DEF IInv, Open
  <2> QED BY <2>1, Written DEF Carried, TableCarried, Keeps
<1> QED BY <1>1, Invariance, PTL DEF Spec, HandEditsKept
=============================================================================
