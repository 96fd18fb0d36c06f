------------------------------ MODULE Console ------------------------------
(* What the dashboard shows: the caches of console/data.py, filled by the   *)
(* threads that serve requests and by the one that warms them, emptied by   *)
(* the Refresh button, over a sessions table that grows and is pruned.      *)
(* Three caches stand for all: "frame" (load_all: by age only), "overview"  *)
(* (load_overview, and load_detections alike: by age and by the highest row *)
(* id), and "page" (_cached_page: the same, built from the other two).  A   *)
(* value is the set of rows it was computed from.  Time is counted in ages  *)
(* that stop at TTL; building takes any time.                               *)
EXTENDS Naturals, FiniteSets

CONSTANTS Requests,   \* threads that serve a page
          Warmer,     \* the thread of warm_caches
          TTL,        \* ages at which a value has expired
          MaxId       \* bound: rows ever inserted

ASSUME ConsoleAssumption == /\ Warmer \notin Requests
                            /\ TTL \in Nat \ {0} /\ MaxId \in Nat

Ids == 1..MaxId
Threads == Requests \cup {Warmer}
Caches == {"frame", "overview", "page"}

\* Two halves of a page come from two caches; the other values are one set.
NoPage == [frame |-> {}, overview |-> {}]

VARIABLES
    ids, last,   \* the ids in the table, and the last one given out
    rowAge,       \* how long ago each was inserted, up to 2 * TTL - 1
    val, age, ver,   \* per cache: the value, its age, the version it is tagged with
    pc,           \* per thread: the cache it is at, and what comes next
    since, tag,   \* locals: time since the call began, and the version it read
    got,          \* locals: what the calls inside have returned
    known, cut    \* ghosts: at the last undisturbed Refresh, the rows and those deleted

table == <<ids, last, rowAge>>
cache == <<val, age, ver>>
locals == <<pc, since, tag, got>>
consoleVars == <<table, cache, locals, known, cut>>

\* _db_version: SELECT COALESCE(MAX(id), 0)
Version == IF ids = {} THEN 0 ELSE CHOOSE n \in ids : \A m \in ids : m <= n

Idle == <<"page", "idle">>

ConsoleInit == /\ ids = {} /\ last = 0 /\ rowAge = [i \in Ids |-> 0]
        /\ val = [c \in Caches |-> IF c = "page" THEN NoPage ELSE {}]
        /\ age = [c \in Caches |-> TTL] /\ ver = [c \in Caches |-> 0]
        /\ pc = [t \in Threads |-> IF t = Warmer THEN <<"frame", "look">> ELSE Idle]
        /\ since = [t \in Threads |-> [c \in Caches |-> 0]]
        /\ tag = [t \in Threads |-> [c \in Caches |-> 0]]
        /\ got = [t \in Threads |-> NoPage]
        /\ known = {} /\ cut = {}

(* ------------------------------ the table ------------------------------ *)
\* A thread is in a call that fills c: a page's builds run inside it.
Running(t, c) == \/ pc[t] \in {<<c, "query">>, <<c, "store">>}
                 \/ c = "page" /\ t # Warmer /\ pc[t] # Idle

Insert == /\ last < MaxId
          /\ last' = last + 1 /\ ids' = ids \cup {last'}
          /\ rowAge' = [rowAge EXCEPT ![last'] = 0]
          /\ UNCHANGED <<cache, locals, known, cut>>

\* prune: everything up to some row (see Retention).
Prune(n) == /\ n \in ids
            /\ ids' = {i \in ids : i > n}
            /\ UNCHANGED <<last, rowAge, cache, locals, known, cut>>

Older(n, limit) == IF n < limit THEN n + 1 ELSE n

\* A value that has expired is never read again: it is left out.
Nothing(c) == IF c = "page" THEN NoPage ELSE {}

Put(a, v, n) ==
    /\ age' = a
    /\ val' = [c \in Caches |-> IF a[c] = TTL THEN Nothing(c) ELSE v[c]]
    /\ ver' = [c \in Caches |-> IF a[c] = TTL THEN 0 ELSE n[c]]

Tick == /\ rowAge' = [i \in Ids |-> IF i \in ids THEN Older(rowAge[i], 2 * TTL - 1) ELSE 0]
        /\ Put([c \in Caches |-> Older(age[c], TTL)], val, ver)
        /\ since' = [t \in Threads |-> [c \in Caches |->
                       IF Running(t, c) THEN Older(since[t][c], TTL) ELSE 0]]
        /\ UNCHANGED <<ids, last, pc, tag, got, known, cut>>

(* ----------------------------- the caches ------------------------------ *)
(* Mutation: nothing expires.                                               *)
Hit_Ageless(c) == c = "frame" \/ ver[c] = Version

\* The version is read before anything is built, and only the frame ignores it.
Hit(c) == age[c] < TTL /\ (c = "frame" \/ ver[c] = Version)

Begin(t, c, next) ==
    /\ since' = [since EXCEPT ![t][c] = 0]
    /\ tag' = [tag EXCEPT ![t][c] = IF c = "frame" THEN 0 ELSE Version]
    /\ pc' = [pc EXCEPT ![t] = next]

\* Where a thread goes when it has the value of c.
After(t, c) == CASE t = Warmer /\ c = "frame"      -> <<"overview", "look">>
                 [] t = Warmer /\ c = "overview"   -> Idle
                 [] t \in Requests /\ c = "overview" -> <<"frame", "look">>
                 [] t \in Requests /\ c = "frame"    -> <<"page", "store">>

\* load_all and load_overview: look, query the table, keep the answer.
Look(t, c) ==
    /\ pc[t] = <<c, "look">>
    /\ IF Hit(c)
       THEN /\ got' = IF t = Warmer THEN got ELSE [got EXCEPT ![t][c] = val[c]]
            /\ pc' = [pc EXCEPT ![t] = After(t, c)]
            /\ UNCHANGED <<since, tag>>
       ELSE Begin(t, c, <<c, "query">>) /\ UNCHANGED got
    /\ UNCHANGED <<table, cache, known, cut>>

Query(t, c) ==
    /\ pc[t] = <<c, "query">>
    /\ got' = [got EXCEPT ![t][c] = ids]
    /\ pc' = [pc EXCEPT ![t] = <<c, "store">>]
    /\ UNCHANGED <<table, cache, since, tag, known, cut>>

(* Mutation: the tag is the version at the end of the build.                *)
Keep_TaggedAtEnd(t, c, value) ==
    Put([age EXCEPT ![c] = since[t][c]], [val EXCEPT ![c] = value], [ver EXCEPT ![c] = Version])

(* Mutation: a value is young when it is stored, not when it was begun.     *)
Keep_NewBorn(t, c, value) ==
    Put([age EXCEPT ![c] = 0], [val EXCEPT ![c] = value], [ver EXCEPT ![c] = tag[t][c]])

Keep(t, c, value) == Put([age EXCEPT ![c] = since[t][c]], [val EXCEPT ![c] = value],
                         [ver EXCEPT ![c] = tag[t][c]])

\* The locals of a call that has returned.
Forget(t, c) == /\ since' = [since EXCEPT ![t][c] = 0]
                /\ tag' = [tag EXCEPT ![t][c] = 0]

Store(t, c) ==
    /\ pc[t] = <<c, "store">>
    /\ Keep(t, c, got[t][c]) /\ Forget(t, c)
    /\ pc' = [pc EXCEPT ![t] = After(t, c)]
    /\ got' = IF t = Warmer THEN [got EXCEPT ![t] = NoPage] ELSE got
    /\ UNCHANGED <<table, known, cut>>

\* _cached_page.
PageHit(t) == /\ t \in Requests /\ pc[t] = Idle /\ Hit("page")
              /\ UNCHANGED consoleVars

PageMiss(t) == /\ t \in Requests /\ pc[t] = Idle /\ ~Hit("page")
               /\ Begin(t, "page", <<"overview", "look">>)
               /\ UNCHANGED <<table, cache, got, known, cut>>

PageStore(t) == /\ pc[t] = <<"page", "store">>
                /\ Keep(t, "page", got[t]) /\ Forget(t, "page")
                /\ pc' = [pc EXCEPT ![t] = Idle]
                /\ got' = [got EXCEPT ![t] = NoPage]
                /\ UNCHANGED <<table, known, cut>>

(* Mutation: Refresh empties the caches of the pages, not of the frame.     *)
Refresh_KeepsFrame ==
    /\ Put([c \in Caches |-> IF c = "frame" THEN age[c] ELSE TTL], val, ver)
    /\ IF \A t \in Threads : pc[t] = Idle
       THEN known' = ids /\ cut' = (1..last) \ ids
       ELSE UNCHANGED <<known, cut>>
    /\ UNCHANGED <<table, locals>>

\* clear_caches, from the Refresh button.
Refresh == /\ Put([c \in Caches |-> TTL], val, ver)
           /\ IF \A t \in Threads : pc[t] = Idle
              THEN known' = ids /\ cut' = (1..last) \ ids
              ELSE UNCHANGED <<known, cut>>
           /\ UNCHANGED <<table, locals>>

Work(t) == \/ \E c \in {"frame", "overview"} : Look(t, c) \/ Query(t, c) \/ Store(t, c)
           \/ PageStore(t)

ConsoleNext == \/ Insert \/ (\E n \in Ids : Prune(n)) \/ Tick \/ Refresh
        \/ \E t \in Threads : Work(t) \/ PageHit(t) \/ PageMiss(t)

ConsoleSpec == ConsoleInit /\ [][ConsoleNext]_consoleVars

\* Time passes, a call that was begun returns, and an open dashboard goes on
\* asking: its pages poll.
FairSpec == /\ ConsoleSpec /\ WF_consoleVars(Tick)
            /\ \A t \in Threads : WF_consoleVars(Work(t)) /\ WF_consoleVars(PageMiss(t))

(* ------------------------------ properties ------------------------------ *)
\* A page is served from the cache, or when it has been built.
FromCache == Hit("page")
Built(t) == pc[t] = <<"page", "store">>

\* "Lets a cache notice NEW data instead of only ageing out" (data.py:55): the
\* numbers of a page that is served count every row that was in the table when
\* it was asked for, though other threads fill the same caches with what they
\* read earlier.
SummaryIsCurrent ==
    /\ FromCache => ids \subseteq val["page"].overview
    /\ \A t \in Requests : Built(t) => {i \in ids : i <= tag[t]["page"]} \subseteq got[t].overview

\* The half that comes from load_all lags, by the age of the page and the age
\* of the frame it was built from, and by no more.
FrameLagIsBounded ==
    /\ FromCache => {i \in ids : rowAge[i] >= 2 * TTL - 1} \subseteq val["page"].frame
    /\ \A t \in Requests : Built(t) /\ since[t]["page"] < TTL =>
         {i \in ids : rowAge[i] >= TTL + since[t]["page"]} \subseteq got[t].frame

\* "Drop every cached derivation" (data.py:250): after a Refresh that met no
\* build in flight, a page shows what the table held then, in both halves, and
\* nothing that was already deleted.
Complete(page) == /\ known \cap ids \subseteq page.frame \cap page.overview
                  /\ cut \cap (page.frame \cup page.overview) = {}

RefreshIsComplete == /\ FromCache => Complete(val["page"])
                     /\ \A t \in Requests : Built(t) => Complete(got[t])

\* A row that stays in the table is in both halves of a page in the end.
EventuallyShown ==
    \A i \in Ids : i \in ids ~>
        i \notin ids \/ \E t \in Requests : Built(t) /\ i \in got[t].frame \cap got[t].overview
=============================================================================
