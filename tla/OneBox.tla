------------------------------- MODULE OneBox -------------------------------
(* What a session promises whoever answers: one box.  A line that is typed  *)
(* is answered once and logged once, whichever of the agents spoke, and it  *)
(* changes the box by its own effect, before it is logged and at most once. *)
(* There are two exceptions.  Where Cowrie refuses what the box has, the    *)
(* line is applied before it is answered, and again when a better answer is *)
(* found.  Where the link raises, the line ends in an error, not logged.    *)
CONSTANTS Lines, NoLine, Effect(_, _),
          Starts   \* the boxes a session may begin with

VARIABLES box,     \* what the session has
          line,    \* the line being answered, or NoLine
          state,   \* "pending", "done", "again": how often its effect was applied
          logged,  \* whether the latest line is in the logs: "no", "once"
          \* what the session finds, and does not choose:
          refused, \* "yes" when Cowrie has refused a command of the box
          link     \* "raises" when Cowrie cannot be asked at all

vars == <<box, line, state, logged>>

Init == /\ box \in Starts
        /\ line = NoLine
        /\ state = "pending"
        /\ logged = "once"

Type(l) == /\ line = NoLine
           /\ line' = l
           /\ state' = "pending"
           /\ logged' = "no"
           /\ UNCHANGED box

\* The line is applied, and nothing is answered yet.
Apply == /\ line # NoLine
         /\ refused = "yes"
         /\ state = "pending"
         /\ box' = Effect(line, box)
         /\ state' = "done"
         /\ UNCHANGED <<line, logged>>

Answer == /\ line # NoLine
          /\ line' = NoLine
          /\ logged' = "once"
          /\ \/ UNCHANGED <<box, state>>
             \/ /\ state \in {"pending", "done"}
                /\ box' = Effect(line, box)
                /\ state' = IF state = "pending" THEN "done" ELSE "again"

Fail == /\ line # NoLine
        /\ link = "raises"
        /\ line' = NoLine
        /\ UNCHANGED <<box, state, logged>>

Next == (\E l \in Lines : Type(l)) \/ Apply \/ Answer \/ Fail

Safety == Init /\ [][Next]_vars

\* Nobody has to type; what was typed is answered.
Spec == Safety /\ (line # NoLine ~> line = NoLine)
=============================================================================
