------------------------------- MODULE JobBag -------------------------------
(***************************************************************************)
(* What the ready cache and the destroy queue promise: a job that was put  *)
(* in is handed to exactly one taker.  Which job a taker gets, and whether *)
(* it gets one although there are some, is left open.                      *)
(***************************************************************************)
CONSTANT Jobs

VARIABLES
  bag,    \* jobs that were put in and that nobody has taken
  held    \* jobs that a taker has

vars == <<bag, held>>

Init == bag = {} /\ held = {}

\* A job that is nowhere is put in.
Put(j) == j \notin bag \cup held /\ bag' = bag \cup {j} /\ UNCHANGED held

Take(j) == j \in bag /\ bag' = bag \ {j} /\ held' = held \cup {j}

\* The taker is done with the job, or puts it back.
Drop(j)  == j \in held /\ held' = held \ {j} /\ UNCHANGED bag
Again(j) == j \in held /\ held' = held \ {j} /\ bag' = bag \cup {j}

Next == \E j \in Jobs : Put(j) \/ Take(j) \/ Drop(j) \/ Again(j)

Spec == Init /\ [][Next]_vars
=============================================================================
