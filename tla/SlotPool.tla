------------------------------ MODULE SlotPool ------------------------------
(***************************************************************************)
(* What the job array promises its users: a slot that was handed out is    *)
(* nobody else's until it is given back.  The order in which free slots    *)
(* are handed out is left open.  A slot that is given back may become      *)
(* unusable for good, but only if the overflow warning is raised.          *)
(***************************************************************************)
CONSTANT Slots

VARIABLES
  free,       \* slots that can be handed out
  held,       \* slots that somebody owns
  overflow    \* SCHEDI_JOB_ARRAY_SECTION_WARN

vars == <<free, held, overflow>>

Init ==
  /\ free = Slots
  /\ held = {}
  /\ overflow = FALSE

Claim(s) ==
  /\ s \in free
  /\ free' = free \ {s}
  /\ held' = held \cup {s}
  /\ UNCHANGED overflow

Release(s) ==
  /\ s \in held
  /\ held' = held \ {s}
  /\ free' = free \cup {s}
  /\ UNCHANGED overflow

\* The slot is neither owned nor free any more.
ReleaseLost(s) ==
  /\ s \in held
  /\ held' = held \ {s}
  /\ overflow' = TRUE
  /\ UNCHANGED free

Next == \E s \in Slots : Claim(s) \/ Release(s) \/ ReleaseLost(s)

Spec == Init /\ [][Next]_vars
=============================================================================
