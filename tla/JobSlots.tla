------------------------------ MODULE JobSlots ------------------------------
(***************************************************************************)
(* The free-slot bookkeeping of the static job array (jobs.c, "Static      *)
(* Array Management").  Free slots are kept as half-open intervals in a    *)
(* fixed table of sections; section_lock is held over the whole of a claim *)
(* and of a release, so each is one action.                                *)
(*                                                                         *)
(* A caller releases only a slot it owns (schedi_job_destroy_now releases  *)
(* the slot of the job it has just torn down), which `used' records.       *)
(***************************************************************************)
EXTENDS Integers

CONSTANTS
  MaxJobs,       \* SCHEDI_MAXIMUM_JOBS (256)
  MaxSections    \* SCHEDI_MAXIMUM_EMPTY_SECTIONS (64)

ASSUME SlotsAssumption == MaxJobs \in Nat \ {0} /\ MaxSections \in Nat \ {0}

Slots    == 0 .. MaxJobs - 1
Sections == 0 .. MaxSections - 1

VARIABLES
  empty_sections,   \* job_array.empty_sections: [a, b) and an active mark
  warn,             \* SCHEDI_JOB_ARRAY_SECTION_WARN in job_array.flags
  used              \* the slots handed out and not released yet

vars == <<empty_sections, warn, used>>

Section == [a : 0 .. MaxJobs, b : 0 .. MaxJobs, active : BOOLEAN]

\* The slots a section offers.
Interval(i) ==
  {n \in Slots : /\ empty_sections[i].active
                 /\ empty_sections[i].a <= n
                 /\ n < empty_sections[i].b}

FreeSlots == {n \in Slots : \E i \in Sections : n \in Interval(i)}

-----------------------------------------------------------------------------
\* sections_init: section 0 offers everything, the rest of the static table
\* is zero.
Init ==
  /\ empty_sections = [i \in Sections |->
       IF i = 0 THEN [a |-> 0, b |-> MaxJobs, active |-> TRUE]
                ELSE [a |-> 0, b |-> 0, active |-> FALSE]]
  /\ warn = FALSE
  /\ used = {}

\* The loops over the table stop at the first section that qualifies.
FirstIn(i, S) == i \in S /\ \A k \in S : i <= k

ActiveSections == {i \in Sections : empty_sections[i].active}

\* Mutant: the emptied section is not marked inactive.
section_claim_StaysActive ==
  \E i \in Sections :
    /\ FirstIn(i, ActiveSections)
    /\ empty_sections' = [empty_sections EXCEPT ![i].a = @ + 1]
    /\ used' = used \cup {empty_sections[i].a}
    /\ UNCHANGED warn

\* The first active section gives its lowest slot and shrinks.  With no
\* active section section_claim returns NULL and changes nothing.
section_claim ==
  \E i \in Sections :
    /\ FirstIn(i, ActiveSections)
    /\ LET s == empty_sections[i] IN
         /\ empty_sections' = [empty_sections EXCEPT ![i] =
              [a |-> s.a + 1, b |-> s.b,
               active |-> IF s.a + 1 >= s.b THEN FALSE ELSE TRUE]]
         /\ used' = used \cup {s.a}
    /\ UNCHANGED warn

\* Mutant: b taken for the last slot of the section.
Touching_ClosedInterval(idx) ==
  {i \in ActiveSections : \/ idx + 1 = empty_sections[i].a
                          \/ idx = empty_sections[i].b + 1}

\* The sections that begin directly after slot idx or end directly before it.
Touching(idx) ==
  {i \in ActiveSections : \/ idx + 1 = empty_sections[i].a
                          \/ idx = empty_sections[i].b}

\* First loop of section_release: grow the first section idx touches.  Two
\* sections that idx now bridges stay two sections.
ReleaseMerge(idx) ==
  /\ \E i \in Sections :
       /\ FirstIn(i, Touching(idx))
       /\ empty_sections' = [empty_sections EXCEPT ![i] =
            IF idx + 1 = @.a THEN [a |-> idx, b |-> @.b, active |-> TRUE]
                             ELSE [a |-> @.a, b |-> idx + 1, active |-> TRUE]]
  /\ UNCHANGED warn

\* Mutant: the new section is filled in but not activated.
ReleaseNew_Inactive(idx) ==
  /\ Touching(idx) = {}
  /\ \E i \in Sections :
       /\ FirstIn(i, Sections \ ActiveSections)
       /\ empty_sections' = [empty_sections EXCEPT ![i] =
            [a |-> idx, b |-> idx + 1, active |-> FALSE]]
  /\ UNCHANGED warn

\* Mutant: a break in the place of the return, so that the code behind the
\* loop raises the warning although the slot is not lost.
ReleaseNew_FallsThrough(idx) ==
  /\ Touching(idx) = {}
  /\ \E i \in Sections :
       /\ FirstIn(i, Sections \ ActiveSections)
       /\ empty_sections' = [empty_sections EXCEPT ![i] =
            [a |-> idx, b |-> idx + 1, active |-> TRUE]]
  /\ warn' = TRUE

\* Second loop: open a new section in the first inactive entry.
ReleaseNew(idx) ==
  /\ Touching(idx) = {}
  /\ \E i \in Sections :
       /\ FirstIn(i, Sections \ ActiveSections)
       /\ empty_sections' = [empty_sections EXCEPT ![i] =
            [a |-> idx, b |-> idx + 1, active |-> TRUE]]
  /\ UNCHANGED warn

\* No section touches idx and the table is full: only the flag is raised.
ReleaseWarn(idx) ==
  /\ Touching(idx) = {}
  /\ ActiveSections = Sections
  /\ warn' = TRUE
  /\ UNCHANGED empty_sections

section_release(idx) ==
  /\ idx \in used
  /\ used' = used \ {idx}
  /\ ReleaseMerge(idx) \/ ReleaseNew(idx) \/ ReleaseWarn(idx)

Next == section_claim \/ \E idx \in Slots : section_release(idx)

Spec == Init /\ [][Next]_vars

-----------------------------------------------------------------------------
TypeOK ==
  /\ empty_sections \in [Sections -> Section]
  /\ warn \in BOOLEAN
  /\ used \in SUBSET Slots

\* An active section offers at least one slot and stays inside the array.
SectionsWellFormed ==
  \A i \in ActiveSections : empty_sections[i].a < empty_sections[i].b

\* Two sections never offer the same slot.
SectionsDisjoint ==
  \A i, j \in Sections : i # j => Interval(i) \cap Interval(j) = {}

\* No slot is offered twice: sections that section_release has grown or
\* opened never overlap, and none contains a slot that a job still lives in.
\* A second job can therefore never be created in a live job's memory.
NoSlotOfferedTwice ==
  /\ SectionsDisjoint
  /\ FreeSlots \cap used = {}

\* As long as the warning flag is not raised, every slot is owned or on
\* offer: section_claim returns NULL only when all jobs are really alive.
NoSlotForgotten == ~warn => FreeSlots \cup used = Slots

\* The section table implements the abstract pool of slots.
Pool == INSTANCE SlotPool WITH free <- FreeSlots, held <- used,
                               overflow <- warn
PoolSpec == Pool!Spec
=============================================================================
