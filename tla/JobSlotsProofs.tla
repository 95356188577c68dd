--------------------------- MODULE JobSlotsProofs ---------------------------
(***************************************************************************)
(* The slot table keeps its promises for every array and table size.       *)
(*                                                                         *)
(* The argument: a claim takes exactly one slot out of what the sections   *)
(* offer (ClaimEffect), a release that finds room adds exactly the slot    *)
(* given back (GrowEffect).  Both keep active sections non-empty and       *)
(* disjoint, which makes the invariant inductive; and both are then steps  *)
(* of the abstract pool.                                                   *)
(***************************************************************************)
EXTENDS JobSlots, TLAPS

IndInv ==
  /\ TypeOK
  /\ SectionsWellFormed
  /\ NoSlotOfferedTwice
  /\ NoSlotForgotten

TableOK == TypeOK /\ SectionsWellFormed /\ SectionsDisjoint

-----------------------------------------------------------------------------
\* section_claim removes one offered slot from the table, and only that one.
LEMMA ClaimEffect ==
  ASSUME TableOK, section_claim
  PROVE  \E n \in FreeSlots :
           /\ FreeSlots' = FreeSlots \ {n}
           /\ used' = used \cup {n}
           /\ warn' = warn
           /\ TableOK'
<1>1. PICK i \in Sections :
        /\ empty_sections[i].active
        /\ empty_sections' = [empty_sections EXCEPT ![i] =
             [a |-> empty_sections[i].a + 1, b |-> empty_sections[i].b,
              active |-> IF empty_sections[i].a + 1 >= empty_sections[i].b
                        THEN FALSE ELSE TRUE]]
        /\ used' = used \cup {empty_sections[i].a}
        /\ warn' = warn
  BY DEF section_claim, FirstIn, ActiveSections
<1> DEFINE n == empty_sections[i].a
<1>2. /\ empty_sections[i] \in Section
      /\ n \in Int /\ empty_sections[i].b \in Int
      /\ 0 <= n /\ n < empty_sections[i].b /\ empty_sections[i].b <= MaxJobs
  BY <1>1, SlotsAssumption
  DEF TableOK, TypeOK, SectionsWellFormed, ActiveSections, Section
<1>3. n \in Slots /\ n \in Interval(i)
  BY <1>1, <1>2, SlotsAssumption DEF Interval, Slots
<1>4. /\ empty_sections'[i] =
             [a |-> n + 1, b |-> empty_sections[i].b,
              active |-> IF n + 1 >= empty_sections[i].b THEN FALSE ELSE TRUE]
      /\ \A k \in Sections \ {i} : empty_sections'[k] = empty_sections[k]
  BY <1>1 DEF TableOK, TypeOK
<1>4a. /\ empty_sections'[i].a = n + 1
       /\ empty_sections'[i].b = empty_sections[i].b
       /\ empty_sections'[i].active <=> n + 1 < empty_sections[i].b
  BY <1>2, <1>4
<1>5. Interval(i)' = Interval(i) \ {n}
  <2>1. ASSUME NEW m \in Slots
        PROVE  m \in Interval(i)' <=> m \in Interval(i) /\ m # n
    BY <1>1, <1>2, <1>4a DEF Interval, Slots
  <2> QED
    BY <2>1 DEF Interval
<1>6. \A k \in Sections \ {i} : Interval(k)' = Interval(k)
  BY <1>4 DEF Interval
<1>7. SectionsDisjoint'
  BY <1>5, <1>6 DEF TableOK, SectionsDisjoint
<1>8. FreeSlots' = FreeSlots \ {n}
  BY <1>1, <1>3, <1>5, <1>6 DEF FreeSlots, TableOK, SectionsDisjoint
<1>9. TypeOK'
  <2>1. empty_sections' \in [Sections -> Section]
    <3>1. [a |-> n + 1, b |-> empty_sections[i].b,
           active |-> IF n + 1 >= empty_sections[i].b THEN FALSE ELSE TRUE] \in Section
      BY <1>2, SlotsAssumption DEF Section
    <3> QED
      BY <1>1, <3>1 DEF TableOK, TypeOK
  <2> QED
    BY <1>1, <1>3, <2>1 DEF TableOK, TypeOK
<1>10. SectionsWellFormed'
  BY <1>4, <1>4a DEF TableOK, SectionsWellFormed, ActiveSections
<1>11. n \in FreeSlots
  BY <1>1, <1>3 DEF FreeSlots
<1> QED
  BY <1>1, <1>7, <1>8, <1>9, <1>10, <1>11 DEF TableOK

\* A release that merges with a section or opens a new one adds the slot
\* given back to the table, and only that one.
LEMMA GrowEffect ==
  ASSUME TableOK, NEW idx \in Slots, idx \notin FreeSlots,
         used' = used \ {idx},
         ReleaseMerge(idx) \/ ReleaseNew(idx)
  PROVE  /\ FreeSlots' = FreeSlots \cup {idx}
         /\ warn' = warn
         /\ TableOK'
<1>1. PICK i \in Sections : \E lo, hi \in 0 .. MaxJobs :
        /\ empty_sections' = [empty_sections EXCEPT ![i] =
             [a |-> lo, b |-> hi, active |-> TRUE]]
        /\ lo < hi
        /\ {m \in Slots : lo <= m /\ m < hi} = Interval(i) \cup {idx}
  <2>1. CASE ReleaseMerge(idx)
    <3>1. PICK i \in Touching(idx) :
            empty_sections' = [empty_sections EXCEPT ![i] =
              IF idx + 1 = @.a THEN [a |-> idx, b |-> @.b, active |-> TRUE]
                               ELSE [a |-> @.a, b |-> idx + 1, active |-> TRUE]]
      BY <2>1 DEF ReleaseMerge, FirstIn
    <3>2. /\ i \in Sections /\ empty_sections[i].active
          /\ idx + 1 = empty_sections[i].a \/ idx = empty_sections[i].b
      BY <3>1 DEF Touching, ActiveSections
    <3> DEFINE s == empty_sections[i]
    <3>3. /\ s \in Section
          /\ s.a \in 0 .. MaxJobs /\ s.b \in 0 .. MaxJobs /\ s.a < s.b
      BY <3>2 DEF TableOK, TypeOK, SectionsWellFormed, ActiveSections, Section
    <3>4. idx \in Int /\ 0 <= idx /\ idx < MaxJobs
      BY SlotsAssumption DEF Slots
    <3>5. CASE idx + 1 = s.a
      <4>1. empty_sections' = [empty_sections EXCEPT ![i] =
              [a |-> idx, b |-> s.b, active |-> TRUE]]
        BY <3>1, <3>5
      <4>2. {m \in Slots : idx <= m /\ m < s.b} = Interval(i) \cup {idx}
        BY <3>2, <3>3, <3>4, <3>5 DEF Interval, Slots
      <4>3. idx \in 0 .. MaxJobs /\ idx < s.b
        BY <3>3, <3>4, <3>5, SlotsAssumption
      <4> QED
        BY <3>2, <3>3, <4>1, <4>2, <4>3
    <3>6. CASE idx + 1 # s.a /\ idx = s.b
      <4>1. empty_sections' = [empty_sections EXCEPT ![i] =
              [a |-> s.a, b |-> idx + 1, active |-> TRUE]]
        BY <3>1, <3>6
      <4>2. {m \in Slots : s.a <= m /\ m < idx + 1} = Interval(i) \cup {idx}
        BY <3>2, <3>3, <3>4, <3>6 DEF Interval, Slots
      <4>3. idx + 1 \in 0 .. MaxJobs /\ s.a < idx + 1
        BY <3>3, <3>4, <3>6, SlotsAssumption
      <4> QED
        BY <3>2, <3>3, <4>1, <4>2, <4>3
    <3> QED
      BY <3>2, <3>5, <3>6
  <2>2. CASE ReleaseNew(idx)
    <3>1. PICK i \in Sections :
            /\ i \notin ActiveSections
            /\ empty_sections' = [empty_sections EXCEPT ![i] =
                 [a |-> idx, b |-> idx + 1, active |-> TRUE]]
      BY <2>2 DEF ReleaseNew, FirstIn
    <3>2. Interval(i) = {}
      BY <3>1 DEF Interval, ActiveSections
    <3>3. idx \in 0 .. MaxJobs /\ idx + 1 \in 0 .. MaxJobs /\ idx < idx + 1
      BY SlotsAssumption DEF Slots
    <3>4. {m \in Slots : idx <= m /\ m < idx + 1} = {idx}
      BY SlotsAssumption DEF Slots
    <3> QED
      BY <3>1, <3>2, <3>3, <3>4
  <2> QED
    BY <2>1, <2>2
<1>2. PICK lo, hi \in 0 .. MaxJobs :
        /\ empty_sections' = [empty_sections EXCEPT ![i] =
             [a |-> lo, b |-> hi, active |-> TRUE]]
        /\ lo < hi
        /\ {m \in Slots : lo <= m /\ m < hi} = Interval(i) \cup {idx}
  BY <1>1
<1>3. /\ empty_sections'[i] = [a |-> lo, b |-> hi, active |-> TRUE]
      /\ \A k \in Sections \ {i} : empty_sections'[k] = empty_sections[k]
  BY <1>2 DEF TableOK, TypeOK
<1>4. Interval(i)' = Interval(i) \cup {idx}
  <2>1. Interval(i)' = {m \in Slots : lo <= m /\ m < hi}
    BY <1>3 DEF Interval, Slots
  <2> QED
    BY <1>2, <2>1
<1>5. \A k \in Sections \ {i} : Interval(k)' = Interval(k)
  BY <1>3 DEF Interval
<1>6. \A k \in Sections : idx \notin Interval(k)
  BY DEF FreeSlots
<1>7. SectionsDisjoint'
  BY <1>4, <1>5, <1>6 DEF TableOK, SectionsDisjoint
<1>8. FreeSlots' = FreeSlots \cup {idx}
  BY <1>4, <1>5 DEF FreeSlots, Slots
<1>9. warn' = warn
  BY DEF ReleaseMerge, ReleaseNew
<1>10. TypeOK'
  <2>1. [a |-> lo, b |-> hi, active |-> TRUE] \in Section
    BY <1>2 DEF Section
  <2>2. empty_sections' \in [Sections -> Section]
    BY <1>2, <2>1 DEF TableOK, TypeOK
  <2> QED
    BY <1>9, <2>2 DEF TableOK, TypeOK
<1>11. SectionsWellFormed'
  BY <1>2, <1>3 DEF TableOK, SectionsWellFormed, ActiveSections
<1> QED
  BY <1>7, <1>8, <1>9, <1>10, <1>11 DEF TableOK

-----------------------------------------------------------------------------
\* The invariant holds in the initial states.
LEMMA InitInv == Init => IndInv
<1> SUFFICES ASSUME Init PROVE IndInv
  OBVIOUS
<1>1. TypeOK
  <2>1. \A i \in Sections : empty_sections[i] \in Section
    BY SlotsAssumption DEF Init, Section
  <2> QED
    BY <2>1 DEF Init, TypeOK
<1>2. SectionsWellFormed
  BY SlotsAssumption DEF Init, SectionsWellFormed, ActiveSections, Sections
<1>3. /\ 0 \in Sections
      /\ Interval(0) = Slots
      /\ \A k \in Sections \ {0} : Interval(k) = {}
  <2>1. 0 \in Sections
    BY SlotsAssumption DEF Sections
  <2>2. /\ empty_sections[0] = [a |-> 0, b |-> MaxJobs, active |-> TRUE]
        /\ \A k \in Sections \ {0} : empty_sections[k].active = FALSE
    BY <2>1 DEF Init
  <2>3. \A m \in Slots : m \in Interval(0)
    BY <2>2, SlotsAssumption DEF Interval, Slots
  <2> QED
    BY <2>1, <2>2, <2>3 DEF Interval
<1>4. FreeSlots = Slots
  BY <1>3 DEF FreeSlots
<1>5. SectionsDisjoint
  BY <1>3 DEF SectionsDisjoint
<1> QED
  BY <1>1, <1>2, <1>4, <1>5
  DEF IndInv, NoSlotOfferedTwice, NoSlotForgotten, Init

\* Every step of the table is a step of the abstract pool and keeps IndInv.
LEMMA StepInv == IndInv /\ [Next]_vars => IndInv' /\ [Pool!Next]_(Pool!vars)
<1> SUFFICES ASSUME IndInv, [Next]_vars
             PROVE  IndInv' /\ [Pool!Next]_(Pool!vars)
  OBVIOUS
<1>0. TableOK /\ FreeSlots \subseteq Slots /\ used \subseteq Slots
  BY DEF IndInv, NoSlotOfferedTwice, TableOK, FreeSlots, TypeOK
<1>1. CASE section_claim
  <2>1. PICK n \in FreeSlots :
          /\ FreeSlots' = FreeSlots \ {n}
          /\ used' = used \cup {n}
          /\ warn' = warn
          /\ TableOK'
    BY <1>0, <1>1, ClaimEffect
  <2>2. IndInv'
    BY <2>1 DEF IndInv, TableOK, NoSlotOfferedTwice, NoSlotForgotten
  <2>3. Pool!Claim(n)
    BY <2>1 DEF Pool!Claim
  <2> QED
    BY <1>0, <2>1, <2>2, <2>3 DEF Pool!Next
<1>2. ASSUME NEW idx \in Slots, section_release(idx)
      PROVE  IndInv' /\ [Pool!Next]_(Pool!vars)
  <2>1. /\ idx \in used /\ idx \notin FreeSlots
        /\ used' = used \ {idx}
    BY <1>2 DEF section_release, IndInv, NoSlotOfferedTwice
  <2>2. CASE ReleaseMerge(idx) \/ ReleaseNew(idx)
    <3>1. /\ FreeSlots' = FreeSlots \cup {idx}
          /\ warn' = warn
          /\ TableOK'
      BY <1>0, <2>1, <2>2, GrowEffect
    <3>2. IndInv'
      BY <2>1, <3>1 DEF IndInv, TableOK, NoSlotOfferedTwice, NoSlotForgotten
    <3>3. Pool!Release(idx)
      BY <2>1, <3>1 DEF Pool!Release
    <3> QED
      BY <3>2, <3>3 DEF Pool!Next
  <2>3. CASE ReleaseWarn(idx)
    <3>1. FreeSlots' = FreeSlots /\ warn' = TRUE /\ TableOK'
      BY <1>0, <2>1, <2>3
      DEF ReleaseWarn, FreeSlots, Interval, TableOK, TypeOK,
          SectionsWellFormed, ActiveSections, SectionsDisjoint
    <3>2. IndInv'
      BY <2>1, <3>1 DEF IndInv, TableOK, NoSlotOfferedTwice, NoSlotForgotten
    <3>3. Pool!ReleaseLost(idx)
      BY <2>1, <3>1 DEF Pool!ReleaseLost
    <3> QED
      BY <3>2, <3>3 DEF Pool!Next
  <2> QED
    BY <1>2, <2>2, <2>3 DEF section_release
<1>3. CASE UNCHANGED vars
  <2>1. FreeSlots' = FreeSlots /\ used' = used /\ warn' = warn
    BY <1>3 DEF vars, FreeSlots, Interval
  <2>2. IndInv'
    BY <1>3, <2>1
    DEF vars, IndInv, TypeOK, SectionsWellFormed, ActiveSections,
        NoSlotOfferedTwice, SectionsDisjoint, Interval, NoSlotForgotten
  <2> QED
    BY <2>1, <2>2 DEF Pool!vars
<1> QED
  BY <1>1, <1>2, <1>3 DEF Next

-----------------------------------------------------------------------------
\* For every array size and every number of sections the table stays within
\* its types: section_claim and section_release never move a bound of a
\* section outside the job array.
THEOREM TypeCorrect == Spec => []TypeOK
<1>1. IndInv => TypeOK
  BY DEF IndInv
<1> QED
  BY InitInv, StepInv, <1>1, PTL DEF Spec

\* For every array size and every number of sections, section_claim never
\* returns a slot that a live job occupies, whatever the order in which
\* jobs were destroyed.
THEOREM SlotsAreExclusive == Spec => []NoSlotOfferedTwice
<1>1. IndInv => NoSlotOfferedTwice
  BY DEF IndInv
<1> QED
  BY InitInv, StepInv, <1>1, PTL DEF Spec

\* Unless SCHEDI_JOB_ARRAY_SECTION_WARN is raised, no destroyed job's slot
\* is ever lost.
THEOREM SlotsAreNotForgotten == Spec => []NoSlotForgotten
<1>1. IndInv => NoSlotForgotten
  BY DEF IndInv
<1> QED
  BY InitInv, StepInv, <1>1, PTL DEF Spec

\* The section table implements the abstract pool of slots.
THEOREM TableImplementsPool == Spec => PoolSpec
<1>1. Init => Pool!Init
  <2>1. Init => FreeSlots = Slots
    BY SlotsAssumption DEF Init, FreeSlots, Interval, Slots, Sections
  <2> QED
    BY <2>1 DEF Init, Pool!Init
<1> QED
  BY InitInv, StepInv, <1>1, PTL DEF Spec, PoolSpec, Pool!Spec
=============================================================================
