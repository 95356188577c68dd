---------------------- MODULE CompletionIndicatorProofs ----------------------
(***************************************************************************)
(* schedi_job_completion_wait keeps its promises for any number of jobs    *)
(* and waiters.                                                            *)
(*                                                                         *)
(* The argument: the mutex of an indicator is held exactly between the     *)
(* store of completion and the broadcast.  A waiter leaves the wait set    *)
(* while completion is unset only by a spurious wakeup, and it returns     *)
(* only when the mutex is free; so, if it was not woken spuriously, the    *)
(* worker has set completion and has also released the mutex for good.     *)
(***************************************************************************)
EXTENDS CompletionIndicator, TLAPS

\* The worker holds the mutex while it signals, and nobody else ever does.
MutexGuardsSignal ==
  \A j \in Jobs :
    /\ completion[j] <=> job_pc[j] # "running"
    /\ mutex[j] = Free <=> job_pc[j] # "signal"

\* Who is in the wait set is asleep, and who left it has a reason to.
SleepersAreWoken ==
  \A j \in Jobs, w \in Waiters :
    /\ w \in waiting[j] => wait_pc[j][w] = "asleep"
    /\ wait_pc[j][w] = "asleep" /\ w \notin waiting[j] =>
         job_pc[j] = "indicated" \/ <<w, j>> \in spurious

\* Who has returned left the worker behind.
ReturnedAfterSignal ==
  \A j \in Jobs, w \in Waiters :
    wait_pc[j][w] = "returned" =>
      job_pc[j] = "indicated" \/ <<w, j>> \in spurious

DestroyedAfterReturn ==
  \A j \in destroyed, w \in Waiters : wait_pc[j][w] = "returned"

IndInv ==
  /\ TypeOK
  /\ MutexGuardsSignal
  /\ SleepersAreWoken
  /\ ReturnedAfterSignal
  /\ DestroyedAfterReturn

-----------------------------------------------------------------------------
\* The invariant holds in the initial states ...
LEMMA InitInv == Init => IndInv
BY IndicatorAssumption
DEF Init, IndInv, TypeOK, MutexGuardsSignal, SleepersAreWoken,
    ReturnedAfterSignal, DestroyedAfterReturn

\* ... and every step keeps it.
LEMMA StepInv == IndInv /\ [Next]_vars => IndInv'
<1> SUFFICES ASSUME IndInv, [Next]_vars PROVE IndInv'
  OBVIOUS
<1> USE IndicatorAssumption
    DEF IndInv, TypeOK, MutexGuardsSignal, SleepersAreWoken,
        ReturnedAfterSignal, DestroyedAfterReturn
<1>1. ASSUME NEW j \in Jobs, Complete(j) PROVE IndInv'
  BY <1>1 DEF Complete
<1>2. ASSUME NEW j \in Jobs, Broadcast(j) PROVE IndInv'
  BY <1>2 DEF Broadcast
<1>3. ASSUME NEW j \in Jobs, DestroyIndicator(j) PROVE IndInv'
  BY <1>3 DEF DestroyIndicator
<1>4. ASSUME NEW j \in Jobs, NEW w \in Waiters, Wait(w, j) PROVE IndInv'
  <2>1. CASE completion[j]
    <3>1. /\ wait_pc' = [wait_pc EXCEPT ![j][w] = "returned"]
          /\ UNCHANGED <<waiting, completion, mutex, job_pc, destroyed, spurious>>
          /\ wait_pc[j][w] = "call" /\ job_pc[j] = "indicated"
      BY <1>4, <2>1 DEF Wait
    <3>2. TypeOK'
      BY <3>1
    <3>3. SleepersAreWoken' /\ ReturnedAfterSignal'
      BY <3>1
    <3>4. DestroyedAfterReturn'
      BY <3>1
    <3> QED
      BY <3>1, <3>2, <3>3, <3>4
  <2>2. CASE ~completion[j]
    <3>1. /\ wait_pc' = [wait_pc EXCEPT ![j][w] = "asleep"]
          /\ waiting' = [waiting EXCEPT ![j] = @ \cup {w}]
          /\ UNCHANGED <<completion, mutex, job_pc, destroyed, spurious>>
          /\ wait_pc[j][w] = "call"
      BY <1>4, <2>2 DEF Wait
    <3>2. TypeOK'
      BY <3>1
    <3>3. SleepersAreWoken' /\ ReturnedAfterSignal'
      BY <3>1
    <3>4. DestroyedAfterReturn'
      BY <3>1
    <3> QED
      BY <3>1, <3>2, <3>3, <3>4
  <2> QED
    BY <2>1, <2>2
<1>5. ASSUME NEW j \in Jobs, NEW w \in Waiters, WakeUp(w, j) PROVE IndInv'
  BY <1>5 DEF WakeUp
<1>6. ASSUME NEW j \in Jobs, NEW w \in Waiters, SpuriousWakeup(w, j)
      PROVE  IndInv'
  BY <1>6 DEF SpuriousWakeup
<1>7. CASE UNCHANGED vars
  BY <1>7 DEF vars
<1> QED
  BY <1>1, <1>2, <1>3, <1>4, <1>5, <1>6, <1>7 DEF Next, JobStep, WaitStep

-----------------------------------------------------------------------------
\* The indicators stay within their types; only a worker ever owns a mutex
\* between two steps.
THEOREM TypeCorrect == Spec => []TypeOK
<1>1. IndInv => TypeOK
  BY DEF IndInv
<1> QED
  BY InitInv, StepInv, <1>1, PTL DEF Spec

\* For any number of jobs and waiters schedi_job_completion_wait returns only
\* when the job has completed, unless pthread_cond_wait returned spuriously.
THEOREM ReturnsWhenCompleted == Spec => []WaitReturnsCompleted
<1>1. IndInv => WaitReturnsCompleted
  BY DEF IndInv, MutexGuardsSignal, ReturnedAfterSignal, WaitReturnsCompleted
<1> QED
  BY InitInv, StepInv, <1>1, PTL DEF Spec

\* For any number of jobs and waiters the worker has signalled and unlocked
\* an indicator for the last time when its waiters destroy it, unless all of
\* them were woken spuriously.
THEOREM IndicatorIsUsedBeforeDestroyed == Spec => []IndicatorOutlivesUse
<1>1. IndInv => IndicatorOutlivesUse
  BY DEF IndInv, TypeOK, ReturnedAfterSignal, DestroyedAfterReturn,
         IndicatorOutlivesUse
<1> QED
  BY InitInv, StepInv, <1>1, PTL DEF Spec
=============================================================================
