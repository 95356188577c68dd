------------------------ MODULE CompletionIndicator ------------------------
(***************************************************************************)
(* schedi_job_completion_indicate and schedi_job_completion_wait.  Every   *)
(* job has an indicator of its own, user threads wait for the jobs they    *)
(* are interested in, and an indicator is destroyed when all of them have  *)
(* returned, as a user who keeps it on a stack would do.                   *)
(***************************************************************************)
EXTENDS Integers

CONSTANTS
  Jobs, Waiters, Free

ASSUME IndicatorAssumption == Free \notin Jobs

VARIABLES
  completion,   \* [Jobs -> BOOLEAN], indicator->completion
  mutex,        \* [Jobs -> {Free} \cup Jobs], completion_signal_mutex
  job_pc,       \* where the worker is that runs the job
  wait_pc,      \* [Jobs -> [Waiters -> ...]]
  waiting,      \* [Jobs -> SUBSET Waiters], blocked in pthread_cond_wait
  destroyed,    \* jobs whose indicator was destroyed
  spurious      \* <<waiter, job>> pairs of spurious wakeups

vars ==
  <<completion, mutex, job_pc, wait_pc, waiting, destroyed, spurious>>

\* schedi_completion_indicator_init
Init ==
  /\ completion = [j \in Jobs |-> FALSE]
  /\ mutex = [j \in Jobs |-> Free]
  /\ job_pc = [j \in Jobs |-> "running"]
  /\ wait_pc = [j \in Jobs |-> [w \in Waiters |-> "call"]]
  /\ waiting = [j \in Jobs |-> {}]
  /\ destroyed = {}
  /\ spurious = {}

-----------------------------------------------------------------------------
(* schedi_job_completion_indicate *)

\* Mutant: the waiters are woken first and completion is set later.
Complete_WakesFirst(j) ==
  /\ job_pc[j] = "running"
  /\ waiting' = [waiting EXCEPT ![j] = {}]
  /\ job_pc' = [job_pc EXCEPT ![j] = "signal"]
  /\ UNCHANGED <<completion, mutex, wait_pc, destroyed, spurious>>

\* Mutant: completion is set without the mutex.
Complete_Unlocked(j) ==
  /\ job_pc[j] = "running"
  /\ completion' = [completion EXCEPT ![j] = TRUE]
  /\ job_pc' = [job_pc EXCEPT ![j] = "signal"]
  /\ UNCHANGED <<mutex, wait_pc, waiting, destroyed, spurious>>

\* Mutant: completion is not set.
Complete_Forgets(j) ==
  /\ job_pc[j] = "running" /\ mutex[j] = Free
  /\ mutex' = [mutex EXCEPT ![j] = j]
  /\ job_pc' = [job_pc EXCEPT ![j] = "signal"]
  /\ UNCHANGED <<completion, wait_pc, waiting, destroyed, spurious>>

\* The function of the job has returned -1; lock and set completion.
Complete(j) ==
  /\ job_pc[j] = "running" /\ mutex[j] = Free
  /\ mutex' = [mutex EXCEPT ![j] = j]
  /\ completion' = [completion EXCEPT ![j] = TRUE]
  /\ job_pc' = [job_pc EXCEPT ![j] = "signal"]
  /\ UNCHANGED <<wait_pc, waiting, destroyed, spurious>>

\* pthread_cond_broadcast and unlock.
Broadcast(j) ==
  /\ job_pc[j] = "signal"
  /\ waiting' = [waiting EXCEPT ![j] = {}]
  /\ mutex' = [mutex EXCEPT ![j] = Free]
  /\ job_pc' = [job_pc EXCEPT ![j] = "indicated"]
  /\ UNCHANGED <<completion, wait_pc, destroyed, spurious>>

-----------------------------------------------------------------------------
(* schedi_job_completion_wait *)

\* Lock, look at completion, and return or go to sleep.
Wait(w, j) ==
  /\ wait_pc[j][w] = "call" /\ mutex[j] = Free
  /\ IF completion[j]
     THEN /\ wait_pc' = [wait_pc EXCEPT ![j][w] = "returned"]
          /\ UNCHANGED waiting
     ELSE /\ wait_pc' = [wait_pc EXCEPT ![j][w] = "asleep"]
          /\ waiting' = [waiting EXCEPT ![j] = @ \cup {w}]
  /\ UNCHANGED <<completion, mutex, job_pc, destroyed, spurious>>

\* pthread_cond_wait returns; completion is not looked at again.
WakeUp(w, j) ==
  /\ wait_pc[j][w] = "asleep" /\ w \notin waiting[j] /\ mutex[j] = Free
  /\ wait_pc' = [wait_pc EXCEPT ![j][w] = "returned"]
  /\ UNCHANGED <<completion, mutex, job_pc, waiting, destroyed, spurious>>

SpuriousWakeup(w, j) ==
  /\ w \in waiting[j]
  /\ spurious' = spurious \cup {<<w, j>>}
  /\ waiting' = [waiting EXCEPT ![j] = @ \ {w}]
  /\ UNCHANGED <<completion, mutex, job_pc, wait_pc, destroyed>>

\* schedi_completion_indicator_destroy
DestroyIndicator(j) ==
  /\ j \notin destroyed /\ \A w \in Waiters : wait_pc[j][w] = "returned"
  /\ destroyed' = destroyed \cup {j}
  /\ UNCHANGED <<completion, mutex, job_pc, wait_pc, waiting, spurious>>

-----------------------------------------------------------------------------
JobStep(j)     == Complete(j) \/ Broadcast(j)
WaitStep(w, j) == Wait(w, j) \/ WakeUp(w, j)

Next ==
  \/ \E j \in Jobs : JobStep(j) \/ DestroyIndicator(j)
  \/ \E j \in Jobs, w \in Waiters : WaitStep(w, j) \/ SpuriousWakeup(w, j)

\* Jobs complete and threads are scheduled.
Fairness ==
  \A j \in Jobs :
    /\ WF_vars(JobStep(j))
    /\ \A w \in Waiters : WF_vars(WaitStep(w, j))

Spec == Init /\ [][Next]_vars /\ Fairness

-----------------------------------------------------------------------------
\* No user thread owns the mutex between its steps.
TypeOK ==
  /\ completion \in [Jobs -> BOOLEAN]
  /\ mutex \in [Jobs -> Jobs \cup {Free}]
  /\ job_pc \in [Jobs -> {"running", "signal", "indicated"}]
  /\ wait_pc \in [Jobs -> [Waiters -> {"call", "asleep", "returned"}]]
  /\ waiting \in [Jobs -> SUBSET Waiters]
  /\ destroyed \subseteq Jobs
  /\ spurious \subseteq Waiters \X Jobs

\* "the job can be waited until its done" (README): the wait returns only
\* when the job has completed, unless pthread_cond_wait returned for no
\* reason, which schedi_job_completion_wait does not tell apart.
WaitReturnsCompleted ==
  \A j \in Jobs, w \in Waiters :
    wait_pc[j][w] = "returned" => completion[j] \/ <<w, j>> \in spurious

\* A worker is through with an indicator when the waiters return: it never
\* locks or signals one that its user has destroyed, unless spurious wakeups
\* sent all waiters home.
IndicatorOutlivesUse ==
  \A j \in destroyed :
    job_pc[j] = "indicated" \/ \A w \in Waiters : <<w, j>> \in spurious

\* Nobody waits forever: the wakeup is not lost, whether the job completes
\* before, during or after the call of schedi_job_completion_wait.
WaitersReturn ==
  <>(\A j \in Jobs, w \in Waiters : wait_pc[j][w] = "returned")
=============================================================================
