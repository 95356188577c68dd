----------------------------- MODULE WorkerPool -----------------------------
(***************************************************************************)
(* The worker threads: worker_routine with its sleep on readyjob_cond,     *)
(* schedi_job_setready as the producer, and start and stop of the pool.    *)
(* Composes ReadyCache with readyjob_mutex and readyjob_cond.  Lockless is *)
(* the build without the mutex and without sleep.                          *)
(*                                                                         *)
(* A job is run Runs times: its function returns 1, which sets it ready    *)
(* again, until the last time.  The meta_flag protocol around a run is     *)
(* module JobLife; here a job found in the cache can be run.  A critical   *)
(* section with a single effect is one step that needs the mutex free.     *)
(***************************************************************************)
EXTENDS ReadyCache

CONSTANTS
  Workers, Main,
  Runs,
  MaxSpurious,    \* bound on spurious wakeups of pthread_cond_wait
  Setups          \* builds and programs to consider

ASSUME WorkerPoolAssumption ==
  /\ Threads = Workers \cup {Main} /\ Main \notin Workers
  /\ Null \notin Threads
  /\ Runs \in Nat \ {0} /\ MaxSpurious \in Nat
  /\ Setups \subseteq [lockless : BOOLEAN, waits : BOOLEAN]

VARIABLES
  pc,          \* [Threads -> Labels]
  mine,        \* [Threads -> Jobs \cup {Null}], the job a thread works on
  mutex,       \* the owner of readyjob_mutex, or Null
  waiting,     \* workers blocked in pthread_cond_wait
  shutdown,    \* ctx->shutdown of all workers
  left,        \* [Jobs -> Nat], runs a job has left
  launched,    \* jobs main() has set ready
  spurious,    \* spurious wakeups so far
  setup        \* member of Setups, does not change

poolVars ==
  <<pc, mine, mutex, waiting, shutdown, left, launched, spurious, setup>>
arrayVars == <<ready_jobs_cache, job_count, peaked_job_count,
               reorganize_counter, array_full>>
env  == <<spurious, setup>>
vars == <<cacheVars, poolVars>>

\* The library is built with LOCKLESS_READYJOB.
Lockless == setup.lockless
\* main() waits for all jobs before it stops the workers.
WaitForJobs == setup.waits

Labels == {"new", "head", "picked", "lock", "pickedlocked", "sleep", "run",
           "setready", "cached", "tick", "ticked", "exited",
           "main", "stop", "join", "joined"}

Init ==
  /\ CacheInit
  /\ pc = [t \in Threads |-> IF t = Main THEN "main" ELSE "new"]
  /\ mine = [t \in Threads |-> Null]
  /\ mutex = Null
  /\ waiting = {}
  /\ shutdown = FALSE
  /\ left = [j \in Jobs |-> Runs]
  /\ launched = {}
  /\ spurious = 0
  /\ setup \in Setups

Go(t, label) == pc' = [pc EXCEPT ![t] = label]

\* Thread t is at `label', and the call it made of the cache has returned.
At(t, label) == pc[t] = label /\ op[t].pc = "ret"

\* pthread_cond_signal wakes one of the waiting workers, if there is any.
Signal ==
  \/ waiting = {} /\ UNCHANGED waiting
  \/ \E w \in waiting : waiting' = waiting \ {w}

-----------------------------------------------------------------------------
(* worker_routine *)

\* The test of the loop, and the first schedi_job_pickready.
LoopHead(w) ==
  /\ At(w, "head")
  /\ IF shutdown THEN Go(w, "exited") /\ UNCHANGED op
                 ELSE Go(w, "picked") /\ Call(w, "pop", Null)
  /\ UNCHANGED <<arrayVars, mine, mutex, waiting, shutdown, left, launched,
                 env>>

Picked(w) ==
  /\ At(w, "picked")
  /\ mine' = [mine EXCEPT ![w] = op[w].job]
  /\ Go(w, IF op[w].job # Null THEN "run"
           ELSE IF Lockless THEN "tick" ELSE "lock")
  /\ Return(w, Null)
  /\ UNCHANGED <<arrayVars, mutex, waiting, shutdown, left, launched, env>>

\* schedi_pickingreadyjob and the second schedi_job_pickready.
PickLocked(w) ==
  /\ At(w, "lock")
  /\ mutex = Null
  /\ mutex' = w
  /\ Go(w, "pickedlocked")
  /\ Call(w, "pop", Null)
  /\ UNCHANGED <<arrayVars, mine, waiting, shutdown, left, launched, env>>

\* Mutant: the worker sleeps without looking at shutdown under the mutex.
PickedLocked_NoShutdownCheck(w) ==
  /\ At(w, "pickedlocked")
  /\ mutex' = Null
  /\ mine' = [mine EXCEPT ![w] = op[w].job]
  /\ \/ op[w].job # Null /\ Go(w, "run") /\ UNCHANGED waiting
     \/ op[w].job = Null /\ Go(w, "sleep") /\ waiting' = waiting \cup {w}
  /\ Return(w, Null)
  /\ UNCHANGED <<arrayVars, shutdown, left, launched, env>>

\* With no job: leave if told to, else release the mutex and sleep in one.
PickedLocked(w) ==
  /\ At(w, "pickedlocked")
  /\ mutex' = Null
  /\ mine' = [mine EXCEPT ![w] = op[w].job]
  /\ \/ op[w].job # Null /\ Go(w, "run") /\ UNCHANGED waiting
     \/ op[w].job = Null /\ shutdown /\ Go(w, "exited") /\ UNCHANGED waiting
     \/ /\ op[w].job = Null /\ ~shutdown
        /\ Go(w, "sleep") /\ waiting' = waiting \cup {w}
  /\ Return(w, Null)
  /\ UNCHANGED <<arrayVars, shutdown, left, launched, env>>

\* pthread_cond_wait returns with the mutex, which is then unlocked.
Wake(w) ==
  /\ At(w, "sleep")
  /\ w \notin waiting
  /\ mutex = Null
  /\ Go(w, "tick")
  /\ UNCHANGED <<cacheVars, mine, mutex, waiting, shutdown, left, launched,
                 env>>

SpuriousWakeup(w) ==
  /\ w \in waiting
  /\ spurious < MaxSpurious
  /\ spurious' = spurious + 1
  /\ waiting' = waiting \ {w}
  /\ UNCHANGED <<cacheVars, pc, mine, mutex, shutdown, left, launched, setup>>

\* job->run returns 1, or -1 the last time.
Run(w) ==
  /\ At(w, "run")
  /\ LET j == mine[w] IN
       /\ left' = [left EXCEPT ![j] = @ - 1]
       /\ \/ left[j] > 1 /\ Go(w, "setready") /\ UNCHANGED mine
          \/ left[j] = 1 /\ Go(w, "tick") /\ mine' = [mine EXCEPT ![w] = Null]
  /\ UNCHANGED <<cacheVars, mutex, waiting, shutdown, launched, env>>

\* schedi_ready_jobs_cache_reorganize_tick at the end of the loop.
CallTick(w) ==
  /\ At(w, "tick")
  /\ Call(w, "tick", Null)
  /\ Go(w, "ticked")
  /\ UNCHANGED <<arrayVars, mine, mutex, waiting, shutdown, left, launched,
                 env>>

Ticked(w) ==
  /\ At(w, "ticked")
  /\ Go(w, "head")
  /\ UNCHANGED <<cacheVars, mine, mutex, waiting, shutdown, left, launched,
                 env>>

\* schedi_wake_job_waiter, after a reorganization has moved a job.
WakeJobWaiter(w) ==
  /\ op[w].pc = "moved"
  /\ \/ Lockless /\ UNCHANGED waiting
     \/ ~Lockless /\ mutex = Null /\ Signal
  /\ Step(w, "next")
  /\ UNCHANGED <<arrayVars, pc, mine, mutex, shutdown, left, launched, env>>

-----------------------------------------------------------------------------
(* schedi_job_setready *)

SetReady(t) ==
  /\ At(t, "setready")
  /\ \/ Lockless /\ UNCHANGED mutex
     \/ ~Lockless /\ mutex = Null /\ mutex' = t
  /\ Call(t, "push", mine[t])
  /\ Go(t, "cached")
  /\ UNCHANGED <<arrayVars, mine, waiting, shutdown, left, launched, env>>

\* Mutant: no worker is signalled.
Cached_NoSignal(t) ==
  /\ At(t, "cached")
  /\ Go(t, IF t = Main THEN "main" ELSE "tick")
  /\ mine' = [mine EXCEPT ![t] = Null]
  /\ mutex' = Null
  /\ Return(t, Null)
  /\ UNCHANGED <<arrayVars, waiting, shutdown, left, launched, env>>

\* A failed push (op[t].job # Null) is not signalled.
Cached(t) ==
  /\ At(t, "cached")
  /\ Go(t, IF t = Main THEN "main" ELSE "tick")
  /\ mine' = [mine EXCEPT ![t] = Null]
  /\ IF Lockless THEN UNCHANGED <<mutex, waiting>>
     ELSE /\ mutex' = Null
          /\ IF op[t].job = Null THEN Signal ELSE UNCHANGED waiting
  /\ Return(t, Null)
  /\ UNCHANGED <<arrayVars, shutdown, left, launched, env>>

-----------------------------------------------------------------------------
(* main(): schedi_worker_init, the jobs, schedi_worker_deinit *)

\* schedi_worker_init starts a thread.  Jobs may have been set ready before
\* (examples/aparalleljob.c).
CreateWorker(w) ==
  /\ At(Main, "main") /\ pc[w] = "new"
  /\ Go(w, "head")
  /\ UNCHANGED <<cacheVars, mine, mutex, waiting, shutdown, left, launched,
                 env>>

LaunchJob ==
  /\ At(Main, "main")
  /\ \E j \in Jobs \ launched :
       /\ launched' = launched \cup {j}
       /\ mine' = [mine EXCEPT ![Main] = j]
  /\ Go(Main, "setready")
  /\ UNCHANGED <<cacheVars, mutex, waiting, shutdown, left, env>>

\* The shutdown marks are set under the mutex ...
StopWorkers ==
  /\ At(Main, "main")
  /\ launched = Jobs /\ \A w \in Workers : pc[w] # "new"
  /\ WaitForJobs => \A j \in Jobs : left[j] = 0
  /\ \/ Lockless /\ UNCHANGED mutex
     \/ ~Lockless /\ mutex = Null /\ mutex' = Main
  /\ shutdown' = TRUE
  /\ Go(Main, "stop")
  /\ UNCHANGED <<cacheVars, mine, waiting, left, launched, env>>

\* ... and so is the broadcast.
WakeAllWorkers ==
  /\ At(Main, "stop")
  /\ IF Lockless THEN UNCHANGED <<mutex, waiting>>
                 ELSE mutex' = Null /\ waiting' = {}
  /\ Go(Main, "join")
  /\ UNCHANGED <<cacheVars, mine, shutdown, left, launched, env>>

Join ==
  /\ At(Main, "join")
  /\ \A w \in Workers : pc[w] = "exited"
  /\ Go(Main, "joined")
  /\ UNCHANGED <<cacheVars, mine, mutex, waiting, shutdown, left, launched,
                 env>>

-----------------------------------------------------------------------------
CacheCall(t) == CacheStep(t) /\ UNCHANGED poolVars

WorkerStep(w) ==
  \/ LoopHead(w) \/ Picked(w) \/ PickLocked(w) \/ PickedLocked(w)
  \/ Wake(w) \/ Run(w) \/ CallTick(w) \/ Ticked(w) \/ WakeJobWaiter(w)
  \/ SetReady(w) \/ Cached(w) \/ CacheCall(w)

MainStep ==
  \/ \E w \in Workers : CreateWorker(w)
  \/ LaunchJob \/ SetReady(Main) \/ Cached(Main)
  \/ CacheCall(Main) \/ StopWorkers \/ WakeAllWorkers \/ Join

Next ==
  \/ MainStep
  \/ \E w \in Workers : WorkerStep(w) \/ SpuriousWakeup(w)

\* Threads are scheduled, job functions return, and a mutex that is free
\* again and again is eventually acquired.
Fairness == WF_vars(MainStep) /\ \A w \in Workers : WF_vars(WorkerStep(w))

Spec == Init /\ [][Next]_vars /\ Fairness

-----------------------------------------------------------------------------
TypeOK ==
  /\ CacheTypeOK
  /\ pc \in [Threads -> Labels]
  /\ mine \in [Threads -> Jobs \cup {Null}]
  /\ mutex \in Threads \cup {Null}
  /\ waiting \subseteq Workers
  /\ shutdown \in BOOLEAN
  /\ left \in [Jobs -> 0 .. Runs]
  /\ launched \subseteq Jobs
  /\ setup \in Setups

CachedJobs == {ready_jobs_cache[i] : i \in Entries} \ {Null}

\* Jobs in the cache, or in the hands of a reorganization.
BagOfJobs ==
  CachedJobs \cup {j \in Jobs : \E t \in Threads :
                    /\ op[t].job = j /\ op[t].reorganizes
                    /\ op[t].pc \in {"taken", "push"}}

\* Jobs that a worker has popped and not put back into the cache.
HeldJobs ==
  {j \in Jobs : \E w \in Workers :
     \/ op[w].job = j /\ pc[w] \in {"picked", "pickedlocked"}
     \/ mine[w] = j /\ pc[w] \in {"run", "setready"}
     \/ mine[w] = j /\ pc[w] = "cached" /\ op[w].pc = "push"}

\* Workers, reorganizations and producers share the cache without a lock,
\* yet each job that is set ready goes to exactly one worker: no pop, push
\* or move loses or duplicates a job.
Bag == INSTANCE JobBag WITH bag <- BagOfJobs, held <- HeldJobs
BagSpec == Bag!Spec

\* The cache never reports that it is full: with an entry per job, a push
\* finds an empty one although entries are taken and emptied all the time.
CacheNeverFull == ~array_full

\* No job is stranded: it never happens that all workers sleep, nobody is
\* about to wake one, and there is a job in the cache.
NoJobStranded ==
  ~(/\ waiting = Workers
    /\ pc[Main] \in {"main", "join"}
    /\ CachedJobs # {})

\* All jobs are run and the workers stop when main() asks them to: no worker
\* sleeps through the shutdown ("ISSUE_WORKER_SHUTDOWN_RACE", worker.c).
PoolStops == <>(pc[Main] = "joined")
=============================================================================
