---------------------------- MODULE DestroyQueue ----------------------------
(***************************************************************************)
(* The lock-free destroy queue of jobs.c: a ring of job pointers with a    *)
(* ready mark per entry and one packed word of head, tail and count.       *)
(* Threads are workers that push a finished job (schedi_job_destroy) and   *)
(* then look through the queue (schedi_job_destroy_queue_check).           *)
(*                                                                         *)
(* A compare-and-swap loop on the packed word is one step: the 16 label    *)
(* bits, which change with every push and pop, rule out that the word      *)
(* comes back unnoticed between its load and its swap, so everything read  *)
(* in between can be taken as read at the swap.  The accesses of an entry  *)
(* that follow a swap are steps of their own.                              *)
(***************************************************************************)
EXTENDS Integers, FiniteSets

CONSTANTS
  Threads, Jobs, NoJob,
  RingSize,     \* SCHEDI_DQ_SIZE (1024)
  Lives,        \* bound on how often a job slot is pushed
  MaxBusy       \* bound on how often a queued job is found busy

ASSUME DestroyQueueAssumption ==
  /\ RingSize \in Nat \ {0, 1} /\ Lives \in Nat /\ MaxBusy \in Nat
  /\ NoJob \notin Jobs

\* 256 jobs (SCHEDI_MAXIMUM_JOBS) leave room for 768 threads.
ASSUME QueueSizeAssumption ==
  /\ IsFiniteSet(Jobs) /\ IsFiniteSet(Threads)
  /\ Cardinality(Jobs) + Cardinality(Threads) <= RingSize

Ring == 0 .. RingSize - 1

VARIABLES
  buf,      \* [Ring -> Jobs \cup {NoJob}], dq.buf
  ready,    \* [Ring -> BOOLEAN], dq.ready
  htc,      \* head, tail and count of dq.htc
  th,       \* program counter and locals of a thread
  lives,    \* [Jobs -> Nat], pushes a job slot has left
  alive,    \* jobs nobody has begun to destroy
  busy,     \* times a job was found busy
  notent,   \* jobs marked SCHEDI_JOB_METAFLAG_DESTROYNOTENT, or lost
  lapped    \* history: an entry was reserved while a thread was still in it

vars == <<buf, ready, htc, th, lives, alive, busy, notent, lapped>>

Labels == {"work", "push", "store", "mark", "check", "pop", "load", "clear",
           "destroy", "repush", "dec"}

\* slot is the entry a push or pop has got; super tells dq_super_push from
\* dq_push; n counts the rounds a queue check has left.
Local == [pc |-> "work", job |-> NoJob, slot |-> 0, super |-> FALSE, n |-> 0]

ThreadState == [pc : Labels, job : Jobs \cup {NoJob}, slot : Ring,
                super : BOOLEAN, n : 0 .. RingSize]

Init ==
  /\ buf = [i \in Ring |-> NoJob]
  /\ ready = [i \in Ring |-> FALSE]
  /\ htc = [head |-> 0, tail |-> 0, count |-> 0]
  /\ th = [t \in Threads |-> Local]
  /\ lives = [j \in Jobs |-> Lives]
  /\ alive = Jobs
  /\ busy = 0
  /\ notent = {}
  /\ lapped = FALSE

At(t, label) == th[t].pc = label
Goto(t, label) == th' = [th EXCEPT ![t].pc = label]

\* Entries that some thread has got and is not through with.
EntriesInUse ==
  {th[t].slot : t \in {u \in Threads :
                         th[u].pc \in {"store", "mark", "load", "clear"}}}

-----------------------------------------------------------------------------
(* dq_push and dq_super_push: DEFINE_DQ_PUSH_ATOMIC *)

\* The entry at head is reserved; dq_super_push leaves the count alone.
\* Nothing keeps a push from an entry that a stalled pop has still to load
\* and clear: the others may have gone once around the ring in the meantime.
Reserve(t, counted) ==
  /\ lapped' = (lapped \/ htc.head \in EntriesInUse)
  /\ htc' = [htc EXCEPT !.head = (@ + 1) % RingSize,
                        !.count = IF counted THEN @ + 1 ELSE @]
  /\ th' = [th EXCEPT ![t].pc = "store", ![t].slot = htc.head,
                      ![t].super = ~counted]

Full == htc.count >= RingSize

\* schedi_job_destroy after schedi_job_destroy_now has returned 0.
BeginDestroy(t) ==
  /\ At(t, "work")
  /\ \E j \in alive :
       /\ lives[j] > 0
       /\ lives' = [lives EXCEPT ![j] = @ - 1]
       /\ alive' = alive \ {j}
       /\ th' = [th EXCEPT ![t].pc = "push", ![t].job = j]
  /\ UNCHANGED <<buf, ready, htc, busy, notent, lapped>>

Push(t) ==
  /\ At(t, "push")
  /\ IF ~Full THEN Reserve(t, TRUE) /\ UNCHANGED notent
     ELSE /\ notent' = notent \cup {th[t].job}
          /\ Goto(t, "check")
          /\ UNCHANGED <<htc, lapped>>
  /\ UNCHANGED <<buf, ready, lives, alive, busy>>

StoreEntry(t) ==
  /\ At(t, "store")
  /\ buf' = [buf EXCEPT ![th[t].slot] = th[t].job]
  /\ Goto(t, "mark")
  /\ UNCHANGED <<ready, htc, lives, alive, busy, notent, lapped>>

MarkEntry(t) ==
  /\ At(t, "mark")
  /\ ready' = [ready EXCEPT ![th[t].slot] = TRUE]
  /\ th' = [th EXCEPT ![t].pc = IF th[t].super THEN "pop" ELSE "check",
                      ![t].job = NoJob]
  /\ UNCHANGED <<buf, htc, lives, alive, busy, notent, lapped>>

-----------------------------------------------------------------------------
(* schedi_job_destroy_queue_check with dq_super_pop *)

\* Mutant: the last entry is left out.
EnterQueueCheck_OneLess(t) ==
  /\ th' = [th EXCEPT ![t] = [Local EXCEPT !.pc = "pop", !.n = htc.count - 1]]
  /\ UNCHANGED <<buf, ready, htc, lives, alive, busy, notent, lapped>>

\* Tries as many entries as are counted now.
EnterQueueCheck(t) ==
  /\ th' = [th EXCEPT ![t] = [Local EXCEPT !.pc = "pop", !.n = htc.count]]
  /\ UNCHANGED <<buf, ready, htc, lives, alive, busy, notent, lapped>>

QueueCheck(t) == At(t, "check") /\ EnterQueueCheck(t)

\* A worker that found no job comes here too, when it is awake.
IdleCheck(t) == At(t, "work") /\ htc.count > 0 /\ EnterQueueCheck(t)

\* Mutant: the ready mark of the entry is not looked at.
CanPop_Unready == htc.count # 0 /\ htc.tail # htc.head

\* The queue is not empty, the entry at the tail is stored, and tail has not
\* run into head ("oversell control").
CanPop ==
  /\ htc.count # 0
  /\ ready[htc.tail]
  /\ htc.tail # htc.head

SuperPop(t) ==
  /\ At(t, "pop")
  /\ IF th[t].n = 0 \/ ~CanPop
     THEN th' = [th EXCEPT ![t] = Local] /\ UNCHANGED htc
     ELSE /\ htc' = [htc EXCEPT !.tail = (@ + 1) % RingSize]
          /\ th' = [th EXCEPT ![t].pc = "load", ![t].slot = htc.tail,
                              ![t].n = @ - 1]
  /\ UNCHANGED <<buf, ready, lives, alive, busy, notent, lapped>>

LoadEntry(t) ==
  /\ At(t, "load")
  /\ th' = [th EXCEPT ![t].pc = "clear", ![t].job = buf[th[t].slot]]
  /\ UNCHANGED <<buf, ready, htc, lives, alive, busy, notent, lapped>>

ClearEntry(t) ==
  /\ At(t, "clear")
  /\ ready' = [ready EXCEPT ![th[t].slot] = FALSE]
  /\ Goto(t, "destroy")
  /\ UNCHANGED <<buf, htc, lives, alive, busy, notent, lapped>>

\* schedi_job_destroy_now.  A job it destroys is released at once, so its
\* slot may hold the next job before the count goes down.
DestroyNow(t) ==
  /\ At(t, "destroy")
  /\ \/ /\ busy < MaxBusy
        /\ busy' = busy + 1
        /\ Goto(t, "repush")
        /\ UNCHANGED alive
     \/ /\ alive' = alive \cup {th[t].job}
        /\ th' = [th EXCEPT ![t].pc = "dec", ![t].job = NoJob]
        /\ UNCHANGED busy
  /\ UNCHANGED <<buf, ready, htc, lives, notent, lapped>>

\* A full queue makes dq_super_push return -1, and nobody looks at that.
SuperPush(t) ==
  /\ At(t, "repush")
  /\ IF ~Full THEN Reserve(t, FALSE) /\ UNCHANGED notent
     ELSE /\ notent' = notent \cup {th[t].job}
          /\ Goto(t, "pop")
          /\ UNCHANGED <<htc, lapped>>
  /\ UNCHANGED <<buf, ready, lives, alive, busy>>

\* Mutant: the count is not taken down.
DecCount_Forgets(t) ==
  /\ At(t, "dec")
  /\ Goto(t, "pop")
  /\ UNCHANGED <<buf, ready, htc, lives, alive, busy, notent, lapped>>

\* dq_dec_count
DecCount(t) ==
  /\ At(t, "dec")
  /\ htc' = [htc EXCEPT !.count = @ - 1]
  /\ Goto(t, "pop")
  /\ UNCHANGED <<buf, ready, lives, alive, busy, notent, lapped>>

-----------------------------------------------------------------------------
QueueStep(t) ==
  \/ Push(t) \/ StoreEntry(t) \/ MarkEntry(t)
  \/ QueueCheck(t) \/ SuperPop(t) \/ LoadEntry(t) \/ ClearEntry(t)
  \/ DestroyNow(t) \/ SuperPush(t) \/ DecCount(t)

Next == \E t \in Threads : BeginDestroy(t) \/ IdleCheck(t) \/ QueueStep(t)

\* A worker goes on with what it has begun.  Jobs need not finish, and an
\* idle worker may sleep instead of looking at the queue.
Fairness == \A t \in Threads : WF_vars(QueueStep(t))

Spec == Init /\ [][Next]_vars /\ Fairness

-----------------------------------------------------------------------------
TypeOK ==
  /\ buf \in [Ring -> Jobs \cup {NoJob}]
  /\ ready \in [Ring -> BOOLEAN]
  /\ htc \in [head : Ring, tail : Ring, count : 0 .. RingSize]
  /\ th \in [Threads -> ThreadState]
  /\ lives \in [Jobs -> 0 .. Lives]
  /\ alive \subseteq Jobs /\ notent \subseteq Jobs
  /\ busy \in 0 .. MaxBusy
  /\ lapped \in BOOLEAN

ThreadsAt(labels) == {t \in Threads : th[t].pc \in labels}

\* Jobs in the entries from tail to head, or about to be stored in one.
Queued ==
  {buf[i] : i \in {k \in Ring :
     /\ (k - htc.tail) % RingSize < (htc.head - htc.tail) % RingSize
     /\ \A t \in ThreadsAt({"store"}) : th[t].slot # k}}
  \cup {th[t].job : t \in ThreadsAt({"store"})}

\* Jobs that a queue check has taken out and is trying to destroy.
Taken ==
  {buf[th[t].slot] : t \in ThreadsAt({"load"})}
  \cup {th[t].job : t \in ThreadsAt({"clear", "destroy", "repush"})}

\* Every job that is pushed is taken by exactly one thread: pushes, pops and
\* puttings back of any number of threads lose and duplicate none.  The ring
\* promises this until a push laps a thread that is still in its entry, and
\* nothing from then on (jobs.c has no test for it).
Bag == INSTANCE JobBag WITH bag <- Queued, held <- Taken
QueueSpec == Bag!Init /\ [][lapped' \/ Bag!Next]_(Bag!vars)

\* The queue never turns a job away, which would leave it undestroyed for
\* good: the count, which lags behind the destruction of a job, stays below
\* the size as long as that is above the number of jobs and threads and no
\* entry has been lapped.
QueueNeverFull == lapped \/ notent = {}

\* The count is the number of jobs that wait or are being worked on, so that
\* a queue check looks at all of them and an empty queue is seen as empty,
\* as long as no entry has been lapped.
CountIsExact ==
  \/ lapped
  \/ htc.count = Cardinality(Queued) + Cardinality(Taken)
                 + Cardinality(ThreadsAt({"dec"}))

\* Every job that is to be destroyed is eventually destroyed, although each
\* worker looks at the queue only once after its own push and gives up at an
\* entry that another one has reserved and not stored yet.  A job that was
\* found busy and put back may have to wait for a push of another job, and a
\* lapped entry may never become ready again.
AllDestroyed ==
  [](busy = 0 /\ ~lapped) => \A j \in Jobs : []<>(j \in alive)
=============================================================================
