----------------------------- MODULE ReadyCache -----------------------------
(***************************************************************************)
(* The lock-free ready_jobs_cache of jobs.c: an array of job pointers, the *)
(* packed job_count word and the reorganize counter.  A call is a sequence *)
(* of steps of its thread, one per array entry visited and one per update  *)
(* of the counters; a compare-and-swap loop on one entry is one step.      *)
(* op[t] is the call thread t is in: a thread calls by setting op[t].pc    *)
(* and finds it at "ret" when the call has returned.                       *)
(***************************************************************************)
EXTENDS Integers, FiniteSets

CONSTANTS
  Threads,
  Jobs,
  Null,
  CacheSize,    \* entries of the cache, SCHEDI_MAXIMUM_JOBS (256)
  CacheCheck,   \* SCHEDI_JOBS_CACHE_CHECK (16)
  CountMod      \* job_count and its peak are 32 bits each: 2^32

ASSUME ReadyCacheAssumption ==
  /\ CacheSize \in Nat \ {0} /\ CacheCheck \in 1 .. CacheSize
  /\ CountMod \in Nat /\ CountMod > 2 * CacheSize
  /\ Null \notin Jobs

\* The cache has an entry for every slot of the job array, and there are not
\* so many threads that their late counts could be taken for jobs.
ASSUME CapacityAssumption ==
  /\ IsFiniteSet(Jobs) /\ Cardinality(Jobs) <= CacheSize
  /\ IsFiniteSet(Threads) /\ 2 * Cardinality(Threads) < CountMod

VARIABLES
  ready_jobs_cache,     \* [0 .. CacheSize - 1 -> Jobs \cup {Null}]
  job_count,            \* low 32 bits of job_array.job_count
  peaked_job_count,     \* high 32 bits
  reorganize_counter,
  array_full,           \* SCHEDI_JOB_ARRAY_FULL in job_array.flags
  op

cacheVars ==
  <<ready_jobs_cache, job_count, peaked_job_count, reorganize_counter,
    array_full, op>>

Entries == 0 .. CacheSize - 1
Calls   == {"ret", "pop", "scan", "popped", "push", "pushed", "tick",
            "reorganize", "take", "taken", "moved", "next"}

\* i is the entry a pop or push has reached; a reorganization is at entry
\* `at' and has moved n jobs.
NoCall == [pc |-> "ret", job |-> Null, i |-> 0,
           reorganizes |-> FALSE, at |-> 0, n |-> 0]

CacheInit ==
  /\ ready_jobs_cache = [i \in Entries |-> Null]
  /\ job_count = 0 /\ peaked_job_count = 0
  /\ reorganize_counter = 0
  /\ array_full = FALSE
  /\ op = [t \in Threads |-> NoCall]

Call(t, name, job) ==
  op' = [op EXCEPT ![t] = [NoCall EXCEPT !.pc = name, !.job = job]]
Step(t, label) == op' = [op EXCEPT ![t].pc = label]
StepTo(t, label, i) == op' = [op EXCEPT ![t].pc = label, ![t].i = i]
Return(t, job) == op' = [op EXCEPT ![t] = [NoCall EXCEPT !.job = job]]

-----------------------------------------------------------------------------
(* schedi_ready_jobs_cache_add_job_count and _sub_job_count.  The counter  *)
(* saturates here: only whether it has reached CacheCheck matters.         *)

Tick == reorganize_counter' =
  IF reorganize_counter < CacheCheck THEN reorganize_counter + 1
                                     ELSE reorganize_counter

AddJobCount ==
  LET c == (job_count + 1) % CountMod IN
    /\ job_count' = c
    /\ peaked_job_count' = IF c > peaked_job_count THEN c ELSE peaked_job_count
    /\ Tick

SubJobCount ==
  /\ job_count' = (job_count - 1) % CountMod
  /\ Tick
  /\ UNCHANGED peaked_job_count

-----------------------------------------------------------------------------
(* schedi_cache_job_ready_pop *)

PopStart(t) ==
  /\ op[t].pc = "pop"
  /\ IF job_count = 0 THEN Return(t, Null) ELSE StepTo(t, "scan", 0)
  /\ UNCHANGED <<ready_jobs_cache, job_count, peaked_job_count,
                 reorganize_counter, array_full>>

\* Mutant: a plain load and store instead of the compare-and-swap.
PopScan_Reads(t) ==
  /\ op[t].pc = "scan"
  /\ LET i == op[t].i  j == ready_jobs_cache[i] IN
       IF j = Null
       THEN IF i + 1 < CacheCheck THEN StepTo(t, "scan", i + 1)
                                  ELSE Return(t, Null)
       ELSE op' = [op EXCEPT ![t].pc = "popped", ![t].job = j]
  /\ UNCHANGED <<ready_jobs_cache, job_count, peaked_job_count,
                 reorganize_counter, array_full>>

\* Only the first CacheCheck entries are looked at.
PopScan(t) ==
  /\ op[t].pc = "scan"
  /\ LET i == op[t].i  j == ready_jobs_cache[i] IN
       IF j = Null
       THEN /\ IF i + 1 < CacheCheck THEN StepTo(t, "scan", i + 1)
                                     ELSE Return(t, Null)
            /\ UNCHANGED ready_jobs_cache
       ELSE /\ ready_jobs_cache' = [ready_jobs_cache EXCEPT ![i] = Null]
            /\ op' = [op EXCEPT ![t].pc = "popped", ![t].job = j]
  /\ UNCHANGED <<job_count, peaked_job_count, reorganize_counter, array_full>>

\* In the code three steps: the tick of reorganize_counter, the decrement of
\* job_count, the clearing of ARRAY_FULL.  Taken as one: each of the three is
\* atomic by itself, the thread decides nothing between them, and no other
\* step reads two of these words and compares them.
PopCount(t) ==
  /\ op[t].pc = "popped"
  /\ SubJobCount
  /\ array_full' = FALSE
  /\ Return(t, op[t].job)
  /\ UNCHANGED ready_jobs_cache

-----------------------------------------------------------------------------
(* schedi_cache_job_ready.  On success it returns 0; if it finds no empty  *)
(* entry it returns -1, here the job.  A reorganization ignores the result.*)

Push(t) ==
  /\ op[t].pc = "push"
  /\ LET i == op[t].i IN
       \/ /\ ready_jobs_cache[i] = Null
          /\ ready_jobs_cache' = [ready_jobs_cache EXCEPT ![i] = op[t].job]
          /\ Step(t, "pushed")
          /\ UNCHANGED array_full
       \/ /\ ready_jobs_cache[i] # Null
          /\ IF i + 1 < CacheSize
             THEN StepTo(t, "push", i + 1) /\ UNCHANGED array_full
             ELSE /\ array_full' = TRUE
                  /\ IF op[t].reorganizes THEN Step(t, "moved")
                                          ELSE Return(t, op[t].job)
          /\ UNCHANGED ready_jobs_cache
  /\ UNCHANGED <<job_count, peaked_job_count, reorganize_counter>>

PushCount(t) ==
  /\ op[t].pc = "pushed"
  /\ AddJobCount
  /\ IF op[t].reorganizes THEN Step(t, "moved") ELSE Return(t, Null)
  /\ UNCHANGED <<ready_jobs_cache, array_full>>

-----------------------------------------------------------------------------
(* schedi_ready_jobs_cache_reorganize_tick and _reorganize *)

ReorganizeTick(t) ==
  /\ op[t].pc = "tick"
  /\ IF reorganize_counter < CacheCheck
     THEN Return(t, Null) /\ UNCHANGED reorganize_counter
     ELSE Step(t, "reorganize") /\ reorganize_counter' = 0
  /\ UNCHANGED <<ready_jobs_cache, job_count, peaked_job_count, array_full>>

\* The peak is an unsigned number and the index a signed one: a peak beyond
\* the signed range gives a negative index and ends the loop at once.
ReorganizeStart(t) ==
  /\ op[t].pc = "reorganize"
  /\ IF peaked_job_count = 0 \/ 2 * peaked_job_count > CountMod
     THEN Return(t, Null)
     ELSE op' = [op EXCEPT ![t] =
            [NoCall EXCEPT !.pc = "take", !.reorganizes = TRUE,
                           !.at = peaked_job_count - 1]]
  /\ UNCHANGED <<ready_jobs_cache, job_count, peaked_job_count,
                 reorganize_counter, array_full>>

Descend(t) ==
  IF op[t].at = 0 THEN Return(t, Null)
  ELSE op' = [op EXCEPT ![t].pc = "take", ![t].at = @ - 1]

\* schedi_ready_jobs_cache_pop_specific
ReorganizeTake(t) ==
  /\ op[t].pc = "take"
  /\ LET j == ready_jobs_cache[op[t].at] IN
       IF j = Null THEN Descend(t) /\ UNCHANGED ready_jobs_cache
       ELSE /\ ready_jobs_cache' = [ready_jobs_cache EXCEPT ![op[t].at] = Null]
            /\ op' = [op EXCEPT ![t].pc = "taken", ![t].job = j]
  /\ UNCHANGED <<job_count, peaked_job_count, reorganize_counter, array_full>>

ReorganizeCount(t) ==
  /\ op[t].pc = "taken"
  /\ SubJobCount
  /\ StepTo(t, "push", 0)
  /\ UNCHANGED <<ready_jobs_cache, array_full>>

\* Between "moved" and "next" the caller wakes a worker.
ReorganizeNext(t) ==
  /\ op[t].pc = "next"
  /\ LET n == op[t].n + 1 IN
       IF op[t].at <= n \/ op[t].at = 0 THEN Return(t, Null)
       ELSE op' = [op EXCEPT ![t].pc = "take", ![t].job = Null,
                             ![t].at = @ - 1, ![t].n = n]
  /\ UNCHANGED <<ready_jobs_cache, job_count, peaked_job_count,
                 reorganize_counter, array_full>>

CacheStep(t) ==
  \/ PopStart(t) \/ PopScan(t) \/ PopCount(t)
  \/ Push(t) \/ PushCount(t)
  \/ ReorganizeTick(t) \/ ReorganizeStart(t)
  \/ ReorganizeTake(t) \/ ReorganizeCount(t) \/ ReorganizeNext(t)

CacheTypeOK ==
  /\ ready_jobs_cache \in [Entries -> Jobs \cup {Null}]
  /\ job_count \in 0 .. CountMod - 1
  /\ peaked_job_count \in 0 .. CountMod - 1
  /\ reorganize_counter \in 0 .. CacheCheck
  /\ array_full \in BOOLEAN
  /\ op \in [Threads -> [pc : Calls, job : Jobs \cup {Null}, i : Entries,
                         reorganizes : BOOLEAN, at : Nat, n : Nat]]
=============================================================================
