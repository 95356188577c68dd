------------------------------ MODULE JobLife ------------------------------
(***************************************************************************)
(* The life of jobs under concurrent workers: schedi_job_create,           *)
(* schedi_job_setready, schedi_job_pickready, the body of worker_routine,  *)
(* job-to-job dependencies and destruction.  A thread takes one step per   *)
(* compare-and-swap on a meta_flag word, per plain read of a field that    *)
(* another thread writes, and per operation of a queue.                    *)
(*                                                                         *)
(* The ready cache and the destroy queue are atomic here; modules of their *)
(* own look inside them.  Slots come from the pool that JobSlots refines.  *)
(* Sleeping is left out: a worker in "loop" may pick whatever is cached    *)
(* (both builds, with and without LOCKLESS_READYJOB).                      *)
(*                                                                         *)
(* User code is a script of library calls.  A "parent" job creates leaves  *)
(* that it waits for, sets them ready and returns 1, and returns -1 when   *)
(* it is run again (examples/avjobs.c); a "leaf" returns 1 until its last  *)
(* phase and then -1.                                                      *)
(***************************************************************************)
EXTENDS MetaFlag, Sequences, FiniteSets

CONSTANTS
  Workers, Main,   \* the worker threads and the thread running main()
  Slots,           \* indices of the job array
  MainScripts,     \* main() makes the calls of one of these, see below
  Leaves,          \* leaves a parent creates
  Required,        \* its schedi_job_required_available_jobs argument
  RequireFirst,    \* whether it states that before it sets leaves ready
  LeafPhases,      \* runs of a leaf
  NoJob

ASSUME JobLifeAssumption ==
  /\ Main \notin Workers /\ NoJob \notin Slots
  /\ Leaves \in Nat \ {0} /\ Required \in 0 .. Leaves
  /\ LeafPhases \in Nat \ {0} /\ RequireFirst \in BOOLEAN

Threads == Workers \cup {Main}

\* What a script may call; i is the i-th job this script has created.
Create(kind) == [op |-> "create", kind |-> kind, i |-> 0]
Launch(i)    == [op |-> "setready", kind |-> "", i |-> i]
Destroy(i)   == [op |-> "destroy", kind |-> "", i |-> i]
Indicator(i) == [op |-> "indicator", kind |-> "", i |-> i]
Require      == [op |-> "require", kind |-> "", i |-> 0]

ParentScript ==
  LET create == [i \in 1 .. Leaves |-> Create("leaf")]
      launch == [i \in 1 .. Leaves |-> Launch(i)]
  IN  create \o (IF RequireFirst THEN <<Require>> \o launch
                                 ELSE launch \o <<Require>>)

VARIABLES
  meta,     \* [Slots -> Word], job->meta_flag
  gen,      \* [Slots -> Nat], job->gen
  info,     \* [Slots -> ...], the other fields of a job
  free,     \* slots the section table offers
  cache,    \* [Slots -> Nat], how often a job is in the ready cache
  dq,       \* the destroy queue
  th,       \* [Threads -> ...], program counter and locals of a thread
  done      \* [Slots -> Nat], completions of jobs that waited-for jobs had

vars == <<meta, gen, info, free, cache, dq, th, done>>

NoInfo == [kind |-> "none", phase |-> 0, required |-> 0,
           requested |-> NoJob, requested_gen |-> 0, indicator |-> FALSE]

Idle == [pc |-> "loop", job |-> NoJob, pop_gen |-> 0, tgt |-> NoJob,
         back |-> "", req |-> 0, delta |-> 0, flag |-> {}, k |-> 1,
         made |-> <<>>, n |-> 0, script |-> <<>>]

Init ==
  /\ meta = [s \in Slots |-> WordOf({})]
  /\ gen = [s \in Slots |-> 0]
  /\ info = [s \in Slots |-> NoInfo]
  /\ free = Slots
  /\ cache = [s \in Slots |-> 0]
  /\ dq = <<>>
  /\ \E script \in MainScripts :
       th = [t \in Threads |->
               IF t = Main THEN [Idle EXCEPT !.pc = "script",
                                             !.script = script]
                           ELSE Idle]
  /\ done = [s \in Slots |-> 0]

-----------------------------------------------------------------------------
At(t, label)   == th[t].pc = label
Goto(t, label) == th' = [th EXCEPT ![t].pc = label]
Loop(w)        == th' = [th EXCEPT ![w] = Idle]
SetMeta(s, m)  == meta' = [meta EXCEPT ![s] = m]

Script(t) ==
  IF t = Main THEN th[Main].script
  ELSE IF /\ info[th[t].job].kind = "parent"
          /\ info[th[t].job].phase = 0 THEN ParentScript
  ELSE <<>>
HasCall(t, op) ==
  /\ At(t, "script")
  /\ th[t].k <= Len(Script(t))
  /\ Script(t)[th[t].k].op = op
Arg(t) == Script(t)[th[t].k]

\* The job the running script creates jobs for, by schedi_job_tool_job.
User(t) == IF t = Main THEN NoJob ELSE th[t].job

-----------------------------------------------------------------------------
(* schedi_job_create and schedi_job_tool_job *)

\* section_claim.  A caller that gets NULL tries again.
Claim(t) ==
  /\ HasCall(t, "create")
  /\ \E s \in free :
       /\ free' = free \ {s}
       /\ SetMeta(s, WordOf({"UNSTABLE"}))
       /\ th' = [th EXCEPT ![t].pc = "publish", ![t].tgt = s]
  /\ UNCHANGED <<gen, info, cache, dq, done>>

\* The fields of the new job and its first meta_flag.  completion_indicator
\* keeps whatever the slot held before.  The job is not shared yet, so the
\* schedi_job_tool_job call that follows in a parent is part of the step.
Publish(t) ==
  /\ At(t, "publish")
  /\ LET s == th[t].tgt IN
       /\ info' = [info EXCEPT ![s] =
            [kind |-> Arg(t).kind, phase |-> 0, required |-> 0,
             requested |-> User(t),
             requested_gen |-> IF User(t) = NoJob THEN 0 ELSE gen[User(t)],
             indicator |-> @.indicator]]
       /\ SetMeta(s, WordOf({"ALIVE"} \cup Derived))
       /\ done' = [done EXCEPT ![s] = 0]
       /\ th' = [th EXCEPT ![t].pc = "script", ![t].k = @ + 1,
                           ![t].made = Append(@, s)]
  /\ UNCHANGED <<gen, free, cache, dq>>

\* job->completion_indicator = &indicator
SetIndicator(t) ==
  /\ HasCall(t, "indicator")
  /\ info' = [info EXCEPT ![th[t].made[Arg(t).i]].indicator = TRUE]
  /\ th' = [th EXCEPT ![t].k = @ + 1]
  /\ UNCHANGED <<meta, gen, free, cache, dq, done>>

-----------------------------------------------------------------------------
(* schedi_job_setready and schedi_job_meta_flag_cas_update: subroutines    *)
(* that work on th[t].tgt and go back to th[t].back.                       *)

CallSetReady(t) ==
  /\ HasCall(t, "setready")
  /\ th' = [th EXCEPT ![t].pc = "setready", ![t].tgt = th[t].made[Arg(t).i],
                      ![t].back = "script", ![t].k = @ + 1]
  /\ UNCHANGED <<meta, gen, info, free, cache, dq, done>>

SetReady(t) ==
  /\ At(t, "setready")
  /\ LET m   == meta[th[t].tgt]
         ban == {"UNSTABLE", "WLLDESTROY", "READY"}
     IN /\ SetMeta(th[t].tgt, mark_or(m, {"READY"}, ban, FALSE))
        /\ Goto(t, IF Ban(m, ban, FALSE) = {} THEN "cache" ELSE th[t].back)
  /\ UNCHANGED <<gen, info, free, cache, dq, done>>

\* schedi_cache_job_ready; the cache has a place for every job.
CachePush(t) ==
  /\ At(t, "cache")
  /\ cache' = [cache EXCEPT ![th[t].tgt] = @ + 1]
  /\ Goto(t, th[t].back)
  /\ UNCHANGED <<meta, gen, info, free, dq, done>>

\* The threshold is written with no protection, then the bits are refreshed.
CallRequire(t) ==
  /\ HasCall(t, "require")
  /\ info' = [info EXCEPT ![th[t].job].required = Required]
  /\ th' = [th EXCEPT ![t].pc = "read", ![t].tgt = th[t].job,
                      ![t].back = "script", ![t].k = @ + 1,
                      ![t].delta = 0, ![t].flag = {}]
  /\ UNCHANGED <<meta, gen, free, cache, dq, done>>

\* required_available_jobs is read once, before the CAS loop.
CasRead(t) ==
  /\ At(t, "read")
  /\ th' = [th EXCEPT ![t].pc = "cas", ![t].req = info[th[t].tgt].required]
  /\ UNCHANGED <<meta, gen, info, free, cache, dq, done>>

\* Mutant: the update that completes the readiness set is not noticed.
Cas_NoSetReady(t) ==
  /\ At(t, "cas")
  /\ LET m == meta[th[t].tgt]
         new == cas_update(m, 0, 0, th[t].delta, th[t].flag, 0, th[t].req)
     IN SetMeta(th[t].tgt, new)
  /\ Goto(t, th[t].back)
  /\ UNCHANGED <<gen, info, free, cache, dq, done>>

\* The only update with banned flags is the one that sets READYBASIC.
Cas(t) ==
  /\ At(t, "cas")
  /\ LET m      == meta[th[t].tgt]
         banned == IF th[t].flag = {} THEN {} ELSE {"UNSTABLE", "WLLDESTROY"}
         fails  == \/ Ban(m, banned, FALSE) # {}
                   \/ ~InRange(m, 0, 0, th[t].delta)
         new    == cas_update(m, 0, 0, th[t].delta, th[t].flag, 0, th[t].req)
     IN IF fails THEN Goto(t, th[t].back) /\ UNCHANGED meta
        ELSE /\ SetMeta(th[t].tgt, new)
             /\ Goto(t, IF BecomesReady(m, new) THEN "setready"
                        ELSE th[t].back)
  /\ UNCHANGED <<gen, info, free, cache, dq, done>>

-----------------------------------------------------------------------------
(* schedi_job_pickready and the start of a run *)

Pop(w) ==
  /\ At(w, "loop")
  /\ \E s \in Slots :
       /\ cache[s] > 0
       /\ cache' = [cache EXCEPT ![s] = @ - 1]
       /\ th' = [th EXCEPT ![w] =
            [Idle EXCEPT !.pc = "access", !.job = s, !.pop_gen = gen[s]]]
  /\ UNCHANGED <<meta, gen, info, free, dq, done>>

\* UNSTABLE or WLLDESTROY: the entry is dropped.  Too many accesses: it is
\* put back.
PickAccess(w) ==
  /\ At(w, "access")
  /\ LET s == th[w].job  ban == AccessBan(meta[s]) IN
       /\ SetMeta(s, mark_access(meta[s]))
       /\ cache' = IF ban = {"ACCESS"} THEN [cache EXCEPT ![s] = @ + 1]
                                       ELSE cache
       /\ IF ban = {} THEN Goto(w, "unready") ELSE Loop(w)
  /\ UNCHANGED <<gen, info, free, dq, done>>

UnmarkReady(w) ==
  /\ At(w, "unready")
  /\ SetMeta(th[w].job, unmark_or(meta[th[w].job], {"READY"},
                                  {"UNSTABLE", "WLLDESTROY"}))
  /\ Goto(w, "unbasic")
  /\ UNCHANGED <<gen, info, free, cache, dq, done>>

UnmarkReadyBasic(w) ==
  /\ At(w, "unbasic")
  /\ SetMeta(th[w].job, unmark_or(meta[th[w].job], {"READYBASIC"},
                                  {"UNSTABLE", "WLLDESTROY"}))
  /\ Goto(w, "execute")
  /\ UNCHANGED <<gen, info, free, cache, dq, done>>

\* On a ban the worker goes on without giving its access back.
MarkExecuting(w) ==
  /\ At(w, "execute")
  /\ LET m == meta[th[w].job]  ban == {"UNSTABLE", "EXECUTING"} IN
       /\ SetMeta(th[w].job, mark_or(m, {"EXECUTING"}, ban, FALSE))
       /\ Goto(w, IF Ban(m, ban, FALSE) = {} THEN "unaccess" ELSE "check")
  /\ UNCHANGED <<gen, info, free, cache, dq, done>>

\* Mutant: the access of pickready is not given back.
UnmarkAccess_Kept(w) ==
  /\ At(w, "unaccess")
  /\ Goto(w, "script")
  /\ UNCHANGED <<meta, gen, info, free, cache, dq, done>>

UnmarkAccess(w) ==
  /\ At(w, "unaccess")
  /\ SetMeta(th[w].job, unmark_access(meta[th[w].job]))
  /\ Goto(w, "script")
  /\ UNCHANGED <<gen, info, free, cache, dq, done>>

-----------------------------------------------------------------------------
(* The end of a run *)

LastPhase(s) ==
  info[s].phase = IF info[s].kind = "parent" THEN 1 ELSE LeafPhases - 1

ScriptEnds(t) == At(t, "script") /\ th[t].k > Len(Script(t))

\* job->run returns: 1, or -1 after the last phase.
Return(w) ==
  /\ ScriptEnds(w)
  /\ th' = [th EXCEPT ![w].pc =
              IF LastPhase(th[w].job) THEN "finish" ELSE "again"]
  /\ info' = [info EXCEPT ![th[w].job].phase =
                IF LastPhase(th[w].job) THEN @ ELSE @ + 1]
  /\ UNCHANGED <<meta, gen, free, cache, dq, done>>

UnmarkExecuting(w) ==
  SetMeta(th[w].job, unmark_or(meta[th[w].job], {"EXECUTING"}, {"UNSTABLE"}))

\* Mutant: EXECUTING is left set.
RunAgain_StillExecuting(w) ==
  /\ At(w, "again")
  /\ th' = [th EXCEPT ![w].pc = "read", ![w].tgt = th[w].job,
                      ![w].back = "check", ![w].delta = 0,
                      ![w].flag = {"READYBASIC"}]
  /\ UNCHANGED <<meta, gen, info, free, cache, dq, done>>

\* unmark_executing, then schedi_job_mark_readybasic.
RunAgain(w) ==
  /\ At(w, "again")
  /\ UnmarkExecuting(w)
  /\ th' = [th EXCEPT ![w].pc = "read", ![w].tgt = th[w].job,
                      ![w].back = "check", ![w].delta = 0,
                      ![w].flag = {"READYBASIC"}]
  /\ UNCHANGED <<gen, info, free, cache, dq, done>>

\* unmark_executing and schedi_job_completion_indicate.
Finish(w) ==
  /\ At(w, "finish")
  /\ UnmarkExecuting(w)
  /\ LET r == info[th[w].job].requested IN
       /\ done' = IF r # NoJob /\ gen[r] = info[th[w].job].requested_gen
                    THEN [done EXCEPT ![r] = @ + 1] ELSE done
       /\ Goto(w, IF r = NoJob THEN "wlldestroy" ELSE "tell")
  /\ UNCHANGED <<gen, info, free, cache, dq>>

\* The waiting job is told only if it can be accessed ...
TellAccess(w) ==
  /\ At(w, "tell")
  /\ LET r == info[th[w].job].requested IN
       /\ SetMeta(r, mark_access(meta[r]))
       /\ Goto(w, IF AccessBan(meta[r]) = {} THEN "compare" ELSE "wlldestroy")
  /\ UNCHANGED <<gen, info, free, cache, dq, done>>

\* ... and is still the job that waited: schedi_job_add_available_job.
TellCompare(w) ==
  /\ At(w, "compare")
  /\ LET r == info[th[w].job].requested IN
       th' = [th EXCEPT ![w].pc = IF gen[r] = info[th[w].job].requested_gen
                                    THEN "read" ELSE "told",
                        ![w].tgt = r, ![w].back = "told",
                        ![w].delta = 1, ![w].flag = {}]
  /\ UNCHANGED <<meta, gen, info, free, cache, dq, done>>

TellDone(w) ==
  /\ At(w, "told")
  /\ SetMeta(th[w].tgt, unmark_access(meta[th[w].tgt]))
  /\ Goto(w, "wlldestroy")
  /\ UNCHANGED <<gen, info, free, cache, dq, done>>

-----------------------------------------------------------------------------
(* schedi_job_destroy, schedi_job_destroy_now, destroy_queue_check *)

CallDestroy(t) ==
  /\ HasCall(t, "destroy")
  /\ th' = [th EXCEPT ![t].pc = "wlldestroy", ![t].job = th[t].made[Arg(t).i],
                      ![t].k = @ + 1]
  /\ UNCHANGED <<meta, gen, info, free, cache, dq, done>>

AfterDestroy(t) == IF t = Main THEN "script" ELSE "check"

\* Mutant: a finished job is marked ready like any other.
MarkWllDestroy_ThenReady(t) ==
  /\ At(t, "wlldestroy")
  /\ SetMeta(th[t].job,
             mark_or(meta[th[t].job], {"WLLDESTROY"}, {"UNSTABLE"}, FALSE))
  /\ th' = [th EXCEPT ![t].pc = "destroy", ![t].tgt = th[t].job,
                      ![t].back = "read", ![t].delta = 0, ![t].flag = {"READYBASIC"}]
  /\ UNCHANGED <<gen, info, free, cache, dq, done>>

MarkWllDestroy(t) ==
  /\ At(t, "wlldestroy")
  /\ SetMeta(th[t].job,
             mark_or(meta[th[t].job], {"WLLDESTROY"}, {"UNSTABLE"}, FALSE))
  /\ th' = [th EXCEPT ![t].pc = "destroy", ![t].tgt = th[t].job,
                      ![t].back = AfterDestroy(t)]
  /\ UNCHANGED <<gen, info, free, cache, dq, done>>

\* schedi_job_destroy_now begins with
\*    if(! schedi_job_mark_unstable(job) ) return 0;
\* and schedi_job_mark_unstable returns 0 when it has set the mark: a job
\* that could be marked goes to the queue, one that could not be marked is
\* torn down.
DestroyNow(t) ==
  /\ At(t, "destroy")
  /\ LET s == th[t].tgt  m == meta[s] IN
       /\ SetMeta(s, mark_or(m, {"UNSTABLE"},
                             {"UNSTABLE", "EXECUTING", "READY"}, TRUE))
       /\ \/ /\ UnstableBan(m) = {}
             /\ dq' = Append(dq, s)
             /\ Goto(t, th[t].back)
          \/ /\ UnstableBan(m) # {}
             /\ Goto(t, "teardown")
             /\ UNCHANGED dq
  /\ UNCHANGED <<gen, info, free, cache, done>>

\* gen is incremented, then dtor is called.
Teardown(t) ==
  /\ At(t, "teardown")
  /\ gen' = [gen EXCEPT ![th[t].tgt] = @ + 1]
  /\ Goto(t, "clear")
  /\ UNCHANGED <<meta, info, free, cache, dq, done>>

ClearMeta(t) ==
  /\ At(t, "clear")
  /\ SetMeta(th[t].tgt, WordOf({}))
  /\ Goto(t, "release")
  /\ UNCHANGED <<gen, info, free, cache, dq, done>>

\* section_release
Release(t) ==
  /\ At(t, "release")
  /\ free' = free \cup {th[t].tgt}
  /\ Goto(t, th[t].back)
  /\ UNCHANGED <<meta, gen, info, cache, dq, done>>

\* schedi_job_destroy_queue_check tries as many entries as it finds at
\* first.
EnterQueueCheck(w) ==
  /\ th' = [th EXCEPT ![w].pc = "queue", ![w].n = Len(dq)]
  /\ UNCHANGED <<meta, gen, info, free, cache, dq, done>>

QueueCheck(w) == At(w, "check") /\ EnterQueueCheck(w)

\* A worker that found no job comes here too, when it is awake.
IdleCheck(w) == At(w, "loop") /\ dq # <<>> /\ EnterQueueCheck(w)

\* Mutant: the entry stays in the queue while it is being destroyed.
QueuePop_Keeps(w) ==
  /\ At(w, "queue")
  /\ IF th[w].n = 0 \/ dq = <<>> THEN Loop(w) /\ UNCHANGED dq
     ELSE /\ UNCHANGED dq
          /\ th' = [th EXCEPT ![w].pc = "destroy", ![w].tgt = Head(dq),
                              ![w].n = @ - 1, ![w].back = "queue"]
  /\ UNCHANGED <<meta, gen, info, free, cache, done>>

QueuePop(w) ==
  /\ At(w, "queue")
  /\ IF th[w].n = 0 \/ dq = <<>> THEN Loop(w) /\ UNCHANGED dq
     ELSE /\ dq' = Tail(dq)
          /\ th' = [th EXCEPT ![w].pc = "destroy", ![w].tgt = Head(dq),
                              ![w].n = @ - 1, ![w].back = "queue"]
  /\ UNCHANGED <<meta, gen, info, free, cache, done>>

MainEnds ==
  /\ ScriptEnds(Main)
  /\ Goto(Main, "ended")
  /\ UNCHANGED <<meta, gen, info, free, cache, dq, done>>

-----------------------------------------------------------------------------
LibraryCall(t) ==
  \/ Claim(t) \/ Publish(t) \/ SetIndicator(t)
  \/ CallSetReady(t) \/ SetReady(t) \/ CachePush(t)
  \/ CallRequire(t) \/ CasRead(t) \/ Cas(t)
  \/ CallDestroy(t) \/ MarkWllDestroy(t) \/ DestroyNow(t)
  \/ Teardown(t) \/ ClearMeta(t) \/ Release(t)

WorkerStep(w) ==
  \/ Pop(w) \/ PickAccess(w) \/ UnmarkReady(w) \/ UnmarkReadyBasic(w)
  \/ MarkExecuting(w) \/ UnmarkAccess(w) \/ Return(w)
  \/ RunAgain(w) \/ Finish(w)
  \/ TellAccess(w) \/ TellCompare(w) \/ TellDone(w)
  \/ QueueCheck(w) \/ QueuePop(w)

Terminated ==
  /\ th[Main].pc = "ended"
  /\ \A w \in Workers : At(w, "loop")
  /\ \A s \in Slots : cache[s] = 0
  /\ dq = <<>>
  /\ UNCHANGED vars

Next ==
  \/ \E t \in Threads : LibraryCall(t)
  \/ \E w \in Workers : WorkerStep(w) \/ IdleCheck(w)
  \/ MainEnds
  \/ Terminated

\* Every thread that has something to do is eventually scheduled, and user
\* functions return.  IdleCheck is not relied on: an idle worker may sleep.
Fairness ==
  /\ \A w \in Workers : WF_vars(LibraryCall(w) \/ WorkerStep(w))
  /\ WF_vars(LibraryCall(Main) \/ MainEnds)

Spec == Init /\ [][Next]_vars /\ Fairness

-----------------------------------------------------------------------------
Labels == {"loop", "access", "unready", "unbasic", "execute", "unaccess",
           "script", "publish", "setready", "cache", "read", "cas", "again",
           "finish", "tell", "compare", "told", "wlldestroy", "destroy",
           "teardown", "clear", "release", "check", "queue", "ended"}

TypeOK ==
  /\ meta \in [Slots -> Word]
  /\ free \subseteq Slots
  /\ dq \in Seq(Slots) /\ Len(dq) <= Cardinality(Slots)
  /\ \A s \in Slots : gen[s] \in Nat /\ cache[s] \in Nat /\ done[s] \in Nat
  /\ \A t \in Threads : th[t].pc \in Labels

InSubroutine(t, back) ==
  th[t].pc \in {"setready", "cache", "read", "cas"} /\ th[t].back = back

\* Thread t is between a successful mark_access(s) and its unmark_access.
Holds(t, s) ==
  \/ /\ th[t].job = s
     /\ th[t].pc \in {"unready", "unbasic", "execute", "unaccess"}
  \/ /\ th[t].pc \in {"compare", "told"} \/ InSubroutine(t, "told")
     /\ info[th[t].job].requested = s

\* Worker w is inside job->run of slot s.
Runs(w, s) ==
  /\ th[w].job = s
  /\ \/ th[w].pc \in {"script", "publish", "again", "finish"}
     \/ InSubroutine(w, "script")

TearsDown(t, s) ==
  th[t].tgt = s /\ th[t].pc \in {"teardown", "clear", "release"}

\* "High 4 bits represent the current access reference count" (jobs.h): in
\* every live job the count is exactly the number of threads that hold an
\* access.  A count that is too high makes a job unpickable, one that is too
\* low lets it be destroyed under an accessor.
AccessCountsHolders ==
  \A s \in Slots : "ALIVE" \in meta[s].flags =>
    meta[s].access = Cardinality({t \in Threads : Holds(t, s)})

\* pickready and worker_routine treat these as things that never happen: a
\* job found in the ready cache is not being set up, destroyed or executed
\* ("as stealing is illegal, this check can be removed", worker.c:55-56).
\* If it did happen the worker would drop the job and keep its access.
PickedJobIsRunnable ==
  \A w \in Workers :
    /\ At(w, "access") =>
         meta[th[w].job].flags \cap {"UNSTABLE", "WLLDESTROY"} = {}
    /\ At(w, "execute") =>
         meta[th[w].job].flags \cap {"UNSTABLE", "EXECUTING"} = {}

\* From the moment a worker pops a job until it destroys it, the slot holds
\* the job that was popped: no run works on a destroyed or recycled slot.
RunsLiveJob ==
  \A w \in Workers :
    (th[w].pc = "access" \/ Holds(w, th[w].job) \/ Runs(w, th[w].job)) =>
      th[w].job \notin free /\ gen[th[w].job] = th[w].pop_gen

\* A slot is torn down by one thread at a time, and only while it is not in
\* the pool: what section_release is given is always an owned slot, as
\* JobSlots takes for granted.
TornDownOnce ==
  \A t \in Threads, s \in Slots : TearsDown(t, s) =>
    s \notin free /\ \A u \in Threads \ {t} : ~TearsDown(u, s)

\* A parent is run again only when as many of its leaves as it asked for
\* have completed, however it orders its calls (README, Tool:Jobs, which sets
\* the leaves ready before it asks for them).
ParentWaits ==
  \A w \in Workers :
    (At(w, "script") /\ info[th[w].job].kind = "parent"
                     /\ info[th[w].job].phase = 1) =>
      done[th[w].job] >= Required

\* Every job is run to its end and its slot comes back to the pool.
AllJobsComplete == <>[](At(Main, "ended") /\ free = Slots)
-----------------------------------------------------------------------------
(* The programs of the theorems about this module. *)

Created(script, k) == Cardinality({l \in 1 .. k - 1 : script[l].op = "create"})
Uses(script, k) == script[k].op \in {"setready", "destroy"}

\* main() uses a job after it created it, and sets it ready or destroys it at
\* most once.
WellBehaved(script) ==
  /\ Len(script) \in Nat
  /\ \A k \in 1 .. Len(script) :
       /\ script[k].op \in {"create", "setready", "destroy", "indicator"}
       /\ script[k].op = "create" => script[k].kind \in {"leaf", "parent"}
       /\ script[k].op # "create" => script[k].i \in 1 .. Created(script, k)
  /\ \A k, l \in 1 .. Len(script) :
       Uses(script, k) /\ Uses(script, l) /\ script[k].i = script[l].i => k = l

\* A parent requires all its leaves, before it sets one of them ready.
Families ==
  /\ RequireFirst /\ Required = Leaves
  /\ \A script \in MainScripts : WellBehaved(script)
  /\ IsFiniteSet(Slots)

\* A slot is given to a new job while a thread still has an access of the job
\* that was there before: schedi_job_destroy_now does not wait for accessors
\* (its test of mark_unstable is inverted).
ReusedWhileAccessed ==
  \E t, u \in Threads : At(t, "publish") /\ Holds(u, th[t].tgt)
=============================================================================
