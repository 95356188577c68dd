---------------------------- MODULE EpollRequest ----------------------------
(***************************************************************************)
(* One-time epoll requests: schedi_job_tool_epoll in a job, the epoll      *)
(* thread that dispatches events and answers them by                       *)
(* schedi_job_epoll_request_return, and start and stop of that thread.     *)
(*                                                                         *)
(* A job asks for its descriptors in its first run and returns 1 to wait   *)
(* for them, or -1 if it may lose interest.  Run a     *)
(* second time, it returns -1 (examples/onetimesocket.c).  The             *)
(* steps of the worker that has the job are steps of its slot; those that  *)
(* JobLife looks at one by one and that commute with the epoll thread are  *)
(* taken together.                                                         *)
(***************************************************************************)
EXTENDS MetaFlag, FiniteSets

CONSTANTS
  Slots, Fds, NoFd,
  EventsOf,    \* [Fds -> SUBSET {"in", "out"}], EPOLLIN and EPOLLOUT
  Loads        \* the programs: for a slot, the descriptors that its jobs ask
               \* for, whether they may end without waiting for them, and
               \* how many jobs are created in it, one after the other

Dirs == {"in", "out"}     \* epfd_read and epfd_write

ASSUME EpollAssumption ==
  /\ Loads \subseteq
       [Slots -> [fds : SUBSET Fds, quits : BOOLEAN, lives : Nat]]
  /\ \A l \in Loads, s, t \in Slots :
       s # t => l[s].fds \cap l[t].fds = {}
  /\ EventsOf \in [Fds -> (SUBSET Dirs) \ {{}}] /\ NoFd \notin Fds

VARIABLES
  load,          \* the program that runs, one of Loads
  meta, gen,     \* of a job slot
  list,          \* [Slots -> ...], epoll_list, and the failed calls
  job,           \* [Slots -> ...], what the job in the slot is doing
  req,           \* [Fds -> ...], the request and its data: allocated, job_gen
  interest,      \* [Dirs -> SUBSET Fds], descriptors in an epoll instance
  pending,       \* [Fds -> SUBSET Dirs], events a descriptor has
  ep,            \* the epoll thread
  open,          \* the epoll instances and the eventfd exist
  wake,          \* the eventfd is readable
  epoll_stop, epoll_thread_running,
  main           \* what main() does about the thread

jobVars    == <<meta, gen, list, job>>
kernelVars == <<interest, pending, open, wake>>
mainVars   == <<load, epoll_stop, epoll_thread_running, main>>
vars == <<jobVars, req, kernelVars, ep, mainVars>>

FdsOf(s)  == load[s].fds
Owner(fd) == CHOOSE s \in Slots : fd \in FdsOf(s)   \* req->owner

NoList == [total |-> 0, ret |-> 0, err |-> 0, failed |-> 0]

Init ==
  /\ load \in Loads
  /\ meta = [s \in Slots |-> WordOf({})]
  /\ gen = [s \in Slots |-> 0]
  /\ list = [s \in Slots |-> NoList]
  /\ job = [s \in Slots |->
       [pc |-> "free", todo |-> {}, fd |-> NoFd, again |-> FALSE,
        lives |-> load[s].lives]]
  /\ req = [fd \in Fds |-> [allocated |-> FALSE, job_gen |-> 0]]
  /\ interest = [d \in Dirs |-> {}]
  /\ pending = [fd \in Fds |-> {}]
  /\ ep = [pc |-> "none", dirs |-> {}, batch |-> {}, fd |-> NoFd]
  /\ open = FALSE /\ wake = FALSE
  /\ epoll_stop = FALSE /\ epoll_thread_running = FALSE
  /\ main = "init"

At(s, label) == job[s].pc = label
Goto(s, label) == job' = [job EXCEPT ![s].pc = label]
EpAt(label) == ep.pc = label
EpGoto(label) == ep' = [ep EXCEPT !.pc = label]
SetMeta(s, m) == meta' = [meta EXCEPT ![s] = m]

-----------------------------------------------------------------------------
(* The job around its requests *)

\* schedi_job_create: section_claim, then the fields and the first word.
Claim(s) ==
  /\ At(s, "free") /\ job[s].lives > 0
  /\ SetMeta(s, WordOf({"UNSTABLE"}))
  /\ Goto(s, "publish")
  /\ UNCHANGED <<gen, list, req, kernelVars, ep, mainVars>>

Publish(s) ==
  /\ At(s, "publish")
  /\ SetMeta(s, WordOf({"ALIVE"} \cup Derived))
  /\ list' = [list EXCEPT ![s] = NoList]
  /\ job' = [job EXCEPT ![s] = [job[s] EXCEPT !.pc = "setready",
               !.todo = FdsOf(s), !.again = FALSE, !.lives = @ - 1]]
  /\ UNCHANGED <<gen, req, kernelVars, ep, mainVars>>

\* schedi_job_setready marks the job and caches it, whoever calls it.
MarkReady(s) ==
  LET ban == {"UNSTABLE", "WLLDESTROY", "READY"} IN
  /\ SetMeta(s, mark_or(meta[s], {"READY"}, ban, FALSE))
  /\ IF Ban(meta[s], ban, FALSE) = {} THEN Goto(s, "cached")
                                      ELSE UNCHANGED job

SetReady(s) ==
  /\ At(s, "setready")
  /\ MarkReady(s)
  /\ UNCHANGED <<gen, list, req, kernelVars, ep, mainVars>>

\* schedi_job_pickready takes an access and clears READY and READYBASIC.  A
\* job with too many accesses is put back.
Pick(s) ==
  /\ At(s, "cached") /\ AccessBan(meta[s]) = {}
  /\ SetMeta(s, unmark_or(mark_access(meta[s]), {"READY", "READYBASIC"},
                          {"UNSTABLE", "WLLDESTROY"}))
  /\ Goto(s, "picked")
  /\ UNCHANGED <<gen, list, req, kernelVars, ep, mainVars>>

\* The worker marks EXECUTING and gives the access back.
BeginRun(s) ==
  /\ At(s, "picked")
  /\ SetMeta(s, unmark_access(mark_or(meta[s], {"EXECUTING"},
                                      {"UNSTABLE", "EXECUTING"}, FALSE)))
  /\ Goto(s, "run")
  /\ UNCHANGED <<gen, list, req, kernelVars, ep, mainVars>>

\* job->run returns 1; unmark_executing.
ReturnOne(s) ==
  /\ At(s, "run") /\ job[s].todo = {} /\ ~job[s].again
  /\ SetMeta(s, unmark_or(meta[s], {"EXECUTING"}, {"UNSTABLE"}))
  /\ job' = [job EXCEPT ![s].pc = "basic", ![s].again = TRUE]
  /\ UNCHANGED <<gen, list, req, kernelVars, ep, mainVars>>

\* Mutant: the job is made ready although it still waits.
MarkReadyBasic_Always(s) ==
  /\ At(s, "basic")
  /\ SetMeta(s, cas_update(meta[s], 0, 0, 0, {"READYBASIC"}, 0, 0))
  /\ Goto(s, "setready")
  /\ UNCHANGED <<gen, list, req, kernelVars, ep, mainVars>>

\* schedi_job_mark_readybasic.
MarkReadyBasic(s) ==
  /\ At(s, "basic")
  /\ LET new == cas_update(meta[s], 0, 0, 0, {"READYBASIC"}, 0, 0) IN
       /\ SetMeta(s, new)
       /\ Goto(s, IF BecomesReady(meta[s], new) THEN "setready"
                                                ELSE "suspended")
  /\ UNCHANGED <<gen, list, req, kernelVars, ep, mainVars>>

\* job->run returns -1, having read what its descriptors offered;
\* unmark_executing, and schedi_job_mark_wlldestroy.
ReturnEnd(s) ==
  /\ At(s, "run") /\ job[s].todo = {} /\ (job[s].again \/ load[s].quits)
  /\ SetMeta(s, mark_or(unmark_or(meta[s], {"EXECUTING"}, {"UNSTABLE"}),
                        {"WLLDESTROY"}, {"UNSTABLE"}, FALSE))
  /\ pending' = [fd \in Fds |-> IF fd \in FdsOf(s) /\ job[s].again THEN {}
                                ELSE pending[fd]]
  /\ Goto(s, "destroy")
  /\ UNCHANGED <<gen, list, req, interest, open, wake, ep, mainVars>>

\* schedi_job_destroy_now, first by schedi_job_destroy and, when that put
\* the mark and reported failure, once more from the destroy queue.
DestroyNow(s) ==
  /\ At(s, "destroy")
  /\ SetMeta(s, mark_or(meta[s], {"UNSTABLE"},
                        {"UNSTABLE", "EXECUTING", "READY"}, TRUE))
  /\ Goto(s, IF UnstableBan(meta[s]) = {} THEN "destroy" ELSE "teardown")
  /\ UNCHANGED <<gen, list, req, kernelVars, ep, mainVars>>

Teardown(s) ==
  /\ At(s, "teardown")
  /\ gen' = [gen EXCEPT ![s] = @ + 1]
  /\ Goto(s, "clear")
  /\ UNCHANGED <<meta, list, req, kernelVars, ep, mainVars>>

\* The word is cleared and the slot released.
ClearMeta(s) ==
  /\ At(s, "clear")
  /\ SetMeta(s, WordOf({}))
  /\ Goto(s, "free")
  /\ UNCHANGED <<gen, list, req, kernelVars, ep, mainVars>>

-----------------------------------------------------------------------------
(* schedi_job_tool_epoll and schedi_epoll_add *)

\* Where schedi_epoll_add begins: reading is added before writing.
FirstAdd(fd) == IF "in" \in EventsOf[fd] THEN "add_in" ELSE "add_out"

\* The request is allocated and counted; at the limit of the waiting count
\* the call fails, with total_req increased.
ToolEpoll(s) ==
  /\ At(s, "run") /\ ~job[s].again
  /\ \E fd \in job[s].todo :
       IF InRange(meta[s], 0, 1, 0)
       THEN /\ SetMeta(s, cas_update(meta[s], 0, 1, 0, {}, 0, 0))
            /\ req' = [req EXCEPT ![fd] =
                         [allocated |-> TRUE, job_gen |-> gen[s]]]
            /\ list' = [list EXCEPT ![s].total = @ + 1]
            /\ job' = [job EXCEPT ![s].pc = FirstAdd(fd), ![s].fd = fd,
                                  ![s].todo = @ \ {fd}]
       ELSE /\ list' = [list EXCEPT ![s].total = @ + 1, ![s].failed = @ + 1]
            /\ job' = [job EXCEPT ![s].todo = @ \ {fd}]
            /\ UNCHANGED <<meta, req>>
  /\ UNCHANGED <<gen, kernelVars, ep, mainVars>>

\* epoll_ctl ADD for one direction.  It fails when the instance is closed or
\* has the descriptor already; what was added before is taken back.
Add(s, d, next) ==
  LET fd == job[s].fd IN
  IF open /\ fd \notin interest[d]
  THEN /\ interest' = [interest EXCEPT ![d] = @ \cup {fd}]
       /\ Goto(s, next)
  ELSE /\ interest' = IF d = "out" THEN [interest EXCEPT !["in"] = @ \ {fd}]
                                   ELSE interest
       /\ Goto(s, "addfailed")

AddRead(s) ==
  /\ At(s, "add_in")
  /\ Add(s, "in", IF "out" \in EventsOf[job[s].fd] THEN "add_out" ELSE "run")
  /\ UNCHANGED <<meta, gen, list, req, pending, open, wake, ep, mainVars>>

AddWrite(s) ==
  /\ At(s, "add_out")
  /\ Add(s, "out", "run")
  /\ UNCHANGED <<meta, gen, list, req, pending, open, wake, ep, mainVars>>

\* Mutant: a failed registration leaves the request counted.
AddFailed_KeepsCount(s) ==
  /\ At(s, "addfailed")
  /\ req' = [req EXCEPT ![job[s].fd].allocated = FALSE]
  /\ list' = [list EXCEPT ![s].failed = @ + 1]
  /\ Goto(s, "run")
  /\ UNCHANGED <<meta, gen, kernelVars, ep, mainVars>>

\* The data and the request are freed and the count taken back.
AddFailed(s) ==
  /\ At(s, "addfailed")
  /\ SetMeta(s, cas_update(meta[s], 0, -1, 0, {}, 0, 0))
  /\ req' = [req EXCEPT ![job[s].fd].allocated = FALSE]
  /\ list' = [list EXCEPT ![s].failed = @ + 1]
  /\ Goto(s, "run")
  /\ UNCHANGED <<gen, kernelVars, ep, mainVars>>

-----------------------------------------------------------------------------
(* schedi_epoll_loop *)

\* Descriptors that epoll_wait reports on an instance, level-triggered.
Reported(d) == {fd \in interest[d] : d \in pending[fd]}

\* A thread that finds epoll_stop set before its loop closes nothing.
EnterLoop ==
  /\ EpAt("enter")
  /\ EpGoto(IF epoll_stop THEN "exited" ELSE "test")
  /\ UNCHANGED <<jobVars, req, kernelVars, mainVars>>

LoopTest ==
  /\ EpAt("test")
  /\ EpGoto(IF epoll_stop THEN "close" ELSE "poll")
  /\ UNCHANGED <<jobVars, req, kernelVars, mainVars>>

\* poll() returns, epoll_stop is looked at, the eventfd is read.
Poll ==
  /\ EpAt("poll")
  /\ wake \/ \E d \in Dirs : Reported(d) # {}
  /\ IF epoll_stop THEN EpGoto("close") /\ UNCHANGED wake
     ELSE /\ wake' = FALSE
          /\ ep' = [ep EXCEPT !.pc = "drain",
                              !.dirs = {d \in Dirs : Reported(d) # {}}]
  /\ UNCHANGED <<jobVars, req, interest, pending, open, mainVars>>

\* epoll_wait until there are no more events, for reading before writing.
Drain ==
  /\ EpAt("drain")
  /\ IF ep.dirs = {} THEN EpGoto("test")
     ELSE LET d == IF "in" \in ep.dirs THEN "in" ELSE "out" IN
          ep' = IF Reported(d) = {} THEN [ep EXCEPT !.dirs = @ \ {d}]
                ELSE [ep EXCEPT !.pc = "handle", !.batch = Reported(d)]
  /\ UNCHANGED <<jobVars, req, kernelVars, mainVars>>

\* schedi_epoll_handle_read and _write on a request: schedi_epoll_del.
Handle ==
  /\ EpAt("handle")
  /\ IF ep.batch = {} THEN EpGoto("drain") /\ UNCHANGED interest
     ELSE \E fd \in ep.batch :
            /\ ep' = [ep EXCEPT !.pc = "access", !.fd = fd,
                                !.batch = @ \ {fd}]
            /\ interest' = [d \in Dirs |-> interest[d] \ {fd}]
  /\ UNCHANGED <<jobVars, req, pending, open, wake, mainVars>>

\* schedi_job_epoll_request_return tries until it gets the access, or finds
\* the owner unstable.
AccessOwner ==
  /\ EpAt("access")
  /\ LET s == Owner(ep.fd)  ban == AccessBan(meta[s]) IN
       /\ ban = {} \/ "UNSTABLE" \in ban
       /\ SetMeta(s, mark_access(meta[s]))
       /\ EpGoto(IF ban = {} THEN "compare" ELSE "free")
  /\ UNCHANGED <<gen, list, job, req, kernelVars, mainVars>>

\* The event may report EPOLLERR or EPOLLHUP.
CompareGen ==
  /\ EpAt("compare")
  /\ LET s == Owner(ep.fd) IN
       IF gen[s] = req[ep.fd].job_gen
       THEN /\ \/ list' = [list EXCEPT ![s].ret = @ + 1]
               \/ list' = [list EXCEPT ![s].err = @ + 1]
            /\ EpGoto("cas")
       ELSE EpGoto("unaccess") /\ UNCHANGED list
  /\ UNCHANGED <<meta, gen, job, req, kernelVars, mainVars>>

\* Mutant: the answer that completes the readiness is not noticed.
CasWait_NoSetReady ==
  /\ EpAt("cas")
  /\ LET s == Owner(ep.fd) IN
       SetMeta(s, IF InRange(meta[s], 0, -1, 0)
                  THEN cas_update(meta[s], 0, -1, 0, {}, 0, 0) ELSE meta[s])
  /\ EpGoto("unaccess")
  /\ UNCHANGED <<gen, list, job, req, kernelVars, mainVars>>

CasWait ==
  /\ EpAt("cas")
  /\ LET s   == Owner(ep.fd)
         new == IF InRange(meta[s], 0, -1, 0)
                THEN cas_update(meta[s], 0, -1, 0, {}, 0, 0) ELSE meta[s]
     IN /\ SetMeta(s, new)
        /\ EpGoto(IF BecomesReady(meta[s], new) THEN "setready"
                                                ELSE "unaccess")
  /\ UNCHANGED <<gen, list, job, req, kernelVars, mainVars>>

SetOwnerReady ==
  /\ EpAt("setready")
  /\ MarkReady(Owner(ep.fd))
  /\ EpGoto("unaccess")
  /\ UNCHANGED <<gen, list, req, kernelVars, mainVars>>

UnaccessOwner ==
  /\ EpAt("unaccess")
  /\ SetMeta(Owner(ep.fd), unmark_access(meta[Owner(ep.fd)]))
  /\ EpGoto("free")
  /\ UNCHANGED <<gen, list, job, req, kernelVars, mainVars>>

FreeRequest ==
  /\ EpAt("free")
  /\ req' = [req EXCEPT ![ep.fd].allocated = FALSE]
  /\ ep' = [ep EXCEPT !.pc = "handle", !.fd = NoFd]
  /\ UNCHANGED <<jobVars, kernelVars, mainVars>>

\* Closing the instances forgets what was registered.
CloseFds ==
  /\ EpAt("close")
  /\ open' = FALSE /\ wake' = FALSE
  /\ interest' = [d \in Dirs |-> {}]
  /\ EpGoto("exited")
  /\ UNCHANGED <<jobVars, req, pending, mainVars>>

-----------------------------------------------------------------------------
(* schedi_epoll_thread_init, _deinit, schedi_epoll_destroy, under the lock *)

\* main() may start the thread again after it has stopped it; epoll_stop
\* stays set, and descriptors that are still open are kept.
ThreadInit ==
  /\ main \in {"init", "joined", "destroyed"} /\ ~epoll_thread_running
  /\ open' = TRUE
  /\ EpGoto("enter")
  /\ epoll_thread_running' = TRUE
  /\ main' = "up"
  /\ UNCHANGED <<load, jobVars, req, interest, pending, wake, epoll_stop>>

\* The flag first, then the eventfd: a loop that has seen the flag may have
\* closed it.
ThreadDeinit ==
  /\ main = "up" /\ epoll_thread_running
  /\ epoll_stop' = TRUE
  /\ main' = "wake"
  /\ UNCHANGED <<load, jobVars, req, kernelVars, ep, epoll_thread_running>>

\* Mutant: the eventfd is not written.
WakeLoop_Silent ==
  /\ main = "wake"
  /\ main' = "join"
  /\ UNCHANGED <<load, jobVars, req, kernelVars, ep, epoll_stop,
                 epoll_thread_running>>

WakeLoop ==
  /\ main = "wake"
  /\ wake' = open
  /\ main' = "join"
  /\ UNCHANGED <<load, jobVars, req, interest, pending, open, ep, epoll_stop,
                 epoll_thread_running>>

Join ==
  /\ main = "join" /\ EpAt("exited")
  /\ epoll_thread_running' = FALSE
  /\ main' = "joined"
  /\ UNCHANGED <<load, jobVars, req, kernelVars, ep, epoll_stop>>

EpollDestroy ==
  /\ main = "joined"
  /\ open' = FALSE /\ wake' = FALSE
  /\ interest' = [d \in Dirs |-> {}]
  /\ main' = "destroyed"
  /\ UNCHANGED <<load, jobVars, req, pending, ep, epoll_stop, epoll_thread_running>>

\* A descriptor becomes readable or writable.
Arrive(fd, d) ==
  /\ \E s \in Slots : fd \in FdsOf(s)
  /\ d \in EventsOf[fd] /\ d \notin pending[fd]
  /\ pending' = [pending EXCEPT ![fd] = @ \cup {d}]
  /\ UNCHANGED <<jobVars, req, interest, open, wake, ep, mainVars>>

-----------------------------------------------------------------------------
JobStep(s) ==
  \/ Claim(s) \/ Publish(s) \/ SetReady(s) \/ Pick(s) \/ BeginRun(s)
  \/ ToolEpoll(s) \/ AddRead(s) \/ AddWrite(s) \/ AddFailed(s)
  \/ ReturnOne(s) \/ MarkReadyBasic(s) \/ ReturnEnd(s)
  \/ DestroyNow(s) \/ Teardown(s) \/ ClearMeta(s)

EpollStep ==
  \/ EnterLoop \/ LoopTest \/ Poll \/ Drain \/ Handle
  \/ AccessOwner \/ CompareGen \/ CasWait \/ SetOwnerReady \/ UnaccessOwner
  \/ FreeRequest \/ CloseFds

Next ==
  \/ \E s \in Slots : JobStep(s)
  \/ EpollStep
  \/ ThreadInit \/ ThreadDeinit \/ WakeLoop \/ Join \/ EpollDestroy
  \/ \E fd \in Fds, d \in Dirs : Arrive(fd, d)

\* Threads are scheduled and every descriptor gets its event.  main() starts
\* the thread and joins it once it has asked it to stop, which it need not.
Fairness ==
  /\ \A s \in Slots : WF_vars(JobStep(s))
  /\ WF_vars(EpollStep)
  /\ WF_vars(main = "init" /\ ThreadInit) /\ WF_vars(WakeLoop) /\ WF_vars(Join)
  /\ \A fd \in Fds : WF_vars(\E d \in Dirs : Arrive(fd, d))

Spec == Init /\ [][Next]_vars /\ Fairness

-----------------------------------------------------------------------------
JobLabels == {"free", "publish", "setready", "cached", "picked", "run",
              "add_in", "add_out", "addfailed", "basic", "suspended",
              "destroy", "teardown", "clear"}
EpLabels  == {"none", "enter", "test", "poll", "drain", "handle", "access",
              "compare", "cas", "setready", "unaccess", "free", "close",
              "exited"}

MainLabels == {"init", "up", "wake", "join", "joined", "destroyed"}

TypeOK ==
  /\ load \in Loads
  /\ meta \in [Slots -> Word] /\ gen \in [Slots -> Nat]
  /\ list \in [Slots -> [total : Nat, ret : Nat, err : Nat, failed : Nat]]
  /\ job \in [Slots -> [pc : JobLabels, todo : SUBSET Fds, fd : Fds \cup {NoFd},
                        again : BOOLEAN, lives : Nat]]
  /\ req \in [Fds -> [allocated : BOOLEAN, job_gen : Nat]]
  /\ interest \in [Dirs -> SUBSET Fds] /\ pending \in [Fds -> SUBSET Dirs]
  /\ ep \in [pc : EpLabels, dirs : SUBSET Dirs, batch : SUBSET Fds,
             fd : Fds \cup {NoFd}]
  /\ open \in BOOLEAN /\ wake \in BOOLEAN
  /\ epoll_stop \in BOOLEAN /\ epoll_thread_running \in BOOLEAN
  /\ main \in MainLabels

\* The slot has a job that is not being destroyed.
Alive(s) ==
  job[s].pc \notin {"free", "publish", "destroy", "teardown", "clear"}

\* Requests of the job in slot s that the epoll thread has not taken off its
\* waiting count.
Outstanding(s) ==
  {fd \in FdsOf(s) :
     /\ req[fd].allocated /\ req[fd].job_gen = gen[s]
     /\ ~(ep.fd = fd /\ ep.pc \in {"setready", "unaccess", "free"})}

\* "waiting_count (number of outstanding epoll requests)" (jobs.h): in a
\* live job the count is that number, although requests are made, fail, are
\* answered or come too late in any order.
WaitCountsRequests ==
  \A s \in Slots : Alive(s) => meta[s].wait = Cardinality(Outstanding(s))

\* A job that waits is run again when every request it made was answered,
\* with success or error, and not earlier ("The job resumes once
\* waiting_count == 0", jobs.h).
ResumesWhenAnswered ==
  \A s \in Slots : (job[s].again /\ job[s].pc \in {"cached", "picked", "run"})
    => /\ Outstanding(s) = {}
       /\ list[s].ret + list[s].err + list[s].failed = list[s].total

\* schedi_epoll_add is "thread-safe" (epoll.h): an event never carries the
\* data of a request that was freed, and a request is never freed twice.  No
\* run checks this, since the code keeps it only for descriptors that are
\* registered in one direction (README); the other properties rest on it.
EventDataIsLive ==
  \A fd \in ep.batch \cup ({ep.fd} \ {NoFd}) : req[fd].allocated

\* "when the epoll loop gets triggered ... for the file descriptor fd, job
\* will be setted ready" (README): unless the thread is stopped, all jobs
\* get their events and end.
JobsComplete ==
  []~epoll_stop => \A s \in Slots : <>[](At(s, "free") /\ job[s].lives = 0)

\* schedi_epoll_thread_deinit wakes "a blocking pool()" and waits for the
\* thread (epoll.h): it never hangs, wherever it finds the loop, nor when the
\* thread was started again after an earlier stop.
DeinitReturns == (main \in {"wake", "join"}) ~> (main = "joined")
=============================================================================
