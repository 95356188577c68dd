---------------------------- MODULE EpollSocket ----------------------------
(***************************************************************************)
(* The life of one epoll socket: a job registers it, waits until it is     *)
(* ready, reads it and gives it up; the epoll thread receives, finds it    *)
(* dead or timed out, and gives it up too; the last of the two frees it.   *)
(* The job runs the function of examples/epollsocket.c, or that of         *)
(* examples/epollsocket_test.c, whose destructor gives up the socket.      *)
(*                                                                         *)
(* The word of the socket (SocketWord) carries its readiness, the word of  *)
(* the job (MetaFlag) counts its ready sockets, and each change of the     *)
(* first is carried over to the second by jobready_update.  The bytes are  *)
(* in SocketStream: here a receive is one step, the job writes nothing and *)
(* the buffer is large enough for what the peer sends.                     *)
(***************************************************************************)
EXTENDS MetaFlag, SocketWord, FiniteSets

CONSTANTS
  Programs,      \* what the job and the peer do, see ProgramType
  ReadCond,      \* read_count_condition, and the size of a read
  MaxEvents,     \* MAX_EVENTS, the longest answer of epoll_wait
  MaxExpiries    \* bound: how often the timer expires

Sources == {"in", "out", "timer"}   \* EPOLLIN and the timer are in epfd_read

ProgramType ==
  [bytes    : Nat,       \* sent by the peer
   closes   : BOOLEAN,   \* the peer closes in the end
   calm     : BOOLEAN,   \* a restriction the code does not make: the peer
                         \* closes, and the timer expires, only while the
                         \* socket is registered, and not both
   timeouts : BOOLEAN,   \* the SCHEDI_EXT_TIMEOUT build
   fails    : [reg : Nat, src : Sources],
                         \* the epoll_ctl ADD, if any, that the kernel refuses:
                         \* in which registration, of what
   reads    : Nat,       \* reads in each run of the job
   leaves   : {"dead",   \* the job calls done when it finds the socket dead
               "early",  \* or after its first reads
               "dtor"}]  \* or leaves it to its destructor

ASSUME SocketAssumption ==
  /\ Programs \subseteq ProgramType
  /\ ReadCond \in 1 .. BufferSize /\ \A p \in Programs : p.bytes < BufferSize
  /\ MaxEvents \in Nat \ {0} /\ MaxExpiries \in Nat

\* Programs for which the safety properties below are proved (the run checks
\* them for more); the README says what each condition rules out.  MaxAccess
\* and MaxCount are 15 in the code, and two threads access the job.
SoundProgram(p) ==
  /\ p.calm /\ p.reads <= 1
  /\ p.leaves = "dead" \/ (p.leaves = "dtor" /\ ~p.timeouts)
  /\ p.fails.src = "out" => p.fails.reg \notin {1, 2}
  /\ p.timeouts => MaxEvents = 1
Sound ==
  /\ \A p \in Programs : SoundProgram(p)
  /\ MaxAccess >= 2 /\ MaxCount >= 2

VARIABLES
  prog,    \* the program that runs, one of Programs
  th,      \* the threads "job" and "ep": pc, and the call they are in
  meta,    \* the word of the job
  ctx,     \* the job: gen, required_available_sockets, its context
  sock,    \* the socket: allocated, htc, fall, its allocated event data
  reg,     \* the epoll instances: what is registered, what is armed
  ev,      \* the epoll thread's events: answered, handled, bytes received
  net      \* the peer and the timer

vars == <<prog, th, meta, ctx, sock, reg, ev, net>>

At(t, label)   == th[t].pc = label
Goto(t, label) == th' = [th EXCEPT ![t].pc = label]

Idle(pc) == [pc |-> pc, next |-> pc, delta |-> 0, req |-> 0, n |-> 0]

\* The job is in its first run.
Init ==
  /\ prog \in Programs
  /\ th = [t \in {"job", "ep"} |-> Idle(IF t = "job" THEN "create" ELSE "wait")]
  /\ meta = WordOf({"ALIVE", "EXECUTING"} \cup Derived)
  /\ ctx = [gen |-> 0, required |-> 0, regs |-> 0, reads |-> 0,
            got |-> 0, exit |-> FALSE]
  /\ sock = [alive |-> FALSE, htc |-> htc_init(ReadCond, 0), fall |-> 0,
             data |-> {}]
  /\ reg = [set |-> {}, armed |-> {}]
  /\ ev = [batch |-> {}, src |-> "none", dead |-> FALSE]
  /\ net = [sent |-> 0, inq |-> 0, closed |-> FALSE, timer |-> "off",
            expiries |-> 0]

-----------------------------------------------------------------------------
(* A change of the socket's word, and schedi_job_epollsocket_jobready_update *)

IsReady(h) == IF "READY" \in h.flags THEN 1 ELSE 0

\* The compare-and-swap; the thread goes on to the update, then to next.
CasHtc(t, new, next) ==
  /\ sock' = [sock EXCEPT !.htc = new]
  /\ th' = [th EXCEPT ![t].pc = "update", ![t].next = next,
                      ![t].delta = IsReady(new) - IsReady(sock.htc)]

\* The transfers of a socket that timed out change nothing and skip the
\* update.
CasCount(t, delta, next) ==
  IF "TIMEOUT" \in sock.htc.flags THEN Goto(t, next) /\ UNCHANGED sock
  ELSE CasHtc(t, count_add(sock.htc, delta, FALSE, ReadCond), next)

\* schedi_job_epollsocket_timeout_reset
ResetTimer == net' = IF prog.timeouts THEN [net EXCEPT !.timer = "running"]
                                      ELSE net

\* Each update restarts the timer.  schedi_job_epollsocket_accessjob: a
\* refused access drops the change; the generation is compared after it.
UpdateAccess(t) ==
  /\ At(t, "update")
  /\ ResetTimer
  /\ IF th[t].delta # 0 /\ AccessBan(meta) = {}
     THEN meta' = mark_access(meta) /\ Goto(t, "compare")
     ELSE Goto(t, th[t].next) /\ UNCHANGED meta
  /\ UNCHANGED <<prog, ctx, sock, reg, ev>>

UpdateCompare(t) ==
  /\ At(t, "compare")
  /\ th' = [th EXCEPT ![t].pc = IF ctx.gen = 0 THEN "cas" ELSE "unaccess",
                      ![t].req = ctx.required]
  /\ UNCHANGED <<prog, meta, ctx, sock, reg, ev, net>>

\* Mutant: every change is counted up.
UpdateCas_Up(t) ==
  /\ At(t, "cas")
  /\ LET new == IF InRange(meta, 1, 0, 0)
                THEN cas_update(meta, 1, 0, 0, {}, th[t].req, 0) ELSE meta
     IN /\ meta' = new
        /\ Goto(t, IF BecomesReady(meta, new) THEN "setready" ELSE "unaccess")
  /\ UNCHANGED <<prog, ctx, sock, reg, ev, net>>

\* A count out of range is left as it is.
UpdateCas(t) ==
  /\ At(t, "cas")
  /\ LET new == IF InRange(meta, th[t].delta, 0, 0)
                THEN cas_update(meta, th[t].delta, 0, 0, {}, th[t].req, 0)
                ELSE meta
     IN /\ meta' = new
        /\ Goto(t, IF BecomesReady(meta, new) THEN "setready" ELSE "unaccess")
  /\ UNCHANGED <<prog, ctx, sock, reg, ev, net>>

UpdateUnaccess(t) ==
  /\ At(t, "unaccess")
  /\ meta' = unmark_access(meta)
  /\ Goto(t, th[t].next)
  /\ UNCHANGED <<prog, ctx, sock, reg, ev, net>>

\* schedi_job_setready, which the job's own updates never reach.
MarkReady ==
  mark_or(meta, {"READY"}, {"UNSTABLE", "WLLDESTROY", "READY"}, FALSE)

UpdateSetReady ==
  /\ At("ep", "setready")
  /\ meta' = MarkReady
  /\ th' = [th EXCEPT !["ep"].pc = "unaccess", !["job"].pc = "cached"]
  /\ UNCHANGED <<prog, ctx, sock, reg, ev, net>>

Update(t) ==
  UpdateAccess(t) \/ UpdateCompare(t) \/ UpdateCas(t) \/ UpdateUnaccess(t)

-----------------------------------------------------------------------------
(* schedi_job_epollsocket_done_ after its compare-and-swap *)

\* Mutant: the epoll side does not give up the socket.
Dropped_EpKeeps(t) ==
  IF t = "ep" THEN sock
  ELSE [sock EXCEPT !.fall = @ - 1, !.alive = sock.fall # 1]

Dropped(t) == [sock EXCEPT !.fall = @ - 1, !.alive = sock.fall # 1]

Drop(t, next) ==
  /\ At(t, "drop")
  /\ sock' = Dropped(t)
  /\ Goto(t, next)
  /\ UNCHANGED <<prog, meta, ctx, reg, net>>

-----------------------------------------------------------------------------
(* schedi_job_tool_epollsocket, _epollisize and _epollagain *)

jobRest == <<prog, ev>>

Create ==
  /\ At("job", "create")
  /\ LET htc == htc_init(ReadCond, 0) IN
       /\ sock' = [alive |-> TRUE, htc |-> htc, fall |-> 2, data |-> {}]
       /\ meta' = IF IsReady(htc) = 1
                  THEN cas_update(meta, 1, 0, 0, {}, ctx.required, 0) ELSE meta
  /\ ctx' = [ctx EXCEPT !.regs = 1]
  /\ Goto("job", "stop")
  /\ UNCHANGED <<reg, net, jobRest>>

\* The timer is stopped and registered before the socket, and started after.
StopTimer ==
  /\ At("job", "stop")
  /\ net' = [net EXCEPT !.timer = "off"]
  /\ Goto("job", IF prog.timeouts THEN "add_timer" ELSE "add_in")
  /\ UNCHANGED <<meta, ctx, sock, reg, jobRest>>

\* epoll_ctl ADD.  A refusal undoes what was registered, reading with
\* writing and the timer with the socket.
Add(src, data, next) ==
  IF prog.fails = [reg |-> ctx.regs, src |-> src]
  THEN /\ reg' = [set |-> {}, armed |-> {}]
       /\ sock' = [sock EXCEPT !.data = @ \ {"sock"}]
       /\ Goto("job", "refused")
  ELSE /\ reg' = [set |-> reg.set \cup {src}, armed |-> reg.armed \cup {src}]
       /\ sock' = [sock EXCEPT !.data = @ \cup data]
       /\ Goto("job", next)

AddTimer == At("job", "add_timer") /\ Add("timer", {"timer"}, "add_in")
AddIn    == At("job", "add_in") /\ Add("in", {"sock"}, "add_out")
AddOut   == At("job", "add_out") /\ Add("out", {}, "start")

AddStep ==
  (AddTimer \/ AddIn \/ AddOut) /\ UNCHANGED <<meta, ctx, net, jobRest>>

\* Where a finished registration goes: into the first run, or the one that
\* called epollagain.
StartTimer ==
  /\ At("job", "start")
  /\ ResetTimer
  /\ Goto("job", IF ctx.regs = 1 THEN "require" ELSE "return")
  /\ UNCHANGED <<meta, ctx, sock, reg, jobRest>>

\* The new socket is freed; an old one is given up for the epoll side.
Refused ==
  /\ At("job", "refused")
  /\ IF ctx.regs = 1
     THEN /\ sock' = [sock EXCEPT !.alive = FALSE, !.fall = 0]
          /\ meta' = IF IsReady(sock.htc) = 1
                     THEN cas_update(meta, -1, 0, 0, {}, ctx.required, 0)
                     ELSE meta
          /\ Goto("job", "require")
     ELSE CasHtc("job", done_cas_epollside(sock.htc), "again_drop")
          /\ UNCHANGED meta
  /\ UNCHANGED <<ctx, reg, net, jobRest>>

\* schedi_job_required_available_socket(job, 1)
Require ==
  /\ At("job", "require")
  /\ ctx' = [ctx EXCEPT !.required = 1]
  /\ meta' = cas_update(meta, 0, 0, 0, {}, 1, 0)
  /\ Goto("job", "return")
  /\ UNCHANGED <<sock, reg, net, jobRest>>

\* epollagain: without EPOLLDID it fails, and the job calls done.
Again ==
  /\ At("job", "again")
  /\ IF "EPOLLDID" \in sock.htc.flags
     THEN CasHtc("job", untimeout(sock.htc), "again_fall")
     ELSE Goto("job", "done") /\ UNCHANGED sock
  /\ UNCHANGED <<meta, ctx, reg, net, jobRest>>

AgainFall ==
  /\ At("job", "again_fall")
  /\ sock' = [sock EXCEPT !.fall = @ + 1]
  /\ ctx' = [ctx EXCEPT !.regs = 2]
  /\ Goto("job", "stop")
  /\ UNCHANGED <<meta, reg, net, jobRest>>

AgainDrop ==
  /\ At("job", "again_drop")
  /\ sock' = Dropped("ep")
  /\ Goto("job", "done")
  /\ UNCHANGED <<meta, ctx, reg, net, jobRest>>

-----------------------------------------------------------------------------
(* The job function from its second run on *)

\* exit; or the socket is dead; or timed out; or there is something to read.
RunTest ==
  /\ At("job", "run")
  /\ LET flags == sock.htc.flags IN
       Goto("job", CASE ctx.exit -> "end"
                     [] ~ctx.exit /\ prog.leaves # "dtor" /\ "DEAD" \in flags ->
                              "done"
                     [] OTHER -> IF prog.timeouts THEN "run_timeout" ELSE "read")
  /\ ctx' = [ctx EXCEPT !.reads = prog.reads]
  /\ UNCHANGED <<meta, sock, reg, net, jobRest>>

RunTimeout ==
  /\ At("job", "run_timeout")
  /\ Goto("job", IF "TIMEOUT" \in sock.htc.flags THEN "again" ELSE "read")
  /\ UNCHANGED <<meta, ctx, sock, reg, net, jobRest>>

\* schedi_job_epollsocket_read of ReadCond bytes.
Read ==
  /\ At("job", "read")
  /\ LET n == IF sock.htc.count < ReadCond THEN sock.htc.count ELSE ReadCond IN
       /\ th' = [th EXCEPT !["job"].pc = "read_add", !["job"].n = n]
       /\ ctx' = [ctx EXCEPT !.got = @ + n]
  /\ UNCHANGED <<meta, sock, reg, net, jobRest>>

ReadAdd ==
  /\ At("job", "read_add")
  /\ CasCount("job", -th["job"].n, "read_end")
  /\ UNCHANGED <<meta, ctx, reg, net, jobRest>>

\* A read of nothing from a dead socket ends the job too.
ReadEnd ==
  /\ At("job", "read_end")
  /\ ctx' = [ctx EXCEPT !.reads = @ - 1]
  /\ Goto("job",
       CASE th["job"].n = 0 /\ "DEAD" \in sock.htc.flags ->
              IF prog.leaves = "dtor" THEN "end" ELSE "done"
         [] ctx.reads > 1 -> "read"
         [] OTHER -> IF prog.leaves = "early" THEN "done" ELSE "return")
  /\ UNCHANGED <<meta, sock, reg, net, jobRest>>

\* schedi_job_epollsocket_done, by the function or by the destructor.
Done ==
  /\ At("job", "done")
  /\ CasHtc("job", done_cas_jobside(sock.htc), "drop")
  /\ ctx' = [ctx EXCEPT !.exit = TRUE]
  /\ UNCHANGED <<meta, reg, net, jobRest>>

JobDrop ==
  Drop("job", IF ctx.gen = 1 THEN "close" ELSE "return") /\ UNCHANGED ev

-----------------------------------------------------------------------------
(* The worker around the job function *)

\* The function returned 1: unmark_executing, then mark_readybasic.
Return ==
  /\ At("job", "return")
  /\ meta' = unmark_or(meta, {"EXECUTING"}, {"UNSTABLE"})
  /\ Goto("job", "basic")
  /\ UNCHANGED <<ctx, sock, reg, net, jobRest>>

\* Mutant: the sockets are not waited for.
MarkReadyBasic_Always ==
  /\ At("job", "basic")
  /\ meta' = cas_update(meta, 0, 0, 0, {"READYBASIC"}, ctx.required, 0)
  /\ Goto("job", "mark_ready")
  /\ UNCHANGED <<ctx, sock, reg, net, jobRest>>

MarkReadyBasic ==
  /\ At("job", "basic")
  /\ LET new == cas_update(meta, 0, 0, 0, {"READYBASIC"}, ctx.required, 0) IN
       /\ meta' = new
       /\ Goto("job", IF BecomesReady(meta, new) THEN "mark_ready"
                                                 ELSE "suspended")
  /\ UNCHANGED <<ctx, sock, reg, net, jobRest>>

SetReady ==
  /\ At("job", "mark_ready")
  /\ meta' = MarkReady
  /\ Goto("job", "cached")
  /\ UNCHANGED <<ctx, sock, reg, net, jobRest>>

\* A worker picks the job and begins to run it.
PickAndRun ==
  /\ At("job", "cached")
  /\ meta' = [meta EXCEPT !.flags = (@ \ {"READY", "READYBASIC"})
                                       \cup {"EXECUTING"}]
  /\ Goto("job", "run")
  /\ UNCHANGED <<ctx, sock, reg, net, jobRest>>

\* The function returned -1: unmark_executing, mark_wlldestroy.
End ==
  /\ At("job", "end")
  /\ meta' = mark_or(unmark_or(meta, {"EXECUTING"}, {"UNSTABLE"}),
                     {"WLLDESTROY"}, {"UNSTABLE"}, FALSE)
  /\ Goto("job", "destroy")
  /\ UNCHANGED <<ctx, sock, reg, net, jobRest>>

\* schedi_job_destroy_now goes on when its mark was refused.
DestroyNow ==
  /\ At("job", "destroy")
  /\ meta' = mark_or(meta, {"UNSTABLE"}, {"UNSTABLE", "EXECUTING", "READY"},
                     TRUE)
  /\ Goto("job", IF UnstableBan(meta) = {} THEN "destroy" ELSE "teardown")
  /\ UNCHANGED <<ctx, sock, reg, net, jobRest>>

Teardown ==
  /\ At("job", "teardown")
  /\ ctx' = [ctx EXCEPT !.gen = 1]
  /\ Goto("job", IF prog.leaves = "dtor" THEN "done" ELSE "close")
  /\ UNCHANGED <<meta, sock, reg, net, jobRest>>

\* The destructor closes the descriptor; the word is cleared.
Close ==
  /\ At("job", "close")
  /\ reg' = [set |-> reg.set \ {"in", "out"},
             armed |-> reg.armed \ {"in", "out"}]
  /\ meta' = WordOf({})
  /\ Goto("job", "ended")
  /\ UNCHANGED <<ctx, sock, net, jobRest>>

JobStep ==
  \/ Create \/ StopTimer \/ AddStep \/ StartTimer \/ Refused \/ Require
  \/ Again \/ AgainFall \/ AgainDrop
  \/ RunTest \/ RunTimeout \/ Read \/ ReadAdd \/ ReadEnd \/ Done \/ JobDrop
  \/ Return \/ MarkReadyBasic \/ SetReady \/ PickAndRun
  \/ End \/ DestroyNow \/ Teardown \/ Close
  \/ Update("job")

-----------------------------------------------------------------------------
(* The epoll thread: schedi_epoll_drain_read and _write and their handlers *)

epRest == <<prog, ctx>>

Event(src) ==
  CASE src = "in"    -> net.inq > 0 \/ net.closed
    [] src = "timer" -> net.timer = "expired"
    [] OTHER         -> TRUE

Reported == {src \in reg.set \cap reg.armed : Event(src)}

\* epoll_wait on one instance.  The socket's registrations are one-shot,
\* the timer's is not.
Wait ==
  /\ At("ep", "wait")
  /\ \E batch \in SUBSET Reported :
       /\ batch # {} /\ Cardinality(batch) <= MaxEvents
       /\ "out" \in batch => batch = {"out"}
       /\ ev' = [batch |-> batch, src |-> "none", dead |-> FALSE]
       /\ reg' = [reg EXCEPT !.armed = @ \ (batch \ {"timer"})]
  /\ Goto("ep", "handle")
  /\ UNCHANGED <<meta, sock, net, epRest>>

\* The data of the event and the socket it points to are allocated.
Live(src) ==
  sock.alive /\ (IF src = "timer" THEN "timer" ELSE "sock") \in sock.data

Handle ==
  /\ At("ep", "handle")
  /\ IF ev.batch = {}
     THEN ev' = [ev EXCEPT !.src = "none"] /\ Goto("ep", "wait")
     ELSE \E src \in ev.batch :
            /\ Live(src)
            /\ ev' = [batch |-> ev.batch \ {src}, src |-> src, dead |-> FALSE]
            /\ Goto("ep", CASE src = "in"    -> "recv"
                            [] src = "out"   -> "activate"
                            [] src = "timer" -> "timer")
  /\ UNCHANGED <<meta, sock, reg, net, epRest>>

\* recv of all there is; its bytes are counted next.
Recv ==
  /\ At("ep", "recv")
  /\ th' = [th EXCEPT !["ep"].n = net.inq, !["ep"].pc =
              IF net.inq > 0 THEN "add"
              ELSE IF net.closed THEN "dead" ELSE "activate"]
  /\ net' = [net EXCEPT !.inq = 0]
  /\ UNCHANGED <<meta, sock, reg, ev, epRest>>

RecvAdd ==
  /\ At("ep", "add")
  /\ CasCount("ep", th["ep"].n, "activate")
  /\ UNCHANGED <<meta, reg, ev, net, epRest>>

MarkDead ==
  /\ At("ep", "dead")
  /\ CasHtc("ep", mark_dead(sock.htc), "activate")
  /\ ev' = [ev EXCEPT !.dead = TRUE]
  /\ UNCHANGED <<meta, reg, net, epRest>>

\* Mutant: the registration for reading is not renewed.
Activate_NoMod ==
  /\ At("ep", "activate")
  /\ Goto("ep", IF ev.dead THEN "del" ELSE "handle")
  /\ UNCHANGED <<meta, sock, reg, ev, net, epRest>>

\* schedi_job_epollsocket_epoll_activator; nothing is left to send.
Activate ==
  /\ At("ep", "activate")
  /\ reg' = [reg EXCEPT !.armed = IF sock.htc.count # BufferSize
                                  THEN @ \cup ({"in"} \cap reg.set) ELSE @]
  /\ Goto("ep", IF ev.dead THEN "del" ELSE "handle")
  /\ UNCHANGED <<meta, sock, ev, net, epRest>>

\* The timer of a ready socket is started again.
Timer ==
  /\ At("ep", "timer")
  /\ IF IsReady(sock.htc) = 1 THEN ResetTimer /\ Goto("ep", "handle")
     ELSE Goto("ep", "timeout") /\ UNCHANGED net
  /\ UNCHANGED <<meta, sock, reg, ev, epRest>>

TimeoutCas ==
  /\ At("ep", "timeout")
  /\ CasHtc("ep", timeout_cas(sock.htc), "del")
  /\ UNCHANGED <<meta, reg, ev, net, epRest>>

\* schedi_epoll_del_socketcompletely, and free of the event's data.
Del ==
  /\ At("ep", "del")
  /\ reg' = [set |-> {}, armed |-> {}]
  /\ sock' = [sock EXCEPT !.data =
                @ \ {IF ev.src = "timer" THEN "timer" ELSE "sock"}]
  /\ Goto("ep", "done")
  /\ UNCHANGED <<meta, ev, net, epRest>>

EpDone ==
  /\ At("ep", "done")
  /\ CasHtc("ep", done_cas_epollside(sock.htc), "drop")
  /\ UNCHANGED <<meta, reg, ev, net, epRest>>

EpDrop == Drop("ep", "handle") /\ UNCHANGED ev

\* The thread is about to use a socket, or the data of an event, that was
\* freed.  What the code does then is undefined; here the thread stops, and
\* nothing is claimed of it from then on.
MeetsFreed ==
  \/ th["ep"].pc \notin {"wait", "handle"} /\ ~sock.alive
  \/ At("ep", "handle") /\ ev.batch # {} /\ \A src \in ev.batch : ~Live(src)

EpStep ==
  /\ ~MeetsFreed
  /\ \/ Wait \/ Handle \/ Recv \/ RecvAdd \/ MarkDead \/ Activate
     \/ Timer \/ TimeoutCas \/ Del \/ EpDone \/ EpDrop
     \/ Update("ep") \/ UpdateSetReady

-----------------------------------------------------------------------------
(* The peer and the clock *)

envRest == <<prog, th, meta, ctx, sock, reg, ev>>

PeerSend ==
  /\ net.sent < prog.bytes /\ ~net.closed
  /\ net' = [net EXCEPT !.sent = @ + 1, !.inq = @ + 1]
  /\ UNCHANGED envRest

PeerClose ==
  /\ prog.closes /\ ~net.closed
  /\ prog.calm => /\ "out" \in reg.set
                  /\ net.timer # "expired"
                  /\ "timer" \notin ev.batch \cup {ev.src}
  /\ net' = [net EXCEPT !.closed = TRUE]
  /\ UNCHANGED envRest

Expire ==
  /\ net.timer = "running" /\ net.expiries < MaxExpiries
  /\ prog.calm => "out" \in reg.set /\ ~net.closed
  /\ net' = [net EXCEPT !.timer = "expired", !.expiries = @ + 1]
  /\ UNCHANGED envRest

-----------------------------------------------------------------------------
Next == JobStep \/ EpStep \/ PeerSend \/ PeerClose \/ Expire

\* Both threads are scheduled, and the peer does what its program says.
Fairness ==
  WF_vars(JobStep) /\ WF_vars(EpStep) /\ WF_vars(PeerSend) /\ WF_vars(PeerClose)

Spec == Init /\ [][Next]_vars /\ Fairness

-----------------------------------------------------------------------------
TypeOK ==
  /\ meta \in Word /\ sock.htc \in HtcWord
  /\ sock.fall \in 0 .. 3 /\ (sock.alive <=> sock.fall > 0)
  /\ reg.set \subseteq Sources /\ reg.armed \subseteq reg.set

\* The change of readiness that a thread has made and not yet carried over.
Pending(t) ==
  IF th[t].pc \in {"update", "compare", "cas"} THEN th[t].delta ELSE 0

\* The job has not begun to end.
Alive == th["job"].pc \notin {"destroy", "teardown", "close", "ended"}
           /\ ctx.gen = 0

\* "Updates ready socket count on jobs atomically by the atomic change of
\* readiness of sockets" (jobs.c): the job's count of ready sockets is that
\* of its socket, up to the changes that each thread is about to carry over.
AvailableCountsReady ==
  Alive => meta.avsock + Pending("job") + Pending("ep") = IsReady(sock.htc)

\* The job is about to run because its sockets were waited for.
Resumed == th["job"].pc \in {"cached", "run"}

\* "those functions are guaranteed to be used and successfully done as those
\* counts when job became ready" (README): a job that is resumed finds the
\* bytes it asked for, or a socket that is dead or timed out.
ReadGuaranteed ==
  Resumed /\ ~ctx.exit =>
    sock.htc.count >= ReadCond \/ sock.htc.flags \cap {"DEAD", "TIMEOUT"} # {}

\* "If EPOLLNT is set but EPOLLDID is not, readiness is false no matter what"
\* (jobs.h), "Then socket will be accepted as not ready until it is
\* destroyed" (README): a job that waits after schedi_job_epollsocket_done is
\* resumed, and may close the descriptor, only when the epoll thread has taken
\* it out, whether the socket was dead or not when done was called.
WaitsForEpoll ==
  Resumed /\ ctx.exit =>
    "EPOLLDID" \in sock.htc.flags /\ reg.set \cap {"in", "out"} = {}

\* A thread is at a label, or in the update before it.
Towards(t, label) ==
  \/ At(t, label)
  \/ /\ th[t].pc \in {"update", "compare", "cas", "setready", "unaccess"}
     /\ th[t].next = label

OneIf(cond) == IF cond THEN 1 ELSE 0

\* "one reference held by the owning job, one by epoll registration" (jobs.h):
\* fall counts them, through time-outs, new registrations and failures, so
\* the socket is freed once and by the last one that uses it.
FallCountsHolders ==
  ctx.regs > 0 /\ (sock.alive \/ ctx.exit) => sock.fall =
    OneIf(~ctx.exit \/ Towards("job", "drop"))
      + OneIf("EPOLLDID" \notin sock.htc.flags
                /\ ~Towards("job", "again_fall"))
      + OneIf(Towards("ep", "drop")) + OneIf(Towards("job", "again_drop"))

\* The data of an event in the hands of the epoll thread is not freed, nor is
\* its socket.  No run checks this, since the code does not keep it: the
\* README names the programs that break it.
EventDataIsLive == \A src \in ev.batch : Live(src)

\* When the peer has closed, the job is resumed until it has ended, and the
\* socket is freed.
SocketReleased ==
  []~MeetsFreed =>
    (net.closed ~> (At("job", "ended") /\ ~sock.alive /\ At("ep", "wait")))

\* What the peer sends is read, in spite of time-outs, unless the job has
\* given up the socket.  Bytes that are received into a socket which has
\* timed out meanwhile are dropped by the code, and not counted here.
BytesRead ==
  []~MeetsFreed /\ prog.fails.reg # 1 =>
    <>[](ctx.exit \/ At("job", "ended") \/ net.inq + sock.htc.count < ReadCond)
=============================================================================
