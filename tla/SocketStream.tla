---------------------------- MODULE SocketStream ----------------------------
(***************************************************************************)
(* The bytes of one epoll socket: the job that reads and writes it, the    *)
(* epoll thread that receives and sends, the two ring buffers between them *)
(* and the re-arming of the one-shot registrations.                        *)
(*                                                                         *)
(* The socket is registered, in the build without timeouts.  Its job reads *)
(* whenever READ_READY is set and writes, until it has written all it has, *)
(* whenever WRITE_READY is; at some moment it lowers its two conditions.   *)
(* How the word's readiness makes the job run and who frees the socket is  *)
(* in EpollSocket.                                                         *)
(***************************************************************************)
EXTENDS SocketWord, Sequences, FiniteSets

CONSTANTS
  Loads,       \* the programs: how many bytes the peer sends ("in") and how
               \* many the job writes ("out")
  FirstCond,   \* the conditions the socket is created with
  Sizes,       \* the sizes the job passes to read and write
  SendRoom,    \* bytes the kernel takes before send says EAGAIN
  Faults       \* the ends the peer may make: "eof", "reset"

Dirs == {"in", "out"}        \* epfd_read and epfd_write

LastCond == 1                \* the conditions the job changes to

ASSUME StreamAssumption ==
  /\ Loads \subseteq [Dirs -> Nat] /\ SendRoom \in Nat \ {0}
  /\ FirstCond \in 1 .. BufferSize
  /\ Sizes \subseteq Nat \ {0} /\ Faults \subseteq {"eof", "reset"}

VARIABLES
  load,      \* the program that runs, one of Loads
  htc,
  cond,      \* [Dirs -> Nat], read_count_ and write_avail_condition
  ring,      \* [Dirs -> [Pos -> byte]], read_buffer and write_buffer
  jobpos,    \* [Dirs -> Pos], read_htc.tail and write_htc.head
  eppos,     \* [Dirs -> Pos], read_htc.head and write_htc.tail
  job, ep,   \* the threads: pc, and their locals
  armed,     \* registrations that will report an event
  added,     \* the descriptor is in the epoll instances
  queue,     \* [Dirs -> Seq], bytes in the kernel
  fault,     \* what the peer did to the connection
  put, got   \* history: bytes handed over, bytes delivered

Pos == 0 .. BufferSize - 1
netVars == <<load, queue, fault>>
vars == <<htc, cond, ring, jobpos, eppos, job, ep, armed, added, netVars, put, got>>

Stream == INSTANCE ByteStream

\* A thread at pc: the direction, the size asked for, the count it saw, what
\* it has moved, whether it found the socket dead, the MODs to make, and the
\* word and the condition that its compare-and-swap loop has read.
Thread(pc) == [pc |-> pc, dir |-> "in", size |-> 0, seen |-> 0, n |-> 0,
               dead |-> FALSE, mods |-> {}, cond |-> 0,
               old |-> htc_init(FirstCond, FirstCond)]

Init ==
  /\ load \in Loads
  /\ htc = htc_init(FirstCond, FirstCond)
  /\ cond = [d \in Dirs |-> FirstCond]
  /\ ring = [d \in Dirs |-> [i \in Pos |-> 0]]
  /\ jobpos = [d \in Dirs |-> 0] /\ eppos = [d \in Dirs |-> 0]
  /\ job = Thread("idle") /\ ep = Thread("idle")
  /\ armed = Dirs /\ added = TRUE
  /\ queue = [d \in Dirs |-> <<>>] /\ fault = "none"
  /\ put = [d \in Dirs |-> 0] /\ got = [d \in Dirs |-> <<>>]

-----------------------------------------------------------------------------
(* Ring buffers.  A transfer that reaches the end is made in two parts. *)

lesser(a, b) == IF a < b THEN a ELSE b

FromRing(d, pos, n) == [k \in 1 .. n |-> ring[d][(pos + k - 1) % BufferSize]]

IntoRing(d, pos, s) ==
  [ring EXCEPT ![d] = [i \in Pos |->
     IF \E k \in 1 .. Len(s) : i = (pos + k - 1) % BufferSize
     THEN s[CHOOSE k \in 1 .. Len(s) : i = (pos + k - 1) % BufferSize]
     ELSE @[i]]]

\* The position after a transfer by the job.
Advance(pos, n) ==
  IF pos + n >= BufferSize THEN n - (BufferSize - pos) ELSE pos + n

-----------------------------------------------------------------------------
(* schedi_job_epollsocket_epoll_activator, in either thread: the word is
   read once, then the registrations are renewed, reading before writing. *)

\* Mutant: the registration for writing is not renewed.
ModsOf_NoOut(h) == IF h.count # BufferSize THEN {"in"} ELSE {}

ModsOf(h) == (IF h.count # BufferSize THEN {"in"} ELSE {})
               \cup (IF h.avail # BufferSize THEN {"out"} ELSE {})

\* The first epoll_ctl MOD of those to make; it fails after the DEL.
Mod(mods) ==
  LET d == IF "in" \in mods THEN "in" ELSE "out" IN
  armed' = IF added THEN armed \cup {d} ELSE armed

AfterMod(mods) == IF "in" \in mods THEN mods \ {"in"} ELSE {}

-----------------------------------------------------------------------------
(* schedi_job_epollsocket_read *)

jobOnly == <<cond, eppos, ep, added, netVars>>

ReadLoad ==
  /\ job.pc = "idle" /\ "READ_READY" \in htc.flags
  /\ \E size \in Sizes :
       job' = [job EXCEPT !.pc = "read", !.seen = htc.count,
                          !.n = lesser(htc.count, size)]
  /\ UNCHANGED <<htc, ring, jobpos, armed, put, got, jobOnly>>

ReadCopy ==
  /\ job.pc = "read"
  /\ got' = [got EXCEPT !["in"] = @ \o FromRing("in", jobpos["in"], job.n)]
  /\ job' = [job EXCEPT !.pc = "read_add"]
  /\ UNCHANGED <<htc, ring, jobpos, armed, put, jobOnly>>

ReadAdd ==
  /\ job.pc = "read_add"
  /\ htc' = count_add(htc, -job.n, FALSE, cond["in"])
  /\ job' = [job EXCEPT !.pc = "read_tail"]
  /\ UNCHANGED <<ring, jobpos, armed, put, got, jobOnly>>

\* Mutant: a read from a full buffer does not wake the epoll thread.
ReadTail_NoActivate ==
  /\ job.pc = "read_tail"
  /\ jobpos' = [jobpos EXCEPT !["in"] = Advance(@, job.n)]
  /\ job' = Thread("idle")
  /\ UNCHANGED <<htc, ring, armed, put, got, jobOnly>>

ReadTail ==
  /\ job.pc = "read_tail"
  /\ jobpos' = [jobpos EXCEPT !["in"] = Advance(@, job.n)]
  /\ job' = IF job.seen = BufferSize THEN [job EXCEPT !.pc = "activate", !.n = 0]
                                     ELSE Thread("idle")
  /\ UNCHANGED <<htc, ring, armed, put, got, jobOnly>>

-----------------------------------------------------------------------------
(* schedi_job_epollsocket_write and _write_buffer_data *)

\* Mutant: the bytes go to the kernel past those in the buffer.
WriteLoad_AlwaysSend ==
  /\ job.pc = "idle" /\ "WRITE_READY" \in htc.flags /\ put["out"] < load["out"]
  /\ \E size \in Sizes :
       job' = [job EXCEPT !.size = lesser(size, load["out"] - put["out"]),
                          !.pc = "send"]
  /\ UNCHANGED <<htc, ring, jobpos, armed, put, got, jobOnly>>

\* With an empty buffer the bytes go to the kernel first.
WriteLoad ==
  /\ job.pc = "idle" /\ "WRITE_READY" \in htc.flags /\ put["out"] < load["out"]
  /\ \E size \in Sizes :
       job' = [job EXCEPT !.size = lesser(size, load["out"] - put["out"]),
                 !.pc = IF htc.avail = BufferSize THEN "send" ELSE "buffer"]
  /\ UNCHANGED <<htc, ring, jobpos, armed, put, got, jobOnly>>

\* The next n bytes of the job.
NextBytes(n) == [k \in 1 .. n |-> put["out"] + k]

\* Bytes that send takes of a request.
Sendable(n) == lesser(n, SendRoom - Len(queue["out"]))

WriteSend ==
  /\ job.pc = "send"
  /\ IF fault # "none"
     THEN /\ job' = [job EXCEPT !.pc = "write_dead"]
          /\ UNCHANGED <<queue, put>>
     ELSE LET n == Sendable(job.size) IN
          /\ queue' = [queue EXCEPT !["out"] = @ \o NextBytes(n)]
          /\ put' = [put EXCEPT !["out"] = @ + n]
          /\ job' = IF n = job.size THEN Thread("idle")
                    ELSE [job EXCEPT !.pc = "buffer", !.size = @ - n]
  /\ UNCHANGED <<htc, cond, ring, jobpos, armed, got, eppos, ep, added, load,
                 fault>>

\* It returns -1, and the job gives up writing.
WriteDead ==
  /\ job.pc = "write_dead"
  /\ htc' = mark_dead(htc)
  /\ job' = Thread("gone")
  /\ UNCHANGED <<ring, jobpos, armed, put, got, jobOnly>>

BufferLoad ==
  /\ job.pc = "buffer"
  /\ job' = [job EXCEPT !.pc = "buffer_copy", !.n = lesser(job.size, htc.avail)]
  /\ UNCHANGED <<htc, ring, jobpos, armed, put, got, jobOnly>>

BufferCopy ==
  /\ job.pc = "buffer_copy"
  /\ ring' = IntoRing("out", jobpos["out"], NextBytes(job.n))
  /\ jobpos' = [jobpos EXCEPT !["out"] = Advance(@, job.n)]
  /\ put' = [put EXCEPT !["out"] = @ + job.n]
  /\ job' = [job EXCEPT !.pc = "buffer_add"]
  /\ UNCHANGED <<htc, armed, got, jobOnly>>

BufferAdd ==
  /\ job.pc = "buffer_add"
  /\ htc' = avail_add(htc, -job.n, FALSE, cond["out"])
  /\ job' = [job EXCEPT !.pc = "activate", !.n = 0]
  /\ UNCHANGED <<ring, jobpos, armed, put, got, jobOnly>>

JobActivate ==
  /\ job.pc = "activate"
  /\ job' = IF ModsOf(htc) = {} THEN Thread("idle")
            ELSE [job EXCEPT !.pc = "mod", !.mods = ModsOf(htc)]
  /\ UNCHANGED <<htc, ring, jobpos, armed, put, got, jobOnly>>

JobMod ==
  /\ job.pc = "mod"
  /\ Mod(job.mods)
  /\ job' = IF AfterMod(job.mods) = {} THEN Thread("idle")
            ELSE [job EXCEPT !.mods = AfterMod(@)]
  /\ UNCHANGED <<htc, ring, jobpos, put, got, jobOnly>>

-----------------------------------------------------------------------------
(* schedi_job_tool_epollsocket_read_cond and _write_cond *)

\* Mutant: the flags are not computed again.
CondStore_Quiet(d) ==
  /\ job.pc = "idle" /\ cond[d] # LastCond
  /\ cond' = [cond EXCEPT ![d] = LastCond]
  /\ UNCHANGED <<htc, ring, jobpos, job, armed, put, got, eppos, ep, added,
                 netVars>>

CondStore(d) ==
  /\ job.pc = "idle" /\ cond[d] # LastCond
  /\ cond' = [cond EXCEPT ![d] = LastCond]
  /\ job' = [job EXCEPT !.pc = "cond_add", !.dir = d]
  /\ UNCHANGED <<htc, ring, jobpos, armed, put, got, eppos, ep, added, netVars>>

CondAdd ==
  /\ job.pc = "cond_add"
  /\ htc' = IF job.dir = "in" THEN count_add(htc, 0, FALSE, cond["in"])
                              ELSE avail_add(htc, 0, FALSE, cond["out"])
  /\ job' = Thread("idle")
  /\ UNCHANGED <<ring, jobpos, armed, put, got, jobOnly>>

-----------------------------------------------------------------------------
(* schedi_job_epollsocket_return on an event of the epoll thread *)

epOnly == <<load, cond, jobpos, job, fault, put, got>>

\* Whether a registration has an event to report.
HasEvent(d) ==
  \/ fault # "none"
  \/ IF d = "in" THEN queue["in"] # <<>> ELSE Len(queue["out"]) < SendRoom

\* epoll_wait reports a registration once and disarms it.  A reset may be
\* reported without EPOLLIN and EPOLLOUT.
Wait(d) ==
  /\ ep.pc = "idle" /\ d \in armed /\ HasEvent(d)
  /\ armed' = armed \ {d}
  /\ \/ ep' = [Thread("load") EXCEPT !.dir = d]
     \/ fault = "reset" /\ ep' = Thread("dead")
  /\ UNCHANGED <<htc, ring, eppos, added, queue, epOnly>>

MarkDead ==
  /\ ep.pc = "dead"
  /\ htc' = mark_dead(htc)
  /\ ep' = [Thread("activate") EXCEPT !.dead = TRUE]
  /\ UNCHANGED <<ring, eppos, armed, added, queue, epOnly>>

(* schedi_job_epollsocket_read_return and _write_return: the free part of the
   read buffer is filled from the kernel, the used part of the write buffer
   given to it. *)

ReturnLoad ==
  /\ ep.pc = "load"
  /\ LET size == BufferSize - IF ep.dir = "in" THEN htc.count ELSE htc.avail
     IN ep' = IF size = 0 THEN Thread("activate")
              ELSE [ep EXCEPT !.pc = "move", !.size = size]
  /\ UNCHANGED <<htc, ring, eppos, armed, added, queue, epOnly>>

\* How many of n bytes recv or send moves, and the move, at pos of the ring.
\* What was received before an end can be read, nothing can be sent after it.
Movable(n) ==
  CASE ep.dir = "in" -> lesser(n, Len(queue["in"]))
    [] ep.dir = "out" /\ fault = "none" -> Sendable(n)
    [] OTHER -> 0

Move(pos, n) ==
  IF ep.dir = "in"
  THEN /\ ring' = IntoRing("in", pos, SubSeq(queue["in"], 1, n))
       /\ queue' = [queue EXCEPT !["in"] = SubSeq(@, n + 1, Len(@))]
  ELSE /\ queue' = [queue EXCEPT !["out"] = @ \o FromRing("out", pos, n)]
       /\ UNCHANGED ring

\* Mutant: the end of the stream is taken for EAGAIN.
AfterFailure_Again == Thread("activate")

\* The end of the stream and an error kill the socket, EAGAIN ends the
\* attempt.
AfterFailure == Thread(IF fault = "none" THEN "activate" ELSE "dead")

\* The part up to the end of the buffer.
MoveFirst ==
  /\ ep.pc = "move"
  /\ LET first == lesser(ep.size, BufferSize - eppos[ep.dir])
         n     == Movable(first)
     IN IF n = 0 THEN ep' = AfterFailure /\ UNCHANGED <<ring, queue>>
        ELSE /\ Move(eppos[ep.dir], n)
             /\ ep' = [ep EXCEPT !.n = n, !.pc =
                         IF n = first /\ first < ep.size THEN "rest" ELSE "add"]
  /\ UNCHANGED <<htc, eppos, armed, added, epOnly>>

\* The rest, at the start of the buffer.
MoveRest ==
  /\ ep.pc = "rest"
  /\ LET n == Movable(ep.size - ep.n) IN
       /\ Move(0, n)
       /\ ep' = [ep EXCEPT !.pc = "add", !.n = @ + n,
                           !.dead = n = 0 /\ fault # "none"]
  /\ UNCHANGED <<htc, eppos, armed, added, epOnly>>

\* The loops of count_add and avail_add read the condition for each attempt,
\* and the job may store another one before the compare-and-swap.
ReturnRead ==
  /\ ep.pc = "add"
  /\ ep' = [ep EXCEPT !.pc = "cas", !.old = htc, !.cond = cond[ep.dir]]
  /\ UNCHANGED <<htc, ring, eppos, armed, added, queue, epOnly>>

\* The word that the loop computes for n bytes.
Added(n) ==
  IF ep.dir = "in" THEN count_add(htc, n, ep.dead, ep.cond)
                   ELSE avail_add(htc, n, ep.dead, ep.cond)

\* Mutant: the counts change by what was asked for.
ReturnAdd_Asked ==
  /\ ep.pc = "cas"
  /\ htc' = Added(ep.size)
  /\ ep' = [ep EXCEPT !.pc = "store"]
  /\ UNCHANGED <<ring, eppos, armed, added, queue, epOnly>>

ReturnAdd ==
  /\ ep.pc = "cas"
  /\ IF htc = ep.old
     THEN htc' = Added(ep.n) /\ ep' = [ep EXCEPT !.pc = "store"]
     ELSE ep' = [ep EXCEPT !.pc = "add"] /\ UNCHANGED htc
  /\ UNCHANGED <<ring, eppos, armed, added, queue, epOnly>>

ReturnStore ==
  /\ ep.pc = "store"
  /\ eppos' = [eppos EXCEPT ![ep.dir] = (@ + ep.n) % BufferSize]
  /\ ep' = [Thread("activate") EXCEPT !.dead = ep.dead]
  /\ UNCHANGED <<htc, ring, armed, added, queue, epOnly>>

\* Where the handler goes when the registrations are renewed.
AfterReturn == IF ep.dead THEN Thread("del") ELSE Thread("idle")

EpActivate ==
  /\ ep.pc = "activate"
  /\ ep' = IF ModsOf(htc) = {} THEN AfterReturn
           ELSE [ep EXCEPT !.pc = "mod", !.mods = ModsOf(htc)]
  /\ UNCHANGED <<htc, ring, eppos, armed, added, queue, epOnly>>

EpMod ==
  /\ ep.pc = "mod"
  /\ Mod(ep.mods)
  /\ ep' = IF AfterMod(ep.mods) = {} THEN AfterReturn
           ELSE [ep EXCEPT !.mods = AfterMod(@)]
  /\ UNCHANGED <<htc, ring, eppos, added, queue, epOnly>>

\* The handler of a dead socket: schedi_epoll_del, and the epoll side's done.
Del ==
  /\ ep.pc = "del"
  /\ armed' = {} /\ added' = FALSE
  /\ ep' = Thread("done")
  /\ UNCHANGED <<htc, ring, eppos, queue, epOnly>>

Done ==
  /\ ep.pc = "done"
  /\ htc' = done_cas_epollside(htc)
  /\ ep' = Thread("gone")
  /\ UNCHANGED <<ring, eppos, armed, added, queue, epOnly>>

-----------------------------------------------------------------------------
(* The peer and the network *)

peerOnly == <<load, htc, cond, ring, jobpos, eppos, job, ep, armed, added>>

PeerSend ==
  /\ fault = "none" /\ put["in"] < load["in"]
  /\ put' = [put EXCEPT !["in"] = @ + 1]
  /\ queue' = [queue EXCEPT !["in"] = Append(@, put["in"] + 1)]
  /\ UNCHANGED <<fault, got, peerOnly>>

PeerReceive ==
  /\ queue["out"] # <<>> /\ fault = "none"
  /\ got' = [got EXCEPT !["out"] = Append(@, Head(queue["out"]))]
  /\ queue' = [queue EXCEPT !["out"] = Tail(@)]
  /\ UNCHANGED <<fault, put, peerOnly>>

\* After either end what the kernel has can still be received; then recv
\* returns 0 or an error.
PeerEnd(f) ==
  /\ fault = "none"
  /\ fault' = f
  /\ UNCHANGED <<queue, put, got, peerOnly>>

-----------------------------------------------------------------------------
JobStep ==
  \/ ReadLoad \/ ReadCopy \/ ReadAdd \/ ReadTail
  \/ WriteLoad \/ WriteSend \/ WriteDead \/ BufferLoad \/ BufferCopy
  \/ BufferAdd \/ JobActivate \/ JobMod
  \/ (\E d \in Dirs : CondStore(d)) \/ CondAdd

EpStep ==
  \/ \E d \in Dirs : Wait(d)
  \/ MarkDead \/ ReturnLoad \/ MoveFirst \/ MoveRest \/ ReturnRead
  \/ ReturnAdd \/ ReturnStore
  \/ EpActivate \/ EpMod \/ Del \/ Done

Next ==
  \/ JobStep \/ EpStep
  \/ PeerSend \/ PeerReceive
  \/ \E f \in Faults : PeerEnd(f)

\* Both threads run, and the peer sends and receives.
Fairness ==
  WF_vars(JobStep) /\ WF_vars(EpStep) /\ WF_vars(PeerSend)
    /\ WF_vars(PeerReceive)

Spec == Init /\ [][Next]_vars /\ Fairness

-----------------------------------------------------------------------------
JobLabels == {"idle", "read", "read_add", "read_tail", "send", "write_dead",
              "buffer", "buffer_copy", "buffer_add", "cond_add", "activate",
              "mod", "gone"}
EpLabels  == {"idle", "load", "move", "rest", "add", "cas", "store", "dead",
              "activate", "mod", "del", "done", "gone"}

ThreadState(labels) ==
  [pc : labels, dir : Dirs, size : Nat, seen : 0 .. BufferSize,
   n : 0 .. BufferSize, dead : BOOLEAN, mods : SUBSET Dirs, cond : Nat,
   old : HtcWord]

TypeOK ==
  /\ load \in Loads
  /\ htc \in HtcWord /\ cond \in [Dirs -> {FirstCond, LastCond}]
  /\ jobpos \in [Dirs -> Pos] /\ eppos \in [Dirs -> Pos]
  /\ ring \in [Dirs -> [Pos -> Nat]]
  /\ job \in ThreadState(JobLabels) /\ ep \in ThreadState(EpLabels)
  /\ armed \subseteq Dirs /\ added \in BOOLEAN
  /\ fault \in {"none", "eof", "reset"}
  /\ put \in [Dirs -> Nat]
  /\ queue \in [Dirs -> Seq(Nat)] /\ got \in [Dirs -> Seq(Nat)]

\* The bytes come out in order, none lost, doubled or overwritten, although
\* the buffers wrap and both threads work on them without a lock.
StreamSpec == Stream!Spec

\* "count is the number of bytes buffered in @read_buffer", "avail is the
\* number of free bytes in @write_buffer" (jobs.h), up to the transfer that
\* each thread has under way.
CountsAreExact ==
  LET moving(d) == IF ep.dir = d /\ ep.pc \in {"rest", "add", "cas"} THEN ep.n ELSE 0
      left(d)   == put[d] - Len(queue[d]) - Len(got[d])
  IN /\ htc.count = left("in") - moving("in")
                      + (IF job.pc = "read_add" THEN job.n ELSE 0)
     /\ BufferSize - htc.avail = left("out") + moving("out")
                      - (IF job.pc = "buffer_add" THEN job.n ELSE 0)

\* The epoll thread fills the buffer up while the job is reading from one
\* that it saw not full: neither of the two then renews the registration.
FilledDuringRead ==
  /\ job.pc \in {"read", "read_add"} /\ job.seen < BufferSize
  /\ htc.count = BufferSize

\* The epoll thread is about to store the readiness of a condition that the
\* job has replaced, in a word that the job's own update has left as it was.
Overtaken ==
  /\ ep.pc = "cas" /\ htc = ep.old /\ ep.cond # cond[ep.dir]
  /\ job.pc # "cond_add"

\* "read_ready is set when count >= read_count_condition, write_ready is set
\* when avail >= write_avail_condition" (jobs.h): also while the job changes
\* the conditions, unless the epoll thread is overtaken.
FlagsAreCurrent ==
  []~Overtaken =>
    [](job.pc # "cond_add" =>
         /\ "READ_READY" \in htc.flags <=> htc.count >= cond["in"]
         /\ "WRITE_READY" \in htc.flags <=> htc.avail >= cond["out"])

\* "epoll_ctl_mod here to wakey wakey" (jobs.c, case#sww11): what the job
\* wrote leaves, whatever the kernel refused when it was written.
AllSent ==
  [](fault = "none" /\ ~Overtaken) => <>[](Len(got["out"]) = load["out"])

\* "register ... to make job ready if that file descriptor provided at least
\* a number of bytes" (README): all the peer sends reaches the job, unless
\* the buffer is filled up during a read or the epoll thread is overtaken.
AllReceived ==
  [](fault = "none" /\ ~FilledDuringRead /\ ~Overtaken) => <>[](Len(got["in"]) = load["in"])

\* The end of the connection is found out, by a transfer or by an event, and
\* marks the socket dead and ready.
DeathNoticed ==
  [](~FilledDuringRead) =>
    ((fault # "none") ~> (htc.flags \cap {"DEAD", "READY"} = {"DEAD", "READY"}))
=============================================================================
