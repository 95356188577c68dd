------------------------- MODULE EpollSocketProofs -------------------------
(***************************************************************************)
(* The life of one epoll socket (EpollSocket), for any sizes of the buffer *)
(* and of a read, any number of bytes and of expiries, and any widths of   *)
(* the counts of a word that hold two.                                     *)
(*                                                                         *)
(* The theorems are about the programs of Sound, which are narrower than   *)
(* those of the run epoll_socket: with timeouts, epoll_wait answers one    *)
(* event at a time, and the peer is calm.  The other conditions are on the *)
(* job.  One that reads twice in a run can overtake the epoll thread's     *)
(* update of its count; one that gives up a live socket is resumed by the  *)
(* next TIMEOUT or DEAD (run socket_done); a destructor that gives up a    *)
(* socket which its function gave up after a time-out drops the reference  *)
(* twice.                                                                  *)
(*                                                                         *)
(* None of the properties is inductive. IndInv adds to the types:          *)
(*   - what the flags of the socket's word say (WordFits), and that a job  *)
(*     that runs has them (PendingFits): from being resumed until it       *)
(*     changes the word itself, it finds READY set and no update under     *)
(*     way;                                                                *)
(*   - what each thread may rely on where it is. An epoll thread that      *)
(*     handles an event has a socket that it has not given up (EpFits); a  *)
(*     socket that is dead, timed out or given up by its job is about to   *)
(*     be given up by the epoll thread, or was; a job that is registering  *)
(*     has a socket with none of these marks (JobFits);                    *)
(*   - that a time-out and the end of the stream exclude each other        *)
(*     (TimerFits), which a calm peer grants;                              *)
(*   - what is registered, with which data (RegFits), until the first      *)
(*     registration is complete (FirstFits) or was refused (NoSocket);     *)
(*   - that the word of the job counts the threads that access it, so that *)
(*     an update is never refused while the job is alive, and that its     *)
(*     derived flag compares with the required count (MetaFits).           *)
(***************************************************************************)
EXTENDS EpollSocket, FiniteSetTheorems, TLAPS

-----------------------------------------------------------------------------
(* Types *)

\* The labels of a call of jobready_update, of each thread, and those that a
\* call returns to.
InUpdate == {"update", "compare", "cas", "setready", "unaccess"}
JobPc == {"create", "stop", "add_timer", "add_in", "add_out", "start", "refused",
          "require", "again", "again_fall", "again_drop", "run", "run_timeout",
          "read", "read_add", "read_end", "done", "drop", "return", "basic",
          "mark_ready", "suspended", "cached", "end", "destroy", "teardown",
          "close", "ended", "update", "compare", "cas", "unaccess"}
EpPc == {"wait", "handle", "recv", "add", "dead", "activate", "timer", "timeout",
         "del", "done", "drop"} \cup InUpdate
JobNext == {"read_end", "drop", "again_fall", "again_drop"}
EpNext == {"activate", "del", "drop"}

Thread == [pc : JobPc \cup EpPc, next : JobPc \cup EpPc, delta : -1 .. 1,
           req : {0, 1}, n : Nat]
Threads ==
  /\ th \in [{"job", "ep"} -> Thread]
  /\ th["job"].pc \in JobPc /\ th["ep"].pc \in EpPc
  /\ th["job"].pc \in InUpdate => th["job"].next \in JobNext
  /\ th["ep"].pc \in InUpdate => th["ep"].next \in EpNext

Contexts == [gen : {0, 1}, required : {0, 1}, regs : 0 .. 2, reads : Int,
             got : Nat, exit : BOOLEAN]
Sockets == [alive : BOOLEAN, htc : HtcWord, fall : 0 .. 3,
            data : SUBSET {"sock", "timer"}]
Registrations == [set : SUBSET Sources, armed : SUBSET Sources]
EventStates == [batch : SUBSET Sources, src : Sources \cup {"none"}, dead : BOOLEAN]
Networks == [sent : Nat, inq : Nat, closed : BOOLEAN,
             timer : {"off", "running", "expired"}, expiries : Nat]

Types ==
  /\ prog \in Programs /\ Threads /\ meta \in Word
  /\ ctx \in Contexts /\ sock \in Sockets /\ reg \in Registrations
  /\ ev \in EventStates /\ net \in Networks

-----------------------------------------------------------------------------
(* The word of the socket *)

Flags == sock.htc.flags

\* READY is what the other flags say it is, but for a time-out, which sets it
\* by itself; EPOLLNT is the mark of a job that called done.
WordFits ==
  /\ "WRITE_READY" \in Flags
  /\ "READ_READY" \in Flags <=> sock.htc.count >= ReadCond
  /\ "READY" \in Flags <=>
       SocketReady(Flags) \/ ("TIMEOUT" \in Flags /\ "EPOLLNT" \notin Flags)
  /\ ctx.exit <=> "EPOLLNT" \in Flags
  /\ "TIMEOUT" \in Flags => prog.timeouts

-----------------------------------------------------------------------------
(* The job *)

\* It registers the socket for the first time or again.
Registering ==
  \/ th["job"].pc \in {"stop", "add_timer", "add_in", "add_out", "refused"}
  \/ Towards("job", "again_fall")

\* What the job does between being resumed and changing the word.
Ahead ==
  \/ th["job"].pc \in {"mark_ready", "cached", "run", "run_timeout", "read",
                       "read_add", "again", "done", "end", "destroy", "teardown"}
  \/ Towards("job", "again_drop")
  \/ Towards("job", "read_end") /\ th["job"].n = 0

\* Where it is before its first return.
FirstPc == {"create", "stop", "add_timer", "add_in", "add_out", "start",
            "refused", "require"}

\* What the job may rely on where it is.
JobFits ==
  LET pc == th["job"].pc IN
  /\ pc = "create" <=> ctx.regs = 0
  /\ ctx.regs = 2 => prog.timeouts
  /\ (pc \in FirstPc /\ ctx.regs < 2) \/ ctx.required = 1
  /\ ctx.reads <= 1
  /\ Registering => /\ Flags \cap {"EPOLLDID", "EPOLLNT", "DEAD", "TIMEOUT"} = {}
                    /\ ~net.closed
  /\ pc = "create" => ~net.closed
 
  /\ pc = "add_timer" \/ Towards("job", "again_fall") \/ Towards("job", "again_drop")
       => prog.timeouts
  /\ Towards("job", "again_drop") => "EPOLLDID" \in Flags
  /\ pc = "run_timeout" => ~ctx.exit /\ prog.timeouts
  /\ pc = "again" => "TIMEOUT" \in Flags /\ ~ctx.exit
  /\ pc \in {"read", "read_add"} => "TIMEOUT" \notin Flags /\ ~ctx.exit
  /\ pc = "done" \/ Towards("job", "read_end") \/ Towards("job", "again_drop") =>
       ~ctx.exit
  /\ Towards("job", "drop") => ctx.exit
  /\ prog.leaves = "dtor" /\ (ctx.exit \/ pc = "done") => ctx.gen = 1
  /\ ctx.gen = 1 => pc \in {"close", "ended", "done"} \/ Towards("job", "drop")
  /\ pc \in {"close", "ended"} => ctx.gen = 1 /\ ctx.exit
  /\ pc = "done" => Flags \cap {"DEAD", "TIMEOUT", "EPOLLDID"} # {}
  /\ pc \in {"end", "destroy", "teardown"} =>
       ctx.exit \/ (prog.leaves = "dtor" /\ "DEAD" \in Flags)
  /\ pc = "cas" => ctx.gen = 0 /\ th["job"].req = 1

-----------------------------------------------------------------------------
(* The epoll thread *)

\* It has an event in its hands.
Busy ==
  \/ th["ep"].pc \in {"recv", "add", "dead", "timer", "timeout", "done"}
  \/ Towards("ep", "activate") \/ Towards("ep", "del") \/ ev.batch # {}

\* It has found the socket dead or timed out, and gives it up.
Giving ==
  \/ th["ep"].pc = "done" \/ Towards("ep", "del")
  \/ Towards("ep", "activate") /\ ev.dead

\* The socket is then there, and is not being registered from the start.
BusyFits ==
  /\ "EPOLLDID" \notin Flags /\ ctx.regs > 0
  /\ sock.alive \/ ctx.exit
  /\ th["job"].pc \notin {"stop", "add_timer", "add_in", "refused"}
  /\ ~Towards("job", "again_fall")

\* What the epoll thread may rely on where it is.  A socket that is dead, timed
\* out or given up by the job is one that it gives up.
EpFits ==
  LET pc == th["ep"].pc IN
  /\ ev.batch # {} =>
       pc = "handle" /\ ev.batch \in {{"in"}, {"out"}, {"timer"}}
  /\ pc \in {"recv", "add", "dead"} => ev.src = "in" /\ ~ev.dead
  /\ pc \in {"timer", "timeout"} => ev.src = "timer"
  /\ pc \in {"timer", "timeout"} \/ "timer" \in ev.batch =>
       prog.timeouts /\ ~net.closed /\ th["job"].pc # "add_out"
  /\ Busy => BusyFits
  /\ Flags \cap {"DEAD", "TIMEOUT", "EPOLLNT"} # {} =>
       "EPOLLDID" \in Flags \/ Giving
  /\ Giving => Flags \cap {"DEAD", "TIMEOUT"} # {}
  /\ "EPOLLDID" \in Flags /\ ~ctx.exit =>
       \/ Flags \cap {"DEAD", "TIMEOUT"} # {}
       \/ th["job"].pc = "done" \/ Towards("job", "again_drop")
  /\ pc = "timeout" => "READY" \notin Flags

\* A time-out and the end of the stream exclude each other.
TimerFits ==
  /\ net.closed => "TIMEOUT" \notin Flags /\ net.timer # "expired"
  /\ "DEAD" \in Flags \/ th["ep"].pc = "dead"
       \/ (Towards("ep", "activate") /\ ev.dead) => net.closed
  /\ "TIMEOUT" \in Flags /\ "EPOLLDID" \notin Flags => ev.src = "timer"
  /\ th["job"].pc \in {"add_timer", "add_in", "add_out"} => net.timer # "expired"

\* The change of readiness that the epoll thread is about to carry over.
PendingFits ==
  /\ Pending("ep") \in {0, 1}
  /\ th["ep"].pc \in {"compare", "cas"} => th["ep"].delta = 1
  /\ Pending("ep") = 1 => "READY" \in Flags
  /\ Pending("ep") = 1 /\ Towards("ep", "drop") =>
       "EPOLLNT" \in Flags /\ "EPOLLDID" \in Flags
  /\ Pending("job") = 1 => "READY" \in Flags
  /\ Ahead => "READY" \in Flags /\ Pending("ep") = 0
  /\ th["ep"].pc = "cas" => ctx.gen = 0
  /\ th["ep"].pc = "setready" => th["job"].pc = "suspended"

-----------------------------------------------------------------------------
(* What is registered, and the references of the socket *)

\* What is registered has its data, and nothing is once the socket was given up
\* or before it is registered.
RegFits ==
  /\ reg.armed \subseteq reg.set
  /\ "timer" \in reg.set \cup ev.batch => prog.timeouts /\ "timer" \in sock.data
  /\ (reg.set \cup ev.batch) \cap {"in", "out"} # {} => "sock" \in sock.data
  /\ "EPOLLDID" \in Flags \/ th["ep"].pc = "done" => reg.set = {}
  /\ th["job"].pc \in {"create", "stop", "add_timer", "refused"}
       \/ Towards("job", "again_fall") => reg.set = {}
  /\ th["job"].pc = "add_in" => reg.set \subseteq {"timer"}
  /\ th["job"].pc = "add_out" => "out" \notin reg.set /\ "sock" \in sock.data

\* The first registration has not reached the epoll thread.
FirstFits ==
  \/ ctx.regs = 0
  \/ ctx.regs = 1 /\ th["job"].pc \in {"stop", "add_timer", "add_in", "refused"}
  => th["ep"].pc = "wait" /\ sock.htc.count = 0 /\ ~ctx.exit
       /\ Flags \cap {"EPOLLDID", "EPOLLNT", "DEAD", "TIMEOUT"} = {}

\* It was refused, and the socket freed.
NoSocket ==
  ctx.regs > 0 /\ ~sock.alive /\ ~ctx.exit =>
    /\ th["job"].pc \in {"require", "return", "basic", "suspended"}
    /\ th["ep"].pc = "wait" /\ reg.set = {} /\ "READY" \notin Flags

\* The socket is allocated as long as somebody holds it.
FallFits ==
  /\ sock.alive <=> sock.fall > 0
  /\ FallCountsHolders

-----------------------------------------------------------------------------
(* The bytes *)

\* What the peer sent is in the kernel, in the buffer, in the hands of a
\* thread, or read by the job.
BytesConserved ==
  net.sent = net.inq + sock.htc.count + ctx.got
               + OneIf(At("ep", "add")) * th["ep"].n
               - OneIf(At("job", "read_add")) * th["job"].n

\* A receive fits into the buffer, and a read takes what is there.
BytesFit ==
  /\ BytesConserved
  /\ net.sent <= prog.bytes
  /\ th["job"].pc = "read_add" =>
       th["job"].n <= sock.htc.count /\ th["job"].n <= ctx.got

-----------------------------------------------------------------------------
(* The word of the job *)

\* Where a thread accesses the job.
Accessing == {"compare", "cas", "setready", "unaccess"}

\* The word of a job that has not begun to end.
MetaFits ==
  Alive =>
    /\ meta.access = OneIf(th["job"].pc \in Accessing)
                       + OneIf(th["ep"].pc \in Accessing)
    /\ meta.flags \cap {"UNSTABLE", "WLLDESTROY"} = {}
    /\ {"READYEPOLLTOOL", "READYJOB"} \subseteq meta.flags
    /\ meta.wait = 0 /\ meta.avjobs = 0
    /\ "READYEPOLLSOCK" \in meta.flags <=> meta.avsock >= ctx.required
    /\ "READYBASIC" \in meta.flags =>
         th["job"].pc \in {"suspended", "mark_ready", "cached"}
    /\ th["ep"].pc = "setready" => meta.avsock >= 1
    /\ AvailableCountsReady

\* The inductive invariant.
IndInv ==
  /\ Types /\ WordFits /\ JobFits /\ EpFits /\ TimerFits /\ PendingFits
  /\ RegFits /\ FirstFits /\ NoSocket /\ FallFits /\ BytesFit /\ MetaFits

-----------------------------------------------------------------------------
(* Facts about programs and words *)

\* What the theorems assume of the program that runs.
LEMMA ProgramFits ==
  ASSUME Sound, Types
  PROVE  /\ prog.calm /\ prog.reads \in Nat /\ prog.reads <= 1
         /\ prog.leaves = "dead" \/ (prog.leaves = "dtor" /\ ~prog.timeouts)
         /\ prog.fails.src = "out" => prog.fails.reg \notin {1, 2}
         /\ prog.timeouts => MaxEvents = 1
         /\ prog.bytes \in Nat /\ prog.bytes < BufferSize
         /\ BufferSize \in Nat /\ ReadCond \in Nat \ {0}
<1>1. prog \in Programs /\ prog \in ProgramType
  BY SocketAssumption DEF Types
<1>2. SoundProgram(prog)
  BY <1>1 DEF Sound
<1>3. prog.reads \in Nat /\ prog.bytes \in Nat
  BY <1>1 DEF ProgramType
<1> QED
  BY <1>1, <1>2, <1>3, SocketAssumption, SocketWordAssumption DEF SoundProgram

\* The word after a transfer of bytes.
LEMMA CountAdded ==
  ASSUME NEW h \in HtcWord, NEW d \in Int, h.count + d \in 0 .. BufferSize,
         "TIMEOUT" \notin h.flags, NEW g, g = count_add(h, d, FALSE, ReadCond)
  PROVE  /\ g \in HtcWord /\ g.count = h.count + d
         /\ "READ_READY" \in g.flags <=> h.count + d >= ReadCond
         /\ "READY" \in g.flags <=> SocketReady(g.flags)
         /\ \A x \in SocketFlag \ {"READ_READY", "READY"} :
              x \in g.flags <=> x \in h.flags
<1> DEFINE F == (h.flags \ {"READ_READY"})
                  \cup FlagIf(h.count + d >= ReadCond, "READ_READY")
                  \cup FlagIf(FALSE, "DEAD")
<1>1. /\ g = [h EXCEPT !.count = h.count + d, !.flags = WithReady(F)]
  BY DEF count_add
<1>2. F \subseteq SocketFlag
  BY DEF FlagIf, SocketFlag, HtcWord
<1>3. /\ "READ_READY" \in F <=> h.count + d >= ReadCond
      /\ \A x \in SocketFlag \ {"READ_READY"} : x \in F <=> x \in h.flags
  BY DEF FlagIf, SocketFlag, HtcWord
<1> HIDE DEF F
<1>4. /\ WithReady(F) \subseteq SocketFlag
      /\ \A x \in SocketFlag \ {"READY"} : x \in WithReady(F) <=> x \in F
      /\ "READY" \in WithReady(F) <=> SocketReady(F)
  BY <1>2 DEF WithReady, SocketFlag
<1>5. SocketReady(WithReady(F)) <=> SocketReady(F)
  BY <1>4 DEF SocketReady, SocketFlag
<1>6. g.flags = WithReady(F) /\ g.count = h.count + d /\ g \in HtcWord
  BY <1>1, <1>4 DEF HtcWord
<1> QED
  BY <1>3, <1>4, <1>5, <1>6 DEF SocketFlag

\* The word after untimeout.
LEMMA Untimed ==
  ASSUME NEW h \in HtcWord, NEW g, g = untimeout(h)
  PROVE  /\ g \in HtcWord /\ g.count = h.count
         /\ "EPOLLDID" \notin g.flags /\ "TIMEOUT" \notin g.flags
         /\ "READY" \in g.flags <=> SocketReady(g.flags)
         /\ \A x \in SocketFlag \ {"EPOLLDID", "TIMEOUT", "READY"} :
              x \in g.flags <=> x \in h.flags
<1> DEFINE F == h.flags \ {"EPOLLDID", "TIMEOUT"}
<1>1. g = [h EXCEPT !.flags = WithReady(F)]
  BY DEF untimeout
<1>2. F \subseteq SocketFlag
  BY DEF SocketFlag, HtcWord
<1>3. /\ "EPOLLDID" \notin F /\ "TIMEOUT" \notin F
      /\ \A x \in SocketFlag \ {"EPOLLDID", "TIMEOUT"} : x \in F <=> x \in h.flags
  BY DEF SocketFlag, HtcWord
<1> HIDE DEF F
<1>4. /\ WithReady(F) \subseteq SocketFlag
      /\ \A x \in SocketFlag \ {"READY"} : x \in WithReady(F) <=> x \in F
      /\ "READY" \in WithReady(F) <=> SocketReady(F)
  BY <1>2 DEF WithReady, SocketFlag
<1>5. SocketReady(WithReady(F)) <=> SocketReady(F)
  BY <1>4 DEF SocketReady, SocketFlag
<1>6. g.flags = WithReady(F) /\ g.count = h.count /\ g \in HtcWord
  BY <1>1, <1>4 DEF HtcWord
<1> QED
  BY <1>3, <1>4, <1>5, <1>6 DEF SocketFlag

\* The word of the job after an update of its count of ready sockets.
LEMMA CasUpdated ==
  ASSUME NEW m \in Word, NEW d \in Int, NEW F \in SUBSET {"READYBASIC"},
         NEW r \in {0, 1}, m.avsock + d \in 0 .. MaxCount, m.wait = 0, m.avjobs = 0,
         NEW g, g = cas_update(m, d, 0, 0, F, r, 0)
  PROVE  /\ g \in Word /\ g.access = m.access /\ g.avsock = m.avsock + d
         /\ g.wait = 0 /\ g.avjobs = 0
         /\ "READYEPOLLSOCK" \in g.flags <=> m.avsock + d >= r
         /\ {"READYEPOLLTOOL", "READYJOB"} \subseteq g.flags
         /\ "READYBASIC" \in g.flags <=> "READYBASIC" \in m.flags \cup F
         /\ \A x \in {"UNSTABLE", "WLLDESTROY"} : x \in g.flags <=> x \in m.flags
<1> DEFINE G == ((m.flags \cup F) \ Derived)
                  \cup DerivedFlags(m.avsock + d, 0, 0, r, 0)
<1>1. g = [m EXCEPT !.flags = G, !.avsock = m.avsock + d, !.wait = 0, !.avjobs = 0]
  BY DEF cas_update, Word
<1>2. /\ G \subseteq Flag
      /\ "READYEPOLLSOCK" \in G <=> m.avsock + d >= r
      /\ {"READYEPOLLTOOL", "READYJOB"} \subseteq G
      /\ "READYBASIC" \in G <=> "READYBASIC" \in m.flags \cup F
      /\ \A x \in {"UNSTABLE", "WLLDESTROY"} : x \in G <=> x \in m.flags
  <2>1. DerivedFlags(m.avsock + d, 0, 0, r, 0) =
          (IF m.avsock + d >= r THEN {"READYEPOLLSOCK"} ELSE {})
            \cup {"READYEPOLLTOOL"} \cup {"READYJOB"}
    BY DEF DerivedFlags
  <2>2. m.flags \subseteq Flag
    BY DEF Word
  <2>3. CASE m.avsock + d >= r
    BY <2>1, <2>2, <2>3 DEF Derived, Flag
  <2>4. CASE ~(m.avsock + d >= r)
    BY <2>1, <2>2, <2>4 DEF Derived, Flag
  <2> QED
    BY <2>3, <2>4
<1> HIDE DEF G
<1>3. g \in Word /\ g.flags = G /\ g.access = m.access /\ g.avsock = m.avsock + d
      /\ g.wait = 0 /\ g.avjobs = 0
  BY <1>1, <1>2, MetaFlagAssumption DEF Word
<1> QED
  BY <1>2, <1>3

\* The socket after a reference is dropped that is not the last.
LEMMA DroppedOne ==
  ASSUME sock \in Sockets, sock.fall > 0, NEW t, sock' = Dropped(t)
  PROVE  /\ sock' \in Sockets /\ sock'.fall = sock.fall - 1
         /\ sock'.alive <=> sock.fall # 1
         /\ sock'.htc = sock.htc /\ sock'.data = sock.data
<1>1. sock' = [sock EXCEPT !.fall = sock.fall - 1, !.alive = (sock.fall # 1)]
  BY DEF Dropped
<1>0. sock.fall \in 1 .. 3 /\ sock.fall - 1 \in 0 .. 3
  BY DEF Sockets
<1>2. CASE sock.fall = 1
  <2>1. sock' = [sock EXCEPT !.fall = sock.fall - 1, !.alive = FALSE]
    BY <1>1, <1>2
  <2>2. sock' \in Sockets
    BY <2>1, <1>0 DEF Sockets
  <2>3. /\ sock'.fall = sock.fall - 1 /\ sock'.alive = FALSE
        /\ sock'.htc = sock.htc /\ sock'.data = sock.data
    BY <2>1 DEF Sockets
  <2> QED
    BY <2>2, <2>3, <1>2
<1>3. CASE sock.fall # 1
  <2>1. sock' = [sock EXCEPT !.fall = sock.fall - 1, !.alive = TRUE]
    BY <1>1, <1>3
  <2>2. sock' \in Sockets
    BY <2>1, <1>0 DEF Sockets
  <2>3. /\ sock'.fall = sock.fall - 1 /\ sock'.alive = TRUE
        /\ sock'.htc = sock.htc /\ sock'.data = sock.data
    BY <2>1 DEF Sockets
  <2> QED
    BY <2>2, <2>3, <1>3
<1> QED
  BY <1>2, <1>3

\* The word of a new socket.
LEMMA HtcInit ==
  /\ htc_init(ReadCond, 0) \in HtcWord
  /\ htc_init(ReadCond, 0).count = 0
  /\ htc_init(ReadCond, 0).flags = {"WRITE_READY"}
<1>1. ReadCond \in Nat /\ ReadCond > 0 /\ BufferSize \in Nat
  BY SocketAssumption, SocketWordAssumption
<1>2. FlagIf(0 >= ReadCond, "READ_READY") = {}
  BY <1>1 DEF FlagIf
<1>3. FlagIf(BufferSize >= 0, "WRITE_READY") = {"WRITE_READY"}
  BY <1>1 DEF FlagIf
<1>4. WithReady({} \cup {"WRITE_READY"}) = {"WRITE_READY"}
  BY DEF WithReady, SocketReady
<1>5. htc_init(ReadCond, 0) =
        [count |-> 0, avail |-> BufferSize, flags |-> {"WRITE_READY"}]
  BY <1>2, <1>3, <1>4 DEF htc_init
<1> QED
  BY <1>1, <1>5 DEF HtcWord, SocketFlag

\* The word of the job after a loop that sets flags.
LEMMA Marked ==
  ASSUME NEW m \in Word, NEW F \in SUBSET Flag, NEW B, NEW a, NEW g,
         g = mark_or(m, F, B, a)
  PROVE  /\ g \in Word /\ g.access = m.access /\ g.avsock = m.avsock
         /\ g.wait = m.wait /\ g.avjobs = m.avjobs
         /\ \A x : x \notin F => (x \in g.flags <=> x \in m.flags)
<1>1. m.flags \subseteq Flag /\ m.flags \cup F \subseteq Flag
  BY DEF Word
<1>2. CASE g = m
  BY <1>2
<1>3. CASE g = [m EXCEPT !.flags = m.flags \cup F]
  BY <1>1, <1>3 DEF Word
<1> QED
  BY <1>2, <1>3 DEF mark_or

\* The same for a loop that clears flags.
LEMMA Unmarked ==
  ASSUME NEW m \in Word, NEW F \in SUBSET Flag, NEW B, NEW g,
         g = unmark_or(m, F, B)
  PROVE  /\ g \in Word /\ g.access = m.access /\ g.avsock = m.avsock
         /\ g.wait = m.wait /\ g.avjobs = m.avjobs
         /\ \A x : x \notin F => (x \in g.flags <=> x \in m.flags)
<1>1. m.flags \subseteq Flag /\ m.flags \ F \subseteq Flag
  BY DEF Word
<1>2. CASE g = m
  BY <1>2
<1>3. CASE g = [m EXCEPT !.flags = m.flags \ F]
  BY <1>1, <1>3 DEF Word
<1> QED
  BY <1>2, <1>3 DEF unmark_or

\* What a compare-and-swap of the socket's word by thread t leaves alone.
OnlyCas(t, l) ==
  /\ th' \in [{"job", "ep"} -> Thread]
  /\ th'[t].pc = "update" /\ th'[t].next = l
  /\ th'[t].delta = (IF "READY" \in Flags' THEN 1 ELSE 0)
                      - (IF "READY" \in Flags THEN 1 ELSE 0)
  /\ th'[t].req = th[t].req /\ th'[t].n = th[t].n
  /\ \A u \in {"job", "ep"} : u # t => th'[u] = th[u]
  /\ sock' \in Sockets /\ sock'.alive = sock.alive
  /\ sock'.fall = sock.fall /\ sock'.data = sock.data

\* The threads and the socket after a compare-and-swap of its word.
LEMMA CasDone ==
  ASSUME Types, NEW t \in {"job", "ep"}, NEW g \in HtcWord,
         NEW l \in JobNext \cup EpNext, CasHtc(t, g, l)
  PROVE  OnlyCas(t, l) /\ sock'.htc = g
<1>1. PICK D \in -1 .. 1 : D = IsReady(g) - IsReady(sock.htc)
  BY DEF IsReady
<1>2. /\ th' = [th EXCEPT ![t].pc = "update", ![t].next = l, ![t].delta = D]
      /\ sock' = [sock EXCEPT !.htc = g]
  BY <1>1 DEF CasHtc
<1>3. l \in JobPc \cup EpPc /\ "update" \in JobPc \cup EpPc
  BY DEF JobNext, EpNext, JobPc, EpPc
<1>4. th \in [{"job", "ep"} -> Thread] /\ sock \in Sockets
  BY DEF Types, Threads
<1>5. /\ th' \in [{"job", "ep"} -> Thread]
      /\ th'[t].pc = "update" /\ th'[t].next = l /\ th'[t].delta = D
      /\ th'[t].req = th[t].req /\ th'[t].n = th[t].n
      /\ \A u \in {"job", "ep"} : u # t => th'[u] = th[u]
  BY <1>2, <1>3, <1>4 DEF Thread
<1>6. /\ sock' \in Sockets /\ sock'.htc = g
      /\ sock'.alive = sock.alive /\ sock'.fall = sock.fall
      /\ sock'.data = sock.data
  BY <1>2, <1>4 DEF Sockets
<1>7. D = (IF "READY" \in Flags' THEN 1 ELSE 0)
          - (IF "READY" \in Flags THEN 1 ELSE 0)
  BY <1>1, <1>6 DEF IsReady, Flags
<1> QED
  BY <1>5, <1>6, <1>7 DEF OnlyCas

\* The same for a transfer, of a socket that has not timed out.
LEMMA CountDone ==
  ASSUME Types, NEW t \in {"job", "ep"}, NEW d \in Int,
         NEW l \in JobNext \cup EpNext, CasCount(t, d, l),
         "TIMEOUT" \notin Flags, sock.htc.count + d \in 0 .. BufferSize
  PROVE  /\ OnlyCas(t, l) /\ sock'.htc.count = sock.htc.count + d
         /\ "READ_READY" \in Flags' <=> sock'.htc.count >= ReadCond
         /\ "READY" \in Flags' <=> SocketReady(Flags')
         /\ \A x \in {"WRITE_READY", "DEAD", "EPOLLNT", "EPOLLDID", "TIMEOUT"} :
              x \in Flags' <=> x \in Flags
<1>1. PICK h \in HtcWord : h = sock.htc
  BY DEF Types, Sockets
<1>2. PICK g : g = count_add(h, d, FALSE, ReadCond)
  OBVIOUS
<1>3. h.count + d \in 0 .. BufferSize /\ "TIMEOUT" \notin h.flags
  BY <1>1 DEF Flags
<1>4. /\ g \in HtcWord /\ g.count = h.count + d
      /\ "READ_READY" \in g.flags <=> h.count + d >= ReadCond
      /\ "READY" \in g.flags <=> SocketReady(g.flags)
      /\ \A x \in SocketFlag \ {"READ_READY", "READY"} :
           x \in g.flags <=> x \in h.flags
  BY <1>2, <1>3, CountAdded, Zenon
<1>5. CasHtc(t, g, l)
  BY <1>1, <1>2 DEF CasCount, Flags
<1>6. OnlyCas(t, l) /\ sock'.htc = g
  BY <1>4, <1>5, CasDone
<1> QED
  BY <1>1, <1>4, <1>6 DEF Flags, SocketFlag

\* The words that the loops of the two sides store.
LEMMA WordStored ==
  ASSUME NEW h \in HtcWord
  PROVE  /\ mark_dead(h) \in HtcWord /\ mark_dead(h).count = h.count
         /\ mark_dead(h).flags = h.flags \cup {"DEAD", "READY"}
         /\ timeout_cas(h) \in HtcWord /\ timeout_cas(h).count = h.count
         /\ timeout_cas(h).flags = h.flags \cup {"TIMEOUT", "READY"}
         /\ done_cas_epollside(h) \in HtcWord
         /\ done_cas_epollside(h).count = h.count
         /\ done_cas_epollside(h).flags = h.flags \cup {"EPOLLDID", "READY"}
         /\ done_cas_jobside(h) \in HtcWord /\ done_cas_jobside(h).count = h.count
         /\ done_cas_jobside(h).flags =
              (h.flags \ (IF "EPOLLDID" \in h.flags THEN {} ELSE {"READY"}))
                \cup {"EPOLLNT"}
<1>1. /\ mark_dead(h) \in HtcWord /\ mark_dead(h).count = h.count
      /\ mark_dead(h).flags = h.flags \cup {"DEAD", "READY"}
  BY DEF mark_dead, HtcWord, SocketFlag
<1>2. /\ timeout_cas(h) \in HtcWord /\ timeout_cas(h).count = h.count
      /\ timeout_cas(h).flags = h.flags \cup {"TIMEOUT", "READY"}
  BY DEF timeout_cas, HtcWord, SocketFlag
<1>3. /\ done_cas_epollside(h) \in HtcWord
      /\ done_cas_epollside(h).count = h.count
      /\ done_cas_epollside(h).flags = h.flags \cup {"EPOLLDID", "READY"}
  BY DEF done_cas_epollside, HtcWord, SocketFlag
<1>4. /\ done_cas_jobside(h) \in HtcWord /\ done_cas_jobside(h).count = h.count
      /\ done_cas_jobside(h).flags =
           (h.flags \ (IF "EPOLLDID" \in h.flags THEN {} ELSE {"READY"}))
             \cup {"EPOLLNT"}
  BY DEF done_cas_jobside, HtcWord, SocketFlag
<1> QED
  BY <1>1, <1>2, <1>3, <1>4

\* The word of the job after an access begins.
LEMMA Accessed ==
  ASSUME NEW m \in Word, AccessBan(m) = {}, NEW g, g = mark_access(m)
  PROVE  /\ g \in Word /\ g.access = m.access + 1 /\ g.flags = m.flags
         /\ g.avsock = m.avsock /\ g.wait = m.wait /\ g.avjobs = m.avjobs
<1>1. m.access \in 0 .. MaxAccess /\ m.access # MaxAccess
  BY DEF AccessBan, Word
<1>2. m.access + 1 \in 0 .. MaxAccess
  BY <1>1, MetaFlagAssumption
<1>3. g = [m EXCEPT !.access = m.access + 1]
  BY DEF mark_access
<1> QED
  BY <1>2, <1>3 DEF Word

\* The word after an access ends, which is not refused.
LEMMA Unaccessed ==
  ASSUME NEW m \in Word, NEW g, g = unmark_access(m)
  PROVE  /\ g \in Word /\ g.flags = m.flags
         /\ g.avsock = m.avsock /\ g.wait = m.wait /\ g.avjobs = m.avjobs
         /\ "UNSTABLE" \notin m.flags /\ m.access > 0 => g.access = m.access - 1
<1>1. CASE "UNSTABLE" \in m.flags
  BY <1>1 DEF unmark_access
<1>2. CASE "UNSTABLE" \notin m.flags
  <2>1. PICK k \in Int : k = (m.access - 1) % (MaxAccess + 1)
    BY MetaFlagAssumption DEF Word
  <2>2. /\ m.access \in 0 .. MaxAccess /\ MaxAccess \in Nat
        /\ m.access - 1 \in Int /\ MaxAccess + 1 > 0
    BY MetaFlagAssumption DEF Word
  <2>3. k \in 0 .. MaxAccess
    BY <2>1, <2>2
  <2>4. m.access > 0 => k = m.access - 1
    BY <2>1, <2>2
  <2>5. g = [m EXCEPT !.access = k]
    BY <1>2, <2>1 DEF unmark_access
  <2> QED
    BY <1>2, <2>3, <2>4, <2>5 DEF Word
<1> QED
  BY <1>1, <1>2

\* A thread at a new label, with a new threshold.
LEMMA ThreadReq ==
  ASSUME th \in [{"job", "ep"} -> Thread], NEW t \in {"job", "ep"},
         NEW l \in JobPc \cup EpPc, NEW r \in {0, 1},
         th' = [th EXCEPT ![t].pc = l, ![t].req = r]
  PROVE  /\ th' \in [{"job", "ep"} -> Thread]
         /\ th'[t].pc = l /\ th'[t].next = th[t].next
         /\ th'[t].delta = th[t].delta /\ th'[t].req = r /\ th'[t].n = th[t].n
         /\ \A u \in {"job", "ep"} : u # t => th'[u] = th[u]
  BY DEF Thread

\* The same with a new number of bytes.
LEMMA ThreadBytes ==
  ASSUME th \in [{"job", "ep"} -> Thread], NEW t \in {"job", "ep"},
         NEW l \in JobPc \cup EpPc, NEW n \in Nat,
         \/ th' = [th EXCEPT ![t].pc = l, ![t].n = n]
         \/ th' = [th EXCEPT ![t].n = n, ![t].pc = l]
  PROVE  /\ th' \in [{"job", "ep"} -> Thread]
         /\ th'[t].pc = l /\ th'[t].next = th[t].next
         /\ th'[t].delta = th[t].delta /\ th'[t].req = th[t].req /\ th'[t].n = n
         /\ \A u \in {"job", "ep"} : u # t => th'[u] = th[u]
<1>1. CASE th' = [th EXCEPT ![t].pc = l, ![t].n = n]
  BY <1>1 DEF Thread
<1>2. CASE th' = [th EXCEPT ![t].n = n, ![t].pc = l]
  BY <1>2 DEF Thread
<1> QED
  BY <1>1, <1>2

-----------------------------------------------------------------------------
(* The registration of the socket *)

\* The timer is registered.
LEMMA AddTimerStep ==
  ASSUME Sound, IndInv, AddTimer,
         UNCHANGED <<meta, ctx, net, jobRest>>,
         prog.fails # [reg |-> ctx.regs, src |-> "timer"]
  PROVE  IndInv'
<1>0. /\ Types /\ WordFits /\ JobFits /\ EpFits /\ TimerFits /\ PendingFits
      /\ RegFits /\ FirstFits /\ NoSocket /\ FallFits /\ BytesFit /\ MetaFits
  BY DEF IndInv
<1>a. "EPOLLDID" \notin Flags /\ th["ep"].pc # "done"
  BY <1>0
     DEF AddTimer, At, JobFits, Registering, EpFits, Busy, BusyFits, Giving,
         Flags
<1>1. /\ th["job"].pc = "add_timer"
      /\ th' \in [{"job", "ep"} -> Thread]
      /\ th'["job"].pc = "add_in"
      /\ th'["job"].next = th["job"].next
      /\ th'["job"].delta = th["job"].delta
      /\ th'["job"].req = th["job"].req /\ th'["job"].n = th["job"].n
      /\ th'["ep"] = th["ep"]
      /\ sock' \in Sockets /\ sock'.htc = sock.htc
      /\ sock'.alive = sock.alive /\ sock'.fall = sock.fall
      /\ sock'.data = sock.data \cup {"timer"}
      /\ reg' \in Registrations
      /\ reg'.set = reg.set \cup {"timer"}
      /\ reg'.armed = reg.armed \cup {"timer"}
      /\ UNCHANGED <<prog, meta, ctx, ev, net>>
  BY <1>0
     DEF AddTimer, Add, Goto, At, jobRest, Sources, Sockets, Registrations,
         Types, Threads, Thread, JobPc, EpPc, InUpdate
<1>2. Types'
  BY <1>0, <1>1
     DEF Types, Threads, Thread, JobPc, EpPc, InUpdate, JobNext, EpNext,
         Contexts, Sockets, Registrations, EventStates, Networks
<1>3. WordFits'
  BY <1>0, <1>1 DEF WordFits, Flags, SocketReady
<1>4. JobFits'
  BY <1>0, <1>1
     DEF JobFits, Registering, FirstPc, Towards, At, Flags, Types, Contexts
<1>5. EpFits'
  BY <1>0, <1>1 DEF EpFits, Busy, BusyFits, Giving, Towards, At, Flags
<1>6. TimerFits'
  BY <1>0, <1>1 DEF TimerFits, Towards, At, Flags
<1>7. PendingFits'
  BY <1>0, <1>1 DEF PendingFits, Pending, Ahead, Towards, At, Flags
<1>8. RegFits'
  BY <1>0, <1>1, <1>a DEF RegFits, Towards, At, Flags, JobFits, EpFits
<1>9. FirstFits'
  BY <1>0, <1>1 DEF FirstFits, Flags, JobFits
<1>10. NoSocket'
  BY <1>0, <1>1 DEF NoSocket, Flags
<1>11. FallFits'
  BY <1>0, <1>1 DEF FallFits, FallCountsHolders, OneIf, Towards, At, Flags
<1>12. BytesFit'
  BY <1>0, <1>1 DEF BytesFit, BytesConserved, OneIf, At
<1>13. MetaFits'
  BY <1>0, <1>1
     DEF MetaFits, Alive, AvailableCountsReady, Pending, IsReady, Accessing,
         OneIf, Flags
<1> QED
  BY <1>2, <1>3, <1>4, <1>5, <1>6, <1>7, <1>8, <1>9, <1>10, <1>11, <1>12, <1>13
     DEF IndInv

\* The socket is registered for reading.
LEMMA AddInStep ==
  ASSUME Sound, IndInv, AddIn,
         UNCHANGED <<meta, ctx, net, jobRest>>,
         prog.fails # [reg |-> ctx.regs, src |-> "in"]
  PROVE  IndInv'
<1>0. /\ Types /\ WordFits /\ JobFits /\ EpFits /\ TimerFits /\ PendingFits
      /\ RegFits /\ FirstFits /\ NoSocket /\ FallFits /\ BytesFit /\ MetaFits
  BY DEF IndInv
<1>a. "EPOLLDID" \notin Flags /\ th["ep"].pc # "done"
  BY <1>0
     DEF AddIn, At, JobFits, Registering, EpFits, Busy, BusyFits, Giving, Flags
<1>1. /\ th["job"].pc = "add_in"
      /\ th' \in [{"job", "ep"} -> Thread]
      /\ th'["job"].pc = "add_out"
      /\ th'["job"].next = th["job"].next
      /\ th'["job"].delta = th["job"].delta
      /\ th'["job"].req = th["job"].req /\ th'["job"].n = th["job"].n
      /\ th'["ep"] = th["ep"]
      /\ sock' \in Sockets /\ sock'.htc = sock.htc
      /\ sock'.alive = sock.alive /\ sock'.fall = sock.fall
      /\ sock'.data = sock.data \cup {"sock"}
      /\ reg' \in Registrations
      /\ reg'.set = reg.set \cup {"in"}
      /\ reg'.armed = reg.armed \cup {"in"}
      /\ UNCHANGED <<prog, meta, ctx, ev, net>>
  BY <1>0
     DEF AddIn, Add, Goto, At, jobRest, Sources, Sockets, Registrations, Types,
         Threads, Thread, JobPc, EpPc, InUpdate
<1>2. Types'
  BY <1>0, <1>1
     DEF Types, Threads, Thread, JobPc, EpPc, InUpdate, JobNext, EpNext,
         Contexts, Sockets, Registrations, EventStates, Networks
<1>3. WordFits'
  BY <1>0, <1>1 DEF WordFits, Flags, SocketReady
<1>4. JobFits'
  BY <1>0, <1>1
     DEF JobFits, Registering, FirstPc, Towards, At, Flags, Types, Contexts
<1>5. EpFits'
  BY <1>0, <1>1 DEF EpFits, Busy, BusyFits, Giving, Towards, At, Flags
<1>6. TimerFits'
  BY <1>0, <1>1 DEF TimerFits, Towards, At, Flags
<1>7. PendingFits'
  BY <1>0, <1>1 DEF PendingFits, Pending, Ahead, Towards, At, Flags
<1>8. RegFits'
  BY <1>0, <1>1, <1>a DEF RegFits, Towards, At, Flags, JobFits, EpFits
<1>9. FirstFits'
  BY <1>0, <1>1 DEF FirstFits, Flags, JobFits
<1>10. NoSocket'
  BY <1>0, <1>1 DEF NoSocket, Flags
<1>11. FallFits'
  BY <1>0, <1>1 DEF FallFits, FallCountsHolders, OneIf, Towards, At, Flags
<1>12. BytesFit'
  BY <1>0, <1>1 DEF BytesFit, BytesConserved, OneIf, At
<1>13. MetaFits'
  BY <1>0, <1>1
     DEF MetaFits, Alive, AvailableCountsReady, Pending, IsReady, Accessing,
         OneIf, Flags
<1> QED
  BY <1>2, <1>3, <1>4, <1>5, <1>6, <1>7, <1>8, <1>9, <1>10, <1>11, <1>12, <1>13
     DEF IndInv

\* The socket is registered for writing.
LEMMA AddOutStep ==
  ASSUME Sound, IndInv, AddOut,
         UNCHANGED <<meta, ctx, net, jobRest>>,
         prog.fails # [reg |-> ctx.regs, src |-> "out"]
  PROVE  IndInv'
<1>0. /\ Types /\ WordFits /\ JobFits /\ EpFits /\ TimerFits /\ PendingFits
      /\ RegFits /\ FirstFits /\ NoSocket /\ FallFits /\ BytesFit /\ MetaFits
  BY DEF IndInv
<1>a. "EPOLLDID" \notin Flags /\ th["ep"].pc # "done"
  BY <1>0
     DEF AddOut, At, JobFits, Registering, EpFits, Busy, BusyFits, Giving,
         Flags
<1>1. /\ th["job"].pc = "add_out"
      /\ th' \in [{"job", "ep"} -> Thread]
      /\ th'["job"].pc = "start"
      /\ th'["job"].next = th["job"].next
      /\ th'["job"].delta = th["job"].delta
      /\ th'["job"].req = th["job"].req /\ th'["job"].n = th["job"].n
      /\ th'["ep"] = th["ep"]
      /\ sock' \in Sockets /\ sock'.htc = sock.htc
      /\ sock'.alive = sock.alive /\ sock'.fall = sock.fall
      /\ sock'.data = sock.data \cup {}
      /\ reg' \in Registrations
      /\ reg'.set = reg.set \cup {"out"}
      /\ reg'.armed = reg.armed \cup {"out"}
      /\ UNCHANGED <<prog, meta, ctx, ev, net>>
  BY <1>0
     DEF AddOut, Add, Goto, At, jobRest, Sources, Sockets, Registrations,
         Types, Threads, Thread, JobPc, EpPc, InUpdate
<1>2. Types'
  BY <1>0, <1>1
     DEF Types, Threads, Thread, JobPc, EpPc, InUpdate, JobNext, EpNext,
         Contexts, Sockets, Registrations, EventStates, Networks
<1>3. WordFits'
  BY <1>0, <1>1 DEF WordFits, Flags, SocketReady
<1>4. JobFits'
  BY <1>0, <1>1
     DEF JobFits, Registering, FirstPc, Towards, At, Flags, Types, Contexts
<1>5. EpFits'
  BY <1>0, <1>1 DEF EpFits, Busy, BusyFits, Giving, Towards, At, Flags
<1>6. TimerFits'
  BY <1>0, <1>1 DEF TimerFits, Towards, At, Flags
<1>7. PendingFits'
  BY <1>0, <1>1 DEF PendingFits, Pending, Ahead, Towards, At, Flags
<1>8. RegFits'
  BY <1>0, <1>1, <1>a DEF RegFits, Towards, At, Flags, JobFits, EpFits
<1>9. FirstFits'
  BY <1>0, <1>1 DEF FirstFits, Flags, JobFits
<1>10. NoSocket'
  BY <1>0, <1>1 DEF NoSocket, Flags
<1>11. FallFits'
  BY <1>0, <1>1 DEF FallFits, FallCountsHolders, OneIf, Towards, At, Flags
<1>12. BytesFit'
  BY <1>0, <1>1 DEF BytesFit, BytesConserved, OneIf, At
<1>13. MetaFits'
  BY <1>0, <1>1
     DEF MetaFits, Alive, AvailableCountsReady, Pending, IsReady, Accessing,
         OneIf, Flags
<1> QED
  BY <1>2, <1>3, <1>4, <1>5, <1>6, <1>7, <1>8, <1>9, <1>10, <1>11, <1>12, <1>13
     DEF IndInv

\* A registration is refused.
LEMMA AddRefusedStep ==
  ASSUME Sound, IndInv, At("job", "add_timer") \/ At("job", "add_in"),
         Goto("job", "refused"), UNCHANGED <<meta, ctx, net, jobRest>>,
         reg' = [set |-> {}, armed |-> {}],
         sock' = [sock EXCEPT !.data = @ \ {"sock"}]
  PROVE  IndInv'
<1>0. /\ Types /\ WordFits /\ JobFits /\ EpFits /\ TimerFits /\ PendingFits
      /\ RegFits /\ FirstFits /\ NoSocket /\ FallFits /\ BytesFit /\ MetaFits
  BY DEF IndInv
<1>1. /\ th["job"].pc \in {"add_timer", "add_in"}
      /\ th' \in [{"job", "ep"} -> Thread]
      /\ th'["job"].pc = "refused"
      /\ th'["job"].next = th["job"].next
      /\ th'["job"].delta = th["job"].delta
      /\ th'["job"].req = th["job"].req /\ th'["job"].n = th["job"].n
      /\ th'["ep"] = th["ep"]
      /\ sock' \in Sockets /\ sock'.htc = sock.htc
      /\ sock'.alive = sock.alive /\ sock'.fall = sock.fall
      /\ sock'.data = sock.data \ {"sock"}
      /\ reg' \in Registrations /\ reg'.set = {} /\ reg'.armed = {}
      /\ UNCHANGED <<prog, meta, ctx, ev, net>>
  BY <1>0
     DEF Goto, At, jobRest, Sources, Sockets, Registrations, Types, Threads,
         Thread, JobPc, EpPc, InUpdate
<1>2. Types'
  BY <1>0, <1>1
     DEF Types, Threads, Thread, JobPc, EpPc, InUpdate, JobNext, EpNext,
         Contexts, Sockets, Registrations, EventStates, Networks
<1>3. WordFits'
  BY <1>0, <1>1 DEF WordFits, Flags, SocketReady
<1>4. JobFits'
  BY <1>0, <1>1
     DEF JobFits, Registering, FirstPc, Towards, At, Flags, Types, Contexts
<1>5. EpFits'
  BY <1>0, <1>1 DEF EpFits, Busy, BusyFits, Giving, Towards, At, Flags
<1>6. TimerFits'
  BY <1>0, <1>1 DEF TimerFits, Towards, At, Flags
<1>7. PendingFits'
  BY <1>0, <1>1 DEF PendingFits, Pending, Ahead, Towards, At, Flags
<1>8. RegFits'
  BY <1>0, <1>1
     DEF RegFits, Towards, At, Flags, JobFits, EpFits, Busy, BusyFits
<1>9. FirstFits'
  BY <1>0, <1>1 DEF FirstFits, Flags, JobFits
<1>10. NoSocket'
  BY <1>0, <1>1 DEF NoSocket, Flags
<1>11. FallFits'
  BY <1>0, <1>1 DEF FallFits, FallCountsHolders, OneIf, Towards, At, Flags
<1>12. BytesFit'
  BY <1>0, <1>1 DEF BytesFit, BytesConserved, OneIf, At
<1>13. MetaFits'
  BY <1>0, <1>1
     DEF MetaFits, Alive, AvailableCountsReady, Pending, IsReady, Accessing,
         OneIf, Flags
<1> QED
  BY <1>2, <1>3, <1>4, <1>5, <1>6, <1>7, <1>8, <1>9, <1>10, <1>11, <1>12, <1>13
     DEF IndInv

\* The socket is created.
LEMMA CreateStep ==
  ASSUME Sound, IndInv, Create
  PROVE  IndInv'
<1>0. /\ Types /\ WordFits /\ JobFits /\ EpFits /\ TimerFits /\ PendingFits
      /\ RegFits /\ FirstFits /\ NoSocket /\ FallFits /\ BytesFit /\ MetaFits
  BY DEF IndInv
<1>a. /\ th["job"].pc = "create" /\ ctx.regs = 0 /\ th["ep"].pc = "wait"
      /\ ev.batch = {} /\ ~ctx.exit /\ sock.htc.count = 0
      /\ "READY" \notin Flags
  BY <1>0, ProgramFits
     DEF Create, At, JobFits, EpFits, FirstFits, WordFits, SocketReady, Flags
<1>1. /\ th["job"].pc = "create"
      /\ th' \in [{"job", "ep"} -> Thread]
      /\ th'["job"].pc = "stop"
      /\ th'["job"].next = th["job"].next
      /\ th'["job"].delta = th["job"].delta
      /\ th'["job"].req = th["job"].req /\ th'["job"].n = th["job"].n
      /\ th'["ep"] = th["ep"]
      /\ sock' \in Sockets /\ sock'.htc.count = 0
      /\ Flags' = {"WRITE_READY"}
      /\ sock'.alive /\ sock'.fall = 2 /\ sock'.data = {}
      /\ ctx' = [ctx EXCEPT !.regs = 1]
      /\ UNCHANGED <<prog, meta, reg, ev, net>>
  BY <1>0, HtcInit
     DEF Create, Goto, At, jobRest, IsReady, Sockets, Flags, Types, Threads,
         Thread, JobPc, EpPc, InUpdate
<1>2. Types'
  BY <1>0, <1>1, <1>a
     DEF Types, Threads, Thread, JobPc, EpPc, InUpdate, JobNext, EpNext,
         Contexts, Sockets, Registrations, EventStates, Networks
<1>3. WordFits'
  BY <1>0, <1>1, <1>a, ProgramFits DEF WordFits, Flags, SocketReady
<1>4. JobFits'
  BY <1>0, <1>1, <1>a
     DEF JobFits, Registering, FirstPc, Towards, At, Flags, Types, Contexts
<1>5. EpFits'
  BY <1>0, <1>1, <1>a DEF EpFits, Busy, BusyFits, Giving, Towards, At, Flags
<1>6. TimerFits'
  BY <1>0, <1>1, <1>a DEF TimerFits, Towards, At, Flags
<1>7. PendingFits'
  BY <1>0, <1>1, <1>a DEF PendingFits, Pending, Ahead, Towards, At, Flags
<1>8. RegFits'
  BY <1>0, <1>1, <1>a DEF RegFits, Towards, At, Flags
<1>9. FirstFits'
  BY <1>0, <1>1, <1>a DEF FirstFits, Flags
<1>10. NoSocket'
  BY <1>0, <1>1, <1>a DEF NoSocket, Flags
<1>11. FallFits'
  BY <1>0, <1>1, <1>a
     DEF FallFits, FallCountsHolders, OneIf, Towards, At, Flags
<1>12. BytesFit'
  BY <1>0, <1>1, <1>a DEF BytesFit, BytesConserved, OneIf, At
<1>13. MetaFits'
  BY <1>0, <1>1, <1>a
     DEF MetaFits, Alive, AvailableCountsReady, Pending, IsReady, Accessing,
         OneIf, Flags
<1> QED
  BY <1>2, <1>3, <1>4, <1>5, <1>6, <1>7, <1>8, <1>9, <1>10, <1>11, <1>12, <1>13
     DEF IndInv

\* The first registration failed: the socket is freed.
LEMMA RefusedFirstStep ==
  ASSUME Sound, IndInv, Refused, ctx.regs = 1
  PROVE  IndInv'
<1>0. /\ Types /\ WordFits /\ JobFits /\ EpFits /\ TimerFits /\ PendingFits
      /\ RegFits /\ FirstFits /\ NoSocket /\ FallFits /\ BytesFit /\ MetaFits
  BY DEF IndInv
<1>a. /\ th["job"].pc = "refused" /\ th["ep"].pc = "wait"
      /\ ev.batch = {} /\ ~ctx.exit /\ reg.set = {}
      /\ "READY" \notin Flags
  BY <1>0, ProgramFits
     DEF Refused, At, EpFits, FirstFits, RegFits, WordFits, SocketReady, Flags
<1>b. IsReady(sock.htc) = 0
  BY <1>a DEF IsReady, Flags
<1>c. /\ sock' = [sock EXCEPT !.alive = FALSE, !.fall = 0]
      /\ Goto("job", "require") /\ UNCHANGED <<prog, meta, ctx, reg, ev, net>>
  BY <1>b DEF Refused, jobRest
<1>f. PICK z \in 0 .. 3 :
        z = 0 /\ sock' = [sock EXCEPT !.alive = FALSE, !.fall = z]
  BY <1>c
<1>e. sock' \in Sockets
  BY <1>0, <1>f DEF Types, Sockets
<1>d. /\ sock'.htc = sock.htc /\ sock'.data = sock.data
      /\ sock'.alive = FALSE /\ sock'.fall = 0
  BY <1>0, <1>c DEF Types, Sockets
<1>1. /\ th["job"].pc = "refused"
      /\ th' \in [{"job", "ep"} -> Thread]
      /\ th'["job"].pc = "require"
      /\ th'["job"].next = th["job"].next
      /\ th'["job"].delta = th["job"].delta
      /\ th'["job"].req = th["job"].req /\ th'["job"].n = th["job"].n
      /\ th'["ep"] = th["ep"]
      /\ UNCHANGED <<prog, meta, ctx, reg, ev, net>>
  BY <1>0, <1>a, <1>c DEF Goto, Types, Threads, Thread, JobPc, EpPc, InUpdate
<1>2. Types'
  BY <1>0, <1>1, <1>a, <1>d, <1>e
     DEF Types, Threads, Thread, JobPc, EpPc, InUpdate, JobNext, EpNext,
         Contexts, Sockets, Registrations, EventStates, Networks
<1>3. WordFits'
  BY <1>0, <1>1, <1>a, <1>d, <1>e DEF WordFits, Flags, SocketReady
<1>4. JobFits'
  BY <1>0, <1>1, <1>a, <1>d, <1>e
     DEF JobFits, Registering, FirstPc, Towards, At, Flags, Types, Contexts
<1>5. EpFits'
  BY <1>0, <1>1, <1>a, <1>d, <1>e
     DEF EpFits, Busy, BusyFits, Giving, Towards, At, Flags
<1>6. TimerFits'
  BY <1>0, <1>1, <1>a, <1>d, <1>e DEF TimerFits, Towards, At, Flags
<1>7. PendingFits'
  BY <1>0, <1>1, <1>a, <1>d, <1>e
     DEF PendingFits, Pending, Ahead, Towards, At, Flags
<1>8. RegFits'
  BY <1>0, <1>1, <1>a, <1>d, <1>e DEF RegFits, Towards, At, Flags
<1>9. FirstFits'
  BY <1>0, <1>1, <1>a, <1>d, <1>e DEF FirstFits, Flags
<1>10. NoSocket'
  BY <1>0, <1>1, <1>a, <1>d, <1>e DEF NoSocket, Flags
<1>11. FallFits'
  BY <1>0, <1>1, <1>a, <1>d, <1>e
     DEF FallFits, FallCountsHolders, OneIf, Towards, At, Flags
<1>12. BytesFit'
  BY <1>0, <1>1, <1>a, <1>d, <1>e DEF BytesFit, BytesConserved, OneIf, At
<1>13. MetaFits'
  BY <1>0, <1>1, <1>a, <1>d, <1>e
     DEF MetaFits, Alive, AvailableCountsReady, Pending, IsReady, Accessing,
         OneIf, Flags
<1> QED
  BY <1>2, <1>3, <1>4, <1>5, <1>6, <1>7, <1>8, <1>9, <1>10, <1>11, <1>12, <1>13
     DEF IndInv

\* A later registration failed: the socket is given up for the epoll side.
LEMMA RefusedAgainStep ==
  ASSUME Sound, IndInv, Refused, ctx.regs # 1
  PROVE  IndInv'
<1>0. /\ Types /\ WordFits /\ JobFits /\ EpFits /\ TimerFits /\ PendingFits
      /\ RegFits /\ FirstFits /\ NoSocket /\ FallFits /\ BytesFit /\ MetaFits
  BY DEF IndInv
<1>a. /\ th["job"].pc = "refused" /\ ctx.regs = 2 /\ ~ctx.exit
      /\ Pending("ep") = 0 /\ ~Busy /\ reg.set = {}
      /\ Flags \cap {"EPOLLDID", "EPOLLNT", "DEAD", "TIMEOUT"} = {}
  BY <1>0
     DEF Refused, At, JobFits, EpFits, BusyFits, Busy, RegFits, WordFits,
         PendingFits, Pending, Types, Contexts, Registering, Towards, Flags,
         Threads, EpNext, InUpdate
<1>1. /\ th["job"].pc = "refused"
      /\ th' \in [{"job", "ep"} -> Thread]
      /\ th'["job"].pc = "update"
      /\ th'["job"].next = "again_drop"
      /\ th'["job"].delta = (IF "READY" \in Flags' THEN 1 ELSE 0)
             - (IF "READY" \in Flags THEN 1 ELSE 0)
      /\ th'["job"].req = th["job"].req /\ th'["job"].n = th["job"].n
      /\ th'["ep"] = th["ep"]
      /\ sock' \in Sockets /\ sock'.htc.count = sock.htc.count
      /\ Flags' = Flags \cup {"EPOLLDID", "READY"}
      /\ sock'.alive = sock.alive /\ sock'.fall = sock.fall
      /\ sock'.data = sock.data
      /\ UNCHANGED <<prog, meta, ctx, reg, ev, net>>
  BY <1>0
     DEF Refused, CasHtc, At, jobRest, IsReady, Sockets, Flags,
         done_cas_epollside, HtcWord, SocketFlag, Types, Threads, Thread,
         JobPc, EpPc, InUpdate
<1>2. Types'
  BY <1>0, <1>1, <1>a
     DEF Types, Threads, Thread, JobPc, EpPc, InUpdate, JobNext, EpNext,
         Contexts, Sockets, Registrations, EventStates, Networks
<1>3. WordFits'
  BY <1>0, <1>1, <1>a DEF WordFits, Flags, SocketReady
<1>4. JobFits'
  BY <1>0, <1>1, <1>a
     DEF JobFits, Registering, FirstPc, Towards, At, Flags, Types, Contexts
<1>5. EpFits'
  BY <1>0, <1>1, <1>a DEF EpFits, Busy, BusyFits, Giving, Towards, At, Flags
<1>6. TimerFits'
  BY <1>0, <1>1, <1>a DEF TimerFits, Towards, At, Flags
<1>7. PendingFits'
  BY <1>0, <1>1, <1>a DEF PendingFits, Pending, Ahead, Towards, At, Flags
<1>8. RegFits'
  BY <1>0, <1>1, <1>a DEF RegFits, Towards, At, Flags
<1>9. FirstFits'
  BY <1>0, <1>1, <1>a DEF FirstFits, Flags
<1>10. NoSocket'
  BY <1>0, <1>1, <1>a DEF NoSocket, Flags
<1>11. FallFits'
  BY <1>0, <1>1, <1>a
     DEF FallFits, FallCountsHolders, OneIf, Towards, At, Flags
<1>12. BytesFit'
  BY <1>0, <1>1, <1>a DEF BytesFit, BytesConserved, OneIf, At
<1>13. MetaFits'
  BY <1>0, <1>1, <1>a
     DEF MetaFits, Alive, AvailableCountsReady, Pending, IsReady, Accessing,
         OneIf, Flags, Types, Word
<1> QED
  BY <1>2, <1>3, <1>4, <1>5, <1>6, <1>7, <1>8, <1>9, <1>10, <1>11, <1>12, <1>13
     DEF IndInv

-----------------------------------------------------------------------------
(* The job function *)

\* The timer is stopped.
LEMMA StopTimerStep ==
  ASSUME Sound, IndInv, StopTimer
  PROVE  IndInv'
<1>0. /\ Types /\ WordFits /\ JobFits /\ EpFits /\ TimerFits /\ PendingFits
      /\ RegFits /\ FirstFits /\ NoSocket /\ FallFits /\ BytesFit /\ MetaFits
  BY DEF IndInv
<1>1. /\ th["job"].pc = "stop"
      /\ th' \in [{"job", "ep"} -> Thread]
      /\ th'["job"].pc = IF prog.timeouts THEN "add_timer" ELSE "add_in"
      /\ th'["job"].next = th["job"].next
      /\ th'["job"].delta = th["job"].delta
      /\ th'["job"].req = th["job"].req /\ th'["job"].n = th["job"].n
      /\ th'["ep"] = th["ep"]
      /\ net' = [net EXCEPT !.timer = "off"]
      /\ UNCHANGED <<prog, meta, ctx, sock, reg, ev>>
  BY <1>0
     DEF StopTimer, Goto, At, jobRest, Types, Threads, Thread, JobPc, EpPc,
         InUpdate
<1>2. Types'
  BY <1>0, <1>1
     DEF Types, Threads, Thread, JobPc, EpPc, InUpdate, JobNext, EpNext,
         Contexts, Sockets, Registrations, EventStates, Networks
<1>3. WordFits'
  BY <1>0, <1>1 DEF WordFits, Flags, SocketReady
<1>4. JobFits'
  BY <1>0, <1>1
     DEF JobFits, Registering, FirstPc, Towards, At, Flags, Types, Contexts
<1>5. EpFits'
  BY <1>0, <1>1 DEF EpFits, Busy, BusyFits, Giving, Towards, At, Flags
<1>6. TimerFits'
  BY <1>0, <1>1 DEF TimerFits, Towards, At, Flags
<1>7. PendingFits'
  BY <1>0, <1>1 DEF PendingFits, Pending, Ahead, Towards, At, Flags
<1>8. RegFits'
  BY <1>0, <1>1 DEF RegFits, Towards, At, Flags
<1>9. FirstFits'
  BY <1>0, <1>1 DEF FirstFits, Flags, JobFits
<1>10. NoSocket'
  BY <1>0, <1>1 DEF NoSocket, Flags
<1>11. FallFits'
  BY <1>0, <1>1 DEF FallFits, FallCountsHolders, OneIf, Towards, At, Flags
<1>12. BytesFit'
  BY <1>0, <1>1 DEF BytesFit, BytesConserved, OneIf, At
<1>13. MetaFits'
  BY <1>0, <1>1
     DEF MetaFits, Alive, AvailableCountsReady, Pending, IsReady, Accessing,
         OneIf, Flags
<1> QED
  BY <1>2, <1>3, <1>4, <1>5, <1>6, <1>7, <1>8, <1>9, <1>10, <1>11, <1>12, <1>13
     DEF IndInv

\* The timer is started.
LEMMA StartTimerStep ==
  ASSUME Sound, IndInv, StartTimer
  PROVE  IndInv'
<1>0. /\ Types /\ WordFits /\ JobFits /\ EpFits /\ TimerFits /\ PendingFits
      /\ RegFits /\ FirstFits /\ NoSocket /\ FallFits /\ BytesFit /\ MetaFits
  BY DEF IndInv
<1>1. /\ th["job"].pc = "start"
      /\ th' \in [{"job", "ep"} -> Thread]
      /\ th'["job"].pc = IF ctx.regs = 1 THEN "require" ELSE "return"
      /\ th'["job"].next = th["job"].next
      /\ th'["job"].delta = th["job"].delta
      /\ th'["job"].req = th["job"].req /\ th'["job"].n = th["job"].n
      /\ th'["ep"] = th["ep"]
      /\ net' = IF prog.timeouts THEN [net EXCEPT !.timer = "running"] ELSE net
      /\ UNCHANGED <<prog, meta, ctx, sock, reg, ev>>
  BY <1>0
     DEF StartTimer, Goto, At, jobRest, ResetTimer, Types, Threads, Thread,
         JobPc, EpPc, InUpdate
<1>2. Types'
  BY <1>0, <1>1
     DEF Types, Threads, Thread, JobPc, EpPc, InUpdate, JobNext, EpNext,
         Contexts, Sockets, Registrations, EventStates, Networks
<1>3. WordFits'
  BY <1>0, <1>1 DEF WordFits, Flags, SocketReady
<1>4. JobFits'
  BY <1>0, <1>1
     DEF JobFits, Registering, FirstPc, Towards, At, Flags, Types, Contexts
<1>5. EpFits'
  BY <1>0, <1>1 DEF EpFits, Busy, BusyFits, Giving, Towards, At, Flags
<1>6. TimerFits'
  BY <1>0, <1>1 DEF TimerFits, Towards, At, Flags
<1>7. PendingFits'
  BY <1>0, <1>1 DEF PendingFits, Pending, Ahead, Towards, At, Flags
<1>8. RegFits'
  BY <1>0, <1>1 DEF RegFits, Towards, At, Flags
<1>9. FirstFits'
  BY <1>0, <1>1 DEF FirstFits, Flags
<1>10. NoSocket'
  BY <1>0, <1>1 DEF NoSocket, Flags
<1>11. FallFits'
  BY <1>0, <1>1 DEF FallFits, FallCountsHolders, OneIf, Towards, At, Flags
<1>12. BytesFit'
  BY <1>0, <1>1 DEF BytesFit, BytesConserved, OneIf, At
<1>13. MetaFits'
  BY <1>0, <1>1
     DEF MetaFits, Alive, AvailableCountsReady, Pending, IsReady, Accessing,
         OneIf, Flags
<1> QED
  BY <1>2, <1>3, <1>4, <1>5, <1>6, <1>7, <1>8, <1>9, <1>10, <1>11, <1>12, <1>13
     DEF IndInv

\* A socket is required.
LEMMA RequireStep ==
  ASSUME Sound, IndInv, Require
  PROVE  IndInv'
<1>0. /\ Types /\ WordFits /\ JobFits /\ EpFits /\ TimerFits /\ PendingFits
      /\ RegFits /\ FirstFits /\ NoSocket /\ FallFits /\ BytesFit /\ MetaFits
  BY DEF IndInv
<1>a. Alive
  BY <1>0 DEF Require, At, Alive, JobFits, Towards, Types, Contexts
<1>b. PICK d \in Int, F \in SUBSET {"READYBASIC"}, r \in {0, 1} :
        d = 0 /\ F = {} /\ r = 1 /\ meta' = cas_update(meta, d, 0, 0, F, r, 0)
  BY <1>0 DEF Require, Types, Contexts
<1>c. /\ meta' \in Word /\ meta'.access = meta.access
      /\ meta'.avsock = meta.avsock /\ meta'.wait = 0 /\ meta'.avjobs = 0
      /\ "READYEPOLLSOCK" \in meta'.flags <=> meta'.avsock >= 1
      /\ {"READYEPOLLTOOL", "READYJOB"} \subseteq meta'.flags
     
      /\ \A x \in {"UNSTABLE", "WLLDESTROY"} : x \in meta'.flags <=> x \in meta.flags
      /\ "READYBASIC" \in meta'.flags <=> "READYBASIC" \in meta.flags
  BY <1>0, <1>a, <1>b, CasUpdated DEF Types, MetaFits, Word
<1>1. /\ th["job"].pc = "require"
      /\ th' \in [{"job", "ep"} -> Thread]
      /\ th'["job"].pc = "return"
      /\ th'["job"].next = th["job"].next
      /\ th'["job"].delta = th["job"].delta
      /\ th'["job"].req = th["job"].req /\ th'["job"].n = th["job"].n
      /\ th'["ep"] = th["ep"]
      /\ ctx' = [ctx EXCEPT !.required = 1]
      /\ UNCHANGED <<prog, sock, reg, ev, net>>
  BY <1>0
     DEF Require, Goto, At, jobRest, Types, Threads, Thread, JobPc, EpPc,
         InUpdate
<1>2. Types'
  BY <1>0, <1>1, <1>c
     DEF Types, Threads, Thread, JobPc, EpPc, InUpdate, JobNext, EpNext,
         Contexts, Sockets, Registrations, EventStates, Networks
<1>3. WordFits'
  BY <1>0, <1>1 DEF WordFits, Flags, SocketReady
<1>4. JobFits'
  BY <1>0, <1>1
     DEF JobFits, Registering, FirstPc, Towards, At, Flags, Types, Contexts
<1>5. EpFits'
  BY <1>0, <1>1 DEF EpFits, Busy, BusyFits, Giving, Towards, At, Flags
<1>6. TimerFits'
  BY <1>0, <1>1 DEF TimerFits, Towards, At, Flags
<1>7. PendingFits'
  BY <1>0, <1>1 DEF PendingFits, Pending, Ahead, Towards, At, Flags
<1>8. RegFits'
  BY <1>0, <1>1 DEF RegFits, Towards, At, Flags
<1>9. FirstFits'
  BY <1>0, <1>1 DEF FirstFits, Flags
<1>10. NoSocket'
  BY <1>0, <1>1 DEF NoSocket, Flags
<1>11. FallFits'
  BY <1>0, <1>1 DEF FallFits, FallCountsHolders, OneIf, Towards, At, Flags
<1>12. BytesFit'
  BY <1>0, <1>1 DEF BytesFit, BytesConserved, OneIf, At
<1>13. MetaFits'
  BY <1>0, <1>1, <1>a, <1>c
     DEF MetaFits, Alive, AvailableCountsReady, Pending, IsReady, Accessing,
         OneIf, Flags
<1> QED
  BY <1>2, <1>3, <1>4, <1>5, <1>6, <1>7, <1>8, <1>9, <1>10, <1>11, <1>12, <1>13
     DEF IndInv

\* The epoll side holds the socket again.
LEMMA AgainFallStep ==
  ASSUME Sound, IndInv, AgainFall
  PROVE  IndInv'
<1>0. /\ Types /\ WordFits /\ JobFits /\ EpFits /\ TimerFits /\ PendingFits
      /\ RegFits /\ FirstFits /\ NoSocket /\ FallFits /\ BytesFit /\ MetaFits
  BY DEF IndInv
<1>a. /\ sock.alive /\ ~ctx.exit /\ ctx.regs > 0
      /\ "EPOLLNT" \notin Flags
  BY <1>0
     DEF AgainFall, At, Towards, JobFits, NoSocket, WordFits, Flags,
         Registering, Types, Contexts
<1>b. sock.fall \in {1, 2}
  BY <1>0, <1>a DEF AgainFall, FallFits, FallCountsHolders, OneIf, Towards, At
<1>1. /\ th["job"].pc = "again_fall"
      /\ th' \in [{"job", "ep"} -> Thread]
      /\ th'["job"].pc = "stop"
      /\ th'["job"].next = th["job"].next
      /\ th'["job"].delta = th["job"].delta
      /\ th'["job"].req = th["job"].req /\ th'["job"].n = th["job"].n
      /\ th'["ep"] = th["ep"]
      /\ ctx' = [ctx EXCEPT !.regs = 2]
      /\ sock' = [sock EXCEPT !.fall = @ + 1]
      /\ UNCHANGED <<prog, meta, reg, ev, net>>
  BY <1>0
     DEF AgainFall, Goto, At, jobRest, Types, Threads, Thread, JobPc, EpPc,
         InUpdate
<1>2. Types'
  BY <1>0, <1>1, <1>b
     DEF Types, Threads, Thread, JobPc, EpPc, InUpdate, JobNext, EpNext,
         Contexts, Sockets, Registrations, EventStates, Networks
<1>3. WordFits'
  BY <1>0, <1>1 DEF WordFits, Flags, SocketReady
<1>4. JobFits'
  BY <1>0, <1>1
     DEF JobFits, Registering, FirstPc, Towards, At, Flags, Types, Contexts,
         WordFits
<1>5. EpFits'
  BY <1>0, <1>1 DEF EpFits, Busy, BusyFits, Giving, Towards, At, Flags
<1>6. TimerFits'
  BY <1>0, <1>1 DEF TimerFits, Towards, At, Flags
<1>7. PendingFits'
  BY <1>0, <1>1 DEF PendingFits, Pending, Ahead, Towards, At, Flags
<1>8. RegFits'
  BY <1>0, <1>1 DEF RegFits, Towards, At, Flags
<1>9. FirstFits'
  BY <1>0, <1>1, <1>a DEF FirstFits, Flags
<1>10. NoSocket'
  BY <1>0, <1>1, <1>a DEF NoSocket, Flags
<1>11. FallFits'
  BY <1>0, <1>1, <1>a, <1>b
     DEF FallFits, FallCountsHolders, OneIf, Towards, At, Flags, Types,
         Sockets, Contexts, JobFits, Registering
<1>12. BytesFit'
  BY <1>0, <1>1 DEF BytesFit, BytesConserved, OneIf, At
<1>13. MetaFits'
  BY <1>0, <1>1
     DEF MetaFits, Alive, AvailableCountsReady, Pending, IsReady, Accessing,
         OneIf, Flags
<1> QED
  BY <1>2, <1>3, <1>4, <1>5, <1>6, <1>7, <1>8, <1>9, <1>10, <1>11, <1>12, <1>13
     DEF IndInv

\* The reference for a refused registration is dropped.
LEMMA AgainDropStep ==
  ASSUME Sound, IndInv, AgainDrop
  PROVE  IndInv'
<1>0. /\ Types /\ WordFits /\ JobFits /\ EpFits /\ TimerFits /\ PendingFits
      /\ RegFits /\ FirstFits /\ NoSocket /\ FallFits /\ BytesFit /\ MetaFits
  BY DEF IndInv
<1>a. /\ sock.alive /\ ~ctx.exit /\ ctx.regs > 0
      /\ "EPOLLNT" \notin Flags
  BY <1>0
     DEF AgainDrop, At, Towards, JobFits, NoSocket, WordFits, Flags,
         Registering, Types, Contexts
<1>b. sock.fall \in {2, 3}
  BY <1>0, <1>a
     DEF AgainDrop, FallFits, FallCountsHolders, OneIf, Towards, At, Types,
         Sockets
<1>c. /\ sock'.alive /\ sock'.fall = sock.fall - 1
      /\ sock'.htc = sock.htc /\ sock'.data = sock.data
      /\ sock' \in Sockets
  BY <1>0, <1>b, DroppedOne DEF AgainDrop, Types
<1>1. /\ th["job"].pc = "again_drop"
      /\ th' \in [{"job", "ep"} -> Thread]
      /\ th'["job"].pc = "done"
      /\ th'["job"].next = th["job"].next
      /\ th'["job"].delta = th["job"].delta
      /\ th'["job"].req = th["job"].req /\ th'["job"].n = th["job"].n
      /\ th'["ep"] = th["ep"]
      /\ UNCHANGED <<prog, meta, ctx, reg, ev, net>>
  BY <1>0
     DEF AgainDrop, Dropped, Goto, At, jobRest, Types, Threads, Thread, JobPc,
         EpPc, InUpdate
<1>2. Types'
  BY <1>0, <1>1, <1>c
     DEF Types, Threads, Thread, JobPc, EpPc, InUpdate, JobNext, EpNext,
         Contexts, Sockets, Registrations, EventStates, Networks
<1>3. WordFits'
  BY <1>0, <1>1, <1>c DEF WordFits, Flags, SocketReady
<1>4. JobFits'
  BY <1>0, <1>1, <1>c, ProgramFits
     DEF JobFits, Registering, FirstPc, Towards, At, Flags, Types, Contexts
<1>5. EpFits'
  BY <1>0, <1>1, <1>c DEF EpFits, Busy, BusyFits, Giving, Towards, At, Flags
<1>6. TimerFits'
  BY <1>0, <1>1, <1>c DEF TimerFits, Towards, At, Flags
<1>7. PendingFits'
  BY <1>0, <1>1, <1>c DEF PendingFits, Pending, Ahead, Towards, At, Flags
<1>8. RegFits'
  BY <1>0, <1>1, <1>c DEF RegFits, Towards, At, Flags
<1>9. FirstFits'
  BY <1>0, <1>1, <1>c DEF FirstFits, Flags
<1>10. NoSocket'
  BY <1>0, <1>1, <1>c DEF NoSocket, Flags
<1>11. FallFits'
  BY <1>0, <1>1, <1>a, <1>b, <1>c
     DEF FallFits, FallCountsHolders, OneIf, Towards, At, Flags, JobFits
<1>12. BytesFit'
  BY <1>0, <1>1, <1>c DEF BytesFit, BytesConserved, OneIf, At
<1>13. MetaFits'
  BY <1>0, <1>1, <1>c
     DEF MetaFits, Alive, AvailableCountsReady, Pending, IsReady, Accessing,
         OneIf, Flags
<1> QED
  BY <1>2, <1>3, <1>4, <1>5, <1>6, <1>7, <1>8, <1>9, <1>10, <1>11, <1>12, <1>13
     DEF IndInv

\* The job function begins.
LEMMA RunTestStep ==
  ASSUME Sound, IndInv, RunTest
  PROVE  IndInv'
<1>0. /\ Types /\ WordFits /\ JobFits /\ EpFits /\ TimerFits /\ PendingFits
      /\ RegFits /\ FirstFits /\ NoSocket /\ FallFits /\ BytesFit /\ MetaFits
  BY DEF IndInv
<1>1. /\ th["job"].pc = "run"
      /\ th' \in [{"job", "ep"} -> Thread]
      /\ th'["job"].pc = IF ctx.exit THEN "end"
                         
          ELSE IF prog.leaves # "dtor" /\ "DEAD" \in Flags THEN "done"
                          ELSE IF prog.timeouts THEN "run_timeout" ELSE "read"
      /\ th'["job"].next = th["job"].next
      /\ th'["job"].delta = th["job"].delta
      /\ th'["job"].req = th["job"].req /\ th'["job"].n = th["job"].n
      /\ th'["ep"] = th["ep"]
      /\ ctx' = [ctx EXCEPT !.reads = prog.reads]
      /\ UNCHANGED <<prog, meta, sock, reg, ev, net>>
  BY <1>0
     DEF RunTest, Goto, At, jobRest, Flags, Types, Threads, Thread, JobPc,
         EpPc, InUpdate
<1>2. Types'
  BY <1>0, <1>1, ProgramFits
     DEF Types, Threads, Thread, JobPc, EpPc, InUpdate, JobNext, EpNext,
         Contexts, Sockets, Registrations, EventStates, Networks
<1>3. WordFits'
  BY <1>0, <1>1 DEF WordFits, Flags, SocketReady
<1>4. JobFits'
  BY <1>0, <1>1, ProgramFits
     DEF JobFits, Registering, FirstPc, Towards, At, Flags, Types, Contexts,
         WordFits
<1>5. EpFits'
  BY <1>0, <1>1 DEF EpFits, Busy, BusyFits, Giving, Towards, At, Flags
<1>6. TimerFits'
  BY <1>0, <1>1 DEF TimerFits, Towards, At, Flags
<1>7. PendingFits'
  BY <1>0, <1>1 DEF PendingFits, Pending, Ahead, Towards, At, Flags
<1>8. RegFits'
  BY <1>0, <1>1 DEF RegFits, Towards, At, Flags
<1>9. FirstFits'
  BY <1>0, <1>1 DEF FirstFits, Flags
<1>10. NoSocket'
  BY <1>0, <1>1 DEF NoSocket, Flags
<1>11. FallFits'
  BY <1>0, <1>1 DEF FallFits, FallCountsHolders, OneIf, Towards, At, Flags
<1>12. BytesFit'
  BY <1>0, <1>1 DEF BytesFit, BytesConserved, OneIf, At
<1>13. MetaFits'
  BY <1>0, <1>1
     DEF MetaFits, Alive, AvailableCountsReady, Pending, IsReady, Accessing,
         OneIf, Flags
<1> QED
  BY <1>2, <1>3, <1>4, <1>5, <1>6, <1>7, <1>8, <1>9, <1>10, <1>11, <1>12, <1>13
     DEF IndInv

\* The job looks for a time-out.
LEMMA RunTimeoutStep ==
  ASSUME Sound, IndInv, RunTimeout
  PROVE  IndInv'
<1>0. /\ Types /\ WordFits /\ JobFits /\ EpFits /\ TimerFits /\ PendingFits
      /\ RegFits /\ FirstFits /\ NoSocket /\ FallFits /\ BytesFit /\ MetaFits
  BY DEF IndInv
<1>1. /\ th["job"].pc = "run_timeout"
      /\ th' \in [{"job", "ep"} -> Thread]
      /\ th'["job"].pc = IF "TIMEOUT" \in Flags THEN "again" ELSE "read"
      /\ th'["job"].next = th["job"].next
      /\ th'["job"].delta = th["job"].delta
      /\ th'["job"].req = th["job"].req /\ th'["job"].n = th["job"].n
      /\ th'["ep"] = th["ep"]
      /\ UNCHANGED <<prog, meta, ctx, sock, reg, ev, net>>
  BY <1>0
     DEF RunTimeout, Goto, At, jobRest, Flags, Types, Threads, Thread, JobPc,
         EpPc, InUpdate
<1>2. Types'
  BY <1>0, <1>1
     DEF Types, Threads, Thread, JobPc, EpPc, InUpdate, JobNext, EpNext,
         Contexts, Sockets, Registrations, EventStates, Networks
<1>3. WordFits'
  BY <1>0, <1>1 DEF WordFits, Flags, SocketReady
<1>4. JobFits'
  BY <1>0, <1>1
     DEF JobFits, Registering, FirstPc, Towards, At, Flags, Types, Contexts
<1>5. EpFits'
  BY <1>0, <1>1 DEF EpFits, Busy, BusyFits, Giving, Towards, At, Flags
<1>6. TimerFits'
  BY <1>0, <1>1 DEF TimerFits, Towards, At, Flags
<1>7. PendingFits'
  BY <1>0, <1>1 DEF PendingFits, Pending, Ahead, Towards, At, Flags
<1>8. RegFits'
  BY <1>0, <1>1 DEF RegFits, Towards, At, Flags
<1>9. FirstFits'
  BY <1>0, <1>1 DEF FirstFits, Flags
<1>10. NoSocket'
  BY <1>0, <1>1 DEF NoSocket, Flags
<1>11. FallFits'
  BY <1>0, <1>1 DEF FallFits, FallCountsHolders, OneIf, Towards, At, Flags
<1>12. BytesFit'
  BY <1>0, <1>1 DEF BytesFit, BytesConserved, OneIf, At
<1>13. MetaFits'
  BY <1>0, <1>1
     DEF MetaFits, Alive, AvailableCountsReady, Pending, IsReady, Accessing,
         OneIf, Flags
<1> QED
  BY <1>2, <1>3, <1>4, <1>5, <1>6, <1>7, <1>8, <1>9, <1>10, <1>11, <1>12, <1>13
     DEF IndInv

\* The job registers the socket again.
LEMMA AgainStep ==
  ASSUME Sound, IndInv, Again, "EPOLLDID" \in Flags
  PROVE  IndInv'
<1>0. /\ Types /\ WordFits /\ JobFits /\ EpFits /\ TimerFits /\ PendingFits
      /\ RegFits /\ FirstFits /\ NoSocket /\ FallFits /\ BytesFit /\ MetaFits
  BY DEF IndInv
<1>a. /\ th["job"].pc = "again" /\ "READY" \in Flags /\ Pending("ep") = 0
      /\ sock.alive /\ ~Busy /\ ~ctx.exit /\ ctx.regs > 0 /\ reg.set = {}
      /\ "DEAD" \notin Flags /\ "EPOLLNT" \notin Flags
      /\ ~net.closed /\ prog.timeouts
  BY <1>0
     DEF Again, At, JobFits, EpFits, BusyFits, NoSocket, PendingFits, Ahead,
         TimerFits, RegFits, WordFits, Types, Contexts
<1>r. sock.htc \in HtcWord /\ untimeout(sock.htc) \in HtcWord
  BY <1>0, Untimed DEF Types, Sockets
<1>s. PICK t \in {"job", "ep"}, l \in JobNext \cup EpNext, g \in HtcWord :
        /\ t = "job" /\ l = "again_fall" /\ g = untimeout(sock.htc)
        /\ CasHtc(t, g, l)
  BY <1>0, <1>r DEF Again, JobNext, EpNext, Flags
<1>t. OnlyCas(t, l) /\ sock'.htc = g
  BY <1>0, <1>s, CasDone
<1>u. /\ sock' \in Sockets /\ sock'.htc.count = sock.htc.count
      /\ sock'.alive = sock.alive /\ sock'.fall = sock.fall
      /\ sock'.data = sock.data
      /\ "EPOLLDID" \notin Flags' /\ "TIMEOUT" \notin Flags'
      /\ "READY" \in Flags' <=> SocketReady(Flags')
      /\ \A x \in {"READ_READY", "WRITE_READY", "DEAD", "EPOLLNT"} :
           x \in Flags' <=> x \in Flags
  BY <1>r, <1>s, <1>t, Untimed DEF OnlyCas, Flags, SocketFlag
<1>1. /\ th["job"].pc = "again"
      /\ th' \in [{"job", "ep"} -> Thread]
      /\ th'["job"].pc = "update"
      /\ th'["job"].next = "again_fall"
      /\ th'["job"].delta = (IF "READY" \in Flags' THEN 1 ELSE 0)
             - (IF "READY" \in Flags THEN 1 ELSE 0)
      /\ th'["job"].req = th["job"].req /\ th'["job"].n = th["job"].n
      /\ th'["ep"] = th["ep"]
      /\ UNCHANGED <<prog, meta, ctx, reg, ev, net>>
  BY <1>0, <1>s, <1>t
     DEF Again, OnlyCas, At, jobRest, epRest, Flags,
         Types, Threads, Thread, JobPc, EpPc, InUpdate
<1>2. Types'
  BY <1>0, <1>1, <1>a, <1>u
     DEF Types, Threads, Thread, JobPc, EpPc, InUpdate, JobNext, EpNext,
         Contexts, Sockets, Registrations, EventStates, Networks
<1>3. WordFits'
  BY <1>0, <1>1, <1>a, <1>u DEF WordFits, Flags, SocketReady
<1>4. JobFits'
  BY <1>0, <1>1, <1>a, <1>u
     DEF JobFits, Registering, FirstPc, Towards, At, Flags, Types, Contexts
<1>5. EpFits'
  BY <1>0, <1>1, <1>a, <1>u
     DEF EpFits, Busy, BusyFits, Giving, Towards, At, Flags
<1>6. TimerFits'
  BY <1>0, <1>1, <1>a, <1>u DEF TimerFits, Towards, At, Flags
<1>7. PendingFits'
  BY <1>0, <1>1, <1>a, <1>u DEF PendingFits, Pending, Ahead, Towards, At, Flags
<1>8. RegFits'
  BY <1>0, <1>1, <1>a, <1>u DEF RegFits, Towards, At, Flags
<1>9. FirstFits'
  BY <1>0, <1>1, <1>a, <1>u DEF FirstFits, Flags
<1>10. NoSocket'
  BY <1>0, <1>1, <1>a, <1>u DEF NoSocket, Flags
<1>11. FallFits'
  BY <1>0, <1>1, <1>a, <1>u
     DEF FallFits, FallCountsHolders, OneIf, Towards, At, Flags
<1>12. BytesFit'
  BY <1>0, <1>1, <1>a, <1>u DEF BytesFit, BytesConserved, OneIf, At
<1>13. MetaFits'
  BY <1>0, <1>1, <1>a, <1>u
     DEF MetaFits, Alive, AvailableCountsReady, Pending, IsReady, Accessing,
         OneIf, Flags, Types, Word
<1> QED
  BY <1>2, <1>3, <1>4, <1>5, <1>6, <1>7, <1>8, <1>9, <1>10, <1>11, <1>12, <1>13
     DEF IndInv

\* The socket cannot be registered again yet.
LEMMA AgainOffStep ==
  ASSUME Sound, IndInv, Again, "EPOLLDID" \notin Flags
  PROVE  IndInv'
<1>0. /\ Types /\ WordFits /\ JobFits /\ EpFits /\ TimerFits /\ PendingFits
      /\ RegFits /\ FirstFits /\ NoSocket /\ FallFits /\ BytesFit /\ MetaFits
  BY DEF IndInv
<1>1. /\ th["job"].pc = "again"
      /\ th' \in [{"job", "ep"} -> Thread]
      /\ th'["job"].pc = "done"
      /\ th'["job"].next = th["job"].next
      /\ th'["job"].delta = th["job"].delta
      /\ th'["job"].req = th["job"].req /\ th'["job"].n = th["job"].n
      /\ th'["ep"] = th["ep"]
      /\ UNCHANGED <<prog, meta, ctx, sock, reg, ev, net>>
  BY <1>0
     DEF Again, Goto, At, jobRest, Flags, Types, Threads, Thread, JobPc, EpPc,
         InUpdate
<1>2. Types'
  BY <1>0, <1>1
     DEF Types, Threads, Thread, JobPc, EpPc, InUpdate, JobNext, EpNext,
         Contexts, Sockets, Registrations, EventStates, Networks
<1>3. WordFits'
  BY <1>0, <1>1 DEF WordFits, Flags, SocketReady
<1>4. JobFits'
  BY <1>0, <1>1, ProgramFits
     DEF JobFits, Registering, FirstPc, Towards, At, Flags, Types, Contexts,
         WordFits
<1>5. EpFits'
  BY <1>0, <1>1 DEF EpFits, Busy, BusyFits, Giving, Towards, At, Flags
<1>6. TimerFits'
  BY <1>0, <1>1 DEF TimerFits, Towards, At, Flags
<1>7. PendingFits'
  BY <1>0, <1>1 DEF PendingFits, Pending, Ahead, Towards, At, Flags
<1>8. RegFits'
  BY <1>0, <1>1 DEF RegFits, Towards, At, Flags
<1>9. FirstFits'
  BY <1>0, <1>1 DEF FirstFits, Flags
<1>10. NoSocket'
  BY <1>0, <1>1 DEF NoSocket, Flags
<1>11. FallFits'
  BY <1>0, <1>1 DEF FallFits, FallCountsHolders, OneIf, Towards, At, Flags
<1>12. BytesFit'
  BY <1>0, <1>1 DEF BytesFit, BytesConserved, OneIf, At
<1>13. MetaFits'
  BY <1>0, <1>1
     DEF MetaFits, Alive, AvailableCountsReady, Pending, IsReady, Accessing,
         OneIf, Flags
<1> QED
  BY <1>2, <1>3, <1>4, <1>5, <1>6, <1>7, <1>8, <1>9, <1>10, <1>11, <1>12, <1>13
     DEF IndInv

\* The job copies what it reads.
LEMMA ReadStep ==
  ASSUME Sound, IndInv, Read
  PROVE  IndInv'
<1>0. /\ Types /\ WordFits /\ JobFits /\ EpFits /\ TimerFits /\ PendingFits
      /\ RegFits /\ FirstFits /\ NoSocket /\ FallFits /\ BytesFit /\ MetaFits
  BY DEF IndInv
<1>a. sock.htc.count \in Nat /\ ReadCond \in Nat
  BY <1>0, ProgramFits DEF Types, Sockets, HtcWord
<1>b. PICK n \in Nat :
        /\ n <= sock.htc.count
        /\ n = IF sock.htc.count < ReadCond THEN sock.htc.count ELSE ReadCond
  <2>1. CASE sock.htc.count < ReadCond
    BY <2>1, <1>a
  <2>2. CASE ~(sock.htc.count < ReadCond)
    <3>1. ReadCond <= sock.htc.count
      BY <2>2, <1>a
    <3> QED
      BY <3>1, <2>2, <1>a
  <2> QED
    BY <2>1, <2>2
<1>c. /\ th["job"].pc = "read"
      /\ th' = [th EXCEPT !["job"].pc = "read_add", !["job"].n = n]
      /\ ctx' = [ctx EXCEPT !.got = @ + n]
      /\ UNCHANGED <<prog, meta, sock, reg, ev, net>>
  BY <1>b DEF Read, At, jobRest
<1>d. PICK t \in {"job", "ep"}, l \in JobPc \cup EpPc :
        t = "job" /\ l = "read_add" /\ th' = [th EXCEPT ![t].pc = l, ![t].n = n]
  BY <1>c DEF JobPc
<1>e. /\ th' \in [{"job", "ep"} -> Thread]
      /\ th'[t].pc = l /\ th'[t].next = th[t].next
      /\ th'[t].delta = th[t].delta /\ th'[t].req = th[t].req /\ th'[t].n = n
      /\ \A u \in {"job", "ep"} : u # t => th'[u] = th[u]
  <2>1. th \in [{"job", "ep"} -> Thread]
    BY <1>0 DEF Types, Threads
  <2> QED
    BY <2>1, <1>d, ThreadBytes, ZenonT(60)
<1>1. /\ th["job"].pc = "read"
      /\ th' \in [{"job", "ep"} -> Thread]
      /\ th'["job"].pc = "read_add"
      /\ th'["job"].next = th["job"].next
      /\ th'["job"].delta = th["job"].delta
      /\ th'["job"].req = th["job"].req /\ th'["job"].n = n
      /\ th'["ep"] = th["ep"]
      /\ ctx' = [ctx EXCEPT !.got = @ + n]
      /\ UNCHANGED <<prog, meta, sock, reg, ev, net>>
  BY <1>0, <1>c, <1>d, <1>e
     DEF Read, Types, Threads, Thread, JobPc, EpPc, InUpdate
<1>2. Types'
  BY <1>0, <1>1, <1>b
     DEF Types, Threads, Thread, JobPc, EpPc, InUpdate, JobNext, EpNext,
         Contexts, Sockets, Registrations, EventStates, Networks
<1>3. WordFits'
  BY <1>0, <1>1 DEF WordFits, Flags, SocketReady
<1>4. JobFits'
  BY <1>0, <1>1
     DEF JobFits, Registering, FirstPc, Towards, At, Flags, Types, Contexts
<1>5. EpFits'
  BY <1>0, <1>1 DEF EpFits, Busy, BusyFits, Giving, Towards, At, Flags
<1>6. TimerFits'
  BY <1>0, <1>1 DEF TimerFits, Towards, At, Flags
<1>7. PendingFits'
  BY <1>0, <1>1 DEF PendingFits, Pending, Ahead, Towards, At, Flags
<1>8. RegFits'
  BY <1>0, <1>1 DEF RegFits, Towards, At, Flags
<1>9. FirstFits'
  BY <1>0, <1>1 DEF FirstFits, Flags
<1>10. NoSocket'
  BY <1>0, <1>1 DEF NoSocket, Flags
<1>11. FallFits'
  BY <1>0, <1>1 DEF FallFits, FallCountsHolders, OneIf, Towards, At, Flags
<1>12. BytesFit'
  BY <1>0, <1>1, <1>a, <1>b
     DEF BytesFit, BytesConserved, OneIf, At, Types, Contexts, Networks,
         Threads, Thread
<1>13. MetaFits'
  BY <1>0, <1>1
     DEF MetaFits, Alive, AvailableCountsReady, Pending, IsReady, Accessing,
         OneIf, Flags
<1> QED
  BY <1>2, <1>3, <1>4, <1>5, <1>6, <1>7, <1>8, <1>9, <1>10, <1>11, <1>12, <1>13
     DEF IndInv

\* The bytes read are taken from the count.
LEMMA ReadAddStep ==
  ASSUME Sound, IndInv, ReadAdd
  PROVE  IndInv'
<1>0. /\ Types /\ WordFits /\ JobFits /\ EpFits /\ TimerFits /\ PendingFits
      /\ RegFits /\ FirstFits /\ NoSocket /\ FallFits /\ BytesFit /\ MetaFits
  BY DEF IndInv
<1>a. /\ th["job"].pc = "read_add" /\ "READY" \in Flags /\ Pending("ep") = 0
      /\ "TIMEOUT" \notin Flags /\ ~ctx.exit /\ "EPOLLNT" \notin Flags
  BY <1>0 DEF ReadAdd, At, JobFits, PendingFits, Ahead, WordFits
<1>b. /\ th["job"].n \in Nat /\ sock.htc.count \in 0 .. BufferSize
      /\ th["job"].n <= sock.htc.count /\ BufferSize \in Nat
  BY <1>0, <1>a, ProgramFits
     DEF BytesFit, Types, Threads, Thread, Sockets, HtcWord
<1>c. /\ -th["job"].n \in Int
      /\ sock.htc.count + (-th["job"].n) \in 0 .. BufferSize
  BY <1>b
<1>s. PICK t \in {"job", "ep"}, l \in JobNext \cup EpNext, d \in Int :
        /\ t = "job" /\ l = "read_end" /\ d = -th["job"].n /\ CasCount(t, d, l)
        /\ sock.htc.count + d \in 0 .. BufferSize
  BY <1>0, <1>c DEF ReadAdd, JobNext, EpNext
<1>t. /\ OnlyCas(t, l) /\ sock'.htc.count = sock.htc.count + d
      /\ "READ_READY" \in Flags' <=> sock'.htc.count >= ReadCond
      /\ "READY" \in Flags' <=> SocketReady(Flags')
      /\ \A x \in {"WRITE_READY", "DEAD", "EPOLLNT", "EPOLLDID", "TIMEOUT"} :
           x \in Flags' <=> x \in Flags
  BY <1>0, <1>a, <1>s, CountDone
<1>g. th["job"].n = 0 => "READY" \in Flags'
  BY <1>0, <1>a, <1>b, <1>s, <1>t DEF WordFits, SocketReady
<1>1. /\ th["job"].pc = "read_add"
      /\ th' \in [{"job", "ep"} -> Thread]
      /\ th'["job"].pc = "update"
      /\ th'["job"].next = "read_end"
      /\ th'["job"].delta = (IF "READY" \in Flags' THEN 1 ELSE 0)
             - (IF "READY" \in Flags THEN 1 ELSE 0)
      /\ th'["job"].req = th["job"].req /\ th'["job"].n = th["job"].n
      /\ th'["ep"] = th["ep"]
      /\ sock' \in Sockets /\ sock'.htc.count = sock.htc.count - th["job"].n
      /\ sock'.alive = sock.alive /\ sock'.fall = sock.fall
      /\ sock'.data = sock.data
      /\ UNCHANGED <<prog, meta, ctx, reg, ev, net>>
  BY <1>0, <1>b, <1>s, <1>t
     DEF ReadAdd, OnlyCas, At, jobRest, Types, Threads, Thread, JobPc, EpPc,
         InUpdate
<1>2. Types'
  BY <1>0, <1>1
     DEF Types, Threads, Thread, JobPc, EpPc, InUpdate, JobNext, EpNext,
         Contexts, Sockets, Registrations, EventStates, Networks
<1>3. WordFits'
  BY <1>0, <1>1, <1>a, <1>t DEF WordFits, Flags, SocketReady
<1>4. JobFits'
  BY <1>0, <1>1, <1>a, <1>t
     DEF JobFits, Registering, FirstPc, Towards, At, Flags, Types, Contexts
<1>5. EpFits'
  BY <1>0, <1>1, <1>a, <1>t
     DEF EpFits, Busy, BusyFits, Giving, Towards, At, Flags
<1>6. TimerFits'
  BY <1>0, <1>1, <1>a, <1>t DEF TimerFits, Towards, At, Flags
<1>7. PendingFits'
  BY <1>0, <1>1, <1>a, <1>t, <1>b, <1>g
     DEF PendingFits, Pending, Ahead, Towards, At, Flags
<1>8. RegFits'
  BY <1>0, <1>1, <1>a, <1>t DEF RegFits, Towards, At, Flags
<1>9. FirstFits'
  BY <1>0, <1>1, <1>a, <1>t DEF FirstFits, Flags, JobFits
<1>10. NoSocket'
  BY <1>0, <1>1, <1>a, <1>t DEF NoSocket, Flags
<1>11. FallFits'
  BY <1>0, <1>1, <1>a, <1>t
     DEF FallFits, FallCountsHolders, OneIf, Towards, At, Flags
<1>12. BytesFit'
  BY <1>0, <1>1, <1>a, <1>b
     DEF BytesFit, BytesConserved, OneIf, At, Types, Contexts, Networks,
         Threads, Thread
<1>13. MetaFits'
  BY <1>0, <1>1, <1>a, <1>t
     DEF MetaFits, Alive, AvailableCountsReady, Pending, IsReady, Accessing,
         OneIf, Flags, Types, Word
<1> QED
  BY <1>2, <1>3, <1>4, <1>5, <1>6, <1>7, <1>8, <1>9, <1>10, <1>11, <1>12, <1>13
     DEF IndInv

\* The read is over.
LEMMA ReadEndStep ==
  ASSUME Sound, IndInv, ReadEnd
  PROVE  IndInv'
<1>0. /\ Types /\ WordFits /\ JobFits /\ EpFits /\ TimerFits /\ PendingFits
      /\ RegFits /\ FirstFits /\ NoSocket /\ FallFits /\ BytesFit /\ MetaFits
  BY DEF IndInv
<1>a. ctx.reads <= 1 /\ ctx.reads \in Int /\ prog.leaves # "early"
  BY <1>0, ProgramFits DEF JobFits, Types, Contexts
<1>1. /\ th["job"].pc = "read_end"
      /\ th' \in [{"job", "ep"} -> Thread]
      /\ th'["job"].pc = IF th["job"].n = 0 /\ "DEAD" \in Flags
                          THEN IF prog.leaves = "dtor" THEN "end" ELSE "done"
                          ELSE "return"
      /\ th'["job"].next = th["job"].next
      /\ th'["job"].delta = th["job"].delta
      /\ th'["job"].req = th["job"].req /\ th'["job"].n = th["job"].n
      /\ th'["ep"] = th["ep"]
      /\ ctx' = [ctx EXCEPT !.reads = @ - 1]
      /\ UNCHANGED <<prog, meta, sock, reg, ev, net>>
  BY <1>0, <1>a
     DEF ReadEnd, Goto, At, jobRest, Flags, Types, Threads, Thread, JobPc,
         EpPc, InUpdate
<1>2. Types'
  BY <1>0, <1>1, <1>a
     DEF Types, Threads, Thread, JobPc, EpPc, InUpdate, JobNext, EpNext,
         Contexts, Sockets, Registrations, EventStates, Networks
<1>3. WordFits'
  BY <1>0, <1>1 DEF WordFits, Flags, SocketReady
<1>4. JobFits'
  BY <1>0, <1>1, <1>a
     DEF JobFits, Registering, FirstPc, Towards, At, Flags, Types, Contexts,
         WordFits
<1>5. EpFits'
  BY <1>0, <1>1 DEF EpFits, Busy, BusyFits, Giving, Towards, At, Flags
<1>6. TimerFits'
  BY <1>0, <1>1 DEF TimerFits, Towards, At, Flags
<1>7. PendingFits'
  BY <1>0, <1>1 DEF PendingFits, Pending, Ahead, Towards, At, Flags
<1>8. RegFits'
  BY <1>0, <1>1 DEF RegFits, Towards, At, Flags
<1>9. FirstFits'
  BY <1>0, <1>1 DEF FirstFits, Flags
<1>10. NoSocket'
  BY <1>0, <1>1 DEF NoSocket, Flags
<1>11. FallFits'
  BY <1>0, <1>1 DEF FallFits, FallCountsHolders, OneIf, Towards, At, Flags
<1>12. BytesFit'
  BY <1>0, <1>1 DEF BytesFit, BytesConserved, OneIf, At
<1>13. MetaFits'
  BY <1>0, <1>1
     DEF MetaFits, Alive, AvailableCountsReady, Pending, IsReady, Accessing,
         OneIf, Flags
<1> QED
  BY <1>2, <1>3, <1>4, <1>5, <1>6, <1>7, <1>8, <1>9, <1>10, <1>11, <1>12, <1>13
     DEF IndInv

-----------------------------------------------------------------------------
(* The worker around it, and giving up the socket *)

\* The job gives up the socket.
LEMMA DoneStep ==
  ASSUME Sound, IndInv, Done
  PROVE  IndInv'
<1>0. /\ Types /\ WordFits /\ JobFits /\ EpFits /\ TimerFits /\ PendingFits
      /\ RegFits /\ FirstFits /\ NoSocket /\ FallFits /\ BytesFit /\ MetaFits
  BY DEF IndInv
<1>a. /\ th["job"].pc = "done" /\ "READY" \in Flags /\ Pending("ep") = 0
      /\ sock.alive /\ ~ctx.exit /\ ctx.regs > 0 /\ "EPOLLNT" \notin Flags
      /\ "EPOLLDID" \in Flags \/ Giving
  BY <1>0
     DEF Done, At, JobFits, EpFits, NoSocket, PendingFits, Ahead, WordFits,
         Types, Contexts, Flags
<1>r. sock.htc \in HtcWord /\ done_cas_jobside(sock.htc) \in HtcWord
  BY <1>0, WordStored DEF Types, Sockets
<1>s. PICK t \in {"job", "ep"}, l \in JobNext \cup EpNext, g \in HtcWord :
        /\ t = "job" /\ l = "drop" /\ g = done_cas_jobside(sock.htc)
        /\ CasHtc(t, g, l)
  BY <1>0, <1>r DEF Done, JobNext, EpNext
<1>t. OnlyCas(t, l) /\ sock'.htc = g
  BY <1>0, <1>s, CasDone
<1>e. ctx' \in Contexts
  BY <1>0 DEF Done, Types, Contexts
<1>u. /\ sock' \in Sockets /\ sock'.htc.count = sock.htc.count
      /\ sock'.alive = sock.alive /\ sock'.fall = sock.fall
      /\ sock'.data = sock.data
      /\ Flags' = (Flags \ (IF "EPOLLDID" \in Flags THEN {} ELSE {"READY"}))
             \cup {"EPOLLNT"}
  BY <1>r, <1>s, <1>t, WordStored DEF OnlyCas, Flags, SocketFlag
<1>1. /\ th["job"].pc = "done"
      /\ th' \in [{"job", "ep"} -> Thread]
      /\ th'["job"].pc = "update"
      /\ th'["job"].next = "drop"
      /\ th'["job"].delta = (IF "READY" \in Flags' THEN 1 ELSE 0)
             - (IF "READY" \in Flags THEN 1 ELSE 0)
      /\ th'["job"].req = th["job"].req /\ th'["job"].n = th["job"].n
      /\ th'["ep"] = th["ep"]
      /\ UNCHANGED <<prog, meta, reg, ev, net>>
      /\ ctx' = [ctx EXCEPT !.exit = TRUE]
  BY <1>0, <1>s, <1>t
     DEF Done, OnlyCas, At, jobRest, epRest, Types, Threads, Thread, JobPc,
         EpPc, InUpdate
<1>2. Types'
  BY <1>0, <1>1, <1>u, <1>e
     DEF Types, Threads, Thread, JobPc, EpPc, InUpdate, JobNext, EpNext,
         Contexts, Sockets, Registrations, EventStates, Networks
<1>3. WordFits'
  BY <1>0, <1>1, <1>a, <1>u DEF WordFits, Flags, SocketReady
<1>4. JobFits'
  BY <1>0, <1>1, <1>a, <1>u
     DEF JobFits, Registering, FirstPc, Towards, At, Flags, Types, Contexts
<1>5. EpFits'
  BY <1>0, <1>1, <1>a, <1>u
     DEF EpFits, Busy, BusyFits, Giving, Towards, At, Flags
<1>6. TimerFits'
  BY <1>0, <1>1, <1>a, <1>u DEF TimerFits, Towards, At, Flags
<1>7. PendingFits'
  BY <1>0, <1>1, <1>a, <1>u DEF PendingFits, Pending, Ahead, Towards, At, Flags
<1>8. RegFits'
  BY <1>0, <1>1, <1>a, <1>u DEF RegFits, Towards, At, Flags
<1>9. FirstFits'
  BY <1>0, <1>1, <1>a, <1>u DEF FirstFits, Flags
<1>10. NoSocket'
  BY <1>0, <1>1, <1>a, <1>u DEF NoSocket, Flags
<1>11. FallFits'
  BY <1>0, <1>1, <1>a, <1>u
     DEF FallFits, FallCountsHolders, OneIf, Towards, At, Flags
<1>12. BytesFit'
  BY <1>0, <1>1, <1>a, <1>u DEF BytesFit, BytesConserved, OneIf, At
<1>13. MetaFits'
  BY <1>0, <1>1, <1>a, <1>u
     DEF MetaFits, Alive, AvailableCountsReady, Pending, IsReady, Accessing,
         OneIf, Flags, Types, Word
<1> QED
  BY <1>2, <1>3, <1>4, <1>5, <1>6, <1>7, <1>8, <1>9, <1>10, <1>11, <1>12, <1>13
     DEF IndInv

\* The job drops its reference.
LEMMA JobDropStep ==
  ASSUME Sound, IndInv, JobDrop
  PROVE  IndInv'
<1>0. /\ Types /\ WordFits /\ JobFits /\ EpFits /\ TimerFits /\ PendingFits
      /\ RegFits /\ FirstFits /\ NoSocket /\ FallFits /\ BytesFit /\ MetaFits
  BY DEF IndInv
<1>a. th["job"].pc = "drop" /\ ctx.exit /\ ctx.regs > 0
  BY <1>0 DEF JobDrop, Drop, At, JobFits, Towards, Types, Contexts
<1>b. sock.fall > 0
  BY <1>0, <1>a DEF FallFits, FallCountsHolders, OneIf, Towards, At
<1>d. PICK t : sock' = Dropped(t)
  BY DEF JobDrop, Drop
<1>c. /\ sock' \in Sockets /\ sock'.fall = sock.fall - 1
      /\ sock'.alive <=> sock.fall # 1
      /\ sock'.htc = sock.htc /\ sock'.data = sock.data
  BY <1>0, <1>b, <1>d, DroppedOne DEF Types
<1>1. /\ th["job"].pc = "drop"
      /\ th' \in [{"job", "ep"} -> Thread]
      /\ th'["job"].pc = IF ctx.gen = 1 THEN "close" ELSE "return"
      /\ th'["job"].next = th["job"].next
      /\ th'["job"].delta = th["job"].delta
      /\ th'["job"].req = th["job"].req /\ th'["job"].n = th["job"].n
      /\ th'["ep"] = th["ep"]
      /\ UNCHANGED <<prog, meta, ctx, reg, ev, net>>
  BY <1>0
     DEF JobDrop, Drop, Goto, At, Types, Threads, Thread, JobPc, EpPc, InUpdate
<1>2. Types'
  BY <1>0, <1>1, <1>a, <1>c
     DEF Types, Threads, Thread, JobPc, EpPc, InUpdate, JobNext, EpNext,
         Contexts, Sockets, Registrations, EventStates, Networks
<1>3. WordFits'
  BY <1>0, <1>1, <1>a, <1>c DEF WordFits, Flags, SocketReady
<1>4. JobFits'
  BY <1>0, <1>1, <1>a, <1>c
     DEF JobFits, Registering, FirstPc, Towards, At, Flags, Types, Contexts
<1>5. EpFits'
  BY <1>0, <1>1, <1>a, <1>c
     DEF EpFits, Busy, BusyFits, Giving, Towards, At, Flags
<1>6. TimerFits'
  BY <1>0, <1>1, <1>a, <1>c DEF TimerFits, Towards, At, Flags
<1>7. PendingFits'
  BY <1>0, <1>1, <1>a, <1>c DEF PendingFits, Pending, Ahead, Towards, At, Flags
<1>8. RegFits'
  BY <1>0, <1>1, <1>a, <1>c DEF RegFits, Towards, At, Flags
<1>9. FirstFits'
  BY <1>0, <1>1, <1>a, <1>c DEF FirstFits, Flags
<1>10. NoSocket'
  BY <1>0, <1>1, <1>a, <1>c DEF NoSocket, Flags
<1>11. FallFits'
  BY <1>0, <1>1, <1>a, <1>b, <1>c
     DEF FallFits, FallCountsHolders, OneIf, Towards, At, Flags, Types, Sockets
<1>12. BytesFit'
  BY <1>0, <1>1, <1>a, <1>c DEF BytesFit, BytesConserved, OneIf, At
<1>13. MetaFits'
  BY <1>0, <1>1, <1>a, <1>c
     DEF MetaFits, Alive, AvailableCountsReady, Pending, IsReady, Accessing,
         OneIf, Flags
<1> QED
  BY <1>2, <1>3, <1>4, <1>5, <1>6, <1>7, <1>8, <1>9, <1>10, <1>11, <1>12, <1>13
     DEF IndInv

\* The job function returns.
LEMMA ReturnStep ==
  ASSUME Sound, IndInv, Return
  PROVE  IndInv'
<1>0. /\ Types /\ WordFits /\ JobFits /\ EpFits /\ TimerFits /\ PendingFits
      /\ RegFits /\ FirstFits /\ NoSocket /\ FallFits /\ BytesFit /\ MetaFits
  BY DEF IndInv
<1>b. PICK F \in SUBSET Flag : F = {"EXECUTING"}
  BY DEF Flag, Derived
<1>f. PICK B, a : meta' = unmark_or(meta, F, B)
  BY <1>b DEF Return
<1>g. PICK m \in Word : m = meta
  BY <1>0 DEF Types
<1>e. PICK g : g = meta' /\ g = unmark_or(m, F, B)
  BY <1>f, <1>g
<1>d. /\ g \in Word /\ g.access = m.access /\ g.avsock = m.avsock
      /\ g.wait = m.wait /\ g.avjobs = m.avjobs
      /\ \A x : x \notin F => (x \in g.flags <=> x \in m.flags)
  BY <1>e, Unmarked, ZenonT(60)
<1>c. /\ meta' \in Word /\ meta'.access = meta.access
      /\ meta'.avsock = meta.avsock
      /\ meta'.wait = meta.wait /\ meta'.avjobs = meta.avjobs
      /\ \A x \in {"UNSTABLE", "WLLDESTROY", "READYBASIC", "READYEPOLLSOCK",
               "READYEPOLLTOOL", "READYJOB"} :
           x \in meta'.flags <=> x \in meta.flags
  BY <1>b, <1>d, <1>e, <1>g
<1>1. /\ th["job"].pc = "return"
      /\ th' \in [{"job", "ep"} -> Thread]
      /\ th'["job"].pc = "basic"
      /\ th'["job"].next = th["job"].next
      /\ th'["job"].delta = th["job"].delta
      /\ th'["job"].req = th["job"].req /\ th'["job"].n = th["job"].n
      /\ th'["ep"] = th["ep"]
      /\ UNCHANGED <<prog, ctx, sock, reg, ev, net>>
  BY <1>0
     DEF Return, Goto, At, jobRest, Types, Threads, Thread, JobPc, EpPc,
         InUpdate
<1>2. Types'
  BY <1>0, <1>1, <1>c
     DEF Types, Threads, Thread, JobPc, EpPc, InUpdate, JobNext, EpNext,
         Contexts, Sockets, Registrations, EventStates, Networks
<1>3. WordFits'
  BY <1>0, <1>1 DEF WordFits, Flags, SocketReady
<1>4. JobFits'
  BY <1>0, <1>1
     DEF JobFits, Registering, FirstPc, Towards, At, Flags, Types, Contexts
<1>5. EpFits'
  BY <1>0, <1>1 DEF EpFits, Busy, BusyFits, Giving, Towards, At, Flags
<1>6. TimerFits'
  BY <1>0, <1>1 DEF TimerFits, Towards, At, Flags
<1>7. PendingFits'
  BY <1>0, <1>1 DEF PendingFits, Pending, Ahead, Towards, At, Flags
<1>8. RegFits'
  BY <1>0, <1>1 DEF RegFits, Towards, At, Flags
<1>9. FirstFits'
  BY <1>0, <1>1 DEF FirstFits, Flags
<1>10. NoSocket'
  BY <1>0, <1>1 DEF NoSocket, Flags
<1>11. FallFits'
  BY <1>0, <1>1 DEF FallFits, FallCountsHolders, OneIf, Towards, At, Flags
<1>12. BytesFit'
  BY <1>0, <1>1 DEF BytesFit, BytesConserved, OneIf, At
<1>13. MetaFits'
  BY <1>0, <1>1, <1>c
     DEF MetaFits, Alive, AvailableCountsReady, Pending, IsReady, Accessing,
         OneIf, Flags
<1> QED
  BY <1>2, <1>3, <1>4, <1>5, <1>6, <1>7, <1>8, <1>9, <1>10, <1>11, <1>12, <1>13
     DEF IndInv

\* The worker marks the job ready.
LEMMA SetReadyStep ==
  ASSUME Sound, IndInv, SetReady
  PROVE  IndInv'
<1>0. /\ Types /\ WordFits /\ JobFits /\ EpFits /\ TimerFits /\ PendingFits
      /\ RegFits /\ FirstFits /\ NoSocket /\ FallFits /\ BytesFit /\ MetaFits
  BY DEF IndInv
<1>b. PICK F \in SUBSET Flag : F = {"READY"}
  BY DEF Flag, Derived
<1>f. PICK B, a : meta' = mark_or(meta, F, B, a)
  BY <1>b DEF SetReady, MarkReady
<1>g. PICK m \in Word : m = meta
  BY <1>0 DEF Types
<1>e. PICK g : g = meta' /\ g = mark_or(m, F, B, a)
  BY <1>f, <1>g
<1>d. /\ g \in Word /\ g.access = m.access /\ g.avsock = m.avsock
      /\ g.wait = m.wait /\ g.avjobs = m.avjobs
      /\ \A x : x \notin F => (x \in g.flags <=> x \in m.flags)
  BY <1>e, Marked, ZenonT(60)
<1>c. /\ meta' \in Word /\ meta'.access = meta.access
      /\ meta'.avsock = meta.avsock
      /\ meta'.wait = meta.wait /\ meta'.avjobs = meta.avjobs
      /\ \A x \in {"UNSTABLE", "WLLDESTROY", "READYBASIC", "READYEPOLLSOCK",
               "READYEPOLLTOOL", "READYJOB"} :
           x \in meta'.flags <=> x \in meta.flags
  BY <1>b, <1>d, <1>e, <1>g
<1>1. /\ th["job"].pc = "mark_ready"
      /\ th' \in [{"job", "ep"} -> Thread]
      /\ th'["job"].pc = "cached"
      /\ th'["job"].next = th["job"].next
      /\ th'["job"].delta = th["job"].delta
      /\ th'["job"].req = th["job"].req /\ th'["job"].n = th["job"].n
      /\ th'["ep"] = th["ep"]
      /\ UNCHANGED <<prog, ctx, sock, reg, ev, net>>
  BY <1>0
     DEF SetReady, Goto, At, jobRest, Types, Threads, Thread, JobPc, EpPc,
         InUpdate
<1>2. Types'
  BY <1>0, <1>1, <1>c
     DEF Types, Threads, Thread, JobPc, EpPc, InUpdate, JobNext, EpNext,
         Contexts, Sockets, Registrations, EventStates, Networks
<1>3. WordFits'
  BY <1>0, <1>1 DEF WordFits, Flags, SocketReady
<1>4. JobFits'
  BY <1>0, <1>1
     DEF JobFits, Registering, FirstPc, Towards, At, Flags, Types, Contexts
<1>5. EpFits'
  BY <1>0, <1>1 DEF EpFits, Busy, BusyFits, Giving, Towards, At, Flags
<1>6. TimerFits'
  BY <1>0, <1>1 DEF TimerFits, Towards, At, Flags
<1>7. PendingFits'
  BY <1>0, <1>1 DEF PendingFits, Pending, Ahead, Towards, At, Flags
<1>8. RegFits'
  BY <1>0, <1>1 DEF RegFits, Towards, At, Flags
<1>9. FirstFits'
  BY <1>0, <1>1 DEF FirstFits, Flags
<1>10. NoSocket'
  BY <1>0, <1>1 DEF NoSocket, Flags
<1>11. FallFits'
  BY <1>0, <1>1 DEF FallFits, FallCountsHolders, OneIf, Towards, At, Flags
<1>12. BytesFit'
  BY <1>0, <1>1 DEF BytesFit, BytesConserved, OneIf, At
<1>13. MetaFits'
  BY <1>0, <1>1, <1>c
     DEF MetaFits, Alive, AvailableCountsReady, Pending, IsReady, Accessing,
         OneIf, Flags
<1> QED
  BY <1>2, <1>3, <1>4, <1>5, <1>6, <1>7, <1>8, <1>9, <1>10, <1>11, <1>12, <1>13
     DEF IndInv

\* A worker begins to run the job.
LEMMA PickAndRunStep ==
  ASSUME Sound, IndInv, PickAndRun
  PROVE  IndInv'
<1>0. /\ Types /\ WordFits /\ JobFits /\ EpFits /\ TimerFits /\ PendingFits
      /\ RegFits /\ FirstFits /\ NoSocket /\ FallFits /\ BytesFit /\ MetaFits
  BY DEF IndInv
<1>c. /\ meta' \in Word /\ meta'.access = meta.access
      /\ meta'.avsock = meta.avsock
      /\ meta'.wait = meta.wait /\ meta'.avjobs = meta.avjobs
      /\ "READYBASIC" \notin meta'.flags
      /\ \A x \in {"UNSTABLE", "WLLDESTROY", "READYEPOLLSOCK", "READYEPOLLTOOL",
               "READYJOB"} : x \in meta'.flags <=> x \in meta.flags
  BY <1>0 DEF PickAndRun, Types, Word, Flag, Derived
<1>1. /\ th["job"].pc = "cached"
      /\ th' \in [{"job", "ep"} -> Thread]
      /\ th'["job"].pc = "run"
      /\ th'["job"].next = th["job"].next
      /\ th'["job"].delta = th["job"].delta
      /\ th'["job"].req = th["job"].req /\ th'["job"].n = th["job"].n
      /\ th'["ep"] = th["ep"]
      /\ UNCHANGED <<prog, ctx, sock, reg, ev, net>>
  BY <1>0
     DEF PickAndRun, Goto, At, jobRest, Types, Threads, Thread, JobPc, EpPc,
         InUpdate
<1>2. Types'
  BY <1>0, <1>1, <1>c
     DEF Types, Threads, Thread, JobPc, EpPc, InUpdate, JobNext, EpNext,
         Contexts, Sockets, Registrations, EventStates, Networks
<1>3. WordFits'
  BY <1>0, <1>1 DEF WordFits, Flags, SocketReady
<1>4. JobFits'
  BY <1>0, <1>1
     DEF JobFits, Registering, FirstPc, Towards, At, Flags, Types, Contexts
<1>5. EpFits'
  BY <1>0, <1>1 DEF EpFits, Busy, BusyFits, Giving, Towards, At, Flags
<1>6. TimerFits'
  BY <1>0, <1>1 DEF TimerFits, Towards, At, Flags
<1>7. PendingFits'
  BY <1>0, <1>1 DEF PendingFits, Pending, Ahead, Towards, At, Flags
<1>8. RegFits'
  BY <1>0, <1>1 DEF RegFits, Towards, At, Flags
<1>9. FirstFits'
  BY <1>0, <1>1 DEF FirstFits, Flags
<1>10. NoSocket'
  BY <1>0, <1>1 DEF NoSocket, Flags
<1>11. FallFits'
  BY <1>0, <1>1 DEF FallFits, FallCountsHolders, OneIf, Towards, At, Flags
<1>12. BytesFit'
  BY <1>0, <1>1 DEF BytesFit, BytesConserved, OneIf, At
<1>13. MetaFits'
  BY <1>0, <1>1, <1>c
     DEF MetaFits, Alive, AvailableCountsReady, Pending, IsReady, Accessing,
         OneIf, Flags
<1> QED
  BY <1>2, <1>3, <1>4, <1>5, <1>6, <1>7, <1>8, <1>9, <1>10, <1>11, <1>12, <1>13
     DEF IndInv

\* The worker marks the job as waiting for its sockets only.
LEMMA MarkReadyBasicStep ==
  ASSUME Sound, IndInv, MarkReadyBasic
  PROVE  IndInv'
<1>0. /\ Types /\ WordFits /\ JobFits /\ EpFits /\ TimerFits /\ PendingFits
      /\ RegFits /\ FirstFits /\ NoSocket /\ FallFits /\ BytesFit /\ MetaFits
  BY DEF IndInv
<1>a. th["job"].pc = "basic" /\ Alive /\ ctx.required = 1
  BY <1>0
     DEF MarkReadyBasic, At, Alive, JobFits, Towards, Types, Contexts, FirstPc
<1>b. PICK d \in Int, F \in SUBSET {"READYBASIC"}, r \in {0, 1} :
        /\ d = 0 /\ F = {"READYBASIC"} /\ r = 1
        /\ meta' = cas_update(meta, d, 0, 0, F, r, 0)
  BY <1>0, <1>a DEF MarkReadyBasic, Types, Contexts
<1>c. /\ meta' \in Word /\ meta'.access = meta.access
      /\ meta'.avsock = meta.avsock /\ meta'.wait = 0 /\ meta'.avjobs = 0
      /\ "READYEPOLLSOCK" \in meta'.flags <=> meta'.avsock >= 1
      /\ {"READYEPOLLTOOL", "READYJOB"} \subseteq meta'.flags
     
      /\ \A x \in {"UNSTABLE", "WLLDESTROY"} : x \in meta'.flags <=> x \in meta.flags
      /\ "READYBASIC" \in meta'.flags
  BY <1>0, <1>a, <1>b, CasUpdated DEF Types, MetaFits, Word
<1>d. BecomesReady(meta, meta') => "READY" \in Flags /\ Pending("ep") = 0
  BY <1>0, <1>a, <1>c
     DEF BecomesReady, check_allready, Derived, MetaFits, AvailableCountsReady,
         PendingFits, Pending, IsReady, Flags, Types, Word
<1>1. /\ th["job"].pc = "basic"
      /\ th' \in [{"job", "ep"} -> Thread]
     
      /\ th'["job"].pc = IF BecomesReady(meta, meta') THEN "mark_ready" ELSE "suspended"
      /\ th'["job"].next = th["job"].next
      /\ th'["job"].delta = th["job"].delta
      /\ th'["job"].req = th["job"].req /\ th'["job"].n = th["job"].n
      /\ th'["ep"] = th["ep"]
      /\ UNCHANGED <<prog, ctx, sock, reg, ev, net>>
  BY <1>0
     DEF MarkReadyBasic, Goto, At, jobRest, Types, Threads, Thread, JobPc,
         EpPc, InUpdate
<1>2. Types'
  BY <1>0, <1>1, <1>c
     DEF Types, Threads, Thread, JobPc, EpPc, InUpdate, JobNext, EpNext,
         Contexts, Sockets, Registrations, EventStates, Networks
<1>3. WordFits'
  BY <1>0, <1>1 DEF WordFits, Flags, SocketReady
<1>4. JobFits'
  BY <1>0, <1>1
     DEF JobFits, Registering, FirstPc, Towards, At, Flags, Types, Contexts
<1>5. EpFits'
  BY <1>0, <1>1 DEF EpFits, Busy, BusyFits, Giving, Towards, At, Flags
<1>6. TimerFits'
  BY <1>0, <1>1 DEF TimerFits, Towards, At, Flags
<1>7. PendingFits'
  BY <1>0, <1>1, <1>d DEF PendingFits, Pending, Ahead, Towards, At, Flags
<1>8. RegFits'
  BY <1>0, <1>1 DEF RegFits, Towards, At, Flags
<1>9. FirstFits'
  BY <1>0, <1>1 DEF FirstFits, Flags
<1>10. NoSocket'
  BY <1>0, <1>1, <1>d DEF NoSocket, Flags
<1>11. FallFits'
  BY <1>0, <1>1 DEF FallFits, FallCountsHolders, OneIf, Towards, At, Flags
<1>12. BytesFit'
  BY <1>0, <1>1 DEF BytesFit, BytesConserved, OneIf, At
<1>13. MetaFits'
  BY <1>0, <1>1, <1>a, <1>c
     DEF MetaFits, Alive, AvailableCountsReady, Pending, IsReady, Accessing,
         OneIf, Flags
<1> QED
  BY <1>2, <1>3, <1>4, <1>5, <1>6, <1>7, <1>8, <1>9, <1>10, <1>11, <1>12, <1>13
     DEF IndInv

\* The job function ends the job.
LEMMA EndStep ==
  ASSUME Sound, IndInv, End
  PROVE  IndInv'
<1>0. /\ Types /\ WordFits /\ JobFits /\ EpFits /\ TimerFits /\ PendingFits
      /\ RegFits /\ FirstFits /\ NoSocket /\ FallFits /\ BytesFit /\ MetaFits
  BY DEF IndInv
<1>b. PICK m \in Word : m = unmark_or(meta, {"EXECUTING"}, {"UNSTABLE"})
  <2>1. PICK F, B : F \in SUBSET Flag /\ F = {"EXECUTING"} /\ B = {"UNSTABLE"}
    BY DEF Flag, Derived
  <2>2. PICK m : m = unmark_or(meta, F, B)
    OBVIOUS
  <2> QED
    BY <1>0, <2>1, <2>2, Unmarked DEF Types
<1>c. meta' \in Word
  <2>1. PICK F, B, a : F \in SUBSET Flag /\ meta' = mark_or(m, F, B, a)
    BY <1>b DEF End, Flag, Derived
  <2> QED
    BY <1>b, <2>1, Marked
<1>1. /\ th["job"].pc = "end"
      /\ th' \in [{"job", "ep"} -> Thread]
      /\ th'["job"].pc = "destroy"
      /\ th'["job"].next = th["job"].next
      /\ th'["job"].delta = th["job"].delta
      /\ th'["job"].req = th["job"].req /\ th'["job"].n = th["job"].n
      /\ th'["ep"] = th["ep"]
      /\ UNCHANGED <<prog, ctx, sock, reg, ev, net>>
  BY <1>0
     DEF End, Goto, At, jobRest, Types, Threads, Thread, JobPc, EpPc, InUpdate
<1>2. Types'
  BY <1>0, <1>1, <1>c
     DEF Types, Threads, Thread, JobPc, EpPc, InUpdate, JobNext, EpNext,
         Contexts, Sockets, Registrations, EventStates, Networks
<1>3. WordFits'
  BY <1>0, <1>1 DEF WordFits, Flags, SocketReady
<1>4. JobFits'
  BY <1>0, <1>1
     DEF JobFits, Registering, FirstPc, Towards, At, Flags, Types, Contexts
<1>5. EpFits'
  BY <1>0, <1>1 DEF EpFits, Busy, BusyFits, Giving, Towards, At, Flags
<1>6. TimerFits'
  BY <1>0, <1>1 DEF TimerFits, Towards, At, Flags
<1>7. PendingFits'
  BY <1>0, <1>1 DEF PendingFits, Pending, Ahead, Towards, At, Flags
<1>8. RegFits'
  BY <1>0, <1>1 DEF RegFits, Towards, At, Flags
<1>9. FirstFits'
  BY <1>0, <1>1 DEF FirstFits, Flags
<1>10. NoSocket'
  BY <1>0, <1>1 DEF NoSocket, Flags
<1>11. FallFits'
  BY <1>0, <1>1 DEF FallFits, FallCountsHolders, OneIf, Towards, At, Flags
<1>12. BytesFit'
  BY <1>0, <1>1 DEF BytesFit, BytesConserved, OneIf, At
<1>13. MetaFits'
  BY <1>0, <1>1
     DEF MetaFits, Alive, AvailableCountsReady, Pending, IsReady, Accessing,
         OneIf, Flags
<1> QED
  BY <1>2, <1>3, <1>4, <1>5, <1>6, <1>7, <1>8, <1>9, <1>10, <1>11, <1>12, <1>13
     DEF IndInv

\* The destruction is begun.
LEMMA DestroyNowStep ==
  ASSUME Sound, IndInv, DestroyNow
  PROVE  IndInv'
<1>0. /\ Types /\ WordFits /\ JobFits /\ EpFits /\ TimerFits /\ PendingFits
      /\ RegFits /\ FirstFits /\ NoSocket /\ FallFits /\ BytesFit /\ MetaFits
  BY DEF IndInv
<1>b. PICK F \in SUBSET Flag : F = {"UNSTABLE"}
  BY DEF Flag, Derived
<1>f. PICK B, a : meta' = mark_or(meta, F, B, a)
  BY <1>b DEF DestroyNow
<1>g. PICK m \in Word : m = meta
  BY <1>0 DEF Types
<1>e. PICK g : g = meta' /\ g = mark_or(m, F, B, a)
  BY <1>f, <1>g
<1>d. /\ g \in Word /\ g.access = m.access /\ g.avsock = m.avsock
      /\ g.wait = m.wait /\ g.avjobs = m.avjobs
      /\ \A x : x \notin F => (x \in g.flags <=> x \in m.flags)
  BY <1>e, Marked, ZenonT(60)
<1>c. /\ meta' \in Word /\ meta'.access = meta.access
      /\ meta'.avsock = meta.avsock
      /\ meta'.wait = meta.wait /\ meta'.avjobs = meta.avjobs
      /\ \A x \in {"WLLDESTROY", "READYBASIC"} :
           x \in meta'.flags <=> x \in meta.flags
  BY <1>b, <1>d, <1>e, <1>g
<1>1. /\ th["job"].pc = "destroy"
      /\ th' \in [{"job", "ep"} -> Thread]
      /\ th'["job"].pc = IF UnstableBan(meta) = {} THEN "destroy" ELSE "teardown"
      /\ th'["job"].next = th["job"].next
      /\ th'["job"].delta = th["job"].delta
      /\ th'["job"].req = th["job"].req /\ th'["job"].n = th["job"].n
      /\ th'["ep"] = th["ep"]
      /\ UNCHANGED <<prog, ctx, sock, reg, ev, net>>
  BY <1>0
     DEF DestroyNow, Goto, At, jobRest, Types, Threads, Thread, JobPc, EpPc,
         InUpdate
<1>2. Types'
  BY <1>0, <1>1, <1>c
     DEF Types, Threads, Thread, JobPc, EpPc, InUpdate, JobNext, EpNext,
         Contexts, Sockets, Registrations, EventStates, Networks
<1>3. WordFits'
  BY <1>0, <1>1 DEF WordFits, Flags, SocketReady
<1>4. JobFits'
  BY <1>0, <1>1
     DEF JobFits, Registering, FirstPc, Towards, At, Flags, Types, Contexts
<1>5. EpFits'
  BY <1>0, <1>1 DEF EpFits, Busy, BusyFits, Giving, Towards, At, Flags
<1>6. TimerFits'
  BY <1>0, <1>1 DEF TimerFits, Towards, At, Flags
<1>7. PendingFits'
  BY <1>0, <1>1 DEF PendingFits, Pending, Ahead, Towards, At, Flags
<1>8. RegFits'
  BY <1>0, <1>1 DEF RegFits, Towards, At, Flags
<1>9. FirstFits'
  BY <1>0, <1>1 DEF FirstFits, Flags
<1>10. NoSocket'
  BY <1>0, <1>1 DEF NoSocket, Flags
<1>11. FallFits'
  BY <1>0, <1>1 DEF FallFits, FallCountsHolders, OneIf, Towards, At, Flags
<1>12. BytesFit'
  BY <1>0, <1>1 DEF BytesFit, BytesConserved, OneIf, At
<1>13. MetaFits'
  BY <1>0, <1>1
     DEF MetaFits, Alive, AvailableCountsReady, Pending, IsReady, Accessing,
         OneIf, Flags
<1> QED
  BY <1>2, <1>3, <1>4, <1>5, <1>6, <1>7, <1>8, <1>9, <1>10, <1>11, <1>12, <1>13
     DEF IndInv

\* The generation ends.
LEMMA TeardownStep ==
  ASSUME Sound, IndInv, Teardown
  PROVE  IndInv'
<1>0. /\ Types /\ WordFits /\ JobFits /\ EpFits /\ TimerFits /\ PendingFits
      /\ RegFits /\ FirstFits /\ NoSocket /\ FallFits /\ BytesFit /\ MetaFits
  BY DEF IndInv
<1>1. /\ th["job"].pc = "teardown"
      /\ th' \in [{"job", "ep"} -> Thread]
      /\ th'["job"].pc = IF prog.leaves = "dtor" THEN "done" ELSE "close"
      /\ th'["job"].next = th["job"].next
      /\ th'["job"].delta = th["job"].delta
      /\ th'["job"].req = th["job"].req /\ th'["job"].n = th["job"].n
      /\ th'["ep"] = th["ep"]
      /\ ctx' = [ctx EXCEPT !.gen = 1]
      /\ UNCHANGED <<prog, meta, sock, reg, ev, net>>
  BY <1>0
     DEF Teardown, Goto, At, jobRest, Types, Threads, Thread, JobPc, EpPc,
         InUpdate
<1>2. Types'
  BY <1>0, <1>1
     DEF Types, Threads, Thread, JobPc, EpPc, InUpdate, JobNext, EpNext,
         Contexts, Sockets, Registrations, EventStates, Networks
<1>3. WordFits'
  BY <1>0, <1>1 DEF WordFits, Flags, SocketReady
<1>4. JobFits'
  BY <1>0, <1>1
     DEF JobFits, Registering, FirstPc, Towards, At, Flags, Types, Contexts,
         WordFits
<1>5. EpFits'
  BY <1>0, <1>1 DEF EpFits, Busy, BusyFits, Giving, Towards, At, Flags
<1>6. TimerFits'
  BY <1>0, <1>1 DEF TimerFits, Towards, At, Flags
<1>7. PendingFits'
  BY <1>0, <1>1 DEF PendingFits, Pending, Ahead, Towards, At, Flags
<1>8. RegFits'
  BY <1>0, <1>1 DEF RegFits, Towards, At, Flags
<1>9. FirstFits'
  BY <1>0, <1>1 DEF FirstFits, Flags
<1>10. NoSocket'
  BY <1>0, <1>1 DEF NoSocket, Flags
<1>11. FallFits'
  BY <1>0, <1>1 DEF FallFits, FallCountsHolders, OneIf, Towards, At, Flags
<1>12. BytesFit'
  BY <1>0, <1>1 DEF BytesFit, BytesConserved, OneIf, At
<1>13. MetaFits'
  BY <1>0, <1>1
     DEF MetaFits, Alive, AvailableCountsReady, Pending, IsReady, Accessing,
         OneIf, Flags
<1> QED
  BY <1>2, <1>3, <1>4, <1>5, <1>6, <1>7, <1>8, <1>9, <1>10, <1>11, <1>12, <1>13
     DEF IndInv

\* The descriptor is closed.
LEMMA CloseStep ==
  ASSUME Sound, IndInv, Close
  PROVE  IndInv'
<1>0. /\ Types /\ WordFits /\ JobFits /\ EpFits /\ TimerFits /\ PendingFits
      /\ RegFits /\ FirstFits /\ NoSocket /\ FallFits /\ BytesFit /\ MetaFits
  BY DEF IndInv
<1>a. /\ meta' \in Word
      /\ reg' \in Registrations
  BY <1>0, MetaFlagAssumption
     DEF Close, WordOf, Word, Types, Registrations, Sources
<1>1. /\ th["job"].pc = "close"
      /\ th' \in [{"job", "ep"} -> Thread]
      /\ th'["job"].pc = "ended"
      /\ th'["job"].next = th["job"].next
      /\ th'["job"].delta = th["job"].delta
      /\ th'["job"].req = th["job"].req /\ th'["job"].n = th["job"].n
      /\ th'["ep"] = th["ep"]
      /\ reg'.set = reg.set \ {"in", "out"}
      /\ reg'.armed = reg.armed \ {"in", "out"}
      /\ UNCHANGED <<prog, ctx, sock, ev, net>>
  BY <1>0
     DEF Close, Goto, At, jobRest, Types, Threads, Thread, JobPc, EpPc,
         InUpdate
<1>2. Types'
  BY <1>0, <1>1, <1>a
     DEF Types, Threads, Thread, JobPc, EpPc, InUpdate, JobNext, EpNext,
         Contexts, Sockets, Registrations, EventStates, Networks
<1>3. WordFits'
  BY <1>0, <1>1 DEF WordFits, Flags, SocketReady
<1>4. JobFits'
  BY <1>0, <1>1
     DEF JobFits, Registering, FirstPc, Towards, At, Flags, Types, Contexts
<1>5. EpFits'
  BY <1>0, <1>1 DEF EpFits, Busy, BusyFits, Giving, Towards, At, Flags
<1>6. TimerFits'
  BY <1>0, <1>1 DEF TimerFits, Towards, At, Flags
<1>7. PendingFits'
  BY <1>0, <1>1 DEF PendingFits, Pending, Ahead, Towards, At, Flags
<1>8. RegFits'
  BY <1>0, <1>1 DEF RegFits, Towards, At, Flags
<1>9. FirstFits'
  BY <1>0, <1>1 DEF FirstFits, Flags
<1>10. NoSocket'
  BY <1>0, <1>1 DEF NoSocket, Flags
<1>11. FallFits'
  BY <1>0, <1>1 DEF FallFits, FallCountsHolders, OneIf, Towards, At, Flags
<1>12. BytesFit'
  BY <1>0, <1>1 DEF BytesFit, BytesConserved, OneIf, At
<1>13. MetaFits'
  BY <1>0, <1>1
     DEF MetaFits, Alive, AvailableCountsReady, Pending, IsReady, Accessing,
         OneIf, Flags
<1> QED
  BY <1>2, <1>3, <1>4, <1>5, <1>6, <1>7, <1>8, <1>9, <1>10, <1>11, <1>12, <1>13
     DEF IndInv

-----------------------------------------------------------------------------
(* The updates of the count of ready sockets *)

\* The job accesses the word of the job for an update.
LEMMA AccessJobStep ==
  ASSUME Sound, IndInv, UpdateAccess("job"),
         th["job"].delta # 0 /\ AccessBan(meta) = {}
  PROVE  IndInv'
<1>0. /\ Types /\ WordFits /\ JobFits /\ EpFits /\ TimerFits /\ PendingFits
      /\ RegFits /\ FirstFits /\ NoSocket /\ FallFits /\ BytesFit /\ MetaFits
  BY DEF IndInv
<1>a. th["job"].pc = "update" /\ meta' = mark_access(meta) /\ meta \in Word
  BY <1>0 DEF UpdateAccess, At, Types
<1>b. /\ meta' \in Word /\ meta'.access = meta.access + 1
      /\ meta'.flags = meta.flags
      /\ meta'.avsock = meta.avsock /\ meta'.wait = meta.wait
      /\ meta'.avjobs = meta.avjobs
  BY <1>a, Accessed
<1>1. /\ th["job"].pc = "update"
      /\ th' \in [{"job", "ep"} -> Thread]
      /\ th'["job"].pc = "compare"
      /\ th'["job"].next = th["job"].next
      /\ th'["job"].delta = th["job"].delta
      /\ th'["job"].req = th["job"].req /\ th'["job"].n = th["job"].n
      /\ th'["ep"] = th["ep"]
      /\ net' = IF prog.timeouts THEN [net EXCEPT !.timer = "running"] ELSE net
      /\ UNCHANGED <<prog, ctx, sock, reg, ev>>
  BY <1>0
     DEF UpdateAccess, ResetTimer, Goto, At, Types, Threads, Thread, JobPc,
         EpPc, InUpdate
<1>2. Types'
  BY <1>0, <1>1, <1>b
     DEF Types, Threads, Thread, JobPc, EpPc, InUpdate, JobNext, EpNext,
         Contexts, Sockets, Registrations, EventStates, Networks
<1>3. WordFits'
  BY <1>0, <1>1 DEF WordFits, Flags, SocketReady
<1>4. JobFits'
  BY <1>0, <1>1
     DEF JobFits, Registering, FirstPc, Towards, At, Flags, Types, Contexts,
         Threads, InUpdate, JobNext, EpNext, Thread
<1>5. EpFits'
  BY <1>0, <1>1
     DEF EpFits, Busy, BusyFits, Giving, Towards, At, Flags, Threads, InUpdate,
         JobNext, EpNext, Types, Thread
<1>6. TimerFits'
  BY <1>0, <1>1
     DEF TimerFits, Towards, At, Flags, Threads, InUpdate, JobNext, EpNext,
         Types, Thread
<1>7. PendingFits'
  BY <1>0, <1>1
     DEF PendingFits, Pending, Ahead, Towards, At, Flags, Threads, InUpdate,
         JobNext, EpNext, Types, Thread
<1>8. RegFits'
  BY <1>0, <1>1
     DEF RegFits, Towards, At, Flags, Threads, InUpdate, JobNext, EpNext,
         Types, Thread
<1>9. FirstFits'
  BY <1>0, <1>1 DEF FirstFits, Flags
<1>10. NoSocket'
  BY <1>0, <1>1 DEF NoSocket, Flags
<1>11. FallFits'
  BY <1>0, <1>1
     DEF FallFits, FallCountsHolders, OneIf, Towards, At, Flags, Threads,
         InUpdate, JobNext, EpNext, Types, Thread
<1>12. BytesFit'
  BY <1>0, <1>1 DEF BytesFit, BytesConserved, OneIf, At
<1>13. MetaFits'
  BY <1>0, <1>1, <1>b
     DEF MetaFits, Alive, AvailableCountsReady, Pending, IsReady, Accessing,
         OneIf, Flags, Types, Word
<1> QED
  BY <1>2, <1>3, <1>4, <1>5, <1>6, <1>7, <1>8, <1>9, <1>10, <1>11, <1>12, <1>13
     DEF IndInv

\* The job has nothing to update, or no access.
LEMMA NoAccessJobStep ==
  ASSUME Sound, IndInv, UpdateAccess("job"),
         ~(th["job"].delta # 0 /\ AccessBan(meta) = {})
  PROVE  IndInv'
<1>0. /\ Types /\ WordFits /\ JobFits /\ EpFits /\ TimerFits /\ PendingFits
      /\ RegFits /\ FirstFits /\ NoSocket /\ FallFits /\ BytesFit /\ MetaFits
  BY DEF IndInv
<1>a. th["job"].pc = "update" /\ th["job"].next \in JobNext
  BY <1>0 DEF UpdateAccess, At, Types, Threads, InUpdate
<1>b. Alive => th["job"].delta = 0
  BY <1>0, <1>a DEF MetaFits, AccessBan, Accessing, OneIf, Sound, Types, Word
<1>1. /\ th["job"].pc = "update"
      /\ th' \in [{"job", "ep"} -> Thread]
      /\ th'["job"].pc = th["job"].next
      /\ th'["job"].next = th["job"].next
      /\ th'["job"].delta = th["job"].delta
      /\ th'["job"].req = th["job"].req /\ th'["job"].n = th["job"].n
      /\ th'["ep"] = th["ep"]
      /\ net' = IF prog.timeouts THEN [net EXCEPT !.timer = "running"] ELSE net
      /\ UNCHANGED <<prog, meta, ctx, sock, reg, ev>>
  BY <1>0, <1>a
     DEF UpdateAccess, ResetTimer, Goto, At, JobNext, EpNext, Types, Threads,
         Thread, JobPc, EpPc, InUpdate
<1>2. Types'
  BY <1>0, <1>1, <1>a
     DEF Types, Threads, Thread, JobPc, EpPc, InUpdate, JobNext, EpNext,
         Contexts, Sockets, Registrations, EventStates, Networks
<1>3. WordFits'
  BY <1>0, <1>1, <1>a DEF WordFits, Flags, SocketReady
<1>4. JobFits'
  BY <1>0, <1>1, <1>a
     DEF JobFits, Registering, FirstPc, Towards, At, Flags, Types, Contexts,
         Threads, InUpdate, JobNext, EpNext, Thread
<1>5. EpFits'
  BY <1>0, <1>1, <1>a
     DEF EpFits, Busy, BusyFits, Giving, Towards, At, Flags, Threads, InUpdate,
         JobNext, EpNext, Types, Thread
<1>6. TimerFits'
  BY <1>0, <1>1, <1>a
     DEF TimerFits, Towards, At, Flags, Threads, InUpdate, JobNext, EpNext,
         Types, Thread
<1>7. PendingFits'
  BY <1>0, <1>1, <1>a
     DEF PendingFits, Pending, Ahead, Towards, At, Flags, Threads, InUpdate,
         JobNext, EpNext, Types, Thread
<1>8. RegFits'
  BY <1>0, <1>1, <1>a
     DEF RegFits, Towards, At, Flags, Threads, InUpdate, JobNext, EpNext,
         Types, Thread
<1>9. FirstFits'
  BY <1>0, <1>1, <1>a DEF FirstFits, Flags, JobNext, EpNext, EpFits
<1>10. NoSocket'
  BY <1>0, <1>1, <1>a DEF NoSocket, Flags, JobNext, EpNext, EpFits
<1>11. FallFits'
  BY <1>0, <1>1, <1>a
     DEF FallFits, FallCountsHolders, OneIf, Towards, At, Flags, Threads,
         InUpdate, JobNext, EpNext, Types, Thread
<1>12. BytesFit'
  BY <1>0, <1>1, <1>a DEF BytesFit, BytesConserved, OneIf, At, JobNext, EpNext
<1>13. MetaFits'
  BY <1>0, <1>1, <1>a, <1>b
     DEF MetaFits, Alive, AvailableCountsReady, Pending, IsReady, Accessing,
         OneIf, Flags, JobNext, EpNext, Types, Word, Threads, Thread, InUpdate
<1> QED
  BY <1>2, <1>3, <1>4, <1>5, <1>6, <1>7, <1>8, <1>9, <1>10, <1>11, <1>12, <1>13
     DEF IndInv

\* The job compares the generation.
LEMMA CompareJobStep ==
  ASSUME Sound, IndInv, UpdateCompare("job")
  PROVE  IndInv'
<1>0. /\ Types /\ WordFits /\ JobFits /\ EpFits /\ TimerFits /\ PendingFits
      /\ RegFits /\ FirstFits /\ NoSocket /\ FallFits /\ BytesFit /\ MetaFits
  BY DEF IndInv
<1>a. ctx.required \in {0, 1}
  BY <1>0 DEF Types, Contexts
<1>b. PICK t \in {"job", "ep"}, l \in JobPc \cup EpPc, r \in {0, 1} :
        /\ t = "job" /\ r = ctx.required
        /\ l = IF ctx.gen = 0 THEN "cas" ELSE "unaccess"
        /\ th' = [th EXCEPT ![t].pc = l, ![t].req = r]
  BY <1>a DEF UpdateCompare, JobPc
<1>c. /\ th' \in [{"job", "ep"} -> Thread]
      /\ th'[t].pc = l /\ th'[t].next = th[t].next
      /\ th'[t].delta = th[t].delta /\ th'[t].req = r /\ th'[t].n = th[t].n
      /\ \A u \in {"job", "ep"} : u # t => th'[u] = th[u]
  <2>1. th \in [{"job", "ep"} -> Thread]
    BY <1>0 DEF Types, Threads
  <2> QED
    BY <2>1, <1>b, ThreadReq, ZenonT(60)
<1>1. /\ th["job"].pc = "compare"
      /\ th' \in [{"job", "ep"} -> Thread]
      /\ th'["job"].pc = IF ctx.gen = 0 THEN "cas" ELSE "unaccess"
      /\ th'["job"].next = th["job"].next
      /\ th'["job"].delta = th["job"].delta
      /\ th'["job"].req = ctx.required /\ th'["job"].n = th["job"].n
      /\ th'["ep"] = th["ep"]
      /\ UNCHANGED <<prog, meta, ctx, sock, reg, ev, net>>
  BY <1>0, <1>b, <1>c
     DEF UpdateCompare, At, Types, Threads, Thread, JobPc, EpPc, InUpdate
<1>2. Types'
  BY <1>0, <1>1
     DEF Types, Threads, Thread, JobPc, EpPc, InUpdate, JobNext, EpNext,
         Contexts, Sockets, Registrations, EventStates, Networks
<1>3. WordFits'
  BY <1>0, <1>1 DEF WordFits, Flags, SocketReady
<1>4. JobFits'
  BY <1>0, <1>1
     DEF JobFits, Registering, FirstPc, Towards, At, Flags, Types, Contexts,
         Threads, InUpdate, JobNext, EpNext, Thread
<1>5. EpFits'
  BY <1>0, <1>1
     DEF EpFits, Busy, BusyFits, Giving, Towards, At, Flags, Threads, InUpdate,
         JobNext, EpNext, Types, Thread
<1>6. TimerFits'
  BY <1>0, <1>1
     DEF TimerFits, Towards, At, Flags, Threads, InUpdate, JobNext, EpNext,
         Types, Thread
<1>7. PendingFits'
  BY <1>0, <1>1
     DEF PendingFits, Pending, Ahead, Towards, At, Flags, Threads, InUpdate,
         JobNext, EpNext, Types, Thread
<1>8. RegFits'
  BY <1>0, <1>1
     DEF RegFits, Towards, At, Flags, Threads, InUpdate, JobNext, EpNext,
         Types, Thread
<1>9. FirstFits'
  BY <1>0, <1>1 DEF FirstFits, Flags
<1>10. NoSocket'
  BY <1>0, <1>1 DEF NoSocket, Flags
<1>11. FallFits'
  BY <1>0, <1>1
     DEF FallFits, FallCountsHolders, OneIf, Towards, At, Flags, Threads,
         InUpdate, JobNext, EpNext, Types, Thread
<1>12. BytesFit'
  BY <1>0, <1>1 DEF BytesFit, BytesConserved, OneIf, At
<1>13. MetaFits'
  BY <1>0, <1>1
     DEF MetaFits, Alive, AvailableCountsReady, Pending, IsReady, Accessing,
         OneIf, Flags, JobFits, Towards, At
<1> QED
  BY <1>2, <1>3, <1>4, <1>5, <1>6, <1>7, <1>8, <1>9, <1>10, <1>11, <1>12, <1>13
     DEF IndInv

\* The job ends its access.
LEMMA UnaccessJobStep ==
  ASSUME Sound, IndInv, UpdateUnaccess("job")
  PROVE  IndInv'
<1>0. /\ Types /\ WordFits /\ JobFits /\ EpFits /\ TimerFits /\ PendingFits
      /\ RegFits /\ FirstFits /\ NoSocket /\ FallFits /\ BytesFit /\ MetaFits
  BY DEF IndInv
<1>a. /\ th["job"].pc = "unaccess" /\ th["job"].next \in JobNext
      /\ meta' = unmark_access(meta) /\ meta \in Word
  BY <1>0 DEF UpdateUnaccess, At, Types, Threads, InUpdate
<1>b. /\ meta' \in Word /\ meta'.flags = meta.flags /\ meta'.avsock = meta.avsock
      /\ meta'.wait = meta.wait /\ meta'.avjobs = meta.avjobs
      /\ "UNSTABLE" \notin meta.flags /\ meta.access > 0 =>
           meta'.access = meta.access - 1
  BY <1>a, Unaccessed
<1>1. /\ th["job"].pc = "unaccess"
      /\ th' \in [{"job", "ep"} -> Thread]
      /\ th'["job"].pc = th["job"].next
      /\ th'["job"].next = th["job"].next
      /\ th'["job"].delta = th["job"].delta
      /\ th'["job"].req = th["job"].req /\ th'["job"].n = th["job"].n
      /\ th'["ep"] = th["ep"]
      /\ UNCHANGED <<prog, ctx, sock, reg, ev, net>>
  BY <1>0, <1>a
     DEF UpdateUnaccess, Goto, At, JobNext, EpNext, Types, Threads, Thread,
         JobPc, EpPc, InUpdate
<1>2. Types'
  BY <1>0, <1>1, <1>a, <1>b
     DEF Types, Threads, Thread, JobPc, EpPc, InUpdate, JobNext, EpNext,
         Contexts, Sockets, Registrations, EventStates, Networks
<1>3. WordFits'
  BY <1>0, <1>1, <1>a DEF WordFits, Flags, SocketReady
<1>4. JobFits'
  BY <1>0, <1>1, <1>a
     DEF JobFits, Registering, FirstPc, Towards, At, Flags, Types, Contexts,
         Threads, InUpdate, JobNext, EpNext, Thread
<1>5. EpFits'
  BY <1>0, <1>1, <1>a
     DEF EpFits, Busy, BusyFits, Giving, Towards, At, Flags, Threads, InUpdate,
         JobNext, EpNext, Types, Thread
<1>6. TimerFits'
  BY <1>0, <1>1, <1>a
     DEF TimerFits, Towards, At, Flags, Threads, InUpdate, JobNext, EpNext,
         Types, Thread
<1>7. PendingFits'
  BY <1>0, <1>1, <1>a
     DEF PendingFits, Pending, Ahead, Towards, At, Flags, Threads, InUpdate,
         JobNext, EpNext, Types, Thread
<1>8. RegFits'
  BY <1>0, <1>1, <1>a
     DEF RegFits, Towards, At, Flags, Threads, InUpdate, JobNext, EpNext,
         Types, Thread
<1>9. FirstFits'
  BY <1>0, <1>1, <1>a DEF FirstFits, Flags, JobNext, EpNext, EpFits
<1>10. NoSocket'
  BY <1>0, <1>1, <1>a DEF NoSocket, Flags, JobNext, EpNext, EpFits
<1>11. FallFits'
  BY <1>0, <1>1, <1>a
     DEF FallFits, FallCountsHolders, OneIf, Towards, At, Flags, Threads,
         InUpdate, JobNext, EpNext, Types, Thread
<1>12. BytesFit'
  BY <1>0, <1>1, <1>a DEF BytesFit, BytesConserved, OneIf, At, JobNext, EpNext
<1>13. MetaFits'
  BY <1>0, <1>1, <1>a, <1>b
     DEF MetaFits, Alive, AvailableCountsReady, Pending, IsReady, Accessing,
         OneIf, Flags, JobNext, EpNext, Types, Word
<1> QED
  BY <1>2, <1>3, <1>4, <1>5, <1>6, <1>7, <1>8, <1>9, <1>10, <1>11, <1>12, <1>13
     DEF IndInv

\* The epoll thread accesses the word of the job for an update.
LEMMA AccessEpStep ==
  ASSUME Sound, IndInv, UpdateAccess("ep"),
         th["ep"].delta # 0 /\ AccessBan(meta) = {}
  PROVE  IndInv'
<1>0. /\ Types /\ WordFits /\ JobFits /\ EpFits /\ TimerFits /\ PendingFits
      /\ RegFits /\ FirstFits /\ NoSocket /\ FallFits /\ BytesFit /\ MetaFits
  BY DEF IndInv
<1>a. th["ep"].pc = "update" /\ meta' = mark_access(meta) /\ meta \in Word
  BY <1>0 DEF UpdateAccess, At, Types
<1>b. /\ meta' \in Word /\ meta'.access = meta.access + 1
      /\ meta'.flags = meta.flags
      /\ meta'.avsock = meta.avsock /\ meta'.wait = meta.wait
      /\ meta'.avjobs = meta.avjobs
  BY <1>a, Accessed
<1>1. /\ th["ep"].pc = "update"
      /\ th' \in [{"job", "ep"} -> Thread]
      /\ th'["ep"].pc = "compare"
      /\ th'["ep"].next = th["ep"].next
      /\ th'["ep"].delta = th["ep"].delta
      /\ th'["ep"].req = th["ep"].req /\ th'["ep"].n = th["ep"].n
      /\ th'["job"] = th["job"]
      /\ net' = IF prog.timeouts THEN [net EXCEPT !.timer = "running"] ELSE net
      /\ UNCHANGED <<prog, ctx, sock, reg, ev>>
  BY <1>0
     DEF UpdateAccess, ResetTimer, Goto, At, Types, Threads, Thread, JobPc,
         EpPc, InUpdate
<1>2. Types'
  BY <1>0, <1>1, <1>b
     DEF Types, Threads, Thread, JobPc, EpPc, InUpdate, JobNext, EpNext,
         Contexts, Sockets, Registrations, EventStates, Networks
<1>3. WordFits'
  BY <1>0, <1>1 DEF WordFits, Flags, SocketReady
<1>4. JobFits'
  BY <1>0, <1>1
     DEF JobFits, Registering, FirstPc, Towards, At, Flags, Types, Contexts,
         Threads, InUpdate, JobNext, EpNext, Thread
<1>5. EpFits'
  BY <1>0, <1>1
     DEF EpFits, Busy, BusyFits, Giving, Towards, At, Flags, Threads, InUpdate,
         JobNext, EpNext, Types, Thread
<1>6. TimerFits'
  BY <1>0, <1>1
     DEF TimerFits, Towards, At, Flags, Threads, InUpdate, JobNext, EpNext,
         Types, Thread
<1>7. PendingFits'
  BY <1>0, <1>1
     DEF PendingFits, Pending, Ahead, Towards, At, Flags, Threads, InUpdate,
         JobNext, EpNext, Types, Thread
<1>8. RegFits'
  BY <1>0, <1>1
     DEF RegFits, Towards, At, Flags, Threads, InUpdate, JobNext, EpNext,
         Types, Thread
<1>9. FirstFits'
  BY <1>0, <1>1 DEF FirstFits, Flags
<1>10. NoSocket'
  BY <1>0, <1>1 DEF NoSocket, Flags
<1>11. FallFits'
  BY <1>0, <1>1
     DEF FallFits, FallCountsHolders, OneIf, Towards, At, Flags, Threads,
         InUpdate, JobNext, EpNext, Types, Thread
<1>12. BytesFit'
  BY <1>0, <1>1 DEF BytesFit, BytesConserved, OneIf, At
<1>13. MetaFits'
  BY <1>0, <1>1, <1>b
     DEF MetaFits, Alive, AvailableCountsReady, Pending, IsReady, Accessing,
         OneIf, Flags, Types, Word
<1> QED
  BY <1>2, <1>3, <1>4, <1>5, <1>6, <1>7, <1>8, <1>9, <1>10, <1>11, <1>12, <1>13
     DEF IndInv

\* The epoll thread has nothing to update, or no access.
LEMMA NoAccessEpStep ==
  ASSUME Sound, IndInv, UpdateAccess("ep"),
         ~(th["ep"].delta # 0 /\ AccessBan(meta) = {})
  PROVE  IndInv'
<1>0. /\ Types /\ WordFits /\ JobFits /\ EpFits /\ TimerFits /\ PendingFits
      /\ RegFits /\ FirstFits /\ NoSocket /\ FallFits /\ BytesFit /\ MetaFits
  BY DEF IndInv
<1>a. th["ep"].pc = "update" /\ th["ep"].next \in EpNext
  BY <1>0 DEF UpdateAccess, At, Types, Threads, InUpdate
<1>b. Alive => th["ep"].delta = 0
  BY <1>0, <1>a DEF MetaFits, AccessBan, Accessing, OneIf, Sound, Types, Word
<1>1. /\ th["ep"].pc = "update"
      /\ th' \in [{"job", "ep"} -> Thread]
      /\ th'["ep"].pc = th["ep"].next
      /\ th'["ep"].next = th["ep"].next
      /\ th'["ep"].delta = th["ep"].delta
      /\ th'["ep"].req = th["ep"].req /\ th'["ep"].n = th["ep"].n
      /\ th'["job"] = th["job"]
      /\ net' = IF prog.timeouts THEN [net EXCEPT !.timer = "running"] ELSE net
      /\ UNCHANGED <<prog, meta, ctx, sock, reg, ev>>
  BY <1>0, <1>a
     DEF UpdateAccess, ResetTimer, Goto, At, JobNext, EpNext, Types, Threads,
         Thread, JobPc, EpPc, InUpdate
<1>2. Types'
  BY <1>0, <1>1, <1>a
     DEF Types, Threads, Thread, JobPc, EpPc, InUpdate, JobNext, EpNext,
         Contexts, Sockets, Registrations, EventStates, Networks
<1>3. WordFits'
  BY <1>0, <1>1, <1>a DEF WordFits, Flags, SocketReady
<1>4. JobFits'
  BY <1>0, <1>1, <1>a
     DEF JobFits, Registering, FirstPc, Towards, At, Flags, Types, Contexts,
         Threads, InUpdate, JobNext, EpNext, Thread
<1>5. EpFits'
  BY <1>0, <1>1, <1>a
     DEF EpFits, Busy, BusyFits, Giving, Towards, At, Flags, Threads, InUpdate,
         JobNext, EpNext, Types, Thread
<1>6. TimerFits'
  BY <1>0, <1>1, <1>a
     DEF TimerFits, Towards, At, Flags, Threads, InUpdate, JobNext, EpNext,
         Types, Thread
<1>7. PendingFits'
  BY <1>0, <1>1, <1>a
     DEF PendingFits, Pending, Ahead, Towards, At, Flags, Threads, InUpdate,
         JobNext, EpNext, Types, Thread
<1>8. RegFits'
  BY <1>0, <1>1, <1>a
     DEF RegFits, Towards, At, Flags, Threads, InUpdate, JobNext, EpNext,
         Types, Thread
<1>9. FirstFits'
  BY <1>0, <1>1, <1>a DEF FirstFits, Flags, JobNext, EpNext, EpFits
<1>10. NoSocket'
  BY <1>0, <1>1, <1>a DEF NoSocket, Flags, JobNext, EpNext, EpFits
<1>11. FallFits'
  BY <1>0, <1>1, <1>a
     DEF FallFits, FallCountsHolders, OneIf, Towards, At, Flags, Threads,
         InUpdate, JobNext, EpNext, Types, Thread
<1>12. BytesFit'
  BY <1>0, <1>1, <1>a DEF BytesFit, BytesConserved, OneIf, At, JobNext, EpNext
<1>13. MetaFits'
  BY <1>0, <1>1, <1>a, <1>b
     DEF MetaFits, Alive, AvailableCountsReady, Pending, IsReady, Accessing,
         OneIf, Flags, JobNext, EpNext, Types, Word, Threads, Thread, InUpdate
<1> QED
  BY <1>2, <1>3, <1>4, <1>5, <1>6, <1>7, <1>8, <1>9, <1>10, <1>11, <1>12, <1>13
     DEF IndInv

\* The epoll thread compares the generation.
LEMMA CompareEpStep ==
  ASSUME Sound, IndInv, UpdateCompare("ep")
  PROVE  IndInv'
<1>0. /\ Types /\ WordFits /\ JobFits /\ EpFits /\ TimerFits /\ PendingFits
      /\ RegFits /\ FirstFits /\ NoSocket /\ FallFits /\ BytesFit /\ MetaFits
  BY DEF IndInv
<1>a. ctx.required \in {0, 1}
  BY <1>0 DEF Types, Contexts
<1>b. PICK t \in {"job", "ep"}, l \in JobPc \cup EpPc, r \in {0, 1} :
        /\ t = "ep" /\ r = ctx.required
        /\ l = IF ctx.gen = 0 THEN "cas" ELSE "unaccess"
        /\ th' = [th EXCEPT ![t].pc = l, ![t].req = r]
  BY <1>a DEF UpdateCompare, JobPc
<1>c. /\ th' \in [{"job", "ep"} -> Thread]
      /\ th'[t].pc = l /\ th'[t].next = th[t].next
      /\ th'[t].delta = th[t].delta /\ th'[t].req = r /\ th'[t].n = th[t].n
      /\ \A u \in {"job", "ep"} : u # t => th'[u] = th[u]
  <2>1. th \in [{"job", "ep"} -> Thread]
    BY <1>0 DEF Types, Threads
  <2> QED
    BY <2>1, <1>b, ThreadReq, ZenonT(60)
<1>1. /\ th["ep"].pc = "compare"
      /\ th' \in [{"job", "ep"} -> Thread]
      /\ th'["ep"].pc = IF ctx.gen = 0 THEN "cas" ELSE "unaccess"
      /\ th'["ep"].next = th["ep"].next
      /\ th'["ep"].delta = th["ep"].delta
      /\ th'["ep"].req = ctx.required /\ th'["ep"].n = th["ep"].n
      /\ th'["job"] = th["job"]
      /\ UNCHANGED <<prog, meta, ctx, sock, reg, ev, net>>
  BY <1>0, <1>b, <1>c
     DEF UpdateCompare, At, Types, Threads, Thread, JobPc, EpPc, InUpdate
<1>2. Types'
  BY <1>0, <1>1
     DEF Types, Threads, Thread, JobPc, EpPc, InUpdate, JobNext, EpNext,
         Contexts, Sockets, Registrations, EventStates, Networks
<1>3. WordFits'
  BY <1>0, <1>1 DEF WordFits, Flags, SocketReady
<1>4. JobFits'
  BY <1>0, <1>1
     DEF JobFits, Registering, FirstPc, Towards, At, Flags, Types, Contexts,
         Threads, InUpdate, JobNext, EpNext, Thread
<1>5. EpFits'
  BY <1>0, <1>1
     DEF EpFits, Busy, BusyFits, Giving, Towards, At, Flags, Threads, InUpdate,
         JobNext, EpNext, Types, Thread
<1>6. TimerFits'
  BY <1>0, <1>1
     DEF TimerFits, Towards, At, Flags, Threads, InUpdate, JobNext, EpNext,
         Types, Thread
<1>7. PendingFits'
  BY <1>0, <1>1
     DEF PendingFits, Pending, Ahead, Towards, At, Flags, Threads, InUpdate,
         JobNext, EpNext, Types, Thread
<1>8. RegFits'
  BY <1>0, <1>1
     DEF RegFits, Towards, At, Flags, Threads, InUpdate, JobNext, EpNext,
         Types, Thread
<1>9. FirstFits'
  BY <1>0, <1>1 DEF FirstFits, Flags
<1>10. NoSocket'
  BY <1>0, <1>1 DEF NoSocket, Flags
<1>11. FallFits'
  BY <1>0, <1>1
     DEF FallFits, FallCountsHolders, OneIf, Towards, At, Flags, Threads,
         InUpdate, JobNext, EpNext, Types, Thread
<1>12. BytesFit'
  BY <1>0, <1>1 DEF BytesFit, BytesConserved, OneIf, At
<1>13. MetaFits'
  BY <1>0, <1>1
     DEF MetaFits, Alive, AvailableCountsReady, Pending, IsReady, Accessing,
         OneIf, Flags, JobFits, Towards, At
<1> QED
  BY <1>2, <1>3, <1>4, <1>5, <1>6, <1>7, <1>8, <1>9, <1>10, <1>11, <1>12, <1>13
     DEF IndInv

\* The epoll thread ends its access.
LEMMA UnaccessEpStep ==
  ASSUME Sound, IndInv, UpdateUnaccess("ep")
  PROVE  IndInv'
<1>0. /\ Types /\ WordFits /\ JobFits /\ EpFits /\ TimerFits /\ PendingFits
      /\ RegFits /\ FirstFits /\ NoSocket /\ FallFits /\ BytesFit /\ MetaFits
  BY DEF IndInv
<1>a. /\ th["ep"].pc = "unaccess" /\ th["ep"].next \in EpNext
      /\ meta' = unmark_access(meta) /\ meta \in Word
  BY <1>0 DEF UpdateUnaccess, At, Types, Threads, InUpdate
<1>b. /\ meta' \in Word /\ meta'.flags = meta.flags /\ meta'.avsock = meta.avsock
      /\ meta'.wait = meta.wait /\ meta'.avjobs = meta.avjobs
      /\ "UNSTABLE" \notin meta.flags /\ meta.access > 0 =>
           meta'.access = meta.access - 1
  BY <1>a, Unaccessed
<1>1. /\ th["ep"].pc = "unaccess"
      /\ th' \in [{"job", "ep"} -> Thread]
      /\ th'["ep"].pc = th["ep"].next
      /\ th'["ep"].next = th["ep"].next
      /\ th'["ep"].delta = th["ep"].delta
      /\ th'["ep"].req = th["ep"].req /\ th'["ep"].n = th["ep"].n
      /\ th'["job"] = th["job"]
      /\ UNCHANGED <<prog, ctx, sock, reg, ev, net>>
  BY <1>0, <1>a
     DEF UpdateUnaccess, Goto, At, JobNext, EpNext, Types, Threads, Thread,
         JobPc, EpPc, InUpdate
<1>2. Types'
  BY <1>0, <1>1, <1>a, <1>b
     DEF Types, Threads, Thread, JobPc, EpPc, InUpdate, JobNext, EpNext,
         Contexts, Sockets, Registrations, EventStates, Networks
<1>3. WordFits'
  BY <1>0, <1>1, <1>a DEF WordFits, Flags, SocketReady
<1>4. JobFits'
  BY <1>0, <1>1, <1>a
     DEF JobFits, Registering, FirstPc, Towards, At, Flags, Types, Contexts,
         Threads, InUpdate, JobNext, EpNext, Thread
<1>5. EpFits'
  BY <1>0, <1>1, <1>a
     DEF EpFits, Busy, BusyFits, Giving, Towards, At, Flags, Threads, InUpdate,
         JobNext, EpNext, Types, Thread
<1>6. TimerFits'
  BY <1>0, <1>1, <1>a
     DEF TimerFits, Towards, At, Flags, Threads, InUpdate, JobNext, EpNext,
         Types, Thread
<1>7. PendingFits'
  BY <1>0, <1>1, <1>a
     DEF PendingFits, Pending, Ahead, Towards, At, Flags, Threads, InUpdate,
         JobNext, EpNext, Types, Thread
<1>8. RegFits'
  BY <1>0, <1>1, <1>a
     DEF RegFits, Towards, At, Flags, Threads, InUpdate, JobNext, EpNext,
         Types, Thread
<1>9. FirstFits'
  BY <1>0, <1>1, <1>a DEF FirstFits, Flags, JobNext, EpNext, EpFits
<1>10. NoSocket'
  BY <1>0, <1>1, <1>a DEF NoSocket, Flags, JobNext, EpNext, EpFits
<1>11. FallFits'
  BY <1>0, <1>1, <1>a
     DEF FallFits, FallCountsHolders, OneIf, Towards, At, Flags, Threads,
         InUpdate, JobNext, EpNext, Types, Thread
<1>12. BytesFit'
  BY <1>0, <1>1, <1>a DEF BytesFit, BytesConserved, OneIf, At, JobNext, EpNext
<1>13. MetaFits'
  BY <1>0, <1>1, <1>a, <1>b
     DEF MetaFits, Alive, AvailableCountsReady, Pending, IsReady, Accessing,
         OneIf, Flags, JobNext, EpNext, Types, Word
<1> QED
  BY <1>2, <1>3, <1>4, <1>5, <1>6, <1>7, <1>8, <1>9, <1>10, <1>11, <1>12, <1>13
     DEF IndInv

\* The job carries its change over.
LEMMA CasJobStep ==
  ASSUME Sound, IndInv, UpdateCas("job")
  PROVE  IndInv'
<1>0. /\ Types /\ WordFits /\ JobFits /\ EpFits /\ TimerFits /\ PendingFits
      /\ RegFits /\ FirstFits /\ NoSocket /\ FallFits /\ BytesFit /\ MetaFits
  BY DEF IndInv
<1>a. th["job"].pc = "cas" /\ Alive /\ ctx.required = 1 /\ th["job"].req = 1
  BY <1>0 DEF UpdateCas, At, Alive, JobFits, FirstPc
<1>b. /\ meta.wait = 0 /\ meta.avjobs = 0 /\ "READYBASIC" \notin meta.flags
      /\ "UNSTABLE" \notin meta.flags /\ "WLLDESTROY" \notin meta.flags
      /\ th["job"].delta \in -1 .. 1 /\ meta.avsock \in 0 .. MaxCount
      /\ MaxCount \in Nat /\ MaxCount >= 2
  BY <1>0, <1>a, MetaFlagAssumption
     DEF MetaFits, Types, Threads, Thread, Word, Sound
<1>c. /\ meta.avsock + th["job"].delta \in 0 .. 1
      /\ meta.avsock + th["job"].delta \in 0 .. MaxCount
  BY <1>0, <1>a, <1>b
     DEF MetaFits, AvailableCountsReady, PendingFits, Pending, IsReady, Flags
<1>d. PICK d \in Int, F \in SUBSET {"READYBASIC"}, r \in {0, 1} :
        /\ d = th["job"].delta /\ F = {} /\ r = 1
        /\ meta' = cas_update(meta, d, 0, 0, F, r, 0)
  <2>1. InRange(meta, th["job"].delta, 0, 0)
    BY <1>b, <1>c DEF InRange
  <2>2. th["job"].delta \in Int
    BY <1>b
  <2> QED
    BY <2>1, <2>2, <1>a DEF UpdateCas
<1>e. PICK m, g :
        m \in Word /\ m = meta /\ g = meta' /\ g = cas_update(m, d, 0, 0, F, r, 0)
  BY <1>0, <1>d DEF Types
<1>f. /\ g \in Word /\ g.access = m.access /\ g.avsock = m.avsock + d
      /\ g.wait = 0 /\ g.avjobs = 0
      /\ "READYEPOLLSOCK" \in g.flags <=> m.avsock + d >= r
      /\ {"READYEPOLLTOOL", "READYJOB"} \subseteq g.flags
      /\ "READYBASIC" \in g.flags <=> "READYBASIC" \in m.flags \cup F
      /\ \A x \in {"UNSTABLE", "WLLDESTROY"} : x \in g.flags <=> x \in m.flags
  BY <1>b, <1>c, <1>d, <1>e, CasUpdated
<1>g. /\ meta' \in Word /\ meta'.access = meta.access
      /\ meta'.avsock = meta.avsock + th["job"].delta
      /\ meta'.wait = 0 /\ meta'.avjobs = 0
      /\ "READYEPOLLSOCK" \in meta'.flags <=> meta'.avsock >= r
      /\ {"READYEPOLLTOOL", "READYJOB"} \subseteq meta'.flags
      /\ "READYBASIC" \in meta'.flags <=> "READYBASIC" \in meta.flags
      /\ "UNSTABLE" \notin meta'.flags /\ "WLLDESTROY" \notin meta'.flags
  BY <1>b, <1>d, <1>e, <1>f
<1>h. th' = [th EXCEPT !["job"].pc = "unaccess"]
  <2>1. ~BecomesReady(meta, meta')
    BY <1>b, <1>g DEF BecomesReady, check_allready
  <2> QED
    BY <2>1 DEF UpdateCas, Goto
<1>1. /\ th["job"].pc = "cas"
      /\ th' \in [{"job", "ep"} -> Thread]
      /\ th'["job"].pc = "unaccess"
      /\ th'["job"].next = th["job"].next
      /\ th'["job"].delta = th["job"].delta
      /\ th'["job"].req = th["job"].req /\ th'["job"].n = th["job"].n
      /\ th'["ep"] = th["ep"]
      /\ UNCHANGED <<prog, ctx, sock, reg, ev, net>>
  BY <1>0, <1>h
     DEF UpdateCas, Goto, At, Types, Threads, Thread, JobPc, EpPc, InUpdate
<1>2. Types'
  BY <1>0, <1>1, <1>g
     DEF Types, Threads, Thread, JobPc, EpPc, InUpdate, JobNext, EpNext,
         Contexts, Sockets, Registrations, EventStates, Networks
<1>3. WordFits'
  BY <1>0, <1>1 DEF WordFits, Flags, SocketReady
<1>4. JobFits'
  BY <1>0, <1>1
     DEF JobFits, Registering, FirstPc, Towards, At, Flags, Types, Contexts,
         Threads, InUpdate, JobNext, EpNext, Thread
<1>5. EpFits'
  BY <1>0, <1>1
     DEF EpFits, Busy, BusyFits, Giving, Towards, At, Flags, Threads, InUpdate,
         JobNext, EpNext, Types, Thread
<1>6. TimerFits'
  BY <1>0, <1>1
     DEF TimerFits, Towards, At, Flags, Threads, InUpdate, JobNext, EpNext,
         Types, Thread
<1>7. PendingFits'
  BY <1>0, <1>1
     DEF PendingFits, Pending, Ahead, Towards, At, Flags, Threads, InUpdate,
         JobNext, EpNext, Types, Thread
<1>8. RegFits'
  BY <1>0, <1>1
     DEF RegFits, Towards, At, Flags, Threads, InUpdate, JobNext, EpNext,
         Types, Thread
<1>9. FirstFits'
  BY <1>0, <1>1 DEF FirstFits, Flags
<1>10. NoSocket'
  BY <1>0, <1>1 DEF NoSocket, Flags
<1>11. FallFits'
  BY <1>0, <1>1
     DEF FallFits, FallCountsHolders, OneIf, Towards, At, Flags, Threads,
         InUpdate, JobNext, EpNext, Types, Thread
<1>12. BytesFit'
  BY <1>0, <1>1 DEF BytesFit, BytesConserved, OneIf, At
<1>13. MetaFits'
  <2>1. AvailableCountsReady'
    <3>1. meta.avsock + th["job"].delta + Pending("ep") = IsReady(sock.htc)
      BY <1>0, <1>a, <1>1 DEF MetaFits, AvailableCountsReady, Pending
    <3>2. meta'.avsock = meta.avsock + th["job"].delta /\ meta.avsock \in Int
          /\ th["job"].delta \in Int
      BY <1>b, <1>g
    <3>3. Pending("ep")' = Pending("ep") /\ Pending("job")' = 0 /\ sock' = sock
      BY <1>1 DEF Pending
    <3>4. Pending("ep") \in Int
      BY <1>0 DEF PendingFits
    <3> QED
      BY <3>1, <3>2, <3>3, <3>4 DEF AvailableCountsReady
  <2>2. "READYEPOLLSOCK" \in meta'.flags <=> meta'.avsock >= ctx'.required
    BY <1>a, <1>d, <1>g, <1>1
  <2>3. meta'.access = OneIf(th'["job"].pc \in Accessing)
                         + OneIf(th'["ep"].pc \in Accessing)
    BY <1>0, <1>a, <1>g, <1>1 DEF MetaFits, OneIf, Accessing
  <2>4. th'["ep"].pc # "setready"
    BY <1>0, <1>a, <1>1 DEF PendingFits
  <2> QED
    BY <2>1, <2>2, <2>3, <2>4, <1>a, <1>b, <1>g, <1>1 DEF MetaFits
<1> QED
  BY <1>2, <1>3, <1>4, <1>5, <1>6, <1>7, <1>8, <1>9, <1>10, <1>11, <1>12, <1>13
     DEF IndInv

\* The epoll thread carries its change over.
LEMMA CasEpStep ==
  ASSUME Sound, IndInv, UpdateCas("ep")
  PROVE  IndInv'
<1>0. /\ Types /\ WordFits /\ JobFits /\ EpFits /\ TimerFits /\ PendingFits
      /\ RegFits /\ FirstFits /\ NoSocket /\ FallFits /\ BytesFit /\ MetaFits
  BY DEF IndInv
<1>a. /\ th["ep"].pc = "cas" /\ Alive /\ th["ep"].delta = 1 /\ ~Ahead
      /\ Pending("ep") = 1 /\ th["ep"].req \in {0, 1} /\ ctx.required \in {0, 1}
  BY <1>0
     DEF UpdateCas, At, Alive, JobFits, PendingFits, Pending, Ahead, Types,
         Threads, Thread, Contexts
<1>b. /\ meta.wait = 0 /\ meta.avjobs = 0
      /\ "UNSTABLE" \notin meta.flags /\ "WLLDESTROY" \notin meta.flags
      /\ th["job"].delta \in -1 .. 1 /\ meta.avsock \in 0 .. MaxCount
      /\ MaxCount \in Nat /\ MaxCount >= 2
  BY <1>0, <1>a, MetaFlagAssumption
     DEF MetaFits, Types, Threads, Thread, Word, Sound
<1>c. meta.avsock + 1 \in 0 .. 2 /\ meta.avsock + 1 \in 0 .. MaxCount
  BY <1>0, <1>a, <1>b
     DEF MetaFits, AvailableCountsReady, PendingFits, Pending, IsReady, Flags
<1>d. PICK d \in Int, F \in SUBSET {"READYBASIC"}, r \in {0, 1} :
        /\ d = 1 /\ F = {} /\ r = th["ep"].req
        /\ meta' = cas_update(meta, d, 0, 0, F, r, 0)
  <2>1. InRange(meta, th["ep"].delta, 0, 0)
    BY <1>a, <1>b, <1>c DEF InRange
  <2> QED
    BY <2>1, <1>a DEF UpdateCas
<1>e. PICK m, g :
        m \in Word /\ m = meta /\ g = meta' /\ g = cas_update(m, d, 0, 0, F, r, 0)
  BY <1>0, <1>d DEF Types
<1>f. /\ g \in Word /\ g.access = m.access /\ g.avsock = m.avsock + d
      /\ g.wait = 0 /\ g.avjobs = 0
      /\ "READYEPOLLSOCK" \in g.flags <=> m.avsock + d >= r
      /\ {"READYEPOLLTOOL", "READYJOB"} \subseteq g.flags
      /\ "READYBASIC" \in g.flags <=> "READYBASIC" \in m.flags \cup F
      /\ \A x \in {"UNSTABLE", "WLLDESTROY"} : x \in g.flags <=> x \in m.flags
  BY <1>b, <1>c, <1>d, <1>e, CasUpdated
<1>g. /\ meta' \in Word /\ meta'.access = meta.access
      /\ meta'.avsock = meta.avsock + 1
      /\ meta'.wait = 0 /\ meta'.avjobs = 0
      /\ "READYEPOLLSOCK" \in meta'.flags <=> meta'.avsock >= r
      /\ {"READYEPOLLTOOL", "READYJOB"} \subseteq meta'.flags
      /\ "READYBASIC" \in meta'.flags <=> "READYBASIC" \in meta.flags
      /\ "UNSTABLE" \notin meta'.flags /\ "WLLDESTROY" \notin meta'.flags
  BY <1>b, <1>d, <1>e, <1>f
<1>i. /\ BecomesReady(meta, meta') => th["job"].pc = "suspended"
      /\ meta'.avsock >= 1
  BY <1>0, <1>a, <1>b, <1>g DEF BecomesReady, check_allready, MetaFits, Ahead
<1>h. th' = [th EXCEPT !["ep"].pc = IF BecomesReady(meta, meta') THEN "setready"
                                                             ELSE "unaccess"]
  BY DEF UpdateCas, Goto
<1>1. /\ th["ep"].pc = "cas"
      /\ th' \in [{"job", "ep"} -> Thread]
     
      /\ th'["ep"].pc = IF BecomesReady(meta, meta') THEN "setready" ELSE "unaccess"
      /\ th'["ep"].next = th["ep"].next
      /\ th'["ep"].delta = th["ep"].delta
      /\ th'["ep"].req = th["ep"].req /\ th'["ep"].n = th["ep"].n
      /\ th'["job"] = th["job"]
      /\ UNCHANGED <<prog, ctx, sock, reg, ev, net>>
  BY <1>0, <1>h
     DEF UpdateCas, Goto, At, Types, Threads, Thread, JobPc, EpPc, InUpdate
<1>2. Types'
  BY <1>0, <1>1, <1>g
     DEF Types, Threads, Thread, JobPc, EpPc, InUpdate, JobNext, EpNext,
         Contexts, Sockets, Registrations, EventStates, Networks
<1>3. WordFits'
  BY <1>0, <1>1 DEF WordFits, Flags, SocketReady
<1>4. JobFits'
  BY <1>0, <1>1
     DEF JobFits, Registering, FirstPc, Towards, At, Flags, Types, Contexts,
         Threads, InUpdate, JobNext, EpNext, Thread
<1>5. EpFits'
  BY <1>0, <1>1
     DEF EpFits, Busy, BusyFits, Giving, Towards, At, Flags, Threads, InUpdate,
         JobNext, EpNext, Types, Thread
<1>6. TimerFits'
  BY <1>0, <1>1
     DEF TimerFits, Towards, At, Flags, Threads, InUpdate, JobNext, EpNext,
         Types, Thread
<1>7. PendingFits'
  BY <1>0, <1>1, <1>i
     DEF PendingFits, Pending, Ahead, Towards, At, Flags, Threads, InUpdate,
         JobNext, EpNext, Types, Thread
<1>8. RegFits'
  BY <1>0, <1>1
     DEF RegFits, Towards, At, Flags, Threads, InUpdate, JobNext, EpNext,
         Types, Thread
<1>9. FirstFits'
  BY <1>0, <1>1 DEF FirstFits, Flags
<1>10. NoSocket'
  BY <1>0, <1>1 DEF NoSocket, Flags
<1>11. FallFits'
  BY <1>0, <1>1
     DEF FallFits, FallCountsHolders, OneIf, Towards, At, Flags, Threads,
         InUpdate, JobNext, EpNext, Types, Thread
<1>12. BytesFit'
  BY <1>0, <1>1 DEF BytesFit, BytesConserved, OneIf, At
<1>13. MetaFits'
  <2>1. AvailableCountsReady'
    <3>1. meta.avsock + Pending("job") + 1 = IsReady(sock.htc)
      BY <1>0, <1>a DEF MetaFits, AvailableCountsReady
    <3>2. meta'.avsock = meta.avsock + 1 /\ meta.avsock \in Int
      BY <1>b, <1>g
    <3>3. Pending("job")' = Pending("job") /\ Pending("ep")' = 0 /\ sock' = sock
      BY <1>1 DEF Pending
    <3>4. Pending("job") \in Int
      BY <1>b DEF Pending
    <3> QED
      BY <3>1, <3>2, <3>3, <3>4 DEF AvailableCountsReady
  <2>2. "READYEPOLLSOCK" \in meta'.flags <=> meta'.avsock >= ctx'.required
    BY <1>a, <1>b, <1>d, <1>g, <1>i, <1>1
  <2>3. meta'.access = OneIf(th'["job"].pc \in Accessing)
                         + OneIf(th'["ep"].pc \in Accessing)
    BY <1>0, <1>a, <1>g, <1>1 DEF MetaFits, OneIf, Accessing
  <2> QED
    BY <2>1, <2>2, <2>3, <1>0, <1>a, <1>b, <1>g, <1>i, <1>1 DEF MetaFits
<1> QED
  BY <1>2, <1>3, <1>4, <1>5, <1>6, <1>7, <1>8, <1>9, <1>10, <1>11, <1>12, <1>13
     DEF IndInv

\* The epoll thread marks the job ready.
LEMMA EpSetReadyStep ==
  ASSUME Sound, IndInv, UpdateSetReady
  PROVE  IndInv'
<1>0. /\ Types /\ WordFits /\ JobFits /\ EpFits /\ TimerFits /\ PendingFits
      /\ RegFits /\ FirstFits /\ NoSocket /\ FallFits /\ BytesFit /\ MetaFits
  BY DEF IndInv
<1>a. th["ep"].pc = "setready" /\ th["job"].pc = "suspended" /\ Alive
  BY <1>0
     DEF UpdateSetReady, At, Alive, JobFits, PendingFits, Towards, Types,
         Contexts
<1>b. "READY" \in Flags /\ Pending("ep") = 0 /\ ctx.required = 1
  BY <1>0, <1>a
     DEF MetaFits, AvailableCountsReady, Pending, IsReady, Flags, JobFits,
         FirstPc, Types, Word
<1>c. PICK F \in SUBSET Flag : F = {"READY"}
  BY DEF Flag, Derived
<1>g. PICK B, a : meta' = mark_or(meta, F, B, a)
  BY <1>c DEF UpdateSetReady, MarkReady
<1>h. PICK m \in Word : m = meta
  BY <1>0 DEF Types
<1>e. PICK g : g = meta' /\ g = mark_or(m, F, B, a)
  BY <1>g, <1>h
<1>d. /\ g \in Word /\ g.access = m.access /\ g.avsock = m.avsock
      /\ g.wait = m.wait /\ g.avjobs = m.avjobs
      /\ \A x : x \notin F => (x \in g.flags <=> x \in m.flags)
  BY <1>e, Marked, ZenonT(60)
<1>f. /\ meta' \in Word /\ meta'.access = meta.access
      /\ meta'.avsock = meta.avsock
      /\ meta'.wait = meta.wait /\ meta'.avjobs = meta.avjobs
      /\ \A x \in {"UNSTABLE", "WLLDESTROY", "READYBASIC", "READYEPOLLSOCK",
               "READYEPOLLTOOL", "READYJOB"} :
           x \in meta'.flags <=> x \in meta.flags
  BY <1>c, <1>d, <1>e, <1>h
<1>1. /\ th["ep"].pc = "setready"
      /\ th["job"].pc = "suspended"
      /\ th' \in [{"job", "ep"} -> Thread]
      /\ th'["ep"].pc = "unaccess"
      /\ th'["ep"].next = th["ep"].next
      /\ th'["ep"].delta = th["ep"].delta
      /\ th'["ep"].req = th["ep"].req /\ th'["ep"].n = th["ep"].n
      /\ th'["job"].pc = "cached"
      /\ th'["job"].next = th["job"].next
      /\ th'["job"].delta = th["job"].delta
      /\ th'["job"].req = th["job"].req /\ th'["job"].n = th["job"].n
      /\ UNCHANGED <<prog, ctx, sock, reg, ev, net>>
  BY <1>0, <1>a
     DEF UpdateSetReady, At, Types, Threads, Thread, JobPc, EpPc, InUpdate
<1>2. Types'
  BY <1>0, <1>1, <1>f
     DEF Types, Threads, Thread, JobPc, EpPc, InUpdate, JobNext, EpNext,
         Contexts, Sockets, Registrations, EventStates, Networks
<1>3. WordFits'
  BY <1>0, <1>1 DEF WordFits, Flags, SocketReady
<1>4. JobFits'
  BY <1>0, <1>1
     DEF JobFits, Registering, FirstPc, Towards, At, Flags, Types, Contexts,
         Threads, InUpdate, JobNext, EpNext, Thread
<1>5. EpFits'
  BY <1>0, <1>1
     DEF EpFits, Busy, BusyFits, Giving, Towards, At, Flags, Threads, InUpdate,
         JobNext, EpNext, Types, Thread
<1>6. TimerFits'
  BY <1>0, <1>1
     DEF TimerFits, Towards, At, Flags, Threads, InUpdate, JobNext, EpNext,
         Types, Thread
<1>7. PendingFits'
  BY <1>0, <1>1, <1>b
     DEF PendingFits, Pending, Ahead, Towards, At, Flags, Threads, InUpdate,
         JobNext, EpNext, Types, Thread
<1>8. RegFits'
  BY <1>0, <1>1
     DEF RegFits, Towards, At, Flags, Threads, InUpdate, JobNext, EpNext,
         Types, Thread
<1>9. FirstFits'
  BY <1>0, <1>1 DEF FirstFits, Flags
<1>10. NoSocket'
  BY <1>0, <1>1, <1>b DEF NoSocket, Flags
<1>11. FallFits'
  BY <1>0, <1>1
     DEF FallFits, FallCountsHolders, OneIf, Towards, At, Flags, Threads,
         InUpdate, JobNext, EpNext, Types, Thread
<1>12. BytesFit'
  BY <1>0, <1>1 DEF BytesFit, BytesConserved, OneIf, At
<1>13. MetaFits'
  BY <1>0, <1>1, <1>a, <1>b, <1>f
     DEF MetaFits, Alive, AvailableCountsReady, Pending, IsReady, Accessing,
         OneIf, Flags, Types, Word
<1> QED
  BY <1>2, <1>3, <1>4, <1>5, <1>6, <1>7, <1>8, <1>9, <1>10, <1>11, <1>12, <1>13
     DEF IndInv

-----------------------------------------------------------------------------
(* The epoll thread, the peer and the clock *)

\* epoll_wait answers with one event.
LEMMA WaitStep ==
  ASSUME Sound, IndInv, Wait
  PROVE  IndInv'
<1>0. /\ Types /\ WordFits /\ JobFits /\ EpFits /\ TimerFits /\ PendingFits
      /\ RegFits /\ FirstFits /\ NoSocket /\ FallFits /\ BytesFit /\ MetaFits
  BY DEF IndInv
<1>a. PICK batch \in SUBSET Reported :
        /\ batch # {} /\ Cardinality(batch) <= MaxEvents
        /\ "out" \in batch => batch = {"out"}
        /\ ev' = [batch |-> batch, src |-> "none", dead |-> FALSE]
        /\ reg' = [reg EXCEPT !.armed = @ \ (batch \ {"timer"})]
  BY DEF Wait
<1>b. /\ batch \subseteq reg.set /\ batch \subseteq Sources /\ reg.set # {}
      /\ "timer" \in batch => net.timer = "expired" /\ prog.timeouts
  BY <1>0, <1>a DEF Reported, Event, RegFits, Types, Registrations
<1>c. batch \in {{"in"}, {"out"}, {"timer"}}
  <2>1. CASE "out" \in batch
    BY <1>a, <2>1
  <2>2. CASE "timer" \in batch
    <3>1. Cardinality(batch) <= 1
      BY <1>0, <1>a, <1>b, <2>2, ProgramFits
    <3>2. ASSUME "in" \in batch PROVE FALSE
      <4>1. batch = {"in"} \cup {"timer"}
        BY <1>a, <1>b, <2>2, <3>2 DEF Sources
      <4>2. IsFiniteSet({"in"}) /\ Cardinality({"in"}) = 1
        BY FS_Singleton
      <4>3. Cardinality({"in"} \cup {"timer"}) = Cardinality({"in"}) + 1
        BY <4>2, FS_AddElement
      <4> QED
        BY <3>1, <4>1, <4>2, <4>3
    <3> QED
      BY <1>a, <1>b, <2>2, <3>2 DEF Sources
  <2> QED
    BY <1>a, <1>b, <2>1, <2>2 DEF Sources
<1>d. /\ "EPOLLDID" \notin Flags /\ ctx.regs > 0 /\ (sock.alive \/ ctx.exit)
      /\ th["job"].pc \notin {"create", "stop", "add_timer", "add_in", "refused"}
      /\ ~Towards("job", "again_fall")
  BY <1>0, <1>b, <1>c DEF RegFits, NoSocket, TimerFits, JobFits, Types, Contexts
<1>e. "timer" \in batch => ~net.closed /\ th["job"].pc # "add_out"
  BY <1>0, <1>b DEF TimerFits
<1>f. /\ ev' \in EventStates /\ ev'.batch = batch /\ ev'.src = "none"
      /\ ev'.dead = FALSE
  BY <1>a, <1>b DEF EventStates, Sources
<1>g. /\ reg' \in Registrations /\ reg'.set = reg.set
      /\ reg'.armed \subseteq reg.armed
  BY <1>0, <1>a DEF Types, Registrations
<1>1. /\ th["ep"].pc = "wait"
      /\ th' \in [{"job", "ep"} -> Thread]
      /\ th'["ep"].pc = "handle"
      /\ th'["ep"].next = th["ep"].next
      /\ th'["ep"].delta = th["ep"].delta
      /\ th'["ep"].req = th["ep"].req /\ th'["ep"].n = th["ep"].n
      /\ th'["job"] = th["job"]
      /\ UNCHANGED <<prog, meta, ctx, sock, net>>
  BY <1>0
     DEF Wait, Goto, At, epRest, Types, Threads, Thread, JobPc, EpPc, InUpdate
<1>2. Types'
  BY <1>0, <1>1, <1>f, <1>g
     DEF Types, Threads, Thread, JobPc, EpPc, InUpdate, JobNext, EpNext,
         Contexts, Sockets, Registrations, EventStates, Networks
<1>3. WordFits'
  BY <1>0, <1>1, <1>f, <1>g DEF WordFits, Flags, SocketReady
<1>4. JobFits'
  BY <1>0, <1>1, <1>f, <1>g
     DEF JobFits, Registering, FirstPc, Towards, At, Flags, Types, Contexts
<1>5. EpFits'
  BY <1>0, <1>1, <1>b, <1>c, <1>d, <1>e, <1>f
     DEF EpFits, Busy, BusyFits, Giving, Towards, At, Flags
<1>6. TimerFits'
  BY <1>0, <1>1, <1>d, <1>f DEF TimerFits, Towards, At, Flags, EpFits, Giving
<1>7. PendingFits'
  BY <1>0, <1>1, <1>f, <1>g DEF PendingFits, Pending, Ahead, Towards, At, Flags
<1>8. RegFits'
  BY <1>0, <1>1, <1>b, <1>c, <1>f, <1>g DEF RegFits, Towards, At, Flags
<1>9. FirstFits'
  BY <1>0, <1>1, <1>d DEF FirstFits, Flags
<1>10. NoSocket'
  BY <1>0, <1>1, <1>d, <1>g DEF NoSocket, Flags
<1>11. FallFits'
  BY <1>0, <1>1, <1>f, <1>g
     DEF FallFits, FallCountsHolders, OneIf, Towards, At, Flags
<1>12. BytesFit'
  BY <1>0, <1>1, <1>f, <1>g DEF BytesFit, BytesConserved, OneIf, At
<1>13. MetaFits'
  BY <1>0, <1>1, <1>f, <1>g
     DEF MetaFits, Alive, AvailableCountsReady, Pending, IsReady, Accessing,
         OneIf, Flags
<1> QED
  BY <1>2, <1>3, <1>4, <1>5, <1>6, <1>7, <1>8, <1>9, <1>10, <1>11, <1>12, <1>13
     DEF IndInv

\* The events of an answer are handled.
LEMMA HandleEndStep ==
  ASSUME Sound, IndInv, Handle, ev.batch = {}
  PROVE  IndInv'
<1>0. /\ Types /\ WordFits /\ JobFits /\ EpFits /\ TimerFits /\ PendingFits
      /\ RegFits /\ FirstFits /\ NoSocket /\ FallFits /\ BytesFit /\ MetaFits
  BY DEF IndInv
<1>a. ev' \in EventStates /\ ev'.batch = {} /\ ev'.src = "none"
  BY <1>0 DEF Handle, Types, EventStates
<1>1. /\ th["ep"].pc = "handle"
      /\ th' \in [{"job", "ep"} -> Thread]
      /\ th'["ep"].pc = "wait"
      /\ th'["ep"].next = th["ep"].next
      /\ th'["ep"].delta = th["ep"].delta
      /\ th'["ep"].req = th["ep"].req /\ th'["ep"].n = th["ep"].n
      /\ th'["job"] = th["job"]
      /\ ev' \in EventStates /\ ev'.batch = {} /\ ev'.src = "none"
      /\ UNCHANGED <<prog, meta, ctx, sock, reg, net>>
  BY <1>0, <1>a
     DEF Handle, Goto, At, epRest, Types, Threads, Thread, JobPc, EpPc,
         InUpdate
<1>2. Types'
  BY <1>0, <1>1
     DEF Types, Threads, Thread, JobPc, EpPc, InUpdate, JobNext, EpNext,
         Contexts, Sockets, Registrations, EventStates, Networks
<1>3. WordFits'
  BY <1>0, <1>1 DEF WordFits, Flags, SocketReady
<1>4. JobFits'
  BY <1>0, <1>1
     DEF JobFits, Registering, FirstPc, Towards, At, Flags, Types, Contexts
<1>5. EpFits'
  BY <1>0, <1>1 DEF EpFits, Busy, BusyFits, Giving, Towards, At, Flags
<1>6. TimerFits'
  BY <1>0, <1>1 DEF TimerFits, Towards, At, Flags, EpFits, Giving
<1>7. PendingFits'
  BY <1>0, <1>1 DEF PendingFits, Pending, Ahead, Towards, At, Flags
<1>8. RegFits'
  BY <1>0, <1>1 DEF RegFits, Towards, At, Flags
<1>9. FirstFits'
  BY <1>0, <1>1 DEF FirstFits, Flags
<1>10. NoSocket'
  BY <1>0, <1>1 DEF NoSocket, Flags
<1>11. FallFits'
  BY <1>0, <1>1 DEF FallFits, FallCountsHolders, OneIf, Towards, At, Flags
<1>12. BytesFit'
  BY <1>0, <1>1 DEF BytesFit, BytesConserved, OneIf, At
<1>13. MetaFits'
  BY <1>0, <1>1
     DEF MetaFits, Alive, AvailableCountsReady, Pending, IsReady, Accessing,
         OneIf, Flags
<1> QED
  BY <1>2, <1>3, <1>4, <1>5, <1>6, <1>7, <1>8, <1>9, <1>10, <1>11, <1>12, <1>13
     DEF IndInv

\* The epoll thread begins to handle an event.
LEMMA HandleEventStep ==
  ASSUME Sound, IndInv, Handle, ev.batch # {}
  PROVE  IndInv'
<1>0. /\ Types /\ WordFits /\ JobFits /\ EpFits /\ TimerFits /\ PendingFits
      /\ RegFits /\ FirstFits /\ NoSocket /\ FallFits /\ BytesFit /\ MetaFits
  BY DEF IndInv
<1>a. PICK src \in ev.batch :
        /\ ev' = [batch |-> ev.batch \ {src}, src |-> src, dead |-> FALSE]
        /\ Goto("ep", CASE src = "in"    -> "recv"
                        [] src = "out"   -> "activate"
                        [] src = "timer" -> "timer")
  BY DEF Handle
<1>b. ev.batch = {src} /\ src \in Sources
  BY <1>0, <1>a DEF EpFits, Sources
<1>c. ev' \in EventStates /\ ev'.batch = {} /\ ev'.src = src /\ ev'.dead = FALSE
  BY <1>a, <1>b DEF EventStates
<1>d. th' = [th EXCEPT !["ep"].pc = IF ev'.src = "in" THEN "recv"
                       ELSE IF ev'.src = "out" THEN "activate" ELSE "timer"]
  BY <1>a, <1>b, <1>c DEF Goto, Sources
<1>e. /\ "EPOLLDID" \notin Flags /\ ctx.regs > 0 /\ (sock.alive \/ ctx.exit)
      /\ th["job"].pc \notin {"stop", "add_timer", "add_in", "refused"}
      /\ ~Towards("job", "again_fall")
  BY <1>0 DEF EpFits, Busy, BusyFits
<1>f. Flags \cap {"DEAD", "TIMEOUT", "EPOLLNT"} = {} /\ th["ep"].pc = "handle"
  BY <1>0, <1>e DEF EpFits, Giving, Towards, At
<1>1. /\ th["ep"].pc = "handle"
      /\ th' \in [{"job", "ep"} -> Thread]
      /\ th'["ep"].pc = IF ev'.src = "in" THEN "recv"
             ELSE IF ev'.src = "out" THEN "activate" ELSE "timer"
      /\ th'["ep"].next = th["ep"].next
      /\ th'["ep"].delta = th["ep"].delta
      /\ th'["ep"].req = th["ep"].req /\ th'["ep"].n = th["ep"].n
      /\ th'["job"] = th["job"]
      /\ UNCHANGED <<prog, meta, ctx, sock, reg, net>>
  BY <1>0, <1>c, <1>d
     DEF Handle, Goto, At, epRest, Types, Threads, Thread, JobPc, EpPc,
         InUpdate
<1>2. Types'
  BY <1>0, <1>1, <1>c
     DEF Types, Threads, Thread, JobPc, EpPc, InUpdate, JobNext, EpNext,
         Contexts, Sockets, Registrations, EventStates, Networks
<1>3. WordFits'
  BY <1>0, <1>1, <1>c DEF WordFits, Flags, SocketReady
<1>4. JobFits'
  BY <1>0, <1>1, <1>c
     DEF JobFits, Registering, FirstPc, Towards, At, Flags, Types, Contexts
<1>5. EpFits'
  BY <1>0, <1>1, <1>b, <1>c, <1>e, <1>f
     DEF EpFits, Busy, BusyFits, Giving, Towards, At, Flags, Sources
<1>6. TimerFits'
  BY <1>0, <1>1, <1>c, <1>e, <1>f DEF TimerFits, Towards, At, Flags
<1>7. PendingFits'
  BY <1>0, <1>1, <1>c DEF PendingFits, Pending, Ahead, Towards, At, Flags
<1>8. RegFits'
  BY <1>0, <1>1, <1>b, <1>c DEF RegFits, Towards, At, Flags
<1>9. FirstFits'
  BY <1>0, <1>1, <1>e, <1>f DEF FirstFits, Flags
<1>10. NoSocket'
  BY <1>0, <1>1, <1>e DEF NoSocket, Flags
<1>11. FallFits'
  BY <1>0, <1>1, <1>c
     DEF FallFits, FallCountsHolders, OneIf, Towards, At, Flags
<1>12. BytesFit'
  BY <1>0, <1>1, <1>c DEF BytesFit, BytesConserved, OneIf, At
<1>13. MetaFits'
  BY <1>0, <1>1, <1>c
     DEF MetaFits, Alive, AvailableCountsReady, Pending, IsReady, Accessing,
         OneIf, Flags
<1> QED
  BY <1>2, <1>3, <1>4, <1>5, <1>6, <1>7, <1>8, <1>9, <1>10, <1>11, <1>12, <1>13
     DEF IndInv

\* recv takes what the kernel has.
LEMMA RecvStep ==
  ASSUME Sound, IndInv, Recv
  PROVE  IndInv'
<1>0. /\ Types /\ WordFits /\ JobFits /\ EpFits /\ TimerFits /\ PendingFits
      /\ RegFits /\ FirstFits /\ NoSocket /\ FallFits /\ BytesFit /\ MetaFits
  BY DEF IndInv
<1>a. /\ net.inq \in Nat
      /\ net' \in Networks /\ net'.inq = 0 /\ net'.sent = net.sent
      /\ net'.closed = net.closed /\ net'.timer = net.timer
  BY <1>0 DEF Recv, Types, Networks
<1>b. PICK t \in {"job", "ep"}, l \in JobPc \cup EpPc, n \in Nat :
        /\ l = IF net.inq > 0 THEN "add"
             ELSE IF net.closed THEN "dead" ELSE "activate"
        /\ t = "ep" /\ n = net.inq /\ th' = [th EXCEPT ![t].n = n, ![t].pc = l]
  BY <1>a DEF Recv, EpPc
<1>c. /\ th' \in [{"job", "ep"} -> Thread]
      /\ th'[t].pc = l /\ th'[t].next = th[t].next
      /\ th'[t].delta = th[t].delta /\ th'[t].req = th[t].req /\ th'[t].n = n
      /\ \A u \in {"job", "ep"} : u # t => th'[u] = th[u]
  <2>1. th \in [{"job", "ep"} -> Thread]
    BY <1>0 DEF Types, Threads
  <2>2. th' = [th EXCEPT ![t].n = n, ![t].pc = l]
    BY <1>b
  <2> QED
    BY <2>1, <2>2, ThreadBytes, ZenonT(60)
<1>1. /\ th["ep"].pc = "recv"
      /\ th' \in [{"job", "ep"} -> Thread]
      /\ th'["ep"].pc = IF net.inq > 0 THEN "add"
             ELSE IF net.closed THEN "dead" ELSE "activate"
      /\ th'["ep"].next = th["ep"].next
      /\ th'["ep"].delta = th["ep"].delta
      /\ th'["ep"].req = th["ep"].req /\ th'["ep"].n = net.inq
      /\ th'["job"] = th["job"]
      /\ UNCHANGED <<prog, meta, ctx, sock, reg, ev>>
  BY <1>0, <1>b, <1>c
     DEF Recv, At, epRest, Types, Threads, Thread, JobPc, EpPc, InUpdate
<1>2. Types'
  BY <1>0, <1>1, <1>a
     DEF Types, Threads, Thread, JobPc, EpPc, InUpdate, JobNext, EpNext,
         Contexts, Sockets, Registrations, EventStates, Networks
<1>3. WordFits'
  BY <1>0, <1>1, <1>a DEF WordFits, Flags, SocketReady
<1>4. JobFits'
  BY <1>0, <1>1, <1>a
     DEF JobFits, Registering, FirstPc, Towards, At, Flags, Types, Contexts
<1>5. EpFits'
  BY <1>0, <1>1, <1>a DEF EpFits, Busy, BusyFits, Giving, Towards, At, Flags
<1>6. TimerFits'
  BY <1>0, <1>1, <1>a DEF TimerFits, Towards, At, Flags, EpFits
<1>7. PendingFits'
  BY <1>0, <1>1, <1>a DEF PendingFits, Pending, Ahead, Towards, At, Flags
<1>8. RegFits'
  BY <1>0, <1>1, <1>a DEF RegFits, Towards, At, Flags
<1>9. FirstFits'
  BY <1>0, <1>1, <1>a DEF FirstFits, Flags
<1>10. NoSocket'
  BY <1>0, <1>1, <1>a DEF NoSocket, Flags
<1>11. FallFits'
  BY <1>0, <1>1, <1>a
     DEF FallFits, FallCountsHolders, OneIf, Towards, At, Flags
<1>12. BytesFit'
  <2>1. /\ net.sent \in Int /\ sock.htc.count \in Int /\ ctx.got \in Int
        /\ th["job"].n \in Int
        /\ OneIf(At("job", "read_add")) * th["job"].n \in Int
    BY <1>0 DEF Types, Networks, Contexts, Sockets, HtcWord, Threads, Thread, OneIf
  <2>2. /\ OneIf(At("ep", "add")) * th["ep"].n = 0
        /\ (OneIf(At("ep", "add")) * th["ep"].n)' = net.inq
    BY <1>0, <1>a, <1>1 DEF At, OneIf, Types, Threads, Thread
  <2>3. (OneIf(At("job", "read_add")) * th["job"].n)' =
          OneIf(At("job", "read_add")) * th["job"].n
    BY <1>1 DEF At, OneIf
  <2> QED
    BY <1>0, <1>a, <1>1, <2>1, <2>2, <2>3 DEF BytesFit, BytesConserved
<1>13. MetaFits'
  BY <1>0, <1>1, <1>a
     DEF MetaFits, Alive, AvailableCountsReady, Pending, IsReady, Accessing,
         OneIf, Flags
<1> QED
  BY <1>2, <1>3, <1>4, <1>5, <1>6, <1>7, <1>8, <1>9, <1>10, <1>11, <1>12, <1>13
     DEF IndInv

\* The bytes received are counted.
LEMMA RecvAddStep ==
  ASSUME Sound, IndInv, RecvAdd
  PROVE  IndInv'
<1>0. /\ Types /\ WordFits /\ JobFits /\ EpFits /\ TimerFits /\ PendingFits
      /\ RegFits /\ FirstFits /\ NoSocket /\ FallFits /\ BytesFit /\ MetaFits
  BY DEF IndInv
<1>a. /\ th["ep"].pc = "add" /\ "TIMEOUT" \notin Flags /\ "EPOLLDID" \notin Flags
      /\ Flags \cap {"DEAD", "EPOLLNT"} = {} /\ ~ctx.exit /\ ctx.regs > 0
      /\ th["job"].pc \notin {"stop", "add_timer", "add_in", "refused"}
      /\ ~Towards("job", "again_fall") /\ sock.alive
  BY <1>0
     DEF RecvAdd, At, EpFits, Busy, BusyFits, Giving, Towards, WordFits, Flags
<1>b. /\ th["ep"].n \in Nat /\ sock.htc.count \in Nat /\ net.inq \in Nat
      /\ ctx.got \in Nat
      /\ net.sent \in Nat /\ th["job"].n \in Nat
  BY <1>0 DEF Types, Threads, Thread, Sockets, HtcWord, Networks, Contexts
<1>d. /\ th["ep"].n \in Int
      /\ sock.htc.count + th["ep"].n \in 0 .. BufferSize
  BY <1>0, <1>a, <1>b, ProgramFits DEF BytesFit, BytesConserved, OneIf, At
<1>s. PICK t \in {"job", "ep"}, l \in JobNext \cup EpNext, d \in Int :
        /\ t = "ep" /\ l = "activate" /\ d = th["ep"].n /\ CasCount(t, d, l)
        /\ sock.htc.count + d \in 0 .. BufferSize
  BY <1>a, <1>d DEF RecvAdd, JobNext, EpNext
<1>t. /\ OnlyCas(t, l) /\ sock'.htc.count = sock.htc.count + d
      /\ "READ_READY" \in Flags' <=> sock'.htc.count >= ReadCond
      /\ "READY" \in Flags' <=> SocketReady(Flags')
      /\ \A x \in {"WRITE_READY", "DEAD", "EPOLLNT", "EPOLLDID", "TIMEOUT"} :
           x \in Flags' <=> x \in Flags
  BY <1>0, <1>a, <1>s, CountDone
<1>u. /\ sock' \in Sockets /\ sock'.htc.count = sock.htc.count + th["ep"].n
      /\ sock'.alive = sock.alive /\ sock'.fall = sock.fall
      /\ sock'.data = sock.data
      /\ "READ_READY" \in Flags' <=> sock'.htc.count >= ReadCond
      /\ "READY" \in Flags' <=> SocketReady(Flags')
      /\ "READY" \in Flags => "READY" \in Flags'
      /\ \A x \in {"WRITE_READY", "DEAD", "EPOLLNT", "EPOLLDID", "TIMEOUT"} :
           x \in Flags' <=> x \in Flags
  BY <1>0, <1>a, <1>b, <1>s, <1>t, ProgramFits
     DEF OnlyCas, WordFits, SocketReady
<1>1. /\ th["ep"].pc = "add"
      /\ th' \in [{"job", "ep"} -> Thread]
      /\ th'["ep"].pc = "update"
      /\ th'["ep"].next = "activate"
      /\ th'["ep"].delta = (IF "READY" \in Flags' THEN 1 ELSE 0)
             - (IF "READY" \in Flags THEN 1 ELSE 0)
      /\ th'["ep"].req = th["ep"].req /\ th'["ep"].n = th["ep"].n
      /\ th'["job"] = th["job"]
      /\ UNCHANGED <<prog, meta, ctx, reg, ev, net>>
  BY <1>0, <1>s, <1>t
     DEF RecvAdd, OnlyCas, At, jobRest, epRest, Types, Threads, Thread, JobPc,
         EpPc, InUpdate
<1>2. Types'
  BY <1>0, <1>1, <1>a, <1>u
     DEF Types, Threads, Thread, JobPc, EpPc, InUpdate, JobNext, EpNext,
         Contexts, Sockets, Registrations, EventStates, Networks
<1>3. WordFits'
  BY <1>0, <1>1, <1>a, <1>u DEF WordFits, Flags, SocketReady
<1>4. JobFits'
  BY <1>0, <1>1, <1>a, <1>u
     DEF JobFits, Registering, FirstPc, Towards, At, Flags, Types, Contexts
<1>5. EpFits'
  BY <1>0, <1>1, <1>a, <1>u
     DEF EpFits, Busy, BusyFits, Giving, Towards, At, Flags
<1>6. TimerFits'
  BY <1>0, <1>1, <1>a, <1>u DEF TimerFits, Towards, At, Flags, EpFits
<1>7. PendingFits'
  BY <1>0, <1>1, <1>a, <1>u DEF PendingFits, Pending, Ahead, Towards, At, Flags
<1>8. RegFits'
  BY <1>0, <1>1, <1>a, <1>u DEF RegFits, Towards, At, Flags
<1>9. FirstFits'
  BY <1>0, <1>1, <1>a, <1>u DEF FirstFits, Flags
<1>10. NoSocket'
  BY <1>0, <1>1, <1>a, <1>u DEF NoSocket, Flags
<1>11. FallFits'
  BY <1>0, <1>1, <1>a, <1>u
     DEF FallFits, FallCountsHolders, OneIf, Towards, At, Flags
<1>12. BytesFit'
  BY <1>0, <1>1, <1>a, <1>b, <1>u DEF BytesFit, BytesConserved, OneIf, At
<1>13. MetaFits'
  BY <1>0, <1>1, <1>a, <1>u
     DEF MetaFits, Alive, AvailableCountsReady, Pending, IsReady, Accessing,
         OneIf, Flags, Types, Word, Threads, Thread
<1> QED
  BY <1>2, <1>3, <1>4, <1>5, <1>6, <1>7, <1>8, <1>9, <1>10, <1>11, <1>12, <1>13
     DEF IndInv

\* The epoll thread finds the socket dead.
LEMMA MarkDeadStep ==
  ASSUME Sound, IndInv, MarkDead
  PROVE  IndInv'
<1>0. /\ Types /\ WordFits /\ JobFits /\ EpFits /\ TimerFits /\ PendingFits
      /\ RegFits /\ FirstFits /\ NoSocket /\ FallFits /\ BytesFit /\ MetaFits
  BY DEF IndInv
<1>a. /\ th["ep"].pc = "dead" /\ "EPOLLDID" \notin Flags /\ ctx.regs > 0
      /\ net.closed
      /\ Flags \cap {"DEAD", "TIMEOUT", "EPOLLNT"} = {} /\ ~ctx.exit
      /\ th["job"].pc \notin {"stop", "add_timer", "add_in", "refused"}
      /\ ~Towards("job", "again_fall") /\ sock.alive /\ ~Registering
  BY <1>0
     DEF MarkDead, At, EpFits, TimerFits, JobFits, Busy, BusyFits, Giving,
         Towards, WordFits, Flags
<1>r. sock.htc \in HtcWord /\ mark_dead(sock.htc) \in HtcWord
  BY <1>0, WordStored DEF Types, Sockets
<1>s. PICK t \in {"job", "ep"}, l \in JobNext \cup EpNext, g \in HtcWord :
        t = "ep" /\ l = "activate" /\ g = mark_dead(sock.htc) /\ CasHtc(t, g, l)
  BY <1>0, <1>r DEF MarkDead, JobNext, EpNext
<1>t. OnlyCas(t, l) /\ sock'.htc = g
  BY <1>0, <1>s, CasDone
<1>e. /\ ev' \in EventStates /\ ev'.batch = ev.batch
      /\ ev'.src = ev.src /\ ev'.dead = TRUE
  BY <1>0 DEF MarkDead, Types, EventStates
<1>u. /\ sock' \in Sockets /\ sock'.htc.count = sock.htc.count
      /\ sock'.alive = sock.alive /\ sock'.fall = sock.fall
      /\ sock'.data = sock.data
      /\ Flags' = Flags \cup {"DEAD", "READY"}
  BY <1>r, <1>s, <1>t, WordStored DEF OnlyCas, Flags, SocketFlag
<1>1. /\ th["ep"].pc = "dead"
      /\ th' \in [{"job", "ep"} -> Thread]
      /\ th'["ep"].pc = "update"
      /\ th'["ep"].next = "activate"
      /\ th'["ep"].delta = (IF "READY" \in Flags' THEN 1 ELSE 0)
             - (IF "READY" \in Flags THEN 1 ELSE 0)
      /\ th'["ep"].req = th["ep"].req /\ th'["ep"].n = th["ep"].n
      /\ th'["job"] = th["job"]
      /\ UNCHANGED <<prog, meta, ctx, reg, net>>
  BY <1>0, <1>s, <1>t
     DEF MarkDead, OnlyCas, At, jobRest, epRest, Types, Threads, Thread, JobPc,
         EpPc, InUpdate
<1>2. Types'
  BY <1>0, <1>1, <1>a, <1>u, <1>e
     DEF Types, Threads, Thread, JobPc, EpPc, InUpdate, JobNext, EpNext,
         Contexts, Sockets, Registrations, EventStates, Networks
<1>3. WordFits'
  BY <1>0, <1>1, <1>a, <1>u, <1>e DEF WordFits, Flags, SocketReady
<1>4. JobFits'
  BY <1>0, <1>1, <1>a, <1>u, <1>e
     DEF JobFits, Registering, FirstPc, Towards, At, Flags, Types, Contexts
<1>5. EpFits'
  BY <1>0, <1>1, <1>a, <1>u, <1>e
     DEF EpFits, Busy, BusyFits, Giving, Towards, At, Flags
<1>6. TimerFits'
  BY <1>0, <1>1, <1>a, <1>u, <1>e DEF TimerFits, Towards, At, Flags
<1>7. PendingFits'
  BY <1>0, <1>1, <1>a, <1>u, <1>e
     DEF PendingFits, Pending, Ahead, Towards, At, Flags
<1>8. RegFits'
  BY <1>0, <1>1, <1>a, <1>u, <1>e DEF RegFits, Towards, At, Flags
<1>9. FirstFits'
  BY <1>0, <1>1, <1>a, <1>u, <1>e DEF FirstFits, Flags
<1>10. NoSocket'
  BY <1>0, <1>1, <1>a, <1>u, <1>e DEF NoSocket, Flags
<1>11. FallFits'
  BY <1>0, <1>1, <1>a, <1>u, <1>e
     DEF FallFits, FallCountsHolders, OneIf, Towards, At, Flags
<1>12. BytesFit'
  BY <1>0, <1>1, <1>a, <1>u, <1>e DEF BytesFit, BytesConserved, OneIf, At
<1>13. MetaFits'
  BY <1>0, <1>1, <1>a, <1>u, <1>e
     DEF MetaFits, Alive, AvailableCountsReady, Pending, IsReady, Accessing,
         OneIf, Flags, Types, Word, Threads, Thread
<1> QED
  BY <1>2, <1>3, <1>4, <1>5, <1>6, <1>7, <1>8, <1>9, <1>10, <1>11, <1>12, <1>13
     DEF IndInv

\* The registration for reading is renewed.
LEMMA ActivateStep ==
  ASSUME Sound, IndInv, Activate
  PROVE  IndInv'
<1>0. /\ Types /\ WordFits /\ JobFits /\ EpFits /\ TimerFits /\ PendingFits
      /\ RegFits /\ FirstFits /\ NoSocket /\ FallFits /\ BytesFit /\ MetaFits
  BY DEF IndInv
<1>a. /\ reg' \in Registrations /\ reg'.set = reg.set
      /\ reg.armed \subseteq reg.set => reg'.armed \subseteq reg.set
  BY <1>0 DEF Activate, Types, Registrations, Sources
<1>1. /\ th["ep"].pc = "activate"
      /\ th' \in [{"job", "ep"} -> Thread]
      /\ th'["ep"].pc = IF ev.dead THEN "del" ELSE "handle"
      /\ th'["ep"].next = th["ep"].next
      /\ th'["ep"].delta = th["ep"].delta
      /\ th'["ep"].req = th["ep"].req /\ th'["ep"].n = th["ep"].n
      /\ th'["job"] = th["job"]
      /\ UNCHANGED <<prog, meta, ctx, sock, ev, net>>
  BY <1>0
     DEF Activate, Goto, At, epRest, Types, Threads, Thread, JobPc, EpPc,
         InUpdate
<1>2. Types'
  BY <1>0, <1>1, <1>a
     DEF Types, Threads, Thread, JobPc, EpPc, InUpdate, JobNext, EpNext,
         Contexts, Sockets, Registrations, EventStates, Networks
<1>3. WordFits'
  BY <1>0, <1>1, <1>a DEF WordFits, Flags, SocketReady
<1>4. JobFits'
  BY <1>0, <1>1, <1>a
     DEF JobFits, Registering, FirstPc, Towards, At, Flags, Types, Contexts
<1>5. EpFits'
  BY <1>0, <1>1, <1>a DEF EpFits, Busy, BusyFits, Giving, Towards, At, Flags
<1>6. TimerFits'
  BY <1>0, <1>1, <1>a DEF TimerFits, Towards, At, Flags
<1>7. PendingFits'
  BY <1>0, <1>1, <1>a DEF PendingFits, Pending, Ahead, Towards, At, Flags
<1>8. RegFits'
  BY <1>0, <1>1, <1>a DEF RegFits, Towards, At, Flags
<1>9. FirstFits'
  BY <1>0, <1>1, <1>a DEF FirstFits, Flags
<1>10. NoSocket'
  BY <1>0, <1>1, <1>a DEF NoSocket, Flags
<1>11. FallFits'
  BY <1>0, <1>1, <1>a
     DEF FallFits, FallCountsHolders, OneIf, Towards, At, Flags
<1>12. BytesFit'
  BY <1>0, <1>1, <1>a DEF BytesFit, BytesConserved, OneIf, At
<1>13. MetaFits'
  BY <1>0, <1>1, <1>a
     DEF MetaFits, Alive, AvailableCountsReady, Pending, IsReady, Accessing,
         OneIf, Flags
<1> QED
  BY <1>2, <1>3, <1>4, <1>5, <1>6, <1>7, <1>8, <1>9, <1>10, <1>11, <1>12, <1>13
     DEF IndInv

\* The timer of a ready socket is started again.
LEMMA TimerReadyStep ==
  ASSUME Sound, IndInv, Timer, IsReady(sock.htc) = 1
  PROVE  IndInv'
<1>0. /\ Types /\ WordFits /\ JobFits /\ EpFits /\ TimerFits /\ PendingFits
      /\ RegFits /\ FirstFits /\ NoSocket /\ FallFits /\ BytesFit /\ MetaFits
  BY DEF IndInv
<1>1. /\ th["ep"].pc = "timer"
      /\ th' \in [{"job", "ep"} -> Thread]
      /\ th'["ep"].pc = "handle"
      /\ th'["ep"].next = th["ep"].next
      /\ th'["ep"].delta = th["ep"].delta
      /\ th'["ep"].req = th["ep"].req /\ th'["ep"].n = th["ep"].n
      /\ th'["job"] = th["job"]
      /\ net' = IF prog.timeouts THEN [net EXCEPT !.timer = "running"] ELSE net
      /\ UNCHANGED <<prog, meta, ctx, sock, reg, ev>>
  BY <1>0
     DEF Timer, ResetTimer, Goto, At, epRest, Types, Threads, Thread, JobPc,
         EpPc, InUpdate
<1>2. Types'
  BY <1>0, <1>1
     DEF Types, Threads, Thread, JobPc, EpPc, InUpdate, JobNext, EpNext,
         Contexts, Sockets, Registrations, EventStates, Networks
<1>3. WordFits'
  BY <1>0, <1>1 DEF WordFits, Flags, SocketReady
<1>4. JobFits'
  BY <1>0, <1>1
     DEF JobFits, Registering, FirstPc, Towards, At, Flags, Types, Contexts
<1>5. EpFits'
  BY <1>0, <1>1 DEF EpFits, Busy, BusyFits, Giving, Towards, At, Flags
<1>6. TimerFits'
  BY <1>0, <1>1 DEF TimerFits, Towards, At, Flags
<1>7. PendingFits'
  BY <1>0, <1>1 DEF PendingFits, Pending, Ahead, Towards, At, Flags
<1>8. RegFits'
  BY <1>0, <1>1 DEF RegFits, Towards, At, Flags
<1>9. FirstFits'
  BY <1>0, <1>1 DEF FirstFits, Flags
<1>10. NoSocket'
  BY <1>0, <1>1 DEF NoSocket, Flags
<1>11. FallFits'
  BY <1>0, <1>1 DEF FallFits, FallCountsHolders, OneIf, Towards, At, Flags
<1>12. BytesFit'
  BY <1>0, <1>1 DEF BytesFit, BytesConserved, OneIf, At
<1>13. MetaFits'
  BY <1>0, <1>1
     DEF MetaFits, Alive, AvailableCountsReady, Pending, IsReady, Accessing,
         OneIf, Flags
<1> QED
  BY <1>2, <1>3, <1>4, <1>5, <1>6, <1>7, <1>8, <1>9, <1>10, <1>11, <1>12, <1>13
     DEF IndInv

\* The socket is about to time out.
LEMMA TimerOutStep ==
  ASSUME Sound, IndInv, Timer, IsReady(sock.htc) # 1
  PROVE  IndInv'
<1>0. /\ Types /\ WordFits /\ JobFits /\ EpFits /\ TimerFits /\ PendingFits
      /\ RegFits /\ FirstFits /\ NoSocket /\ FallFits /\ BytesFit /\ MetaFits
  BY DEF IndInv
<1>1. /\ th["ep"].pc = "timer"
      /\ th' \in [{"job", "ep"} -> Thread]
      /\ th'["ep"].pc = "timeout"
      /\ th'["ep"].next = th["ep"].next
      /\ th'["ep"].delta = th["ep"].delta
      /\ th'["ep"].req = th["ep"].req /\ th'["ep"].n = th["ep"].n
      /\ th'["job"] = th["job"]
      /\ UNCHANGED <<prog, meta, ctx, sock, reg, ev, net>>
  BY <1>0
     DEF Timer, Goto, At, epRest, Types, Threads, Thread, JobPc, EpPc, InUpdate
<1>2. Types'
  BY <1>0, <1>1
     DEF Types, Threads, Thread, JobPc, EpPc, InUpdate, JobNext, EpNext,
         Contexts, Sockets, Registrations, EventStates, Networks
<1>3. WordFits'
  BY <1>0, <1>1 DEF WordFits, Flags, SocketReady
<1>4. JobFits'
  BY <1>0, <1>1
     DEF JobFits, Registering, FirstPc, Towards, At, Flags, Types, Contexts
<1>5. EpFits'
  BY <1>0, <1>1 DEF EpFits, Busy, BusyFits, Giving, Towards, At, Flags, IsReady
<1>6. TimerFits'
  BY <1>0, <1>1 DEF TimerFits, Towards, At, Flags
<1>7. PendingFits'
  BY <1>0, <1>1 DEF PendingFits, Pending, Ahead, Towards, At, Flags
<1>8. RegFits'
  BY <1>0, <1>1 DEF RegFits, Towards, At, Flags
<1>9. FirstFits'
  BY <1>0, <1>1 DEF FirstFits, Flags
<1>10. NoSocket'
  BY <1>0, <1>1 DEF NoSocket, Flags
<1>11. FallFits'
  BY <1>0, <1>1 DEF FallFits, FallCountsHolders, OneIf, Towards, At, Flags
<1>12. BytesFit'
  BY <1>0, <1>1 DEF BytesFit, BytesConserved, OneIf, At
<1>13. MetaFits'
  BY <1>0, <1>1
     DEF MetaFits, Alive, AvailableCountsReady, Pending, IsReady, Accessing,
         OneIf, Flags
<1> QED
  BY <1>2, <1>3, <1>4, <1>5, <1>6, <1>7, <1>8, <1>9, <1>10, <1>11, <1>12, <1>13
     DEF IndInv

\* The socket times out.
LEMMA TimeoutCasStep ==
  ASSUME Sound, IndInv, TimeoutCas
  PROVE  IndInv'
<1>0. /\ Types /\ WordFits /\ JobFits /\ EpFits /\ TimerFits /\ PendingFits
      /\ RegFits /\ FirstFits /\ NoSocket /\ FallFits /\ BytesFit /\ MetaFits
  BY DEF IndInv
<1>a. /\ th["ep"].pc = "timeout" /\ "EPOLLDID" \notin Flags /\ ctx.regs > 0
      /\ ~net.closed
      /\ ev.src = "timer" /\ prog.timeouts /\ "READY" \notin Flags /\ ~Ahead
      /\ Flags \cap {"DEAD", "TIMEOUT", "EPOLLNT"} = {} /\ ~ctx.exit
      /\ th["job"].pc \notin {"stop", "add_timer", "add_in", "add_out", "refused"}
      /\ ~Towards("job", "again_fall") /\ sock.alive /\ ~Registering
  BY <1>0
     DEF TimeoutCas, At, EpFits, PendingFits, Registering, JobFits, Busy,
         BusyFits, Giving, Towards, WordFits, Flags
<1>r. sock.htc \in HtcWord /\ timeout_cas(sock.htc) \in HtcWord
  BY <1>0, WordStored DEF Types, Sockets
<1>s. PICK t \in {"job", "ep"}, l \in JobNext \cup EpNext, g \in HtcWord :
        t = "ep" /\ l = "del" /\ g = timeout_cas(sock.htc) /\ CasHtc(t, g, l)
  BY <1>0, <1>r DEF TimeoutCas, JobNext, EpNext
<1>t. OnlyCas(t, l) /\ sock'.htc = g
  BY <1>0, <1>s, CasDone
<1>u. /\ sock' \in Sockets /\ sock'.htc.count = sock.htc.count
      /\ sock'.alive = sock.alive /\ sock'.fall = sock.fall
      /\ sock'.data = sock.data
      /\ Flags' = Flags \cup {"TIMEOUT", "READY"}
  BY <1>r, <1>s, <1>t, WordStored DEF OnlyCas, Flags, SocketFlag
<1>1. /\ th["ep"].pc = "timeout"
      /\ th' \in [{"job", "ep"} -> Thread]
      /\ th'["ep"].pc = "update"
      /\ th'["ep"].next = "del"
      /\ th'["ep"].delta = (IF "READY" \in Flags' THEN 1 ELSE 0)
             - (IF "READY" \in Flags THEN 1 ELSE 0)
      /\ th'["ep"].req = th["ep"].req /\ th'["ep"].n = th["ep"].n
      /\ th'["job"] = th["job"]
      /\ UNCHANGED <<prog, meta, ctx, reg, ev, net>>
  BY <1>0, <1>s, <1>t
     DEF TimeoutCas, OnlyCas, At, jobRest, epRest, Types, Threads, Thread,
         JobPc, EpPc, InUpdate
<1>2. Types'
  BY <1>0, <1>1, <1>a, <1>u
     DEF Types, Threads, Thread, JobPc, EpPc, InUpdate, JobNext, EpNext,
         Contexts, Sockets, Registrations, EventStates, Networks
<1>3. WordFits'
  BY <1>0, <1>1, <1>a, <1>u DEF WordFits, Flags, SocketReady
<1>4. JobFits'
  BY <1>0, <1>1, <1>a, <1>u
     DEF JobFits, Registering, FirstPc, Towards, At, Flags, Types, Contexts,
         Ahead
<1>5. EpFits'
  BY <1>0, <1>1, <1>a, <1>u
     DEF EpFits, Busy, BusyFits, Giving, Towards, At, Flags
<1>6. TimerFits'
  BY <1>0, <1>1, <1>a, <1>u DEF TimerFits, Towards, At, Flags
<1>7. PendingFits'
  BY <1>0, <1>1, <1>a, <1>u DEF PendingFits, Pending, Ahead, Towards, At, Flags
<1>8. RegFits'
  BY <1>0, <1>1, <1>a, <1>u DEF RegFits, Towards, At, Flags
<1>9. FirstFits'
  BY <1>0, <1>1, <1>a, <1>u DEF FirstFits, Flags
<1>10. NoSocket'
  BY <1>0, <1>1, <1>a, <1>u DEF NoSocket, Flags
<1>11. FallFits'
  BY <1>0, <1>1, <1>a, <1>u
     DEF FallFits, FallCountsHolders, OneIf, Towards, At, Flags
<1>12. BytesFit'
  BY <1>0, <1>1, <1>a, <1>u DEF BytesFit, BytesConserved, OneIf, At
<1>13. MetaFits'
  BY <1>0, <1>1, <1>a, <1>u
     DEF MetaFits, Alive, AvailableCountsReady, Pending, IsReady, Accessing,
         OneIf, Flags, Types, Word, Threads, Thread
<1> QED
  BY <1>2, <1>3, <1>4, <1>5, <1>6, <1>7, <1>8, <1>9, <1>10, <1>11, <1>12, <1>13
     DEF IndInv

\* The epoll thread takes the socket out of its instances.
LEMMA DelStep ==
  ASSUME Sound, IndInv, Del
  PROVE  IndInv'
<1>0. /\ Types /\ WordFits /\ JobFits /\ EpFits /\ TimerFits /\ PendingFits
      /\ RegFits /\ FirstFits /\ NoSocket /\ FallFits /\ BytesFit /\ MetaFits
  BY DEF IndInv
<1>b. reg' \in Registrations /\ reg'.set = {} /\ reg'.armed = {}
  BY <1>0 DEF Del, Registrations
<1>c. /\ sock' \in Sockets /\ sock'.htc = sock.htc
      /\ sock'.alive = sock.alive /\ sock'.fall = sock.fall
  BY <1>0 DEF Del, Types, Sockets
<1>d. ev.batch = {} /\ th["job"].pc # "add_out"
  BY <1>0 DEF Del, At, EpFits, JobFits, Registering, Giving, Towards
<1>1. /\ th["ep"].pc = "del"
      /\ th' \in [{"job", "ep"} -> Thread]
      /\ th'["ep"].pc = "done"
      /\ th'["ep"].next = th["ep"].next
      /\ th'["ep"].delta = th["ep"].delta
      /\ th'["ep"].req = th["ep"].req /\ th'["ep"].n = th["ep"].n
      /\ th'["job"] = th["job"]
      /\ UNCHANGED <<prog, meta, ctx, ev, net>>
  BY <1>0
     DEF Del, Goto, At, epRest, Types, Threads, Thread, JobPc, EpPc, InUpdate
<1>2. Types'
  BY <1>0, <1>1, <1>b, <1>c
     DEF Types, Threads, Thread, JobPc, EpPc, InUpdate, JobNext, EpNext,
         Contexts, Sockets, Registrations, EventStates, Networks
<1>3. WordFits'
  BY <1>0, <1>1, <1>b, <1>c DEF WordFits, Flags, SocketReady
<1>4. JobFits'
  BY <1>0, <1>1, <1>b, <1>c
     DEF JobFits, Registering, FirstPc, Towards, At, Flags, Types, Contexts
<1>5. EpFits'
  BY <1>0, <1>1, <1>b, <1>c
     DEF EpFits, Busy, BusyFits, Giving, Towards, At, Flags
<1>6. TimerFits'
  BY <1>0, <1>1, <1>b, <1>c DEF TimerFits, Towards, At, Flags
<1>7. PendingFits'
  BY <1>0, <1>1, <1>b, <1>c DEF PendingFits, Pending, Ahead, Towards, At, Flags
<1>8. RegFits'
  BY <1>0, <1>1, <1>b, <1>c, <1>d DEF RegFits, Towards, At, Flags
<1>9. FirstFits'
  BY <1>0, <1>1, <1>b, <1>c DEF FirstFits, Flags
<1>10. NoSocket'
  BY <1>0, <1>1, <1>b, <1>c DEF NoSocket, Flags
<1>11. FallFits'
  BY <1>0, <1>1, <1>b, <1>c
     DEF FallFits, FallCountsHolders, OneIf, Towards, At, Flags
<1>12. BytesFit'
  BY <1>0, <1>1, <1>b, <1>c DEF BytesFit, BytesConserved, OneIf, At
<1>13. MetaFits'
  BY <1>0, <1>1, <1>b, <1>c
     DEF MetaFits, Alive, AvailableCountsReady, Pending, IsReady, Accessing,
         OneIf, Flags
<1> QED
  BY <1>2, <1>3, <1>4, <1>5, <1>6, <1>7, <1>8, <1>9, <1>10, <1>11, <1>12, <1>13
     DEF IndInv

\* The epoll thread gives up the socket.
LEMMA EpDoneStep ==
  ASSUME Sound, IndInv, EpDone
  PROVE  IndInv'
<1>0. /\ Types /\ WordFits /\ JobFits /\ EpFits /\ TimerFits /\ PendingFits
      /\ RegFits /\ FirstFits /\ NoSocket /\ FallFits /\ BytesFit /\ MetaFits
  BY DEF IndInv
<1>a. /\ th["ep"].pc = "done" /\ "EPOLLDID" \notin Flags /\ ctx.regs > 0
      /\ reg.set = {}
      /\ Flags \cap {"DEAD", "TIMEOUT"} # {}
      /\ ("READY" \notin Flags => "EPOLLNT" \in Flags)
      /\ th["job"].pc \notin {"stop", "add_timer", "add_in", "refused"}
      /\ ~Towards("job", "again_fall") /\ (sock.alive \/ ctx.exit) /\ ~Registering
      /\ "EPOLLNT" \in Flags /\ "READY" \notin Flags => ~Ahead
  BY <1>0
     DEF EpDone, At, EpFits, RegFits, PendingFits, Registering, JobFits, Busy,
         BusyFits, Giving, Towards, WordFits, SocketReady, Flags
<1>r. sock.htc \in HtcWord /\ done_cas_epollside(sock.htc) \in HtcWord
  BY <1>0, WordStored DEF Types, Sockets
<1>s. PICK t \in {"job", "ep"}, l \in JobNext \cup EpNext, g \in HtcWord :
        /\ t = "ep" /\ l = "drop" /\ g = done_cas_epollside(sock.htc)
        /\ CasHtc(t, g, l)
  BY <1>0, <1>r DEF EpDone, JobNext, EpNext
<1>t. OnlyCas(t, l) /\ sock'.htc = g
  BY <1>0, <1>s, CasDone
<1>u. /\ sock' \in Sockets /\ sock'.htc.count = sock.htc.count
      /\ sock'.alive = sock.alive /\ sock'.fall = sock.fall
      /\ sock'.data = sock.data
      /\ Flags' = Flags \cup {"EPOLLDID", "READY"}
  BY <1>r, <1>s, <1>t, WordStored DEF OnlyCas, Flags, SocketFlag
<1>1. /\ th["ep"].pc = "done"
      /\ th' \in [{"job", "ep"} -> Thread]
      /\ th'["ep"].pc = "update"
      /\ th'["ep"].next = "drop"
      /\ th'["ep"].delta = (IF "READY" \in Flags' THEN 1 ELSE 0)
             - (IF "READY" \in Flags THEN 1 ELSE 0)
      /\ th'["ep"].req = th["ep"].req /\ th'["ep"].n = th["ep"].n
      /\ th'["job"] = th["job"]
      /\ UNCHANGED <<prog, meta, ctx, reg, ev, net>>
  BY <1>0, <1>s, <1>t
     DEF EpDone, OnlyCas, At, jobRest, epRest, Types, Threads, Thread, JobPc,
         EpPc, InUpdate
<1>2. Types'
  BY <1>0, <1>1, <1>a, <1>u
     DEF Types, Threads, Thread, JobPc, EpPc, InUpdate, JobNext, EpNext,
         Contexts, Sockets, Registrations, EventStates, Networks
<1>3. WordFits'
  BY <1>0, <1>1, <1>a, <1>u DEF WordFits, Flags, SocketReady
<1>4. JobFits'
  BY <1>0, <1>1, <1>a, <1>u
     DEF JobFits, Registering, FirstPc, Towards, At, Flags, Types, Contexts
<1>5. EpFits'
  BY <1>0, <1>1, <1>a, <1>u
     DEF EpFits, Busy, BusyFits, Giving, Towards, At, Flags
<1>6. TimerFits'
  BY <1>0, <1>1, <1>a, <1>u DEF TimerFits, Towards, At, Flags
<1>7. PendingFits'
  BY <1>0, <1>1, <1>a, <1>u DEF PendingFits, Pending, Ahead, Towards, At, Flags
<1>8. RegFits'
  BY <1>0, <1>1, <1>a, <1>u DEF RegFits, Towards, At, Flags
<1>9. FirstFits'
  BY <1>0, <1>1, <1>a, <1>u DEF FirstFits, Flags
<1>10. NoSocket'
  BY <1>0, <1>1, <1>a, <1>u DEF NoSocket, Flags
<1>11. FallFits'
  BY <1>0, <1>1, <1>a, <1>u
     DEF FallFits, FallCountsHolders, OneIf, Towards, At, Flags
<1>12. BytesFit'
  BY <1>0, <1>1, <1>a, <1>u DEF BytesFit, BytesConserved, OneIf, At
<1>13. MetaFits'
  BY <1>0, <1>1, <1>a, <1>u
     DEF MetaFits, Alive, AvailableCountsReady, Pending, IsReady, Accessing,
         OneIf, Flags, Types, Word, Threads, Thread
<1> QED
  BY <1>2, <1>3, <1>4, <1>5, <1>6, <1>7, <1>8, <1>9, <1>10, <1>11, <1>12, <1>13
     DEF IndInv

\* The epoll thread drops its reference.
LEMMA EpDropStep ==
  ASSUME Sound, IndInv, EpDrop
  PROVE  IndInv'
<1>0. /\ Types /\ WordFits /\ JobFits /\ EpFits /\ TimerFits /\ PendingFits
      /\ RegFits /\ FirstFits /\ NoSocket /\ FallFits /\ BytesFit /\ MetaFits
  BY DEF IndInv
<1>a. th["ep"].pc = "drop" /\ ctx.regs > 0 /\ (sock.alive \/ ctx.exit)
  BY <1>0 DEF EpDrop, Drop, At, FirstFits, NoSocket, Types, Contexts
<1>b. sock.fall > 0
  BY <1>0, <1>a DEF FallFits, FallCountsHolders, OneIf, Towards, At
<1>d. PICK t : sock' = Dropped(t)
  BY DEF EpDrop, Drop
<1>c. /\ sock' \in Sockets /\ sock'.fall = sock.fall - 1
      /\ sock'.alive <=> sock.fall # 1
      /\ sock'.htc = sock.htc /\ sock'.data = sock.data
  BY <1>0, <1>b, <1>d, DroppedOne DEF Types
<1>e. sock.fall = 1 => ctx.exit
  BY <1>0, <1>a DEF FallFits, FallCountsHolders, OneIf, Towards, At
<1>1. /\ th["ep"].pc = "drop"
      /\ th' \in [{"job", "ep"} -> Thread]
      /\ th'["ep"].pc = "handle"
      /\ th'["ep"].next = th["ep"].next
      /\ th'["ep"].delta = th["ep"].delta
      /\ th'["ep"].req = th["ep"].req /\ th'["ep"].n = th["ep"].n
      /\ th'["job"] = th["job"]
      /\ UNCHANGED <<prog, meta, ctx, reg, ev, net>>
  BY <1>0
     DEF EpDrop, Drop, Goto, At, Types, Threads, Thread, JobPc, EpPc, InUpdate
<1>2. Types'
  BY <1>0, <1>1, <1>a, <1>c
     DEF Types, Threads, Thread, JobPc, EpPc, InUpdate, JobNext, EpNext,
         Contexts, Sockets, Registrations, EventStates, Networks
<1>3. WordFits'
  BY <1>0, <1>1, <1>a, <1>c DEF WordFits, Flags, SocketReady
<1>4. JobFits'
  BY <1>0, <1>1, <1>a, <1>c
     DEF JobFits, Registering, FirstPc, Towards, At, Flags, Types, Contexts
<1>5. EpFits'
  BY <1>0, <1>1, <1>a, <1>c
     DEF EpFits, Busy, BusyFits, Giving, Towards, At, Flags
<1>6. TimerFits'
  BY <1>0, <1>1, <1>a, <1>c DEF TimerFits, Towards, At, Flags
<1>7. PendingFits'
  BY <1>0, <1>1, <1>a, <1>c DEF PendingFits, Pending, Ahead, Towards, At, Flags
<1>8. RegFits'
  BY <1>0, <1>1, <1>a, <1>c DEF RegFits, Towards, At, Flags
<1>9. FirstFits'
  BY <1>0, <1>1, <1>a, <1>c DEF FirstFits, Flags
<1>10. NoSocket'
  BY <1>0, <1>1, <1>a, <1>c, <1>e DEF NoSocket, Flags
<1>11. FallFits'
  BY <1>0, <1>1, <1>a, <1>b, <1>c, <1>e
     DEF FallFits, FallCountsHolders, OneIf, Towards, At, Flags, Types, Sockets
<1>12. BytesFit'
  BY <1>0, <1>1, <1>a, <1>c DEF BytesFit, BytesConserved, OneIf, At
<1>13. MetaFits'
  BY <1>0, <1>1, <1>a, <1>c
     DEF MetaFits, Alive, AvailableCountsReady, Pending, IsReady, Accessing,
         OneIf, Flags
<1> QED
  BY <1>2, <1>3, <1>4, <1>5, <1>6, <1>7, <1>8, <1>9, <1>10, <1>11, <1>12, <1>13
     DEF IndInv

\* The peer sends a byte.
LEMMA PeerSendStep ==
  ASSUME Sound, IndInv, PeerSend
  PROVE  IndInv'
<1>0. /\ Types /\ WordFits /\ JobFits /\ EpFits /\ TimerFits /\ PendingFits
      /\ RegFits /\ FirstFits /\ NoSocket /\ FallFits /\ BytesFit /\ MetaFits
  BY DEF IndInv
<1>c. /\ net.sent < prog.bytes /\ prog.bytes \in Nat
      /\ net.sent \in Nat /\ net.inq \in Nat
  BY <1>0, ProgramFits DEF PeerSend, Types, Networks
<1>b. PICK s \in Nat, q \in Nat :
        /\ s = net.sent + 1 /\ q = net.inq + 1
        /\ net' = [net EXCEPT !.sent = s, !.inq = q]
  <2>1. net' = [net EXCEPT !.sent = net.sent + 1, !.inq = net.inq + 1]
    BY DEF PeerSend
  <2>2. net.sent + 1 \in Nat /\ net.inq + 1 \in Nat
    BY <1>c
  <2> QED
    BY <2>1, <2>2
<1>a. /\ net' \in Networks /\ net'.sent = net.sent + 1 /\ net'.inq = net.inq + 1
      /\ net'.closed = net.closed /\ net'.timer = net.timer
  BY <1>0, <1>b DEF Types, Networks
<1>1. /\ UNCHANGED <<prog, th, meta, ctx, sock, reg, ev>>
  BY <1>0 DEF PeerSend, envRest, Types, Threads, Thread, JobPc, EpPc, InUpdate
<1>2. Types'
  BY <1>0, <1>1, <1>a
     DEF Types, Threads, Thread, JobPc, EpPc, InUpdate, JobNext, EpNext,
         Contexts, Sockets, Registrations, EventStates, Networks
<1>3. WordFits'
  BY <1>0, <1>1, <1>a DEF WordFits, Flags, SocketReady
<1>4. JobFits'
  BY <1>0, <1>1, <1>a
     DEF JobFits, Registering, FirstPc, Towards, At, Flags, Types, Contexts
<1>5. EpFits'
  BY <1>0, <1>1, <1>a DEF EpFits, Busy, BusyFits, Giving, Towards, At, Flags
<1>6. TimerFits'
  BY <1>0, <1>1, <1>a DEF TimerFits, Towards, At, Flags
<1>7. PendingFits'
  BY <1>0, <1>1, <1>a DEF PendingFits, Pending, Ahead, Towards, At, Flags
<1>8. RegFits'
  BY <1>0, <1>1, <1>a DEF RegFits, Towards, At, Flags
<1>9. FirstFits'
  BY <1>0, <1>1, <1>a DEF FirstFits, Flags
<1>10. NoSocket'
  BY <1>0, <1>1, <1>a DEF NoSocket, Flags
<1>11. FallFits'
  BY <1>0, <1>1, <1>a
     DEF FallFits, FallCountsHolders, OneIf, Towards, At, Flags
<1>12. BytesFit'
  <2>1. /\ sock.htc.count \in Int /\ ctx.got \in Int
        /\ OneIf(At("job", "read_add")) * th["job"].n \in Int
        /\ OneIf(At("ep", "add")) * th["ep"].n \in Int
    BY <1>0 DEF Types, Contexts, Sockets, HtcWord, Threads, Thread, OneIf
  <2>2. /\ (OneIf(At("job", "read_add")) * th["job"].n)' =
             OneIf(At("job", "read_add")) * th["job"].n
        /\ (OneIf(At("ep", "add")) * th["ep"].n)' =
             OneIf(At("ep", "add")) * th["ep"].n
    BY <1>1 DEF At, OneIf
  <2> QED
    BY <1>0, <1>a, <1>c, <1>1, <2>1, <2>2 DEF BytesFit, BytesConserved
<1>13. MetaFits'
  BY <1>0, <1>1, <1>a
     DEF MetaFits, Alive, AvailableCountsReady, Pending, IsReady, Accessing,
         OneIf, Flags
<1> QED
  BY <1>2, <1>3, <1>4, <1>5, <1>6, <1>7, <1>8, <1>9, <1>10, <1>11, <1>12, <1>13
     DEF IndInv

\* The peer closes.
LEMMA PeerCloseStep ==
  ASSUME Sound, IndInv, PeerClose
  PROVE  IndInv'
<1>0. /\ Types /\ WordFits /\ JobFits /\ EpFits /\ TimerFits /\ PendingFits
      /\ RegFits /\ FirstFits /\ NoSocket /\ FallFits /\ BytesFit /\ MetaFits
  BY DEF IndInv
<1>a. /\ "out" \in reg.set /\ net.timer # "expired"
      /\ "timer" \notin ev.batch /\ ev.src # "timer"
  BY <1>0, ProgramFits DEF PeerClose
<1>b. /\ net' \in Networks /\ net'.closed = TRUE /\ net'.timer = net.timer
      /\ net'.sent = net.sent /\ net'.inq = net.inq
  BY <1>0 DEF PeerClose, Types, Networks
<1>c. ~Registering /\ th["job"].pc # "create" /\ "EPOLLDID" \notin Flags
  BY <1>0, <1>a DEF RegFits, Registering
<1>1. /\ UNCHANGED <<prog, th, meta, ctx, sock, reg, ev>>
  BY <1>0 DEF PeerClose, envRest, Types, Threads, Thread, JobPc, EpPc, InUpdate
<1>2. Types'
  BY <1>0, <1>1, <1>a, <1>b, <1>c
     DEF Types, Threads, Thread, JobPc, EpPc, InUpdate, JobNext, EpNext,
         Contexts, Sockets, Registrations, EventStates, Networks
<1>3. WordFits'
  BY <1>0, <1>1, <1>a, <1>b, <1>c DEF WordFits, Flags, SocketReady
<1>4. JobFits'
  BY <1>0, <1>1, <1>a, <1>b, <1>c
     DEF JobFits, Registering, FirstPc, Towards, At, Flags, Types, Contexts
<1>5. EpFits'
  BY <1>0, <1>1, <1>a, <1>b, <1>c
     DEF EpFits, Busy, BusyFits, Giving, Towards, At, Flags
<1>6. TimerFits'
  BY <1>0, <1>1, <1>a, <1>b, <1>c DEF TimerFits, Towards, At, Flags
<1>7. PendingFits'
  BY <1>0, <1>1, <1>a, <1>b, <1>c
     DEF PendingFits, Pending, Ahead, Towards, At, Flags
<1>8. RegFits'
  BY <1>0, <1>1, <1>a, <1>b, <1>c DEF RegFits, Towards, At, Flags
<1>9. FirstFits'
  BY <1>0, <1>1, <1>a, <1>b, <1>c DEF FirstFits, Flags
<1>10. NoSocket'
  BY <1>0, <1>1, <1>a, <1>b, <1>c DEF NoSocket, Flags
<1>11. FallFits'
  BY <1>0, <1>1, <1>a, <1>b, <1>c
     DEF FallFits, FallCountsHolders, OneIf, Towards, At, Flags
<1>12. BytesFit'
  BY <1>0, <1>1, <1>a, <1>b, <1>c DEF BytesFit, BytesConserved, OneIf, At
<1>13. MetaFits'
  BY <1>0, <1>1, <1>a, <1>b, <1>c
     DEF MetaFits, Alive, AvailableCountsReady, Pending, IsReady, Accessing,
         OneIf, Flags
<1> QED
  BY <1>2, <1>3, <1>4, <1>5, <1>6, <1>7, <1>8, <1>9, <1>10, <1>11, <1>12, <1>13
     DEF IndInv

\* The timer expires.
LEMMA ExpireStep ==
  ASSUME Sound, IndInv, Expire
  PROVE  IndInv'
<1>0. /\ Types /\ WordFits /\ JobFits /\ EpFits /\ TimerFits /\ PendingFits
      /\ RegFits /\ FirstFits /\ NoSocket /\ FallFits /\ BytesFit /\ MetaFits
  BY DEF IndInv
<1>a. "out" \in reg.set /\ ~net.closed
  BY <1>0, ProgramFits DEF Expire
<1>c. PICK x \in Nat : net' = [net EXCEPT !.timer = "expired", !.expiries = x]
  <2>1. net' = [net EXCEPT !.timer = "expired", !.expiries = net.expiries + 1]
    BY DEF Expire
  <2>2. net.expiries + 1 \in Nat
    BY <1>0 DEF Types, Networks
  <2> QED
    BY <2>1, <2>2
<1>b. /\ net' \in Networks /\ net'.closed = net.closed
      /\ net'.sent = net.sent /\ net'.inq = net.inq
  BY <1>0, <1>c DEF Types, Networks
<1>1. /\ UNCHANGED <<prog, th, meta, ctx, sock, reg, ev>>
  BY <1>0 DEF Expire, envRest, Types, Threads, Thread, JobPc, EpPc, InUpdate
<1>2. Types'
  BY <1>0, <1>1, <1>a, <1>b
     DEF Types, Threads, Thread, JobPc, EpPc, InUpdate, JobNext, EpNext,
         Contexts, Sockets, Registrations, EventStates, Networks
<1>3. WordFits'
  BY <1>0, <1>1, <1>a, <1>b DEF WordFits, Flags, SocketReady
<1>4. JobFits'
  BY <1>0, <1>1, <1>a, <1>b
     DEF JobFits, Registering, FirstPc, Towards, At, Flags, Types, Contexts
<1>5. EpFits'
  BY <1>0, <1>1, <1>a, <1>b
     DEF EpFits, Busy, BusyFits, Giving, Towards, At, Flags
<1>6. TimerFits'
  BY <1>0, <1>1, <1>a, <1>b DEF TimerFits, Towards, At, Flags, RegFits
<1>7. PendingFits'
  BY <1>0, <1>1, <1>a, <1>b DEF PendingFits, Pending, Ahead, Towards, At, Flags
<1>8. RegFits'
  BY <1>0, <1>1, <1>a, <1>b DEF RegFits, Towards, At, Flags
<1>9. FirstFits'
  BY <1>0, <1>1, <1>a, <1>b DEF FirstFits, Flags
<1>10. NoSocket'
  BY <1>0, <1>1, <1>a, <1>b DEF NoSocket, Flags
<1>11. FallFits'
  BY <1>0, <1>1, <1>a, <1>b
     DEF FallFits, FallCountsHolders, OneIf, Towards, At, Flags
<1>12. BytesFit'
  BY <1>0, <1>1, <1>a, <1>b DEF BytesFit, BytesConserved, OneIf, At
<1>13. MetaFits'
  BY <1>0, <1>1, <1>a, <1>b
     DEF MetaFits, Alive, AvailableCountsReady, Pending, IsReady, Accessing,
         OneIf, Flags
<1> QED
  BY <1>2, <1>3, <1>4, <1>5, <1>6, <1>7, <1>8, <1>9, <1>10, <1>11, <1>12, <1>13
     DEF IndInv

\* A step that changes nothing.
LEMMA StutterStep ==
  ASSUME Sound, IndInv, UNCHANGED vars
  PROVE  IndInv'
<1>0. /\ Types /\ WordFits /\ JobFits /\ EpFits /\ TimerFits /\ PendingFits
      /\ RegFits /\ FirstFits /\ NoSocket /\ FallFits /\ BytesFit /\ MetaFits
  BY DEF IndInv
<1>1. /\ UNCHANGED <<prog, th, meta, ctx, sock, reg, ev, net>>
  BY <1>0 DEF vars, Types, Threads, Thread, JobPc, EpPc, InUpdate
<1>2. Types'
  BY <1>0, <1>1
     DEF Types, Threads, Thread, JobPc, EpPc, InUpdate, JobNext, EpNext,
         Contexts, Sockets, Registrations, EventStates, Networks
<1>3. WordFits'
  BY <1>0, <1>1 DEF WordFits, Flags, SocketReady
<1>4. JobFits'
  BY <1>0, <1>1
     DEF JobFits, Registering, FirstPc, Towards, At, Flags, Types, Contexts
<1>5. EpFits'
  BY <1>0, <1>1 DEF EpFits, Busy, BusyFits, Giving, Towards, At, Flags
<1>6. TimerFits'
  BY <1>0, <1>1 DEF TimerFits, Towards, At, Flags
<1>7. PendingFits'
  BY <1>0, <1>1 DEF PendingFits, Pending, Ahead, Towards, At, Flags
<1>8. RegFits'
  BY <1>0, <1>1 DEF RegFits, Towards, At, Flags
<1>9. FirstFits'
  BY <1>0, <1>1 DEF FirstFits, Flags
<1>10. NoSocket'
  BY <1>0, <1>1 DEF NoSocket, Flags
<1>11. FallFits'
  BY <1>0, <1>1 DEF FallFits, FallCountsHolders, OneIf, Towards, At, Flags
<1>12. BytesFit'
  BY <1>0, <1>1 DEF BytesFit, BytesConserved, OneIf, At
<1>13. MetaFits'
  BY <1>0, <1>1
     DEF MetaFits, Alive, AvailableCountsReady, Pending, IsReady, Accessing,
         OneIf, Flags
<1> QED
  BY <1>2, <1>3, <1>4, <1>5, <1>6, <1>7, <1>8, <1>9, <1>10, <1>11, <1>12, <1>13
     DEF IndInv

-----------------------------------------------------------------------------
(* The first state *)

\* The job begins its first run, and there is no socket yet.
LEMMA InitIndInv ==
  ASSUME Sound, Init
  PROVE  IndInv
<1>1. /\ prog \in Programs
      /\ th \in [{"job", "ep"} -> Thread]
      /\ th["job"] = Idle("create") /\ th["ep"] = Idle("wait")
      /\ meta = WordOf({"ALIVE", "EXECUTING"} \cup Derived)
  BY DEF Init, Idle, Thread, JobPc, EpPc
<1>2. /\ th["job"].pc = "create" /\ th["ep"].pc = "wait"
      /\ th["job"].n = 0 /\ th["ep"].n = 0
  BY <1>1 DEF Idle
<1>3. /\ meta \in Word /\ meta.flags = {"ALIVE", "EXECUTING"} \cup Derived
      /\ meta.access = 0 /\ meta.avsock = 0 /\ meta.wait = 0 /\ meta.avjobs = 0
  BY <1>1, MetaFlagAssumption DEF WordOf, Word, Flag
<1>4. /\ ctx \in Contexts /\ ctx.gen = 0 /\ ctx.required = 0 /\ ctx.regs = 0
      /\ ctx.reads = 0 /\ ctx.got = 0 /\ ctx.exit = FALSE
  BY DEF Init, Contexts
<1>5. /\ sock \in Sockets /\ sock.alive = FALSE /\ sock.fall = 0 /\ sock.data = {}
      /\ sock.htc.count = 0 /\ Flags = {"WRITE_READY"}
  BY HtcInit DEF Init, Sockets, Flags
<1>6. reg \in Registrations /\ reg.set = {} /\ reg.armed = {}
  BY DEF Init, Registrations
<1>7. ev \in EventStates /\ ev.batch = {} /\ ev.dead = FALSE
  BY DEF Init, EventStates
<1>8. /\ net \in Networks /\ net.sent = 0 /\ net.inq = 0 /\ net.closed = FALSE
      /\ net.timer = "off"
  BY DEF Init, Networks
<1>9. Types
  BY <1>1, <1>2, <1>3, <1>4, <1>5, <1>6, <1>7, <1>8
     DEF Types, Threads, JobPc, EpPc, InUpdate
<1>10. prog.bytes \in Nat /\ ReadCond \in Nat \ {0}
  BY <1>9, ProgramFits
<1>11. WordFits
  BY <1>4, <1>5, <1>10 DEF WordFits, SocketReady
<1>12. JobFits
  BY <1>2, <1>4, <1>5, <1>8 DEF JobFits, Registering, FirstPc, Towards, At
<1>13. EpFits
  BY <1>2, <1>5, <1>7 DEF EpFits, Busy, Giving, Towards, At
<1>14. TimerFits
  BY <1>2, <1>5, <1>8 DEF TimerFits, Towards, At
<1>15. PendingFits
  BY <1>2 DEF PendingFits, Pending, Ahead, Towards, At
<1>16. RegFits
  BY <1>2, <1>5, <1>6, <1>7 DEF RegFits, Towards, At
<1>17. FirstFits /\ NoSocket
  BY <1>2, <1>4, <1>5 DEF FirstFits, NoSocket
<1>18. FallFits
  BY <1>4, <1>5 DEF FallFits, FallCountsHolders
<1>19. BytesFit
  BY <1>2, <1>4, <1>5, <1>8, <1>10 DEF BytesFit, BytesConserved, OneIf, At
<1>20. MetaFits
  BY <1>2, <1>3, <1>4, <1>5
     DEF MetaFits, Derived, Accessing, OneIf, AvailableCountsReady, Pending,
         IsReady, Flags
<1> QED
  BY <1>9, <1>11, <1>12, <1>13, <1>14, <1>15, <1>16, <1>17, <1>18, <1>19, <1>20
     DEF IndInv

-----------------------------------------------------------------------------
(* Every step *)

\* A registration, accepted or refused.
LEMMA AddingStep ==
  ASSUME Sound, IndInv, AddStep
  PROVE  IndInv'
<1>1. UNCHANGED <<meta, ctx, net, jobRest>> /\ (AddTimer \/ AddIn \/ AddOut)
  BY DEF AddStep
<1>2. CASE AddTimer
  <2>1. CASE prog.fails # [reg |-> ctx.regs, src |-> "timer"]
    BY <1>1, <1>2, <2>1, AddTimerStep
  <2>2. CASE prog.fails = [reg |-> ctx.regs, src |-> "timer"]
    <3>1. /\ At("job", "add_timer") \/ At("job", "add_in")
          /\ reg' = [set |-> {}, armed |-> {}] /\ Goto("job", "refused")
          /\ sock' = [sock EXCEPT !.data = @ \ {"sock"}]
      BY <1>2, <2>2 DEF AddTimer, Add
    <3> QED
      BY <1>1, <3>1, AddRefusedStep
  <2> QED
    BY <2>1, <2>2
<1>3. CASE AddIn
  <2>1. CASE prog.fails # [reg |-> ctx.regs, src |-> "in"]
    BY <1>1, <1>3, <2>1, AddInStep
  <2>2. CASE prog.fails = [reg |-> ctx.regs, src |-> "in"]
    <3>1. /\ At("job", "add_timer") \/ At("job", "add_in")
          /\ reg' = [set |-> {}, armed |-> {}] /\ Goto("job", "refused")
          /\ sock' = [sock EXCEPT !.data = @ \ {"sock"}]
      BY <1>3, <2>2 DEF AddIn, Add
    <3> QED
      BY <1>1, <3>1, AddRefusedStep
  <2> QED
    BY <2>1, <2>2
<1>4. CASE AddOut
  <2>1. ctx.regs \in {1, 2}
    BY <1>4 DEF IndInv, AddOut, At, JobFits, Types, Contexts
  <2>2. prog.fails # [reg |-> ctx.regs, src |-> "out"]
    BY <2>1, ProgramFits DEF IndInv
  <2> QED
    BY <1>1, <1>4, <2>2, AddOutStep
<1> QED
  BY <1>1, <1>2, <1>3, <1>4

\* An update of the job's count, by the job.
LEMMA UpdateJobStep ==
  ASSUME Sound, IndInv, Update("job")
  PROVE  IndInv'
  BY AccessJobStep, NoAccessJobStep, CompareJobStep, CasJobStep, UnaccessJobStep
     DEF Update

\* The same by the epoll thread.
LEMMA UpdateEpStep ==
  ASSUME Sound, IndInv, Update("ep")
  PROVE  IndInv'
  BY AccessEpStep, NoAccessEpStep, CompareEpStep, CasEpStep, UnaccessEpStep
     DEF Update

\* The steps of the job and its worker.
LEMMA JobStepIndInv ==
  ASSUME Sound, IndInv, JobStep
  PROVE  IndInv'
<1>1. CASE Create \/ StopTimer \/ AddStep \/ StartTimer \/ Require
  BY <1>1, CreateStep, StopTimerStep, AddingStep, StartTimerStep, RequireStep
<1>2. CASE Refused
  BY <1>2, RefusedFirstStep, RefusedAgainStep
<1>3. CASE Again \/ AgainFall \/ AgainDrop
  BY <1>3, AgainStep, AgainOffStep, AgainFallStep, AgainDropStep
<1>4. CASE RunTest \/ RunTimeout \/ Read \/ ReadAdd \/ ReadEnd
  BY <1>4, RunTestStep, RunTimeoutStep, ReadStep, ReadAddStep, ReadEndStep
<1>5. CASE Done \/ JobDrop \/ Return \/ MarkReadyBasic \/ SetReady \/ PickAndRun
  BY <1>5, DoneStep, JobDropStep, ReturnStep, MarkReadyBasicStep, SetReadyStep,
     PickAndRunStep
<1>6. CASE End \/ DestroyNow \/ Teardown \/ Close
  BY <1>6, EndStep, DestroyNowStep, TeardownStep, CloseStep
<1>7. CASE Update("job")
  BY <1>7, UpdateJobStep
<1> QED
  BY <1>1, <1>2, <1>3, <1>4, <1>5, <1>6, <1>7 DEF JobStep

\* The steps of the epoll thread.
LEMMA EpStepIndInv ==
  ASSUME Sound, IndInv, EpStep
  PROVE  IndInv'
<1>1. CASE Wait \/ Handle \/ Recv \/ RecvAdd \/ MarkDead \/ Activate
  BY <1>1, WaitStep, HandleEndStep, HandleEventStep, RecvStep, RecvAddStep,
     MarkDeadStep, ActivateStep
<1>2. CASE Timer \/ TimeoutCas \/ Del \/ EpDone \/ EpDrop
  BY <1>2, TimerReadyStep, TimerOutStep, TimeoutCasStep, DelStep, EpDoneStep,
     EpDropStep
<1>3. CASE Update("ep") \/ UpdateSetReady
  BY <1>3, UpdateEpStep, EpSetReadyStep
<1> QED
  BY <1>1, <1>2, <1>3 DEF EpStep

\* Every step of the specification.
LEMMA NextIndInv ==
  ASSUME Sound, IndInv, [Next]_vars
  PROVE  IndInv'
<1>1. CASE JobStep
  BY <1>1, JobStepIndInv
<1>2. CASE EpStep
  BY <1>2, EpStepIndInv
<1>3. CASE PeerSend \/ PeerClose \/ Expire
  BY <1>3, PeerSendStep, PeerCloseStep, ExpireStep
<1>4. CASE UNCHANGED vars
  BY <1>4, StutterStep
<1> QED
  BY <1>1, <1>2, <1>3, <1>4 DEF Next

-----------------------------------------------------------------------------
(* The theorems *)

\* The inductive invariant holds in every reachable state, whatever the sizes
\* of the buffer and of the read, the bytes sent and the expiries of the timer.
THEOREM Invariance == Sound => (Spec => []IndInv)
<1> SUFFICES ASSUME Sound PROVE Spec => []IndInv
  OBVIOUS
<1>1. Init => IndInv
  BY InitIndInv
<1>2. IndInv /\ [Next]_vars => IndInv'
  BY NextIndInv
<1> QED
  BY <1>1, <1>2, PTL DEF Spec

\* Type correctness: both words keep to their widths, fall counts at most three
\* references and the socket is allocated as long as it counts one, and what is
\* armed is registered.
THEOREM TypeCorrect == Sound => (Spec => []TypeOK)
<1>1. IndInv => TypeOK
  BY DEF IndInv, TypeOK, Types, Sockets, Registrations, FallFits, RegFits
<1> QED
  BY <1>1, Invariance, PTL

\* jobready_update carries every change of the socket's readiness over to the
\* job's count of ready sockets, although two threads change both words.
THEOREM ReadyCountExact == Sound => (Spec => []AvailableCountsReady)
<1>1. IndInv => AvailableCountsReady
  BY DEF IndInv, MetaFits, AvailableCountsReady
<1> QED
  BY <1>1, Invariance, PTL

\* A job that is resumed before it gives up its socket has the bytes that
\* read_count_condition asked for, or finds the socket dead or timed out.
THEOREM ResumedReads == Sound => (Spec => []ReadGuaranteed)
<1>1. IndInv => ReadGuaranteed
  <2> SUFFICES ASSUME IndInv, Resumed, ~ctx.exit
               PROVE  sock.htc.count >= ReadCond
                        \/ Flags \cap {"DEAD", "TIMEOUT"} # {}
    BY DEF ReadGuaranteed, Flags
  <2>1. "READY" \in Flags
    BY DEF IndInv, PendingFits, Ahead, Resumed
  <2>2. SocketReady(Flags) \/ "TIMEOUT" \in Flags
    BY <2>1 DEF IndInv, WordFits
  <2>3. "EPOLLDID" \in Flags => Flags \cap {"DEAD", "TIMEOUT"} # {}
    BY DEF IndInv, EpFits, Resumed, Towards, At
  <2> QED
    BY <2>2, <2>3 DEF IndInv, WordFits, SocketReady
<1> QED
  BY <1>1, Invariance, PTL

\* fall counts the references that the job and the epoll registration hold, so
\* the socket is freed once, by the last of the two, in every interleaving of
\* schedi_job_epollsocket_done_, epollagain and a refused registration.
THEOREM FallExact == Sound => (Spec => []FallCountsHolders)
<1>1. IndInv => FallCountsHolders
  BY DEF IndInv, FallFits
<1> QED
  BY <1>1, Invariance, PTL
=============================================================================
