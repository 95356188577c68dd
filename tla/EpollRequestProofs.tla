------------------------- MODULE EpollRequestProofs -------------------------
(***************************************************************************)
(* The waiting count and the one-time requests of EpollRequest, for any    *)
(* number of slots and descriptors.                                        *)
(*                                                                         *)
(* The theorems are about the programs that use a slot once and ask for a  *)
(* descriptor in one direction (OneTime).  With a request for both         *)
(* directions the code meets freed memory, of which nothing can be said:   *)
(* the answer to its first event may free it before schedi_epoll_add       *)
(* registers it for writing.                                               *)
(* The next job of a slot is outside the theorems because EpollRequest has *)
(* one request record for a descriptor, which that job would use again     *)
(* while the epoll thread is still to free the old one; the code has two.  *)
(*                                                                         *)
(* That the count is the number of outstanding requests is not inductive.  *)
(* IndInv adds, for each slot, which flags its word has in each stage of   *)
(* the job (WordInStage), where the requests of its descriptors are        *)
(* (InPlace) and that the list makes up for the count (Answered); for the  *)
(* epoll thread, that what is registered or in its batch is a request that *)
(* is allocated, completely registered and not yet in its hands            *)
(* (Delivered), and that an answer that completes the readiness finds the  *)
(* job suspended (Answer).                                                 *)
(***************************************************************************)
EXTENDS EpollRequest, FiniteSetTheorems, TLAPS

\* The programs of the theorems.
OneTime ==
  /\ \A l \in Loads, s \in Slots : l[s].lives <= 1
  /\ \A fd \in Fds : EventsOf[fd] # Dirs

Adding == {"add_in", "add_out", "addfailed"}
Answering == {"access", "compare", "cas", "setready", "unaccess", "free"}

\* The life of the one job in a slot.
OneLife(s) ==
  /\ job[s].lives <= 1
  /\ job[s].pc = "publish" => job[s].lives = 1
  /\ job[s].pc \notin {"free", "publish"} => job[s].lives = 0

\* The word of a job in each stage.
WordInStage(s) ==
  LET F == meta[s].flags  pc == job[s].pc  again == job[s].again IN
  /\ "READYBASIC" \in F => again /\ pc \in {"setready", "suspended", "cached"}
  /\ pc \in Adding => ~again
  /\ pc \in {"basic", "suspended"} => again
  /\ pc = "suspended" => "READYBASIC" \in F
  /\ Alive(s) =>
       /\ "UNSTABLE" \notin F /\ "WLLDESTROY" \notin F
       /\ "READYEPOLLSOCK" \in F /\ "READYJOB" \in F
       /\ "READYEPOLLTOOL" \in F <=> meta[s].wait = 0
       /\ pc # "cached" => "READY" \notin F
       /\ again /\ pc \notin {"basic", "suspended"} => meta[s].wait = 0
       /\ again /\ pc \in {"setready", "cached"} => "READYBASIC" \in F

\* A descriptor that its job will ask for, or is registering.
ToCome(s, fd) == fd \in job[s].todo \/ job[s].lives = 1
BeingAdded(s, fd) == job[s].fd = fd /\ job[s].pc \in Adding

\* Where the requests of a slot are.
InPlace(s) ==
  /\ job[s].todo \subseteq FdsOf(s)
  /\ job[s].pc \in Adding => job[s].fd \in FdsOf(s) \ job[s].todo
  /\ job[s].pc = "add_in" => "in" \in EventsOf[job[s].fd]
  /\ \A fd \in FdsOf(s) :
       /\ ToCome(s, fd) => ~req[fd].allocated
       /\ BeingAdded(s, fd) => req[fd].allocated
       /\ Alive(s) /\ req[fd].allocated => req[fd].job_gen = gen[s]

\* A registered request is allocated and owned, its registration complete,
\* and the epoll thread has it in its hands no longer.
Registered(fd) ==
  /\ req[fd].allocated /\ ep.fd # fd
  /\ \E s \in Slots : fd \in FdsOf(s) /\ ~BeingAdded(s, fd)

Delivered ==
  /\ \A d \in Dirs : \A fd \in interest[d] : Registered(fd)
  /\ \A fd \in ep.batch : Registered(fd)
  /\ ep.batch # {} => ep.pc \in Answering \cup {"handle"}
  /\ ep.pc \in Answering <=> ep.fd # NoFd
  /\ ep.fd # NoFd => /\ req[ep.fd].allocated
                     /\ \E s \in Slots : ep.fd \in FdsOf(s) /\ ~BeingAdded(s, ep.fd)
                     /\ \A d \in Dirs : ep.fd \notin interest[d]

\* The answer that completes the readiness finds the job suspended.
Answer ==
  ep.pc = "setready" =>
    /\ job[Owner(ep.fd)].pc = "suspended"
    /\ meta[Owner(ep.fd)].wait = 0

\* What is outstanding is counted, and what is not was answered; an answer is
\* entered in the list before it is taken off the count.
Listed(s) == IF ep.pc = "cas" /\ Owner(ep.fd) = s THEN 1 ELSE 0
Answered(s) ==
  Alive(s) =>
    /\ IsFiniteSet(Outstanding(s))
    /\ meta[s].wait = Cardinality(Outstanding(s))
    /\ list[s].total + Listed(s)
         = list[s].ret + list[s].err + list[s].failed + meta[s].wait

\* The thread is there when the flag says so.
Running == ~epoll_thread_running => ep.pc \in {"none", "exited"}

SlotInv(s) == OneLife(s) /\ WordInStage(s) /\ InPlace(s) /\ Answered(s)

IndInv ==
  /\ TypeOK
  /\ \A s \in Slots : SlotInv(s)
  /\ Delivered
  /\ Answer
  /\ Running

-----------------------------------------------------------------------------
(* Slots and their descriptors. *)

\* No descriptor has two owners.
LEMMA OwnerIs ==
  ASSUME TypeOK, NEW s \in Slots, NEW fd \in FdsOf(s)
  PROVE  Owner(fd) = s /\ fd \in Fds /\ fd # NoFd
<1>1. load \in Loads
  BY DEF TypeOK
<1>2. \A t \in Slots : t # s => load[s].fds \cap load[t].fds = {}
  BY <1>1, EpollAssumption
<1>3. fd \in Fds /\ NoFd \notin Fds
  <2>1. load[s] \in [fds : SUBSET Fds, quits : BOOLEAN, lives : Nat]
    BY <1>1, EpollAssumption
  <2> QED
    BY <2>1, EpollAssumption DEF FdsOf
<1>4. \A t \in Slots : fd \in FdsOf(t) => t = s
  BY <1>2 DEF FdsOf
<1> QED
  BY <1>3, <1>4 DEF Owner

\* A descriptor of a slot belongs to no other.
LEMMA OneOwner ==
  ASSUME TypeOK, NEW s \in Slots, NEW fd \in FdsOf(s),
         NEW t \in Slots, fd \in FdsOf(t)
  PROVE  t = s
BY OwnerIs

\* A slot that a step does not touch.
LEMMA OtherSlot ==
  ASSUME NEW t \in Slots, SlotInv(t), load' = load,
         meta'[t] = meta[t], gen'[t] = gen[t], list'[t] = list[t],
         job'[t] = job[t], \A fd \in FdsOf(t) : req'[fd] = req[fd],
         Outstanding(t)' = Outstanding(t), Listed(t)' = Listed(t)
  PROVE  SlotInv(t)'
<1>1. Alive(t)' = Alive(t) /\ FdsOf(t)' = FdsOf(t)
  BY DEF Alive, FdsOf
<1>2. OneLife(t)'
  BY DEF SlotInv, OneLife
<1>3. WordInStage(t)'
  BY <1>1 DEF SlotInv, WordInStage
<1>4. InPlace(t)'
  BY <1>1 DEF SlotInv, InPlace, ToCome, BeingAdded
<1>5. Answered(t)'
  BY <1>1 DEF SlotInv, Answered
<1> QED
  BY <1>2, <1>3, <1>4, <1>5 DEF SlotInv

\* A step of the job in a slot; it need only look after its own slot and what
\* is registered.
LEMMA OwnStep ==
  ASSUME IndInv, NEW s \in Slots, job[s].pc # "suspended", TypeOK',
         \A t \in Slots \ {s} : /\ meta'[t] = meta[t] /\ gen'[t] = gen[t]
                                /\ list'[t] = list[t] /\ job'[t] = job[t]
                                /\ \A fd \in FdsOf(t) : req'[fd] = req[fd],
         UNCHANGED <<load, ep, epoll_thread_running>>, SlotInv(s)', Delivered'
  PROVE  IndInv'
<1>1. /\ \A t \in Slots : FdsOf(t)' = FdsOf(t) /\ Listed(t)' = Listed(t)
      /\ \A fd : Owner(fd)' = Owner(fd)
  BY DEF FdsOf, Listed, Owner
<1>2. ASSUME NEW t \in Slots PROVE SlotInv(t)'
  <2>1. CASE t = s
    BY <2>1
  <2>2. CASE t # s
    <3>1. Outstanding(t)' = Outstanding(t)
      BY <1>1, <2>2 DEF Outstanding
    <3>2. SlotInv(t)
      BY DEF IndInv
    <3> QED
      BY <1>1, <2>2, <3>1, <3>2, OtherSlot
  <2> QED
    BY <2>1, <2>2
<1>3. Answer'
  <2>1. SUFFICES ASSUME ep.pc = "setready"
                 PROVE  /\ job'[Owner(ep.fd)].pc = "suspended"
                        /\ meta'[Owner(ep.fd)].wait = 0
    BY <1>1 DEF Answer
  <2>2. PICK t \in Slots : ep.fd \in FdsOf(t)
    BY <2>1 DEF IndInv, Delivered, Answering
  <2>3. Owner(ep.fd) = t
    BY <2>2, OwnerIs DEF IndInv
  <2> QED
    BY <2>1, <2>3 DEF IndInv, Answer
<1> QED
  BY <1>2, <1>3 DEF IndInv, Running

\* A step of the job in a slot that makes no request.
LEMMA QuietJob ==
  ASSUME IndInv, NEW s \in Slots, job[s].pc # "suspended", TypeOK',
         \A t \in Slots \ {s} : /\ meta'[t] = meta[t] /\ gen'[t] = gen[t]
                                /\ list'[t] = list[t] /\ job'[t] = job[t],
         UNCHANGED <<load, req, interest, ep, epoll_thread_running>>,
         job'[s].pc \notin Adding, SlotInv(s)'
  PROVE  IndInv'
<1>1. \A t \in Slots : FdsOf(t)' = FdsOf(t)
  BY DEF FdsOf
<1>2. \A t \in Slots : \A fd : BeingAdded(t, fd)' => BeingAdded(t, fd)
  BY DEF BeingAdded
<1>3. Delivered'
  <2>1. \A fd : Registered(fd) => Registered(fd)'
    BY <1>1, <1>2 DEF Registered
  <2> QED
    BY <1>1, <1>2, <2>1 DEF IndInv, Delivered
<1> QED
  BY <1>3, OwnStep

\* What such a step has to show of the requests of its slot.
LEMMA RequestsKept ==
  ASSUME NEW s \in Slots, InPlace(s), Answered(s),
         UNCHANGED <<load, req, ep>>,
         job'[s].todo = job[s].todo, job'[s].lives = job[s].lives,
         job'[s].pc \notin Adding,
         Alive(s)' => /\ Alive(s) /\ gen'[s] = gen[s] /\ list'[s] = list[s]
                      /\ meta'[s].wait = meta[s].wait
  PROVE  InPlace(s)' /\ Answered(s)'
<1>1. FdsOf(s)' = FdsOf(s) /\ Listed(s)' = Listed(s)
  BY DEF FdsOf, Listed, Owner
<1>2. InPlace(s)'
  <2>1. job'[s].pc # "add_in"
    BY DEF Adding
  <2> QED
    BY <1>1, <2>1 DEF InPlace, ToCome, BeingAdded
<1>3. Answered(s)'
  <2>1. CASE Alive(s)'
    <3>1. Outstanding(s)' = Outstanding(s)
      BY <1>1, <2>1 DEF Outstanding
    <3> QED
      BY <1>1, <2>1, <3>1 DEF Answered
  <2> QED
    BY <2>1 DEF Answered
<1> QED
  BY <1>2, <1>3

-----------------------------------------------------------------------------
(* The word of a job. *)

\* Setting flags.
LEMMA MarkWords ==
  ASSUME NEW m \in Word, NEW F \in SUBSET Flag, NEW B
  PROVE  /\ mark_or(m, F, B, FALSE) \in Word
         /\ mark_or(m, F, B, FALSE).wait = m.wait
         /\ Ban(m, B, FALSE) = {} => mark_or(m, F, B, FALSE).flags = m.flags \cup F
         /\ Ban(m, B, FALSE) # {} => mark_or(m, F, B, FALSE).flags = m.flags
<1>1. m.flags \cup F \in SUBSET Flag
  BY DEF Word
<1>2. /\ [m EXCEPT !.flags = @ \cup F] \in Word
      /\ [m EXCEPT !.flags = @ \cup F].wait = m.wait
      /\ [m EXCEPT !.flags = @ \cup F].flags = m.flags \cup F
  BY <1>1 DEF Word
<1> QED
  BY <1>2 DEF mark_or

\* The same for a mark that accesses ban too.
LEMMA MarkIdleWords ==
  ASSUME NEW m \in Word, NEW F \in SUBSET Flag, NEW B
  PROVE  /\ mark_or(m, F, B, TRUE) \in Word
         /\ mark_or(m, F, B, TRUE).wait = m.wait
         /\ Ban(m, B, TRUE) = {} => mark_or(m, F, B, TRUE).flags = m.flags \cup F
         /\ Ban(m, B, TRUE) # {} => mark_or(m, F, B, TRUE).flags = m.flags
<1>1. m.flags \cup F \in SUBSET Flag
  BY DEF Word
<1>2. /\ [m EXCEPT !.flags = @ \cup F] \in Word
      /\ [m EXCEPT !.flags = @ \cup F].wait = m.wait
      /\ [m EXCEPT !.flags = @ \cup F].flags = m.flags \cup F
  BY <1>1 DEF Word
<1> QED
  BY <1>2 DEF mark_or

\* Taking and giving back an access.
LEMMA AccessWords ==
  ASSUME NEW m \in Word
  PROVE  /\ mark_access(m) \in Word /\ mark_access(m).flags = m.flags
         /\ mark_access(m).wait = m.wait
         /\ unmark_access(m) \in Word /\ unmark_access(m).flags = m.flags
         /\ unmark_access(m).wait = m.wait
<1>1. MaxAccess \in Nat \ {0} /\ m.access \in 0 .. MaxAccess
  BY MetaFlagAssumption DEF Word
<1>2. mark_access(m) \in Word /\ mark_access(m).flags = m.flags
      /\ mark_access(m).wait = m.wait
  <2>1. CASE AccessBan(m) = {}
    <3>1. m.access + 1 \in 0 .. MaxAccess
      BY <1>1, <2>1 DEF AccessBan
    <3> QED
      BY <2>1, <3>1 DEF mark_access, Word
  <2> QED
    BY <2>1 DEF mark_access
<1>3. unmark_access(m) \in Word /\ unmark_access(m).flags = m.flags
      /\ unmark_access(m).wait = m.wait
  <2>1. ASSUME NEW M \in Nat, NEW x \in 0 .. M
        PROVE  (x - 1) % (M + 1) \in 0 .. M
    BY SMT
  <2>2. (m.access - 1) % (MaxAccess + 1) \in 0 .. MaxAccess
    BY <1>1, <2>1
  <2> QED
    BY <2>2 DEF unmark_access, Word
<1> QED
  BY <1>2, <1>3

\* The update of the counts, with no thresholds: the only count that changes
\* is the waiting count, and READYEPOLLTOOL says whether it is zero.
LEMMA CasWords ==
  ASSUME NEW m \in Word, NEW d \in Int, NEW F \in SUBSET (Flag \ Derived),
         m.wait + d \in 0 .. MaxCount
  PROVE  LET w == cas_update(m, 0, d, 0, F, 0, 0) IN
         /\ w \in Word /\ w.wait = m.wait + d
         /\ "READYEPOLLSOCK" \in w.flags /\ "READYJOB" \in w.flags
         /\ "READYEPOLLTOOL" \in w.flags <=> m.wait + d = 0
         /\ \A f \in Flag \ Derived : f \in w.flags <=> f \in m.flags \cup F
<1> DEFINE D == DerivedFlags(m.avsock + 0, m.wait + d, m.avjobs + 0, 0, 0)
           G == ((m.flags \cup F) \ Derived) \cup D
<1>1. /\ MaxCount \in Nat /\ m.avsock \in 0 .. MaxCount
      /\ m.avjobs \in 0 .. MaxCount /\ m.flags \in SUBSET Flag
  BY MetaFlagAssumption DEF Word
<1>2. m.avsock + 0 = m.avsock /\ m.avjobs + 0 = m.avjobs
      /\ m.avsock >= 0 /\ m.avjobs >= 0
  BY <1>1
<1>3. /\ "READYEPOLLSOCK" \in D /\ "READYJOB" \in D
      /\ "READYEPOLLTOOL" \in D <=> m.wait + d = 0
      /\ D \in SUBSET Derived
  BY <1>2 DEF DerivedFlags, Derived
<1> HIDE DEF D
<1>4. /\ G \in SUBSET Flag /\ "READYEPOLLSOCK" \in G /\ "READYJOB" \in G
      /\ "READYEPOLLTOOL" \in G <=> m.wait + d = 0
      /\ \A f \in Flag \ Derived : f \in G <=> f \in m.flags \cup F
  BY <1>1, <1>3 DEF Flag, Derived
<1>5. cas_update(m, 0, d, 0, F, 0, 0) =
        [m EXCEPT !.flags = G, !.avsock = m.avsock, !.wait = m.wait + d,
                  !.avjobs = m.avjobs]
  BY <1>2 DEF cas_update, D
<1> HIDE DEF G
<1> QED
  BY <1>1, <1>4, <1>5 DEF Word

-----------------------------------------------------------------------------
(* Steps of a job around its requests. *)

JobState == [pc : JobLabels, todo : SUBSET Fds, fd : Fds \cup {NoFd},
             again : BOOLEAN, lives : Nat]

\* What a change of the label leaves alone.
LEMMA Going ==
  ASSUME TypeOK, NEW s \in Slots, NEW l \in JobLabels, Goto(s, l)
  PROVE  /\ job' \in [Slots -> JobState]
         /\ job'[s].pc = l /\ job'[s].todo = job[s].todo
         /\ job'[s].fd = job[s].fd /\ job'[s].again = job[s].again
         /\ job'[s].lives = job[s].lives
         /\ \A t \in Slots \ {s} : job'[t] = job[t]
<1>1. job \in [Slots -> JobState]
  BY DEF TypeOK, JobState
<1>2. job' = [job EXCEPT ![s] = [job[s] EXCEPT !.pc = l]]
  BY DEF Goto
<1>3. job[s] \in JobState /\ [job[s] EXCEPT !.pc = l] \in JobState
  BY <1>1 DEF JobState
<1> QED
  BY <1>1, <1>2, <1>3 DEF JobState

\* A store to the word of a slot.
LEMMA Storing ==
  ASSUME TypeOK, NEW s \in Slots, NEW m \in Word, SetMeta(s, m)
  PROVE  /\ meta' \in [Slots -> Word] /\ meta'[s] = m
         /\ \A t \in Slots \ {s} : meta'[t] = meta[t]
BY DEF TypeOK, SetMeta

\* The words that a slot holds before a job is in it and when it is taken.
LEMMA FreshWords ==
  /\ WordOf({"UNSTABLE"}) \in Word /\ WordOf({}) \in Word
  /\ WordOf({"ALIVE"} \cup Derived) \in Word
  /\ WordOf({}).flags = {} /\ WordOf({"UNSTABLE"}).flags = {"UNSTABLE"}
  /\ WordOf({"ALIVE"} \cup Derived).flags = {"ALIVE"} \cup Derived
  /\ WordOf({"ALIVE"} \cup Derived).wait = 0
<1>1. 0 \in 0 .. MaxAccess /\ 0 \in 0 .. MaxCount
  BY MetaFlagAssumption
<1>2. /\ {"UNSTABLE"} \in SUBSET Flag /\ {} \in SUBSET Flag
      /\ {"ALIVE"} \cup Derived \in SUBSET Flag
  BY DEF Flag
<1> QED
  BY <1>1, <1>2 DEF WordOf, Word

\* A slot is claimed, torn down and released.
LEMMA SlotSteps ==
  ASSUME IndInv, NEW s \in Slots,
         Claim(s) \/ DestroyNow(s) \/ Teardown(s) \/ ClearMeta(s)
  PROVE  IndInv'
<1>1. /\ TypeOK /\ SlotInv(s) /\ meta[s] \in Word
  BY DEF IndInv, TypeOK
<1>2. ASSUME job[s].pc \in {"free", "destroy", "teardown", "clear"},
             NEW l \in {"publish", "destroy", "teardown", "clear", "free"},
             l = "publish" => job[s].pc = "free" /\ job[s].lives > 0,
             l # "publish" => job[s].pc # "free",
             Goto(s, l), meta' \in [Slots -> Word],
             \A t \in Slots \ {s} : meta'[t] = meta[t],
             "READYBASIC" \notin meta'[s].flags,
             gen' \in [Slots -> Nat],
             \A t \in Slots \ {s} : gen'[t] = gen[t],
             UNCHANGED <<list, req, kernelVars, ep, mainVars>>
      PROVE  IndInv'
  <2>1. l \in JobLabels /\ l \notin Adding /\ l \notin {"basic", "suspended"}
    BY DEF JobLabels, Adding
  <2>2. /\ job' \in [Slots -> JobState]
        /\ job'[s].pc = l /\ job'[s].todo = job[s].todo
        /\ job'[s].lives = job[s].lives
        /\ \A t \in Slots \ {s} : job'[t] = job[t]
    BY <1>1, <1>2, <2>1, Going
  <2>3. TypeOK'
    BY <1>1, <1>2, <2>2 DEF TypeOK, JobState, kernelVars, mainVars
  <2>4. ~Alive(s)'
    BY <2>2 DEF Alive
  <2>5. OneLife(s)'
    <3>1. job[s].lives \in Nat
      BY <1>1 DEF TypeOK
    <3> QED
      BY <1>1, <1>2, <2>2, <3>1 DEF SlotInv, OneLife
  <2>6. WordInStage(s)'
    BY <1>2, <2>1, <2>2, <2>4 DEF WordInStage
  <2>7. InPlace(s)' /\ Answered(s)'
    BY <1>1, <1>2, <2>1, <2>2, <2>4, RequestsKept
    DEF SlotInv, kernelVars, mainVars
  <2>8. job[s].pc # "suspended"
    BY <1>2
  <2> QED
    BY <1>2, <2>1, <2>2, <2>3, <2>5, <2>6, <2>7, <2>8, QuietJob
    DEF SlotInv, kernelVars, mainVars
<1>3. job[s].pc \in {"free", "destroy", "teardown", "clear"} =>
        "READYBASIC" \notin meta[s].flags
  BY <1>1 DEF SlotInv, WordInStage
<1>4. gen \in [Slots -> Nat] /\ meta \in [Slots -> Word]
  BY <1>1 DEF TypeOK
<1>5. CASE Claim(s)
  <2>1. /\ meta' \in [Slots -> Word] /\ meta'[s] = WordOf({"UNSTABLE"})
        /\ \A t \in Slots \ {s} : meta'[t] = meta[t]
    BY <1>1, <1>5, FreshWords, Storing DEF Claim
  <2>2. "READYBASIC" \notin meta'[s].flags
    BY <2>1, FreshWords
  <2> QED
    BY <1>2, <1>4, <1>5, <2>1, <2>2 DEF Claim, At
<1>6. CASE DestroyNow(s)
  <2> DEFINE m == mark_or(meta[s], {"UNSTABLE"},
                          {"UNSTABLE", "EXECUTING", "READY"}, TRUE)
             l == IF UnstableBan(meta[s]) = {} THEN "destroy" ELSE "teardown"
  <2>1. {"UNSTABLE"} \in SUBSET Flag
    BY DEF Flag
  <2>2. /\ m \in Word
        /\ (m.flags = meta[s].flags \cup {"UNSTABLE"} \/ m.flags = meta[s].flags)
    BY <1>1, <2>1, MarkIdleWords, ZenonT(60)
  <2> HIDE DEF m
  <2>3. /\ meta' \in [Slots -> Word] /\ meta'[s] = m
        /\ \A t \in Slots \ {s} : meta'[t] = meta[t]
    BY <1>1, <1>6, <2>2, Storing DEF DestroyNow, m
  <2>4. /\ job[s].pc = "destroy" /\ Goto(s, l) /\ l \in {"destroy", "teardown"}
        /\ UNCHANGED <<gen, list, req, kernelVars, ep, mainVars>>
    BY <1>6 DEF DestroyNow, At
  <2>5. "READYBASIC" \notin meta'[s].flags
    BY <1>3, <2>2, <2>3, <2>4
  <2> HIDE DEF l
  <2> QED
    BY <1>2, <1>4, <2>3, <2>4, <2>5
<1>7. CASE Teardown(s)
  <2>1. /\ gen' \in [Slots -> Nat] /\ \A t \in Slots \ {s} : gen'[t] = gen[t]
    BY <1>4, <1>7 DEF Teardown
  <2> QED
    BY <1>2, <1>3, <1>4, <1>7, <2>1 DEF Teardown, At
<1>8. CASE ClearMeta(s)
  <2>1. /\ meta' \in [Slots -> Word] /\ meta'[s] = WordOf({})
        /\ \A t \in Slots \ {s} : meta'[t] = meta[t]
    BY <1>1, <1>8, FreshWords, Storing DEF ClearMeta
  <2>2. "READYBASIC" \notin meta'[s].flags
    BY <2>1, FreshWords
  <2> QED
    BY <1>2, <1>4, <1>8, <2>1, <2>2 DEF ClearMeta, At
<1> QED
  BY <1>5, <1>6, <1>7, <1>8

\* A step of a live job that leaves its requests alone.
LEMMA LiveStep ==
  ASSUME IndInv, NEW s \in Slots, Alive(s), job[s].pc # "suspended",
         job' \in [Slots -> JobState], job'[s].todo = job[s].todo,
         job'[s].lives = job[s].lives,
         \A t \in Slots \ {s} : job'[t] = job[t],
         job'[s].pc \notin Adding, job'[s].pc \notin {"free", "publish"},
         meta' \in [Slots -> Word],
         \A t \in Slots \ {s} : meta'[t] = meta[t],
         Alive(s)' => meta'[s].wait = meta[s].wait,
         WordInStage(s)', pending' \in [Fds -> SUBSET Dirs],
         UNCHANGED <<gen, list, req, interest, open, wake, ep, mainVars>>
  PROVE  IndInv'
<1>1. TypeOK /\ SlotInv(s)
  BY DEF IndInv
<1>2. UNCHANGED <<load, epoll_stop, epoll_thread_running, main>>
  BY DEF mainVars
<1>3. TypeOK'
  BY <1>1, <1>2 DEF TypeOK, JobState
<1>4. OneLife(s)'
  BY <1>1 DEF SlotInv, OneLife, Alive
<1>5. InPlace(s)' /\ Answered(s)'
  BY <1>1, <1>2, RequestsKept DEF SlotInv
<1> QED
  BY <1>2, <1>3, <1>4, <1>5, QuietJob DEF SlotInv

\* schedi_job_setready of the job itself, pickready, the begin and the end of
\* a run.
LEMMA RunSteps ==
  ASSUME IndInv, NEW s \in Slots,
         \/ SetReady(s) \/ Pick(s) \/ BeginRun(s) \/ ReturnOne(s)
         \/ MarkReadyBasic(s) \/ ReturnEnd(s)
  PROVE  IndInv'
<1>1. TypeOK /\ SlotInv(s) /\ meta[s] \in Word /\ meta[s].flags \in SUBSET Flag
      /\ pending \in [Fds -> SUBSET Dirs]
  BY DEF IndInv, TypeOK, Word
<1>2. WordInStage(s)
  BY <1>1 DEF SlotInv
<1>3. /\ {"READY"} \in SUBSET Flag /\ {"READY", "READYBASIC"} \in SUBSET Flag
      /\ {"EXECUTING"} \in SUBSET Flag /\ {"WLLDESTROY"} \in SUBSET Flag
      /\ {"READYBASIC"} \in SUBSET (Flag \ Derived)
  BY DEF Flag, Derived
<1>4. CASE SetReady(s)
  <2> DEFINE ban == {"UNSTABLE", "WLLDESTROY", "READY"}
             w == mark_or(meta[s], {"READY"}, ban, FALSE)
  <2>1. job[s].pc = "setready" /\ Alive(s)
    BY <1>4 DEF SetReady, At, Alive
  <2>2. Ban(meta[s], ban, FALSE) = {}
    BY <1>2, <2>1 DEF Ban, WordInStage
  <2>3. w \in Word /\ w.wait = meta[s].wait /\ w.flags = meta[s].flags \cup {"READY"}
    <3>1. meta[s] \in Word /\ {"READY"} \in SUBSET Flag
      BY <1>1, <1>3
    <3> QED
      BY <2>2, <3>1, MarkWords, ZenonT(60)
  <2> HIDE DEF w
  <2>4. SetMeta(s, w) /\ Goto(s, "cached") /\ "cached" \in JobLabels
    BY <1>4, <2>2 DEF SetReady, MarkReady, w, JobLabels
  <2>5. /\ meta' \in [Slots -> Word] /\ meta'[s] = w
        /\ \A t \in Slots \ {s} : meta'[t] = meta[t]
    BY <1>1, <2>3, <2>4, Storing
  <2>6. /\ job' \in [Slots -> JobState] /\ job'[s].pc = "cached"
        /\ job'[s].todo = job[s].todo /\ job'[s].again = job[s].again
        /\ job'[s].lives = job[s].lives
        /\ \A t \in Slots \ {s} : job'[t] = job[t]
    BY <1>1, <2>4, Going
  <2>7. WordInStage(s)'
    BY <1>2, <2>1, <2>3, <2>5, <2>6 DEF WordInStage, Alive, Adding
  <2>8. UNCHANGED <<gen, list, req, interest, open, wake, ep, mainVars, pending>>
    BY <1>4 DEF SetReady, kernelVars
  <2> QED
    BY <1>1, <2>1, <2>3, <2>5, <2>6, <2>7, <2>8, LiveStep DEF Adding
<1>5. CASE Pick(s)
  <2> DEFINE v == mark_access(meta[s])
             w == unmark_or(v, {"READY", "READYBASIC"},
                            {"UNSTABLE", "WLLDESTROY"})
  <2>1. job[s].pc = "cached" /\ Alive(s)
    BY <1>5 DEF Pick, At, Alive
  <2>2. v \in Word /\ v.flags = meta[s].flags /\ v.wait = meta[s].wait
    BY <1>1, AccessWords
  <2> HIDE DEF v
  <2>3. Ban(v, {"UNSTABLE", "WLLDESTROY"}, FALSE) = {}
    BY <1>2, <2>1, <2>2 DEF Ban, WordInStage
  <2>4. /\ w \in Word /\ w.wait = meta[s].wait
        /\ w.flags = meta[s].flags \ {"READY", "READYBASIC"}
    BY <2>2, <2>3 DEF unmark_or, Word
  <2> HIDE DEF w
  <2>5. SetMeta(s, w) /\ Goto(s, "picked") /\ "picked" \in JobLabels
    BY <1>5 DEF Pick, w, v, JobLabels
  <2>6. /\ meta' \in [Slots -> Word] /\ meta'[s] = w
        /\ \A t \in Slots \ {s} : meta'[t] = meta[t]
    BY <1>1, <2>4, <2>5, Storing
  <2>7. /\ job' \in [Slots -> JobState] /\ job'[s].pc = "picked"
        /\ job'[s].todo = job[s].todo /\ job'[s].again = job[s].again
        /\ job'[s].lives = job[s].lives
        /\ \A t \in Slots \ {s} : job'[t] = job[t]
    BY <1>1, <2>5, Going
  <2>8. WordInStage(s)'
    BY <1>2, <2>1, <2>4, <2>6, <2>7 DEF WordInStage, Alive, Adding
  <2>9. UNCHANGED <<gen, list, req, interest, open, wake, ep, mainVars, pending>>
    BY <1>5 DEF Pick, kernelVars
  <2> QED
    BY <1>1, <2>1, <2>4, <2>6, <2>7, <2>8, <2>9, LiveStep DEF Adding
<1>6. CASE BeginRun(s)
  <2> DEFINE v == mark_or(meta[s], {"EXECUTING"}, {"UNSTABLE", "EXECUTING"}, FALSE)
             w == unmark_access(v)
  <2>1. job[s].pc = "picked" /\ Alive(s)
    BY <1>6 DEF BeginRun, At, Alive
  <2>2. /\ v \in Word /\ v.wait = meta[s].wait
        /\ (v.flags = meta[s].flags \cup {"EXECUTING"} \/ v.flags = meta[s].flags)
    <3>1. meta[s] \in Word /\ {"EXECUTING"} \in SUBSET Flag
      BY <1>1, <1>3
    <3> QED
      BY <3>1, MarkWords, ZenonT(60)
  <2> HIDE DEF v
  <2>3. /\ w \in Word /\ w.wait = meta[s].wait
        /\ (w.flags = meta[s].flags \cup {"EXECUTING"} \/ w.flags = meta[s].flags)
    BY <2>2, AccessWords
  <2> HIDE DEF w
  <2>4. SetMeta(s, w) /\ Goto(s, "run") /\ "run" \in JobLabels
    BY <1>6 DEF BeginRun, w, v, JobLabels
  <2>5. /\ meta' \in [Slots -> Word] /\ meta'[s] = w
        /\ \A t \in Slots \ {s} : meta'[t] = meta[t]
    BY <1>1, <2>3, <2>4, Storing
  <2>6. /\ job' \in [Slots -> JobState] /\ job'[s].pc = "run"
        /\ job'[s].todo = job[s].todo /\ job'[s].again = job[s].again
        /\ job'[s].lives = job[s].lives
        /\ \A t \in Slots \ {s} : job'[t] = job[t]
    BY <1>1, <2>4, Going
  <2>7. WordInStage(s)'
    BY <1>2, <2>1, <2>3, <2>5, <2>6 DEF WordInStage, Alive, Adding
  <2>8. UNCHANGED <<gen, list, req, interest, open, wake, ep, mainVars, pending>>
    BY <1>6 DEF BeginRun, kernelVars
  <2> QED
    BY <1>1, <2>1, <2>3, <2>5, <2>6, <2>7, <2>8, LiveStep DEF Adding
<1>7. CASE ReturnOne(s)
  <2> DEFINE w == unmark_or(meta[s], {"EXECUTING"}, {"UNSTABLE"})
  <2>1. job[s].pc = "run" /\ Alive(s)
    BY <1>7 DEF ReturnOne, At, Alive
  <2>2. /\ w \in Word /\ w.wait = meta[s].wait
        /\ (w.flags = meta[s].flags \ {"EXECUTING"} \/ w.flags = meta[s].flags)
    <3>1. meta[s] \in Word
      BY <1>1
    <3> QED
      BY <3>1 DEF unmark_or, Word
  <2> HIDE DEF w
  <2>3. /\ SetMeta(s, w)
        /\ job' = [job EXCEPT ![s] = [job[s] EXCEPT !.pc = "basic", !.again = TRUE]]
    BY <1>7 DEF ReturnOne, w
  <2>4. /\ meta' \in [Slots -> Word] /\ meta'[s] = w
        /\ \A t \in Slots \ {s} : meta'[t] = meta[t]
    BY <1>1, <2>2, <2>3, Storing
  <2>5. /\ job' \in [Slots -> JobState] /\ job'[s].pc = "basic"
        /\ job'[s].todo = job[s].todo /\ job'[s].again = TRUE
        /\ job'[s].lives = job[s].lives
        /\ \A t \in Slots \ {s} : job'[t] = job[t]
    <3>1. job \in [Slots -> JobState]
      BY <1>1 DEF TypeOK, JobState
    <3>2. job[s] \in JobState
          /\ [job[s] EXCEPT !.pc = "basic", !.again = TRUE] \in JobState
      BY <3>1 DEF JobState, JobLabels
    <3> QED
      BY <2>3, <3>1, <3>2 DEF JobState
  <2>6. WordInStage(s)'
    BY <1>2, <2>1, <2>2, <2>4, <2>5 DEF WordInStage, Alive, Adding
  <2>7. UNCHANGED <<gen, list, req, interest, open, wake, ep, mainVars, pending>>
    BY <1>7 DEF ReturnOne, kernelVars
  <2> QED
    BY <1>1, <2>1, <2>2, <2>4, <2>5, <2>6, <2>7, LiveStep DEF Adding
<1>8. CASE MarkReadyBasic(s)
  <2> DEFINE w == cas_update(meta[s], 0, 0, 0, {"READYBASIC"}, 0, 0)
             l == IF BecomesReady(meta[s], w) THEN "setready" ELSE "suspended"
  <2>1. job[s].pc = "basic" /\ Alive(s) /\ job[s].again
    BY <1>2, <1>8 DEF MarkReadyBasic, At, Alive, WordInStage
  <2>2. meta[s].wait + 0 \in 0 .. MaxCount /\ meta[s].wait + 0 = meta[s].wait /\ 0 \in Int
    BY <1>1, MetaFlagAssumption DEF Word
  <2>3. /\ w \in Word /\ w.wait = meta[s].wait + 0
        /\ "READYEPOLLSOCK" \in w.flags /\ "READYJOB" \in w.flags
        /\ "READYEPOLLTOOL" \in w.flags <=> meta[s].wait + 0 = 0
        /\ \A f \in Flag \ Derived :
             f \in w.flags <=> f \in meta[s].flags \cup {"READYBASIC"}
    BY <1>1, <1>3, <2>2, CasWords
  <2> HIDE DEF w
  <2>4. SetMeta(s, w) /\ Goto(s, l) /\ l \in {"setready", "suspended"}
    BY <1>8 DEF MarkReadyBasic, w
  <2>5. l = "setready" => w.wait = 0
    BY <2>2, <2>3 DEF BecomesReady, check_allready, Derived
  <2>6. /\ meta' \in [Slots -> Word] /\ meta'[s] = w
        /\ \A t \in Slots \ {s} : meta'[t] = meta[t]
    BY <1>1, <2>3, <2>4, Storing
  <2> HIDE DEF l
  <2>7. /\ job' \in [Slots -> JobState] /\ job'[s].pc = l
        /\ job'[s].todo = job[s].todo /\ job'[s].again = job[s].again
        /\ job'[s].lives = job[s].lives
        /\ \A t \in Slots \ {s} : job'[t] = job[t]
    <3>1. l \in JobLabels
      BY <2>4 DEF JobLabels
    <3> QED
      BY <1>1, <2>4, <3>1, Going
  <2>8. WordInStage(s)'
    <3>1. /\ "READYBASIC" \in w.flags /\ "UNSTABLE" \notin w.flags
          /\ "WLLDESTROY" \notin w.flags /\ "READY" \notin w.flags
      BY <1>2, <2>1, <2>3 DEF WordInStage, Flag, Derived
    <3>2. /\ "READYEPOLLSOCK" \in w.flags /\ "READYJOB" \in w.flags
          /\ "READYEPOLLTOOL" \in w.flags <=> w.wait = 0
      BY <2>2, <2>3
    <3> QED
      BY <2>1, <2>4, <2>5, <2>6, <2>7, <3>1, <3>2
      DEF WordInStage, Alive, Adding
  <2>9. UNCHANGED <<gen, list, req, interest, open, wake, ep, mainVars, pending>>
    BY <1>8 DEF MarkReadyBasic, kernelVars
  <2>10. meta'[s].wait = meta[s].wait
    BY <2>2, <2>3, <2>6
  <2>11. job'[s].pc \notin Adding /\ job'[s].pc \notin {"free", "publish"}
    BY <2>4, <2>7 DEF Adding
  <2>12. job[s].pc # "suspended"
    BY <2>1
  <2> QED
    BY <1>1, <2>1, <2>6, <2>7, <2>8, <2>9, <2>10, <2>11, <2>12, LiveStep
<1>9. CASE ReturnEnd(s)
  <2> DEFINE v == unmark_or(meta[s], {"EXECUTING"}, {"UNSTABLE"})
             w == mark_or(v, {"WLLDESTROY"}, {"UNSTABLE"}, FALSE)
  <2>1. job[s].pc = "run" /\ Alive(s)
    BY <1>9 DEF ReturnEnd, At, Alive
  <2>2. /\ v \in Word /\ (v.flags = meta[s].flags \ {"EXECUTING"} \/ v.flags = meta[s].flags)
    <3>1. meta[s] \in Word
      BY <1>1
    <3> QED
      BY <3>1 DEF unmark_or, Word
  <2> HIDE DEF v
  <2>3. /\ w \in Word /\ (w.flags = v.flags \cup {"WLLDESTROY"} \/ w.flags = v.flags)
    BY <1>3, <2>2, MarkWords, ZenonT(60)
  <2> HIDE DEF w
  <2>4. SetMeta(s, w) /\ Goto(s, "destroy") /\ "destroy" \in JobLabels
    BY <1>9 DEF ReturnEnd, w, v, JobLabels
  <2>5. /\ meta' \in [Slots -> Word] /\ meta'[s] = w
        /\ \A t \in Slots \ {s} : meta'[t] = meta[t]
    BY <1>1, <2>3, <2>4, Storing
  <2>6. /\ job' \in [Slots -> JobState] /\ job'[s].pc = "destroy"
        /\ job'[s].todo = job[s].todo /\ job'[s].again = job[s].again
        /\ job'[s].lives = job[s].lives
        /\ \A t \in Slots \ {s} : job'[t] = job[t]
    BY <1>1, <2>4, Going
  <2>7. "READYBASIC" \notin w.flags
    <3>1. "READYBASIC" \notin meta[s].flags
      BY <1>2, <2>1 DEF WordInStage
    <3> QED
      BY <2>2, <2>3, <3>1
  <2>8. WordInStage(s)' /\ ~Alive(s)'
    BY <2>5, <2>6, <2>7 DEF WordInStage, Alive, Adding
  <2>9. /\ UNCHANGED <<gen, list, req, interest, open, wake, ep, mainVars>>
        /\ pending' \in [Fds -> SUBSET Dirs]
    BY <1>1, <1>9 DEF ReturnEnd
  <2> QED
    BY <1>1, <2>1, <2>5, <2>6, <2>8, <2>9, LiveStep DEF Adding
<1> QED
  BY <1>4, <1>5, <1>6, <1>7, <1>8, <1>9

-----------------------------------------------------------------------------
(* Steps of a job that make its requests. *)

\* The fields are written and the first word makes the job live: none of its
\* descriptors has a request.
LEMMA PublishStep ==
  ASSUME IndInv, NEW s \in Slots, Publish(s)
  PROVE  IndInv'
<1>1. TypeOK /\ SlotInv(s) /\ job[s].pc = "publish" /\ job[s].lives = 1
  BY DEF IndInv, Publish, At, SlotInv, OneLife
<1>2. \A fd \in FdsOf(s) : ~req[fd].allocated
  BY <1>1 DEF SlotInv, InPlace, ToCome
<1>3. /\ meta' \in [Slots -> Word]
      /\ meta'[s] = WordOf({"ALIVE"} \cup Derived)
      /\ \A t \in Slots \ {s} : meta'[t] = meta[t]
  BY <1>1, FreshWords, Storing DEF Publish
<1>4. /\ UNCHANGED <<load, gen, req, interest, pending, open, wake, ep,
                     epoll_stop, epoll_thread_running, main>>
      /\ FdsOf(s)' = FdsOf(s)
  BY DEF Publish, kernelVars, mainVars, FdsOf
<1>5. /\ job' \in [Slots -> JobState] /\ job'[s].pc = "setready"
      /\ job'[s].todo = FdsOf(s) /\ job'[s].again = FALSE
      /\ job'[s].lives = 0 /\ \A t \in Slots \ {s} : job'[t] = job[t]
  <2> DEFINE j == [job[s] EXCEPT !.pc = "setready", !.todo = FdsOf(s),
                                 !.again = FALSE, !.lives = job[s].lives - 1]
  <2>1. job \in [Slots -> JobState] /\ job' = [job EXCEPT ![s] = j]
    BY <1>1 DEF TypeOK, JobState, Publish
  <2>2. \A fd \in FdsOf(s) : fd \in Fds
    <3>1. TAKE fd \in FdsOf(s)
    <3> QED
      BY <1>1, OwnerIs
  <2>3. job[s] \in JobState /\ job[s].lives - 1 = 0
    BY <1>1, <2>1
  <2>4. /\ j \in JobState /\ j.pc = "setready" /\ j.todo = FdsOf(s)
        /\ j.again = FALSE /\ j.lives = 0
    <3>1. /\ "setready" \in JobLabels /\ FdsOf(s) \in SUBSET Fds
          /\ FALSE \in BOOLEAN /\ job[s].lives - 1 \in Nat
      BY <2>2, <2>3 DEF JobLabels
    <3> QED
      BY <2>3, <3>1 DEF JobState
  <2> HIDE DEF j
  <2>5. job' \in [Slots -> JobState]
    BY <2>1, <2>4
  <2>6. job'[s] = j
    BY <2>1
  <2>7. \A t \in Slots \ {s} : job'[t] = job[t]
    BY <2>1
  <2> QED
    BY <2>4, <2>5, <2>6, <2>7
<1>6. /\ list' \in [Slots -> [total : Nat, ret : Nat, err : Nat, failed : Nat]]
      /\ list'[s] = NoList /\ \A t \in Slots \ {s} : list'[t] = list[t]
  BY <1>1 DEF TypeOK, Publish, NoList
<1>7. TypeOK'
  BY <1>1, <1>3, <1>4, <1>5, <1>6 DEF TypeOK, JobState
<1>8. OneLife(s)'
  BY <1>5 DEF OneLife
<1>9. WordInStage(s)'
  BY <1>3, <1>5, FreshWords DEF WordInStage, Alive, Adding, Derived
<1>10. InPlace(s)'
  BY <1>2, <1>4, <1>5 DEF InPlace, ToCome, BeingAdded, Adding
<1>11. Answered(s)'
  <2>1. Outstanding(s)' = {}
    BY <1>2, <1>4 DEF Outstanding
  <2>2. IsFiniteSet({}) /\ Cardinality({}) = 0
    BY FS_EmptySet
  <2>3. Listed(s)' = 0
    <3>1. SUFFICES ASSUME ep.pc = "cas", Owner(ep.fd) = s PROVE FALSE
      BY <1>4 DEF Listed, Owner, FdsOf
    <3>2. PICK t \in Slots : ep.fd \in FdsOf(t) /\ req[ep.fd].allocated
      BY <3>1 DEF IndInv, Delivered, Answering
    <3>3. Owner(ep.fd) = t
      BY <1>1, <3>2, OwnerIs
    <3> QED
      BY <1>2, <3>1, <3>2, <3>3
  <2>4. meta'[s].wait = 0
    BY <1>3, FreshWords
  <2> QED
    BY <1>6, <2>1, <2>2, <2>3, <2>4 DEF Answered, NoList
<1> QED
  BY <1>1, <1>3, <1>4, <1>5, <1>6, <1>7, <1>8, <1>9, <1>10, <1>11, QuietJob
  DEF SlotInv, Adding

\* The lists of the slots after a step that counts in one of them.
ListState == [total : Nat, ret : Nat, err : Nat, failed : Nat]

\* schedi_job_tool_epoll at the limit of the waiting count: it fails, and the
\* list has one more request and one more failure.
LEMMA ToolEpollFails ==
  ASSUME IndInv, NEW s \in Slots, job[s].pc = "run", ~job[s].again,
         NEW fd \in job[s].todo,
         list' = [list EXCEPT ![s].total = @ + 1, ![s].failed = @ + 1],
         job' = [job EXCEPT ![s].todo = @ \ {fd}],
         UNCHANGED <<meta, req, gen, kernelVars, ep, mainVars>>
  PROVE  IndInv'
<1>1. TypeOK /\ SlotInv(s)
  BY DEF IndInv
<1>2. /\ UNCHANGED <<load, interest, pending, open, wake, epoll_stop,
                     epoll_thread_running, main>>
      /\ FdsOf(s)' = FdsOf(s) /\ Listed(s)' = Listed(s)
  BY DEF kernelVars, mainVars, FdsOf, Listed, Owner
<1>3. /\ job' \in [Slots -> JobState] /\ job'[s].pc = "run"
      /\ job'[s].todo = job[s].todo \ {fd} /\ job'[s].again = job[s].again
      /\ job'[s].lives = job[s].lives
      /\ \A t \in Slots \ {s} : job'[t] = job[t]
  <2>1. job \in [Slots -> JobState]
    BY <1>1 DEF TypeOK, JobState
  <2>2. job[s] \in JobState /\ job[s].todo \ {fd} \in SUBSET Fds
    BY <2>1 DEF JobState
  <2> QED
    BY <2>1, <2>2 DEF JobState
<1>4. /\ list' \in [Slots -> ListState]
      /\ list'[s].total = list[s].total + 1
      /\ list'[s].failed = list[s].failed + 1
      /\ list'[s].ret = list[s].ret /\ list'[s].err = list[s].err
      /\ \A t \in Slots \ {s} : list'[t] = list[t]
  <2>1. list \in [Slots -> ListState]
    BY <1>1 DEF TypeOK, ListState
  <2> QED
    BY <2>1 DEF ListState
<1>5. TypeOK'
  BY <1>1, <1>2, <1>3, <1>4 DEF TypeOK, JobState, ListState
<1>6. OneLife(s)' /\ WordInStage(s)' /\ Alive(s) /\ Alive(s)'
  BY <1>1, <1>3 DEF SlotInv, OneLife, WordInStage, Alive, Adding
<1>7. InPlace(s)'
  <2>1. \A x : ToCome(s, x)' => ToCome(s, x)
    BY <1>3 DEF ToCome
  <2>2. \A x : ~BeingAdded(s, x)'
    BY <1>3 DEF BeingAdded, Adding
  <2> QED
    BY <1>1, <1>2, <1>3, <1>6, <2>1, <2>2 DEF SlotInv, InPlace, Adding
<1>8. Answered(s)'
  <2>1. Outstanding(s)' = Outstanding(s)
    BY <1>2 DEF Outstanding
  <2>2. /\ IsFiniteSet(Outstanding(s))
        /\ meta[s].wait = Cardinality(Outstanding(s))
        /\ list[s].total + Listed(s)
             = list[s].ret + list[s].err + list[s].failed + meta[s].wait
    BY <1>1, <1>6 DEF SlotInv, Answered
  <2>3. /\ list[s].total \in Nat /\ list[s].ret \in Nat /\ list[s].err \in Nat
        /\ list[s].failed \in Nat /\ meta[s].wait \in Nat /\ Listed(s) \in Nat
    <3>1. list[s] \in ListState /\ meta[s] \in Word
      BY <1>1 DEF TypeOK, ListState
    <3> QED
      BY <3>1 DEF ListState, Word, Listed
  <2>4. list'[s].total + Listed(s)
          = list'[s].ret + list'[s].err + list'[s].failed + meta[s].wait
    BY <1>4, <2>2, <2>3
  <2> QED
    BY <1>2, <2>1, <2>2, <2>4 DEF Answered
<1> QED
  BY <1>1, <1>2, <1>3, <1>4, <1>5, <1>6, <1>7, <1>8, QuietJob
  DEF SlotInv, Adding

\* schedi_job_tool_epoll below the limit: the request is outstanding and
\* counted, and not yet registered.
LEMMA ToolEpollCounts ==
  ASSUME IndInv, NEW s \in Slots, job[s].pc = "run", ~job[s].again,
         NEW fd \in job[s].todo, InRange(meta[s], 0, 1, 0),
         SetMeta(s, cas_update(meta[s], 0, 1, 0, {}, 0, 0)),
         req' = [req EXCEPT ![fd] = [allocated |-> TRUE, job_gen |-> gen[s]]],
         list' = [list EXCEPT ![s].total = @ + 1],
         job' = [job EXCEPT ![s].pc = FirstAdd(fd), ![s].fd = fd,
                            ![s].todo = @ \ {fd}],
         UNCHANGED <<gen, kernelVars, ep, mainVars>>
  PROVE  IndInv'
<1>1. TypeOK /\ SlotInv(s) /\ meta[s] \in Word
  BY DEF IndInv, TypeOK
<1>2. /\ UNCHANGED <<load, interest, pending, open, wake, epoll_stop,
                     epoll_thread_running, main>>
      /\ \A t \in Slots : FdsOf(t)' = FdsOf(t)
      /\ Listed(s)' = Listed(s)
  BY DEF kernelVars, mainVars, FdsOf, Listed, Owner
<1>3. fd \in FdsOf(s) /\ fd \in Fds /\ fd # NoFd /\ ~req[fd].allocated
  <2>1. fd \in FdsOf(s) /\ ~req[fd].allocated
    BY <1>1 DEF SlotInv, InPlace, ToCome
  <2> QED
    BY <1>1, <2>1, OwnerIs
<1>4. /\ job' \in [Slots -> JobState] /\ job'[s].pc = FirstAdd(fd)
      /\ job'[s].todo = job[s].todo \ {fd} /\ job'[s].again = job[s].again
      /\ job'[s].lives = job[s].lives /\ job'[s].fd = fd
      /\ \A t \in Slots \ {s} : job'[t] = job[t]
  <2> DEFINE j == [job[s] EXCEPT !.pc = FirstAdd(fd), !.fd = fd,
                                 !.todo = job[s].todo \ {fd}]
  <2>1. job \in [Slots -> JobState] /\ job' = [job EXCEPT ![s] = j]
    BY <1>1 DEF TypeOK, JobState
  <2>2. /\ job[s] \in JobState /\ job[s].todo \ {fd} \in SUBSET Fds
        /\ FirstAdd(fd) \in JobLabels
    BY <2>1 DEF JobState, FirstAdd, JobLabels
  <2>3. /\ j \in JobState /\ j.pc = FirstAdd(fd) /\ j.fd = fd
        /\ j.todo = job[s].todo \ {fd} /\ j.again = job[s].again
        /\ j.lives = job[s].lives
    BY <1>3, <2>2 DEF JobState
  <2> HIDE DEF j
  <2>4. job' \in [Slots -> JobState]
    <3>1. j \in JobState
      BY <2>3
    <3> QED
      BY <2>1, <3>1
  <2>6. job'[s] = j
    BY <2>1
  <2>5. \A t \in Slots \ {s} : job'[t] = job[t]
    BY <2>1
  <2> QED
    BY <2>3, <2>4, <2>5, <2>6
<1>5. /\ list' \in [Slots -> ListState]
      /\ list'[s].total = list[s].total + 1
      /\ list'[s].failed = list[s].failed
      /\ list'[s].ret = list[s].ret /\ list'[s].err = list[s].err
      /\ \A t \in Slots \ {s} : list'[t] = list[t]
  <2>1. list \in [Slots -> ListState]
    BY <1>1 DEF TypeOK, ListState
  <2> QED
    BY <2>1 DEF ListState
<1>6. /\ req' \in [Fds -> [allocated : BOOLEAN, job_gen : Nat]]
      /\ req'[fd].allocated /\ req'[fd].job_gen = gen[s]
      /\ \A x \in Fds \ {fd} : req'[x] = req[x]
  BY <1>1, <1>3 DEF TypeOK
<1> DEFINE w == cas_update(meta[s], 0, 1, 0, {}, 0, 0)
<1>7. meta[s].wait + 1 \in 0 .. MaxCount /\ meta[s].wait \in Nat
  BY <1>1 DEF InRange, Word
<1>8. /\ w \in Word /\ w.wait = meta[s].wait + 1
      /\ "READYEPOLLSOCK" \in w.flags /\ "READYJOB" \in w.flags
      /\ "READYEPOLLTOOL" \in w.flags <=> meta[s].wait + 1 = 0
      /\ \A f \in Flag \ Derived : f \in w.flags <=> f \in meta[s].flags
  <2>1. {} \in SUBSET (Flag \ Derived) /\ 1 \in Int
    OBVIOUS
  <2> QED
    BY <1>1, <1>7, <2>1, CasWords
<1> HIDE DEF w
<1>9. /\ meta' \in [Slots -> Word] /\ meta'[s] = w
      /\ \A t \in Slots \ {s} : meta'[t] = meta[t]
  BY <1>1, <1>8, Storing DEF w
<1>10. TypeOK'
  BY <1>1, <1>2, <1>4, <1>5, <1>6, <1>9 DEF TypeOK, JobState, ListState
<1>11. FirstAdd(fd) \in {"add_in", "add_out"}
       /\ (FirstAdd(fd) = "add_in" => "in" \in EventsOf[fd])
  BY DEF FirstAdd
<1>12. OneLife(s)' /\ Alive(s) /\ Alive(s)' /\ job[s].lives = 0
  BY <1>1, <1>4, <1>11 DEF SlotInv, OneLife, Alive
<1>13. WordInStage(s)'
  <2>1. /\ "READYBASIC" \notin w.flags /\ "UNSTABLE" \notin w.flags
        /\ "WLLDESTROY" \notin w.flags /\ "READY" \notin w.flags
    BY <1>1, <1>8, <1>12 DEF SlotInv, WordInStage, Flag, Derived
  <2>2. /\ "READYEPOLLSOCK" \in w.flags /\ "READYJOB" \in w.flags
        /\ "READYEPOLLTOOL" \in w.flags <=> w.wait = 0
    BY <1>8
  <2> QED
    BY <1>4, <1>9, <1>11, <2>1, <2>2 DEF WordInStage, Adding
<1>14. InPlace(s)'
  <2>1. ASSUME NEW x \in FdsOf(s)
        PROVE  /\ ToCome(s, x)' => ~req'[x].allocated
               /\ BeingAdded(s, x)' => req'[x].allocated
               /\ req'[x].allocated => req'[x].job_gen = gen'[s]
    <3>1. x \in Fds
      BY <1>1, OwnerIs
    <3>2. CASE x = fd
      BY <1>4, <1>6, <1>12, <3>2 DEF ToCome
    <3>3. CASE x # fd
      <4>1. req'[x] = req[x] /\ ~BeingAdded(s, x)'
        BY <1>4, <1>6, <3>1, <3>3 DEF BeingAdded
      <4>2. ToCome(s, x)' => ToCome(s, x)
        BY <1>4 DEF ToCome
      <4>3. gen' = gen
        OBVIOUS
      <4> QED
        BY <1>1, <1>12, <4>1, <4>2, <4>3 DEF SlotInv, InPlace
    <3> QED
      BY <3>2, <3>3
  <2>2. job'[s].todo \subseteq FdsOf(s)
    BY <1>1, <1>4 DEF SlotInv, InPlace
  <2>3. job'[s].fd \in FdsOf(s) \ job'[s].todo
    BY <1>3, <1>4
  <2>4. job'[s].pc = "add_in" => "in" \in EventsOf[job'[s].fd]
    BY <1>4, <1>11
  <2> QED
    BY <1>2, <1>12, <2>1, <2>2, <2>3, <2>4 DEF InPlace
<1>15. ep.fd # fd
  BY <1>3 DEF IndInv, Delivered
<1>16. Answered(s)'
  <2>1. \A x \in FdsOf(s) : x \in Fds
    BY <1>1, OwnerIs
  <2>2. Outstanding(s)' = Outstanding(s) \cup {fd} /\ fd \notin Outstanding(s)
    BY <1>2, <1>3, <1>6, <1>15, <2>1 DEF Outstanding
  <2>3. /\ IsFiniteSet(Outstanding(s))
        /\ meta[s].wait = Cardinality(Outstanding(s))
        /\ list[s].total + Listed(s)
             = list[s].ret + list[s].err + list[s].failed + meta[s].wait
    BY <1>1, <1>12 DEF SlotInv, Answered
  <2>4. /\ IsFiniteSet(Outstanding(s)')
        /\ Cardinality(Outstanding(s)') = meta[s].wait + 1
    BY <2>2, <2>3, FS_AddElement
  <2>5. /\ list[s].total \in Nat /\ list[s].ret \in Nat /\ list[s].err \in Nat
        /\ list[s].failed \in Nat /\ Listed(s) \in Nat
    <3>1. list[s] \in ListState
      BY <1>1 DEF TypeOK, ListState
    <3> QED
      BY <3>1 DEF ListState, Listed
  <2>6. /\ meta'[s].wait = meta[s].wait + 1
        /\ list'[s].total + Listed(s)
             = list'[s].ret + list'[s].err + list'[s].failed + meta'[s].wait
    <3>1. /\ meta'[s].wait = meta[s].wait + 1 /\ meta[s].wait \in Nat
          /\ list'[s].total = list[s].total + 1
          /\ list'[s].failed = list[s].failed
          /\ list'[s].ret = list[s].ret /\ list'[s].err = list[s].err
      BY <1>5, <1>7, <1>8, <1>9
    <3>2. list[s].total + Listed(s)
            = list[s].ret + list[s].err + list[s].failed + meta[s].wait
      BY <2>3
    <3> HIDE DEF Listed
    <3> QED
      BY <2>5, <3>1, <3>2
  <2> QED
    BY <1>2, <2>4, <2>6 DEF Answered
<1>17. Delivered'
  <2>1. \A t \in Slots : \A x : x # fd => (BeingAdded(t, x)' => BeingAdded(t, x))
    BY <1>4 DEF BeingAdded
  <2>2. \A x : Registered(x) => x # fd
    BY <1>3 DEF Registered
  <2>3. \A x : Registered(x) => x \in Fds
    BY <1>1, OwnerIs DEF Registered
  <2>4. \A x : Registered(x) => Registered(x)'
    BY <1>2, <1>6, <2>1, <2>2, <2>3 DEF Registered
  <2>5. ep.fd # NoFd => req'[ep.fd].allocated
    <3>1. ep.fd # NoFd => ep.fd \in Fds /\ req[ep.fd].allocated
      BY <1>1 DEF TypeOK, IndInv, Delivered
    <3> QED
      BY <1>6, <1>15, <3>1
  <2> QED
    BY <1>2, <1>15, <2>1, <2>4, <2>5 DEF IndInv, Delivered
<1>18. ASSUME NEW t \in Slots \ {s}, NEW x \in FdsOf(t) PROVE req'[x] = req[x]
  <2>1. x # fd /\ x \in Fds
    BY <1>1, <1>3, OwnerIs
  <2> QED
    BY <1>6, <2>1
<1> QED
  BY <1>2, <1>4, <1>5, <1>9, <1>10, <1>12, <1>13, <1>14, <1>16, <1>17, <1>18,
     OwnStep
  DEF SlotInv

\* The descriptor that a job registers is not in the hands of the epoll
\* thread, and its request is counted.
LEMMA AddedFd ==
  ASSUME IndInv, NEW s \in Slots, job[s].pc \in Adding
  PROVE  LET fd == job[s].fd IN
         /\ fd \in FdsOf(s) /\ fd \in Fds /\ fd # NoFd /\ req[fd].allocated
         /\ ep.fd # fd /\ fd \in Outstanding(s) /\ ~Registered(fd)
<1> DEFINE fd == job[s].fd
<1>1. TypeOK /\ InPlace(s) /\ Alive(s) /\ BeingAdded(s, fd)
  BY DEF IndInv, SlotInv, Alive, Adding, BeingAdded
<1>2. fd \in FdsOf(s) /\ req[fd].allocated /\ req[fd].job_gen = gen[s]
  BY <1>1 DEF InPlace
<1>3. fd \in Fds /\ fd # NoFd
  BY <1>1, <1>2, OwnerIs
<1>4. \A t \in Slots : fd \in FdsOf(t) => t = s
  BY <1>1, <1>2, OneOwner
<1>5. ep.fd # fd
  BY <1>1, <1>3, <1>4 DEF IndInv, Delivered
<1>6. fd \in Outstanding(s)
  BY <1>2, <1>5 DEF Outstanding
<1>7. ~Registered(fd)
  BY <1>1, <1>4 DEF Registered
<1> QED
  BY <1>2, <1>3, <1>5, <1>6, <1>7

\* epoll_ctl ADD, with success or failure.
LEMMA AddSteps ==
  ASSUME OneTime, IndInv, NEW s \in Slots, AddRead(s) \/ AddWrite(s)
  PROVE  IndInv'
<1> DEFINE fd == job[s].fd
<1>1. /\ TypeOK /\ SlotInv(s) /\ job[s].pc \in {"add_in", "add_out"}
      /\ job[s].pc \in Adding
  BY DEF IndInv, AddRead, AddWrite, At, Adding
<1>2. /\ fd \in FdsOf(s) /\ fd \in Fds /\ fd # NoFd /\ req[fd].allocated
      /\ ep.fd # fd /\ ~Registered(fd)
  BY <1>1, AddedFd
<1>3. /\ UNCHANGED <<meta, gen, list, req, pending, open, wake, ep, load,
                     epoll_stop, epoll_thread_running, main>>
      /\ \A t \in Slots : FdsOf(t)' = FdsOf(t)
      /\ Listed(s)' = Listed(s)
  BY DEF AddRead, AddWrite, mainVars, FdsOf, Listed, Owner
<1>4. PICK d \in Dirs : Add(s, d, "run")
  <2>1. CASE AddRead(s)
    <3>1. "in" \in EventsOf[fd] /\ EventsOf[fd] # Dirs /\ EventsOf[fd] \in SUBSET Dirs
      BY <1>1, <1>2, <2>1, EpollAssumption
      DEF AddRead, At, SlotInv, InPlace, OneTime
    <3>2. "out" \notin EventsOf[fd]
      BY <3>1 DEF Dirs
    <3> QED
      BY <2>1, <3>2 DEF AddRead, Dirs
  <2>2. CASE AddWrite(s)
    BY <2>2 DEF AddWrite, Dirs
  <2> QED
    BY <2>1, <2>2
<1>5. PICK l \in {"run", "addfailed"} :
        /\ Goto(s, l)
        /\ interest' \in [Dirs -> SUBSET Fds]
        /\ \A e \in Dirs : interest'[e] \subseteq interest[e] \cup {fd}
        /\ l = "addfailed" => \A e \in Dirs : interest'[e] \subseteq interest[e]
  <2>1. interest \in [Dirs -> SUBSET Fds] /\ "in" \in Dirs
    BY <1>1 DEF TypeOK, Dirs
  <2>2. CASE open /\ fd \notin interest[d]
    <3>1. /\ interest' = [interest EXCEPT ![d] = @ \cup {fd}]
          /\ Goto(s, "run")
      BY <1>4, <2>2 DEF Add
    <3> QED
      BY <1>2, <2>1, <3>1
  <2>3. CASE ~(open /\ fd \notin interest[d])
    <3>1. /\ interest' = IF d = "out" THEN [interest EXCEPT !["in"] = @ \ {fd}]
                                      ELSE interest
          /\ Goto(s, "addfailed")
      BY <1>4, <2>3 DEF Add
    <3> QED
      BY <2>1, <3>1
  <2> QED
    BY <2>2, <2>3
<1>6. /\ job' \in [Slots -> JobState] /\ job'[s].pc = l
      /\ job'[s].todo = job[s].todo /\ job'[s].again = job[s].again
      /\ job'[s].fd = fd /\ job'[s].lives = job[s].lives
      /\ \A t \in Slots \ {s} : job'[t] = job[t]
  <2>1. l \in JobLabels
    BY DEF JobLabels
  <2> QED
    BY <1>1, <1>5, <2>1, Going
<1>7. TypeOK'
  BY <1>1, <1>3, <1>5, <1>6 DEF TypeOK, JobState
<1>8. OneLife(s)' /\ Alive(s) /\ Alive(s)'
  BY <1>1, <1>6 DEF SlotInv, OneLife, Alive
<1>9. WordInStage(s)'
  BY <1>1, <1>3, <1>6, <1>8 DEF SlotInv, WordInStage, Adding
<1>10. InPlace(s)'
  <2>1. \A x : BeingAdded(s, x)' => BeingAdded(s, x)
    BY <1>1, <1>6 DEF BeingAdded
  <2>2. job'[s].pc # "add_in"
    BY <1>6
  <2> QED
    BY <1>1, <1>3, <1>6, <1>8, <2>1, <2>2 DEF SlotInv, InPlace, ToCome
<1>11. Answered(s)'
  <2>1. Outstanding(s)' = Outstanding(s)
    BY <1>3 DEF Outstanding
  <2> QED
    BY <1>1, <1>3, <1>8, <2>1 DEF SlotInv, Answered
<1>12. Delivered'
  <2>1. \A t \in Slots : \A x : BeingAdded(t, x)' => BeingAdded(t, x)
    BY <1>1, <1>6 DEF BeingAdded
  <2>2. \A x : Registered(x) => Registered(x)'
    BY <1>3, <2>1 DEF Registered
  <2>3. ASSUME NEW x, x = fd, l = "run" PROVE Registered(x)'
    <3>1. ~BeingAdded(s, x)'
      BY <1>6, <2>3 DEF BeingAdded, Adding
    <3> QED
      BY <1>2, <1>3, <2>3, <3>1 DEF Registered
  <2>4. ASSUME NEW e \in Dirs, NEW x \in interest'[e] PROVE Registered(x)'
    <3>1. CASE x = fd
      <4>1. x \notin interest[e]
        BY <1>2, <3>1 DEF IndInv, Delivered
      <4> QED
        BY <1>5, <2>3, <3>1, <4>1
    <3>2. CASE x # fd
      <4>1. x \in interest[e]
        BY <1>5, <3>2
      <4> QED
        BY <2>2, <4>1 DEF IndInv, Delivered
    <3> QED
      BY <3>1, <3>2
  <2>5. ep.fd # NoFd => \A e \in Dirs : ep.fd \notin interest'[e]
    BY <1>2, <1>5 DEF IndInv, Delivered
  <2> QED
    BY <1>3, <2>1, <2>2, <2>4, <2>5 DEF IndInv, Delivered
<1> QED
  BY <1>1, <1>3, <1>6, <1>7, <1>8, <1>9, <1>10, <1>11, <1>12, OwnStep
  DEF SlotInv

\* A registration that failed: the request is freed and counted no more.
LEMMA AddFailedStep ==
  ASSUME IndInv, NEW s \in Slots, AddFailed(s)
  PROVE  IndInv'
<1> DEFINE fd == job[s].fd
<1>1. /\ TypeOK /\ SlotInv(s) /\ job[s].pc = "addfailed" /\ meta[s] \in Word
      /\ job[s].pc \in Adding /\ Alive(s)
  BY DEF IndInv, AddFailed, At, Adding, TypeOK, Alive
<1>2. /\ fd \in FdsOf(s) /\ fd \in Fds /\ fd # NoFd /\ req[fd].allocated
      /\ ep.fd # fd /\ fd \in Outstanding(s) /\ ~Registered(fd)
  BY <1>1, AddedFd
<1>3. /\ UNCHANGED <<gen, interest, pending, open, wake, ep, load,
                     epoll_stop, epoll_thread_running, main>>
      /\ \A t \in Slots : FdsOf(t)' = FdsOf(t)
      /\ Listed(s)' = Listed(s)
  BY DEF AddFailed, kernelVars, mainVars, FdsOf, Listed, Owner
<1>4. /\ job' \in [Slots -> JobState] /\ job'[s].pc = "run"
      /\ job'[s].todo = job[s].todo /\ job'[s].again = job[s].again
      /\ job'[s].fd = fd /\ job'[s].lives = job[s].lives
      /\ \A t \in Slots \ {s} : job'[t] = job[t]
  <2>1. "run" \in JobLabels /\ Goto(s, "run")
    BY DEF JobLabels, AddFailed
  <2> QED
    BY <1>1, <2>1, Going
<1>5. /\ list' \in [Slots -> ListState]
      /\ list'[s].total = list[s].total
      /\ list'[s].failed = list[s].failed + 1
      /\ list'[s].ret = list[s].ret /\ list'[s].err = list[s].err
      /\ \A t \in Slots \ {s} : list'[t] = list[t]
  <2>1. list \in [Slots -> ListState]
        /\ list' = [list EXCEPT ![s].failed = @ + 1]
    BY <1>1 DEF TypeOK, ListState, AddFailed
  <2> QED
    BY <2>1 DEF ListState
<1>6. /\ req' \in [Fds -> [allocated : BOOLEAN, job_gen : Nat]]
      /\ ~req'[fd].allocated
      /\ \A x \in Fds \ {fd} : req'[x] = req[x]
  <2>1. /\ req \in [Fds -> [allocated : BOOLEAN, job_gen : Nat]]
        /\ req' = [req EXCEPT ![fd].allocated = FALSE]
    BY <1>1 DEF TypeOK, AddFailed
  <2> QED
    BY <1>2, <2>1
<1>7. /\ IsFiniteSet(Outstanding(s))
      /\ meta[s].wait = Cardinality(Outstanding(s))
      /\ list[s].total + Listed(s)
           = list[s].ret + list[s].err + list[s].failed + meta[s].wait
  BY <1>1 DEF SlotInv, Answered
<1>8. /\ IsFiniteSet(Outstanding(s) \ {fd})
      /\ Cardinality(Outstanding(s) \ {fd}) = meta[s].wait - 1
      /\ meta[s].wait \in Nat /\ meta[s].wait # 0
  <2>1. Cardinality(Outstanding(s)) \in Nat /\ Cardinality(Outstanding(s)) # 0
    BY <1>2, <1>7, FS_EmptySet, FS_CardinalityType
  <2> QED
    <3>1. /\ IsFiniteSet(Outstanding(s)) /\ fd \in Outstanding(s)
          /\ Cardinality(Outstanding(s)) = meta[s].wait
      BY <1>2, <1>7
    <3> HIDE DEF fd
    <3>2. /\ IsFiniteSet(Outstanding(s) \ {fd})
          /\ Cardinality(Outstanding(s) \ {fd}) = Cardinality(Outstanding(s)) - 1
      BY <3>1, FS_RemoveElement
    <3> QED
      BY <2>1, <3>1, <3>2
<1> DEFINE w == cas_update(meta[s], 0, -1, 0, {}, 0, 0)
<1>9. meta[s].wait + (-1) \in 0 .. MaxCount /\ meta[s].wait + (-1) = meta[s].wait - 1
  <2>1. meta[s].wait \in 0 .. MaxCount /\ MaxCount \in Nat
    BY <1>1, MetaFlagAssumption DEF Word
  <2> QED
    BY <1>8, <2>1
<1>10. /\ w \in Word /\ w.wait = meta[s].wait - 1
       /\ "READYEPOLLSOCK" \in w.flags /\ "READYJOB" \in w.flags
       /\ "READYEPOLLTOOL" \in w.flags <=> w.wait = 0
       /\ \A f \in Flag \ Derived : f \in w.flags <=> f \in meta[s].flags
  <2>1. {} \in SUBSET (Flag \ Derived) /\ -1 \in Int
    OBVIOUS
  <2>2. /\ w \in Word /\ w.wait = meta[s].wait + (-1)
        /\ "READYEPOLLSOCK" \in w.flags /\ "READYJOB" \in w.flags
        /\ "READYEPOLLTOOL" \in w.flags <=> meta[s].wait + (-1) = 0
        /\ \A f \in Flag \ Derived : f \in w.flags <=> f \in meta[s].flags \cup {}
    BY <1>1, <1>9, <2>1, CasWords
  <2> HIDE DEF w
  <2> QED
    BY <1>9, <2>2
<1> HIDE DEF w
<1>11. /\ meta' \in [Slots -> Word] /\ meta'[s] = w
       /\ \A t \in Slots \ {s} : meta'[t] = meta[t]
  BY <1>1, <1>10, Storing DEF w, AddFailed
<1>12. TypeOK'
  BY <1>1, <1>3, <1>4, <1>5, <1>6, <1>11 DEF TypeOK, JobState, ListState
<1>13. OneLife(s)' /\ Alive(s)' /\ job[s].lives = 0
  BY <1>1, <1>4 DEF SlotInv, OneLife, Alive
<1>14. WordInStage(s)'
  <2>1. /\ "READYBASIC" \notin w.flags /\ "UNSTABLE" \notin w.flags
        /\ "WLLDESTROY" \notin w.flags /\ "READY" \notin w.flags
        /\ ~job[s].again
    BY <1>1, <1>10 DEF SlotInv, WordInStage, Flag, Derived
  <2>2. /\ "READYEPOLLSOCK" \in w.flags /\ "READYJOB" \in w.flags
        /\ "READYEPOLLTOOL" \in w.flags <=> w.wait = 0
    BY <1>10
  <2> QED
    BY <1>4, <1>11, <2>1, <2>2 DEF WordInStage, Adding
<1>15. InPlace(s)'
  <2>1. \A x : ~BeingAdded(s, x)' /\ (ToCome(s, x)' => ToCome(s, x))
    BY <1>4 DEF BeingAdded, ToCome, Adding
  <2>2. ASSUME NEW x \in FdsOf(s)
        PROVE  /\ ToCome(s, x)' => ~req'[x].allocated
               /\ req'[x].allocated => req'[x].job_gen = gen'[s]
    <3>1. x \in Fds
      BY <1>1, OwnerIs
    <3> QED
      BY <1>1, <1>3, <1>6, <2>1, <3>1 DEF SlotInv, InPlace
  <2>3. job'[s].todo \subseteq FdsOf(s) /\ job'[s].pc # "add_in"
    BY <1>1, <1>4 DEF SlotInv, InPlace
  <2> QED
    BY <1>3, <1>4, <2>1, <2>2, <2>3 DEF InPlace, Adding
<1>16. Answered(s)'
  <2>1. \A x \in FdsOf(s) : x \in Fds
    BY <1>1, OwnerIs
  <2>2. Outstanding(s)' = Outstanding(s) \ {fd}
    BY <1>2, <1>3, <1>6, <2>1 DEF Outstanding
  <2>3. /\ list[s].total \in Nat /\ list[s].ret \in Nat /\ list[s].err \in Nat
        /\ list[s].failed \in Nat /\ Listed(s) \in Nat
    <3>1. list[s] \in ListState
      BY <1>1 DEF TypeOK, ListState
    <3> QED
      BY <3>1 DEF ListState, Listed
  <2>4. /\ meta'[s].wait = meta[s].wait - 1
        /\ list'[s].total = list[s].total
        /\ list'[s].failed = list[s].failed + 1
        /\ list'[s].ret = list[s].ret /\ list'[s].err = list[s].err
    BY <1>5, <1>10, <1>11
  <2>5. list'[s].total + Listed(s)
          = list'[s].ret + list'[s].err + list'[s].failed + meta'[s].wait
    <3>1. /\ meta[s].wait \in Nat
          /\ list[s].total + Listed(s)
               = list[s].ret + list[s].err + list[s].failed + meta[s].wait
      BY <1>7, <1>8
    <3> QED
      BY <2>3, <2>4, <3>1
  <2> QED
    BY <1>3, <1>8, <2>2, <2>4, <2>5 DEF Answered
<1>17. Delivered'
  <2>1. \A t \in Slots : \A x : BeingAdded(t, x)' => BeingAdded(t, x)
    BY <1>1, <1>4 DEF BeingAdded
  <2>2. \A x : Registered(x) => x # fd
    BY <1>2
  <2>3. \A x : Registered(x) => x \in Fds
    BY <1>1, OwnerIs DEF Registered
  <2>4. \A x : Registered(x) => Registered(x)'
    BY <1>3, <1>6, <2>1, <2>2, <2>3 DEF Registered
  <2>5. ep.fd # NoFd => req'[ep.fd].allocated
    <3>1. ep.fd # NoFd => ep.fd \in Fds /\ req[ep.fd].allocated
      BY <1>1 DEF TypeOK, IndInv, Delivered
    <3> QED
      BY <1>2, <1>6, <3>1
  <2> QED
    BY <1>3, <2>1, <2>4, <2>5 DEF IndInv, Delivered
<1>18. ASSUME NEW t \in Slots \ {s}, NEW x \in FdsOf(t) PROVE req'[x] = req[x]
  <2>1. x # fd /\ x \in Fds
    BY <1>1, <1>2, OwnerIs
  <2> QED
    BY <1>6, <2>1
<1> QED
  BY <1>1, <1>3, <1>4, <1>5, <1>11, <1>12, <1>13, <1>14, <1>15, <1>16, <1>17,
     <1>18, OwnStep
  DEF SlotInv

-----------------------------------------------------------------------------
(* Steps of the epoll thread and of main(). *)

\* The slots when only the epoll thread moves, and not past an answer.
LEMMA SlotsKept ==
  ASSUME IndInv, UNCHANGED <<load, jobVars, req>>,
         \A t \in Slots : Outstanding(t)' = Outstanding(t) /\ Listed(t)' = Listed(t)
  PROVE  \A t \in Slots : SlotInv(t)'
<1>1. TAKE t \in Slots
<1>2. SlotInv(t)
  BY DEF IndInv
<1> QED
  BY <1>2, OtherSlot DEF jobVars

\* The thread is not answering a request, and registers none.
LEMMA LoopStep ==
  ASSUME IndInv, TypeOK', UNCHANGED <<load, jobVars, req>>, Running',
         ep.pc \notin Answering, ep'.pc \notin Answering, ep'.fd = ep.fd,
         \A d \in Dirs : interest'[d] \subseteq interest[d],
         \A fd \in ep'.batch : Registered(fd),
         ep'.batch # {} => ep'.pc = "handle"
  PROVE  IndInv'
<1>1. ep.fd = NoFd
  BY DEF IndInv, Delivered
<1>2. \A t \in Slots : FdsOf(t)' = FdsOf(t)
  BY DEF FdsOf
<1>3. \A t \in Slots : Outstanding(t)' = Outstanding(t) /\ Listed(t)' = Listed(t)
  BY <1>2 DEF Outstanding, Listed, Answering, jobVars
<1>4. \A x : Registered(x) => Registered(x)'
  BY <1>2 DEF Registered, BeingAdded, jobVars
<1>5. Delivered'
  BY <1>1, <1>4 DEF IndInv, Delivered
<1>6. Answer'
  BY DEF Answer, Answering
<1> QED
  BY <1>3, <1>5, <1>6, SlotsKept DEF IndInv

\* A step that changes neither a job nor a request nor the epoll thread.
LEMMA AsideStep ==
  ASSUME IndInv, TypeOK', UNCHANGED <<load, jobVars, req, interest, ep>>, Running'
  PROVE  IndInv'
<1>1. /\ \A t \in Slots : FdsOf(t)' = FdsOf(t)
      /\ \A fd : Owner(fd)' = Owner(fd)
  BY DEF FdsOf, Owner
<1>2. \A t \in Slots : Outstanding(t)' = Outstanding(t) /\ Listed(t)' = Listed(t)
  BY <1>1 DEF Outstanding, Listed, jobVars
<1>3. Delivered'
  BY <1>1 DEF IndInv, Delivered, Registered, BeingAdded, jobVars
<1>4. Answer'
  BY <1>1 DEF IndInv, Answer, jobVars
<1> QED
  BY <1>2, <1>3, <1>4, SlotsKept DEF IndInv

EpState == [pc : EpLabels, dirs : SUBSET Dirs, batch : SUBSET Fds,
            fd : Fds \cup {NoFd}]

\* What a change of the label of the epoll thread leaves alone.
LEMMA EpGoing ==
  ASSUME TypeOK, NEW l \in EpLabels, EpGoto(l)
  PROVE  /\ ep' \in EpState /\ ep'.pc = l /\ ep'.batch = ep.batch
         /\ ep'.fd = ep.fd /\ ep'.dirs = ep.dirs
BY DEF TypeOK, EpState, EpGoto

\* The loop around the events.
LEMMA LoopSteps ==
  ASSUME IndInv, EnterLoop \/ LoopTest \/ Poll \/ Drain \/ CloseFds
  PROVE  IndInv'
<1>1. /\ TypeOK /\ ep \in EpState /\ Running
      /\ ep.pc \in {"enter", "test", "poll", "drain", "close"}
  BY DEF IndInv, TypeOK, EpState, EnterLoop, LoopTest, Poll, Drain, CloseFds, EpAt
<1>2. ep.batch = {} /\ epoll_thread_running
  BY <1>1 DEF IndInv, Delivered, Answering, Running
<1>3. /\ UNCHANGED <<load, jobVars, req, pending, epoll_stop,
                     epoll_thread_running, main>>
      /\ ep.pc \notin Answering
  BY <1>1 DEF EnterLoop, LoopTest, Poll, Drain, CloseFds, mainVars, kernelVars,
              Answering
<1>4. Running'
  BY <1>2, <1>3 DEF Running
<1>5. ASSUME NEW l \in {"exited", "test", "close", "poll"}, EpGoto(l)
      PROVE  /\ ep' \in EpState /\ ep'.pc \notin Answering
             /\ ep'.batch = {} /\ ep'.fd = ep.fd
  <2>1. l \in EpLabels /\ l \notin Answering
    BY DEF EpLabels, Answering
  <2> QED
    BY <1>1, <1>2, <1>5, <2>1, EpGoing
<1>6. ASSUME NEW d \in Dirs, NEW fd \in Reported(d)
      PROVE  fd \in Fds /\ Registered(fd)
  <2>1. fd \in interest[d] /\ interest[d] \in SUBSET Fds
    BY <1>1 DEF Reported, TypeOK
  <2> QED
    BY <2>1 DEF IndInv, Delivered
<1>7. CASE EnterLoop \/ LoopTest
  <2>1. \E l \in {"exited", "test", "close", "poll"} : EpGoto(l)
    BY <1>7 DEF EnterLoop, LoopTest
  <2>2. UNCHANGED <<interest, open, wake>>
    BY <1>7 DEF EnterLoop, LoopTest, kernelVars
  <2>3. TypeOK'
    BY <1>1, <1>3, <1>5, <2>1, <2>2 DEF TypeOK, EpState, jobVars
  <2> QED
    BY <1>3, <1>4, <1>5, <2>1, <2>2, <2>3, LoopStep
<1>8. CASE Poll
  <2>1. /\ ep' \in EpState /\ ep'.pc \notin Answering
        /\ ep'.batch = {} /\ ep'.fd = ep.fd /\ wake' \in BOOLEAN
    <3>1. CASE epoll_stop
      BY <1>1, <1>5, <1>8, <3>1 DEF Poll, TypeOK
    <3>2. CASE ~epoll_stop
      <4>1. /\ wake' = FALSE
            /\ ep' = [ep EXCEPT !.pc = "drain",
                                !.dirs = {d \in Dirs : Reported(d) # {}}]
        BY <1>8, <3>2 DEF Poll
      <4> QED
        BY <1>1, <1>2, <4>1 DEF EpState, EpLabels, Answering
    <3> QED
      BY <3>1, <3>2
  <2>2. UNCHANGED <<interest, open>>
    BY <1>8 DEF Poll
  <2>3. TypeOK'
    BY <1>1, <1>3, <2>1, <2>2 DEF TypeOK, EpState, jobVars
  <2> QED
    BY <1>3, <1>4, <2>1, <2>2, <2>3, LoopStep
<1>9. CASE Drain
  <2> DEFINE d == IF "in" \in ep.dirs THEN "in" ELSE "out"
  <2>1. d \in Dirs /\ Reported(d) \in SUBSET Fds
    BY <1>6 DEF Dirs
  <2>2. /\ ep' \in EpState /\ ep'.pc \notin Answering /\ ep'.fd = ep.fd
        /\ (ep'.batch = {} \/ (ep'.batch = Reported(d) /\ ep'.pc = "handle"))
    <3>1. CASE ep.dirs = {}
      BY <1>5, <1>9, <3>1 DEF Drain
    <3>2. CASE ep.dirs # {}
      <4>1. ep' = IF Reported(d) = {} THEN [ep EXCEPT !.dirs = @ \ {d}]
                  ELSE [ep EXCEPT !.pc = "handle", !.batch = Reported(d)]
        BY <1>9, <3>2 DEF Drain
      <4>2. "handle" \in EpLabels /\ "handle" \notin Answering
        BY DEF EpLabels, Answering
      <4> HIDE DEF d
      <4> QED
        BY <1>1, <1>2, <1>3, <2>1, <4>1, <4>2 DEF EpState
    <3> QED
      BY <3>1, <3>2
  <2> HIDE DEF d
  <2>3. UNCHANGED <<interest, open, wake>>
    BY <1>9 DEF Drain, kernelVars
  <2>4. TypeOK'
    BY <1>1, <1>3, <2>2, <2>3 DEF TypeOK, EpState, jobVars
  <2>5. \A fd \in ep'.batch : Registered(fd)
    BY <1>6, <2>1, <2>2
  <2> QED
    BY <1>3, <1>4, <2>2, <2>3, <2>4, <2>5, LoopStep
<1>10. CASE CloseFds
  <2>1. /\ EpGoto("exited") /\ open' = FALSE /\ wake' = FALSE
        /\ interest' = [d \in Dirs |-> {}]
    BY <1>10 DEF CloseFds
  <2>2. TypeOK'
    BY <1>1, <1>3, <1>5, <2>1 DEF TypeOK, EpState, jobVars
  <2> QED
    BY <1>3, <1>4, <1>5, <2>1, <2>2, LoopStep
<1> QED
  BY <1>7, <1>8, <1>9, <1>10

\* main(): start and stop of the thread, and the arrival of events.
LEMMA MainSteps ==
  ASSUME IndInv,
         \/ ThreadInit \/ ThreadDeinit \/ WakeLoop \/ Join \/ EpollDestroy
         \/ \E fd \in Fds, d \in Dirs : Arrive(fd, d)
  PROVE  IndInv'
<1>1. TypeOK /\ Running
  BY DEF IndInv
<1>2. CASE ThreadInit
  <2>1. ep.pc \in {"none", "exited"}
    BY <1>1, <1>2 DEF Running, ThreadInit
  <2>2. ep.batch = {}
    BY <2>1 DEF IndInv, Delivered, Answering
  <2>3. "enter" \in EpLabels
    BY DEF EpLabels
  <2>4. /\ ep' \in EpState /\ ep'.pc = "enter" /\ ep'.batch = {}
        /\ ep'.fd = ep.fd
    BY <1>1, <1>2, <2>2, <2>3, EpGoing DEF ThreadInit
  <2>5. /\ UNCHANGED <<load, jobVars, req, interest, pending, wake, epoll_stop>>
        /\ epoll_thread_running' = TRUE /\ open' = TRUE /\ main' = "up"
    BY <1>2 DEF ThreadInit
  <2>6. TypeOK' /\ Running'
    BY <1>1, <2>4, <2>5 DEF TypeOK, EpState, jobVars, Running, MainLabels
  <2> QED
    BY <2>1, <2>4, <2>5, <2>6, LoopStep DEF Answering
<1>3. CASE ThreadDeinit \/ WakeLoop
  <2>1. UNCHANGED <<load, jobVars, req, interest, pending, open, ep,
                    epoll_thread_running>>
    BY <1>3 DEF ThreadDeinit, WakeLoop, kernelVars
  <2>2. wake' \in BOOLEAN /\ epoll_stop' \in BOOLEAN /\ main' \in MainLabels
    BY <1>1, <1>3 DEF ThreadDeinit, WakeLoop, kernelVars, TypeOK, MainLabels
  <2>3. TypeOK' /\ Running'
    BY <1>1, <2>1, <2>2 DEF TypeOK, jobVars, Running
  <2> QED
    BY <2>1, <2>3, AsideStep
<1>4. CASE Join
  <2>1. /\ UNCHANGED <<load, jobVars, req, interest, pending, open, wake, ep,
                       epoll_stop>>
        /\ epoll_thread_running' = FALSE /\ main' = "joined" /\ ep.pc = "exited"
    BY <1>4 DEF Join, kernelVars, EpAt
  <2>2. TypeOK' /\ Running'
    BY <1>1, <2>1 DEF TypeOK, jobVars, Running, MainLabels
  <2> QED
    BY <2>1, <2>2, AsideStep
<1>5. CASE EpollDestroy
  <2>1. /\ UNCHANGED <<load, jobVars, req, pending, ep, epoll_stop,
                       epoll_thread_running>>
        /\ open' = FALSE /\ wake' = FALSE /\ interest' = [d \in Dirs |-> {}]
        /\ main' = "destroyed"
    BY <1>5 DEF EpollDestroy
  <2>2. TypeOK' /\ Running'
    BY <1>1, <2>1 DEF TypeOK, jobVars, Running, MainLabels
  <2>3. /\ \A t \in Slots : FdsOf(t)' = FdsOf(t)
        /\ \A fd : Owner(fd)' = Owner(fd)
    BY <2>1 DEF FdsOf, Owner
  <2>4. \A t \in Slots : Outstanding(t)' = Outstanding(t) /\ Listed(t)' = Listed(t)
    BY <2>1, <2>3 DEF Outstanding, Listed, jobVars
  <2>5. Delivered'
    BY <2>1, <2>3 DEF IndInv, Delivered, Registered, BeingAdded, jobVars
  <2>6. Answer'
    BY <2>1, <2>3 DEF IndInv, Answer, jobVars
  <2> QED
    BY <2>1, <2>2, <2>4, <2>5, <2>6, SlotsKept DEF IndInv
<1>6. CASE \E fd \in Fds, d \in Dirs : Arrive(fd, d)
  <2>1. /\ UNCHANGED <<load, jobVars, req, interest, open, wake, ep, epoll_stop,
                       epoll_thread_running, main>>
        /\ pending' \in [Fds -> SUBSET Dirs]
    BY <1>1, <1>6 DEF Arrive, mainVars, TypeOK
  <2>2. TypeOK' /\ Running'
    BY <1>1, <2>1 DEF TypeOK, jobVars, Running
  <2> QED
    BY <2>1, <2>2, AsideStep
<1> QED
  BY <1>2, <1>3, <1>4, <1>5, <1>6

-----------------------------------------------------------------------------
(* The answer to a request. *)

\* An event is taken: the descriptor is no longer registered.
LEMMA HandleStep ==
  ASSUME IndInv, Handle
  PROVE  IndInv'
<1>1. TypeOK /\ ep \in EpState /\ ep.pc = "handle" /\ ep.fd = NoFd /\ Running
  BY DEF IndInv, TypeOK, EpState, Handle, EpAt, Delivered, Answering
<1>2. UNCHANGED <<load, jobVars, req, pending, open, wake, epoll_stop,
                  epoll_thread_running, main>>
  BY DEF Handle, mainVars
<1>3. epoll_thread_running
  BY <1>1 DEF Running
<1>4. CASE ep.batch = {}
  <2>1. "drain" \in EpLabels /\ EpGoto("drain") /\ interest' = interest
    BY <1>4 DEF EpLabels, Handle
  <2>2. /\ ep' \in EpState /\ ep'.pc = "drain" /\ ep'.batch = {}
        /\ ep'.fd = ep.fd
    BY <1>1, <1>4, <2>1, EpGoing
  <2>3. TypeOK' /\ Running'
    BY <1>1, <1>2, <1>3, <2>1, <2>2 DEF TypeOK, EpState, jobVars, Running
  <2> QED
    BY <1>1, <1>2, <2>1, <2>2, <2>3, LoopStep DEF Answering
<1>5. CASE ep.batch # {}
  <2>1. PICK fd \in ep.batch :
          /\ ep' = [ep EXCEPT !.pc = "access", !.fd = fd, !.batch = @ \ {fd}]
          /\ interest' = [d \in Dirs |-> interest[d] \ {fd}]
    BY <1>5 DEF Handle
  <2>2. fd \in Fds /\ Registered(fd) /\ fd # NoFd
    BY <1>1, EpollAssumption DEF IndInv, Delivered, EpState
  <2>3. /\ ep' \in EpState /\ ep'.pc = "access" /\ ep'.fd = fd
        /\ ep'.batch = ep.batch \ {fd}
    BY <1>1, <2>1, <2>2 DEF EpState, EpLabels
  <2>4. /\ interest' \in [Dirs -> SUBSET Fds]
        /\ \A d \in Dirs : interest'[d] = interest[d] \ {fd}
    BY <1>1, <2>1 DEF TypeOK
  <2>5. TypeOK' /\ Running'
    BY <1>1, <1>2, <1>3, <2>3, <2>4 DEF TypeOK, EpState, jobVars, Running
  <2>6. \A t \in Slots : FdsOf(t)' = FdsOf(t)
    BY <1>2 DEF FdsOf
  <2>7. \A t \in Slots : Outstanding(t)' = Outstanding(t) /\ Listed(t)' = Listed(t)
    BY <1>1, <1>2, <2>3, <2>6 DEF Outstanding, Listed, jobVars
  <2>8. \A x : x # fd => (Registered(x) => Registered(x)')
    BY <1>2, <2>3, <2>6 DEF Registered, BeingAdded, jobVars
  <2>9. Delivered'
    <3>1. /\ req'[fd].allocated
          /\ \E t \in Slots : fd \in FdsOf(t)' /\ ~BeingAdded(t, fd)'
      BY <1>2, <2>2, <2>6 DEF Registered, BeingAdded, jobVars
    <3>2. /\ \A d \in Dirs : \A x \in interest'[d] : Registered(x)'
          /\ \A x \in ep'.batch : Registered(x)'
      BY <2>3, <2>4, <2>8 DEF IndInv, Delivered
    <3>3. ep'.pc \in Answering
      BY <2>3 DEF Answering
    <3>4. \A d \in Dirs : fd \notin interest'[d]
      BY <2>4
    <3> QED
      BY <2>2, <2>3, <3>1, <3>2, <3>3, <3>4 DEF Delivered
  <2>10. Answer'
    BY <2>3 DEF Answer
  <2> QED
    BY <1>2, <2>5, <2>7, <2>9, <2>10, SlotsKept DEF IndInv
<1> QED
  BY <1>4, <1>5

\* The owner of the request being answered.
LEMMA AnsweredOwner ==
  ASSUME IndInv, ep.pc \in Answering
  PROVE  \E s \in Slots : /\ Owner(ep.fd) = s /\ ep.fd \in FdsOf(s)
                          /\ ep.fd \in Fds /\ ep.fd # NoFd
                          /\ req[ep.fd].allocated /\ ~BeingAdded(s, ep.fd)
                          /\ Alive(s) => req[ep.fd].job_gen = gen[s]
<1>1. PICK s \in Slots : /\ ep.fd \in FdsOf(s) /\ req[ep.fd].allocated
                         /\ ~BeingAdded(s, ep.fd)
  BY DEF IndInv, Delivered
<1>2. Owner(ep.fd) = s /\ ep.fd \in Fds /\ ep.fd # NoFd
  BY <1>1, OwnerIs DEF IndInv
<1>3. Alive(s) => req[ep.fd].job_gen = gen[s]
  BY <1>1 DEF IndInv, SlotInv, InPlace
<1> QED
  BY <1>1, <1>2, <1>3

\* A step of an answer, which concerns the owner only.
LEMMA AnswerStep ==
  ASSUME IndInv, TypeOK', NEW s \in Slots, ep.pc \in Answering,
         ep'.pc \in Answering, ep'.fd = ep.fd, ep'.batch = ep.batch,
         Owner(ep.fd) = s, ep.fd \in FdsOf(s),
         UNCHANGED <<load, gen, req, interest, epoll_thread_running>>,
         \A t \in Slots \ {s} : /\ meta'[t] = meta[t] /\ list'[t] = list[t]
                                /\ job'[t] = job[t],
         \A x : BeingAdded(s, x)' => BeingAdded(s, x),
         SlotInv(s)',
         ep'.pc = "setready" => job'[s].pc = "suspended" /\ meta'[s].wait = 0
  PROVE  IndInv'
<1>1. /\ \A t \in Slots : FdsOf(t)' = FdsOf(t)
      /\ Owner(ep.fd)' = s
  BY DEF FdsOf, Owner
<1>2. ASSUME NEW t \in Slots, t # s
      PROVE  Outstanding(t)' = Outstanding(t) /\ Listed(t)' = Listed(t)
  <2>1. ep.fd \notin FdsOf(t)
    BY <1>2, OneOwner DEF IndInv
  <2>2. Outstanding(t)' = Outstanding(t)
    BY <1>1, <2>1 DEF Outstanding
  <2>3. Listed(t)' = Listed(t)
    BY <1>1, <1>2 DEF Listed
  <2> QED
    BY <2>2, <2>3
<1>3. ASSUME NEW t \in Slots PROVE SlotInv(t)'
  <2>1. CASE t # s
    <3>1. SlotInv(t)
      BY DEF IndInv
    <3> QED
      BY <1>2, <2>1, <3>1, OtherSlot
  <2> QED
    BY <2>1
<1>4. \A t \in Slots : \A x : BeingAdded(t, x)' => BeingAdded(t, x)
  BY DEF BeingAdded
<1>5. \A x : Registered(x) => Registered(x)'
  BY <1>1, <1>4 DEF Registered
<1>6. Delivered'
  BY <1>1, <1>4, <1>5 DEF IndInv, Delivered
<1>7. Answer'
  BY <1>1 DEF Answer
<1>8. Running'
  BY DEF IndInv, Running, Answering
<1> QED
  BY <1>3, <1>6, <1>7, <1>8 DEF IndInv

\* The slot of the owner when the step leaves the job and the requests alone.
LEMMA OwnerKept ==
  ASSUME NEW s \in Slots, SlotInv(s), UNCHANGED <<load, gen, req, job>>,
         WordInStage(s)', Answered(s)'
  PROVE  SlotInv(s)' /\ \A x : BeingAdded(s, x)' => BeingAdded(s, x)
<1>1. FdsOf(s)' = FdsOf(s) /\ Alive(s)' = Alive(s)
  BY DEF FdsOf, Alive
<1>2. OneLife(s)' /\ \A x : BeingAdded(s, x)' = BeingAdded(s, x)
  BY DEF SlotInv, OneLife, BeingAdded
<1>3. InPlace(s)'
  BY <1>1, <1>2 DEF SlotInv, InPlace, ToCome
<1> QED
  BY <1>2, <1>3 DEF SlotInv

\* What the steps of an answer have in common.
LEMMA AnswerEp ==
  ASSUME IndInv, ep.pc \in Answering, NEW l \in Answering, EpGoto(l)
  PROVE  /\ ep' \in EpState /\ ep'.pc = l /\ ep'.fd = ep.fd
         /\ ep'.batch = ep.batch
<1>1. l \in EpLabels /\ TypeOK
  BY DEF Answering, EpLabels, IndInv
<1> QED
  BY <1>1, EpGoing

\* The access is taken, or the owner is being torn down.
LEMMA AccessOwnerStep ==
  ASSUME IndInv, AccessOwner
  PROVE  IndInv'
<1>1. TypeOK /\ ep.pc = "access" /\ ep.pc \in Answering
  BY DEF IndInv, AccessOwner, EpAt, Answering
<1>2. PICK s \in Slots : Owner(ep.fd) = s /\ ep.fd \in FdsOf(s)
  BY <1>1, AnsweredOwner
<1>3. SlotInv(s) /\ meta[s] \in Word
  BY <1>1 DEF IndInv, TypeOK
<1> DEFINE w == mark_access(meta[s])
           l == IF AccessBan(meta[s]) = {} THEN "compare" ELSE "free"
<1>4. /\ SetMeta(s, w) /\ EpGoto(l)
      /\ UNCHANGED <<gen, list, job, req, interest, pending, open, wake, load,
                     epoll_stop, epoll_thread_running, main>>
      /\ (AccessBan(meta[s]) = {} \/ "UNSTABLE" \in AccessBan(meta[s]))
  BY <1>2 DEF AccessOwner, kernelVars, mainVars
<1>5. w \in Word /\ w.flags = meta[s].flags /\ w.wait = meta[s].wait
  BY <1>3, AccessWords
<1>6. l \in Answering /\ l \in {"compare", "free"}
  BY DEF Answering
<1>7. l = "free" => ~Alive(s)
  <2>1. l = "free" => "UNSTABLE" \in meta[s].flags
    BY <1>4 DEF AccessBan
  <2> QED
    BY <1>3, <2>1 DEF SlotInv, WordInStage
<1> HIDE DEF w, l
<1>8. /\ meta' \in [Slots -> Word] /\ meta'[s] = w
      /\ \A t \in Slots \ {s} : meta'[t] = meta[t]
  BY <1>1, <1>4, <1>5, Storing
<1>9. /\ ep' \in EpState /\ ep'.pc = l /\ ep'.fd = ep.fd
      /\ ep'.batch = ep.batch
  BY <1>1, <1>4, <1>6, AnswerEp
<1>10. TypeOK'
  BY <1>1, <1>4, <1>8, <1>9 DEF TypeOK, EpState
<1>11. WordInStage(s)' /\ Alive(s)' = Alive(s)
  BY <1>3, <1>4, <1>5, <1>8 DEF SlotInv, WordInStage, Alive
<1>12. Answered(s)'
  <2>1. CASE Alive(s)
    <3>1. ep'.pc = "compare" /\ FdsOf(s)' = FdsOf(s)
      BY <1>4, <1>6, <1>7, <1>9, <2>1 DEF FdsOf
    <3>2. Outstanding(s)' = Outstanding(s)
      BY <1>1, <1>4, <1>9, <3>1 DEF Outstanding
    <3>3. Listed(s)' = Listed(s)
      BY <1>1, <3>1 DEF Listed
    <3> QED
      BY <1>3, <1>4, <1>5, <1>8, <2>1, <3>2, <3>3 DEF SlotInv, Answered
  <2>2. CASE ~Alive(s)
    BY <1>11, <2>2 DEF Answered
  <2> QED
    BY <2>1, <2>2
<1>13. SlotInv(s)' /\ \A x : BeingAdded(s, x)' => BeingAdded(s, x)
  BY <1>3, <1>4, <1>11, <1>12, OwnerKept
<1>14. ep'.pc \in Answering /\ ep'.pc # "setready"
  BY <1>6, <1>9
<1> QED
  BY <1>1, <1>2, <1>4, <1>8, <1>9, <1>10, <1>13, <1>14, AnswerStep

\* The request is of the job in the slot, and is entered in its list.
LEMMA CompareGenStep ==
  ASSUME IndInv, CompareGen
  PROVE  IndInv'
<1>1. TypeOK /\ ep.pc = "compare" /\ ep.pc \in Answering
  BY DEF IndInv, CompareGen, EpAt, Answering
<1>2. PICK s \in Slots : /\ Owner(ep.fd) = s /\ ep.fd \in FdsOf(s)
                         /\ Alive(s) => req[ep.fd].job_gen = gen[s]
  BY <1>1, AnsweredOwner
<1>3. SlotInv(s) /\ list \in [Slots -> ListState] /\ list[s] \in ListState
  BY <1>1 DEF IndInv, TypeOK, ListState
<1>4. UNCHANGED <<meta, gen, job, req, interest, pending, open, wake, load,
                  epoll_stop, epoll_thread_running, main>>
  BY DEF CompareGen, kernelVars, mainVars
<1>5. FdsOf(s)' = FdsOf(s) /\ Alive(s)' = Alive(s) /\ WordInStage(s)'
      /\ \A x : Owner(x)' = Owner(x)
  BY <1>3, <1>4 DEF SlotInv, FdsOf, Alive, WordInStage, Owner
<1>6. Listed(s) = 0
  BY <1>1 DEF Listed
<1>7. CASE gen[s] = req[ep.fd].job_gen
  <2>1. /\ EpGoto("cas") /\ "cas" \in Answering
        /\ \/ list' = [list EXCEPT ![s].ret = @ + 1]
           \/ list' = [list EXCEPT ![s].err = @ + 1]
    BY <1>2, <1>7 DEF CompareGen, Answering
  <2>2. /\ ep' \in EpState /\ ep'.pc = "cas" /\ ep'.fd = ep.fd
        /\ ep'.batch = ep.batch
    BY <1>1, <2>1, AnswerEp
  <2>3. /\ list' \in [Slots -> ListState]
        /\ list'[s].total = list[s].total /\ list'[s].failed = list[s].failed
        /\ list'[s].ret + list'[s].err = list[s].ret + list[s].err + 1
        /\ list'[s].ret \in Nat /\ list'[s].err \in Nat
        /\ \A t \in Slots \ {s} : list'[t] = list[t]
    <3>1. CASE list' = [list EXCEPT ![s].ret = @ + 1]
      <4>1. /\ list' \in [Slots -> ListState]
            /\ list'[s].total = list[s].total /\ list'[s].failed = list[s].failed
            /\ list'[s].ret = list[s].ret + 1 /\ list'[s].err = list[s].err
            /\ list[s].ret \in Nat /\ list[s].err \in Nat
            /\ \A t \in Slots \ {s} : list'[t] = list[t]
        BY <1>3, <3>1 DEF ListState
      <4> QED
        BY <4>1
    <3>2. CASE list' = [list EXCEPT ![s].err = @ + 1]
      <4>1. /\ list' \in [Slots -> ListState]
            /\ list'[s].total = list[s].total /\ list'[s].failed = list[s].failed
            /\ list'[s].err = list[s].err + 1 /\ list'[s].ret = list[s].ret
            /\ list[s].ret \in Nat /\ list[s].err \in Nat
            /\ \A t \in Slots \ {s} : list'[t] = list[t]
        BY <1>3, <3>2 DEF ListState
      <4> QED
        BY <4>1
    <3> QED
      BY <2>1, <3>1, <3>2
  <2>4. TypeOK'
    BY <1>1, <1>4, <2>2, <2>3 DEF TypeOK, EpState, ListState
  <2>5. Answered(s)'
    <3>1. SUFFICES ASSUME Alive(s) PROVE Answered(s)'
      BY <1>5 DEF Answered
    <3>2. Outstanding(s)' = Outstanding(s) /\ Listed(s)' = 1
      BY <1>1, <1>2, <1>4, <1>5, <2>2 DEF Outstanding, Listed
    <3>3. /\ IsFiniteSet(Outstanding(s))
          /\ meta[s].wait = Cardinality(Outstanding(s))
          /\ list[s].total + 0
               = list[s].ret + list[s].err + list[s].failed + meta[s].wait
      BY <1>3, <1>6, <3>1 DEF SlotInv, Answered
    <3>4. /\ list[s].total \in Nat /\ list[s].ret \in Nat /\ list[s].err \in Nat
          /\ list[s].failed \in Nat /\ meta[s].wait \in Nat
      <4>1. meta[s] \in Word
        BY <1>1 DEF TypeOK
      <4> QED
        BY <1>3, <4>1 DEF ListState, Word
    <3>5. list'[s].total + 1
            = list'[s].ret + list'[s].err + list'[s].failed + meta[s].wait
      <4>1. list[s].total + 0
              = list[s].ret + list[s].err + list[s].failed + meta[s].wait
        BY <3>3
      <4>2. /\ list'[s].total = list[s].total /\ list'[s].failed = list[s].failed
            /\ list'[s].ret + list'[s].err = list[s].ret + list[s].err + 1
            /\ list'[s].ret \in Nat /\ list'[s].err \in Nat
        BY <2>3
      <4> QED
        BY <3>4, <4>1, <4>2
    <3> QED
      BY <1>4, <3>2, <3>3, <3>5 DEF Answered
  <2>6. SlotInv(s)' /\ \A x : BeingAdded(s, x)' => BeingAdded(s, x)
    BY <1>3, <1>4, <1>5, <2>5, OwnerKept
  <2> QED
    BY <1>1, <1>2, <1>4, <2>1, <2>2, <2>3, <2>4, <2>6, AnswerStep
<1>8. CASE gen[s] # req[ep.fd].job_gen
  <2>1. EpGoto("unaccess") /\ "unaccess" \in Answering /\ list' = list
    BY <1>2, <1>8 DEF CompareGen, Answering
  <2>2. /\ ep' \in EpState /\ ep'.pc = "unaccess" /\ ep'.fd = ep.fd
        /\ ep'.batch = ep.batch
    BY <1>1, <2>1, AnswerEp
  <2>3. TypeOK'
    BY <1>1, <1>4, <2>1, <2>2 DEF TypeOK, EpState
  <2>4. Answered(s)'
    BY <1>2, <1>5, <1>8 DEF Answered
  <2>5. SlotInv(s)' /\ \A x : BeingAdded(s, x)' => BeingAdded(s, x)
    BY <1>3, <1>4, <1>5, <2>4, OwnerKept
  <2> QED
    BY <1>1, <1>2, <1>4, <2>1, <2>2, <2>3, <2>5, AnswerStep
<1> QED
  BY <1>7, <1>8

\* The count goes down by the request that was listed; when that completes
\* the readiness, the job is suspended.
LEMMA CasWaitStep ==
  ASSUME IndInv, CasWait
  PROVE  IndInv'
<1>1. TypeOK /\ ep.pc = "cas" /\ ep.pc \in Answering
  BY DEF IndInv, CasWait, EpAt, Answering
<1>2. PICK s \in Slots : /\ Owner(ep.fd) = s /\ ep.fd \in FdsOf(s)
                         /\ req[ep.fd].allocated
                         /\ Alive(s) => req[ep.fd].job_gen = gen[s]
  BY <1>1, AnsweredOwner
<1>3. SlotInv(s) /\ WordInStage(s) /\ meta[s] \in Word
  BY <1>1 DEF IndInv, TypeOK, SlotInv
<1> DEFINE c == cas_update(meta[s], 0, -1, 0, {}, 0, 0)
           w == IF InRange(meta[s], 0, -1, 0) THEN c ELSE meta[s]
           l == IF BecomesReady(meta[s], w) THEN "setready" ELSE "unaccess"
<1>4. /\ SetMeta(s, w) /\ EpGoto(l)
      /\ UNCHANGED <<gen, list, job, req, interest, pending, open, wake, load,
                     epoll_stop, epoll_thread_running, main>>
  BY <1>2 DEF CasWait, kernelVars, mainVars
<1>5. InRange(meta[s], 0, -1, 0) =>
        /\ c \in Word /\ c.wait = meta[s].wait - 1
        /\ "READYEPOLLSOCK" \in c.flags /\ "READYJOB" \in c.flags
        /\ "READYEPOLLTOOL" \in c.flags <=> c.wait = 0
        /\ \A f \in Flag \ Derived : f \in c.flags <=> f \in meta[s].flags
  <2>1. SUFFICES ASSUME InRange(meta[s], 0, -1, 0)
                 PROVE  /\ c \in Word /\ c.wait = meta[s].wait - 1
                        /\ "READYEPOLLSOCK" \in c.flags /\ "READYJOB" \in c.flags
                        /\ "READYEPOLLTOOL" \in c.flags <=> c.wait = 0
                        /\ \A f \in Flag \ Derived :
                             f \in c.flags <=> f \in meta[s].flags
    OBVIOUS
  <2>2. {} \in SUBSET (Flag \ Derived) /\ -1 \in Int
    OBVIOUS
  <2>3. /\ meta[s].wait + (-1) \in 0 .. MaxCount /\ meta[s].wait \in Nat
        /\ meta[s].wait + (-1) = meta[s].wait - 1
    BY <1>3, <2>1 DEF InRange, Word
  <2>4. /\ c \in Word /\ c.wait = meta[s].wait + (-1)
        /\ "READYEPOLLSOCK" \in c.flags /\ "READYJOB" \in c.flags
        /\ "READYEPOLLTOOL" \in c.flags <=> meta[s].wait + (-1) = 0
        /\ \A f \in Flag \ Derived : f \in c.flags <=> f \in meta[s].flags \cup {}
    BY <1>3, <2>2, <2>3, CasWords
  <2> HIDE DEF c
  <2> QED
    BY <2>3, <2>4
<1> HIDE DEF c
<1>6. /\ w \in Word
      /\ \A f \in Flag \ Derived : f \in w.flags <=> f \in meta[s].flags
  BY <1>3, <1>5
<1>7. FdsOf(s)' = FdsOf(s) /\ Alive(s)' = Alive(s)
  BY <1>4 DEF FdsOf, Alive
<1>8. Alive(s) =>
        /\ IsFiniteSet(Outstanding(s)) /\ ep.fd \in Outstanding(s)
        /\ meta[s].wait = Cardinality(Outstanding(s))
        /\ list[s].total + 1
             = list[s].ret + list[s].err + list[s].failed + meta[s].wait
  <2>1. Listed(s) = 1
    BY <1>1, <1>2 DEF Listed
  <2>2. Alive(s) => ep.fd \in Outstanding(s)
    BY <1>1, <1>2 DEF Outstanding
  <2> QED
    BY <1>3, <2>1, <2>2 DEF SlotInv, Answered
<1>9. Alive(s) =>
        /\ meta[s].wait \in Nat \ {0} /\ InRange(meta[s], 0, -1, 0)
        /\ IsFiniteSet(Outstanding(s) \ {ep.fd})
        /\ Cardinality(Outstanding(s) \ {ep.fd}) = meta[s].wait - 1
  <2>1. SUFFICES ASSUME Alive(s)
                 PROVE  /\ meta[s].wait \in Nat \ {0}
                        /\ InRange(meta[s], 0, -1, 0)
                        /\ IsFiniteSet(Outstanding(s) \ {ep.fd})
                        /\ Cardinality(Outstanding(s) \ {ep.fd}) = meta[s].wait - 1
    OBVIOUS
  <2>2. /\ IsFiniteSet(Outstanding(s)) /\ ep.fd \in Outstanding(s)
        /\ Cardinality(Outstanding(s)) = meta[s].wait
    BY <1>8, <2>1
  <2>3. Cardinality(Outstanding(s)) \in Nat /\ Cardinality(Outstanding(s)) # 0
    BY <2>2, FS_EmptySet, FS_CardinalityType
  <2>4. /\ IsFiniteSet(Outstanding(s) \ {ep.fd})
        /\ Cardinality(Outstanding(s) \ {ep.fd}) = Cardinality(Outstanding(s)) - 1
    BY <2>2, FS_RemoveElement
  <2>5. InRange(meta[s], 0, -1, 0)
    <3>1. /\ meta[s].wait \in 0 .. MaxCount /\ MaxCount \in Nat
          /\ meta[s].avsock \in 0 .. MaxCount /\ meta[s].avjobs \in 0 .. MaxCount
          /\ meta[s].wait # 0
      BY <1>3, <2>2, <2>3, MetaFlagAssumption DEF Word
    <3> QED
      BY <3>1 DEF InRange
  <2> QED
    BY <2>2, <2>3, <2>4, <2>5
<1>10. l = "setready" => job[s].pc = "suspended" /\ w.wait = 0
  <2>1. SUFFICES ASSUME l = "setready"
                 PROVE  job[s].pc = "suspended" /\ w.wait = 0
    OBVIOUS
  <2>2. /\ ~({"READYBASIC"} \cup Derived \subseteq meta[s].flags)
        /\ {"READYBASIC"} \cup Derived \subseteq w.flags
    BY <2>1 DEF BecomesReady, check_allready
  <2>3. "READYBASIC" \in w.flags /\ "READYEPOLLTOOL" \in w.flags
    BY <2>2 DEF Derived
  <2>4. "READYBASIC" \in meta[s].flags
    BY <1>6, <2>3 DEF Flag, Derived
  <2>5. job[s].again /\ job[s].pc \in {"setready", "suspended", "cached"} /\ Alive(s)
    BY <1>3, <2>4 DEF WordInStage, Alive
  <2>6. meta[s].wait # 0 /\ w = c
    BY <1>9, <2>5
  <2>7. w.wait = 0
    BY <1>5, <1>9, <2>3, <2>5, <2>6
  <2>8. job[s].pc \notin {"setready", "cached"}
    BY <1>3, <2>5, <2>6 DEF WordInStage
  <2> QED
    BY <2>5, <2>7, <2>8
<1>11. l \in Answering /\ l \in {"setready", "unaccess"}
  BY DEF Answering
<1>12. Alive(s) =>
         /\ w.wait = meta[s].wait - 1
         /\ "READYEPOLLSOCK" \in w.flags /\ "READYJOB" \in w.flags
         /\ "READYEPOLLTOOL" \in w.flags <=> w.wait = 0
  BY <1>5, <1>9
<1> HIDE DEF w, l
<1>13. /\ meta' \in [Slots -> Word] /\ meta'[s] = w
       /\ \A t \in Slots \ {s} : meta'[t] = meta[t]
  BY <1>1, <1>4, <1>6, Storing
<1>14. /\ ep' \in EpState /\ ep'.pc = l /\ ep'.fd = ep.fd
       /\ ep'.batch = ep.batch
  BY <1>1, <1>4, <1>11, AnswerEp
<1>15. TypeOK'
  BY <1>1, <1>4, <1>13, <1>14 DEF TypeOK, EpState
<1>16. WordInStage(s)'
  <2>1. \A f \in {"READYBASIC", "UNSTABLE", "WLLDESTROY", "READY"} :
          f \in w.flags <=> f \in meta[s].flags
    BY <1>6 DEF Flag, Derived
  <2>2. Alive(s) /\ job[s].again => job[s].pc \in {"basic", "suspended"}
    BY <1>3, <1>9 DEF WordInStage
  <2> QED
    BY <1>3, <1>4, <1>7, <1>12, <1>13, <2>1, <2>2 DEF WordInStage
<1>17. Answered(s)'
  <2>1. SUFFICES ASSUME Alive(s) PROVE Answered(s)'
    BY <1>7 DEF Answered
  <2>2. Outstanding(s)' = Outstanding(s) \ {ep.fd}
    BY <1>1, <1>4, <1>7, <1>11, <1>14 DEF Outstanding
  <2>3. Listed(s)' = 0
    BY <1>11, <1>14 DEF Listed
  <2>4. /\ list[s].total \in Nat /\ list[s].ret \in Nat /\ list[s].err \in Nat
        /\ list[s].failed \in Nat
    <3>1. list[s] \in ListState
      BY <1>1 DEF TypeOK, ListState
    <3> QED
      BY <3>1 DEF ListState
  <2>5. list[s].total + 0
          = list[s].ret + list[s].err + list[s].failed + (meta[s].wait - 1)
    <3>1. /\ meta[s].wait \in Nat
          /\ list[s].total + 1
               = list[s].ret + list[s].err + list[s].failed + meta[s].wait
      BY <1>8, <1>9, <2>1
    <3> QED
      BY <2>4, <3>1
  <2>6. meta'[s].wait = meta[s].wait - 1
    BY <1>12, <1>13, <2>1
  <2> QED
    BY <1>4, <1>9, <2>1, <2>2, <2>3, <2>5, <2>6 DEF Answered
<1>18. SlotInv(s)' /\ \A x : BeingAdded(s, x)' => BeingAdded(s, x)
  BY <1>3, <1>4, <1>16, <1>17, OwnerKept
<1>19. ep'.pc = "setready" => job'[s].pc = "suspended" /\ meta'[s].wait = 0
  BY <1>4, <1>10, <1>13, <1>14
<1>20. ep'.pc \in Answering
  BY <1>11, <1>14
<1> QED
  BY <1>1, <1>2, <1>4, <1>13, <1>14, <1>15, <1>18, <1>19, <1>20, AnswerStep

\* The suspended job is marked ready and put in the cache.
LEMMA SetOwnerReadyStep ==
  ASSUME IndInv, SetOwnerReady
  PROVE  IndInv'
<1>1. TypeOK /\ ep.pc = "setready" /\ ep.pc \in Answering
  BY DEF IndInv, SetOwnerReady, EpAt, Answering
<1>2. PICK s \in Slots : Owner(ep.fd) = s /\ ep.fd \in FdsOf(s)
  BY <1>1, AnsweredOwner
<1>3. /\ SlotInv(s) /\ WordInStage(s) /\ meta[s] \in Word
      /\ job[s].pc = "suspended" /\ meta[s].wait = 0 /\ Alive(s)
  BY <1>1, <1>2 DEF IndInv, TypeOK, SlotInv, Answer, Alive
<1> DEFINE ban == {"UNSTABLE", "WLLDESTROY", "READY"}
           w == mark_or(meta[s], {"READY"}, ban, FALSE)
<1>4. Ban(meta[s], ban, FALSE) = {}
  BY <1>3 DEF Ban, WordInStage
<1>5. w \in Word /\ w.wait = meta[s].wait /\ w.flags = meta[s].flags \cup {"READY"}
  <2>1. meta[s] \in Word /\ {"READY"} \in SUBSET Flag
    BY <1>3 DEF Flag
  <2> QED
    BY <1>4, <2>1, MarkWords, ZenonT(60)
<1> HIDE DEF w
<1>6. /\ SetMeta(s, w) /\ Goto(s, "cached") /\ "cached" \in JobLabels
      /\ EpGoto("unaccess") /\ "unaccess" \in Answering
      /\ UNCHANGED <<gen, list, req, interest, pending, open, wake, load,
                     epoll_stop, epoll_thread_running, main>>
  BY <1>2, <1>4 DEF SetOwnerReady, MarkReady, w, JobLabels, Answering,
                    kernelVars, mainVars
<1>7. /\ meta' \in [Slots -> Word] /\ meta'[s] = w
      /\ \A t \in Slots \ {s} : meta'[t] = meta[t]
  BY <1>1, <1>5, <1>6, Storing
<1>8. /\ job' \in [Slots -> JobState] /\ job'[s].pc = "cached"
      /\ job'[s].todo = job[s].todo /\ job'[s].again = job[s].again
      /\ job'[s].lives = job[s].lives
      /\ \A t \in Slots \ {s} : job'[t] = job[t]
  BY <1>1, <1>6, Going
<1>9. /\ ep' \in EpState /\ ep'.pc = "unaccess" /\ ep'.fd = ep.fd
      /\ ep'.batch = ep.batch
  BY <1>1, <1>6, AnswerEp
<1>10. TypeOK'
  BY <1>1, <1>6, <1>7, <1>8, <1>9 DEF TypeOK, EpState, JobState
<1>11. WordInStage(s)' /\ OneLife(s)' /\ Alive(s)' /\ FdsOf(s)' = FdsOf(s)
  BY <1>3, <1>5, <1>6, <1>7, <1>8
  DEF SlotInv, WordInStage, OneLife, Alive, Adding, FdsOf
<1>12. \A x : ~BeingAdded(s, x)'
  BY <1>8 DEF BeingAdded, Adding
<1>13. InPlace(s)'
  <2>1. job'[s].pc # "add_in" /\ job'[s].pc \notin Adding
    BY <1>8 DEF Adding
  <2> QED
    BY <1>3, <1>6, <1>8, <1>11, <1>12, <2>1 DEF SlotInv, InPlace, ToCome
<1>14. Answered(s)'
  <2>1. Outstanding(s)' = Outstanding(s)
    BY <1>1, <1>6, <1>9, <1>11 DEF Outstanding
  <2>2. Listed(s)' = Listed(s)
    BY <1>1, <1>9 DEF Listed
  <2> QED
    BY <1>3, <1>5, <1>6, <1>7, <2>1, <2>2 DEF SlotInv, Answered
<1>15. SlotInv(s)'
  BY <1>11, <1>13, <1>14 DEF SlotInv
<1>16. ep'.pc \in Answering /\ ep'.pc # "setready"
  BY <1>6, <1>9
<1> QED
  BY <1>1, <1>2, <1>6, <1>7, <1>8, <1>9, <1>10, <1>12, <1>15, <1>16, AnswerStep

\* The access is given back.
LEMMA UnaccessOwnerStep ==
  ASSUME IndInv, UnaccessOwner
  PROVE  IndInv'
<1>1. TypeOK /\ ep.pc = "unaccess" /\ ep.pc \in Answering
  BY DEF IndInv, UnaccessOwner, EpAt, Answering
<1>2. PICK s \in Slots : Owner(ep.fd) = s /\ ep.fd \in FdsOf(s)
  BY <1>1, AnsweredOwner
<1>3. SlotInv(s) /\ meta[s] \in Word
  BY <1>1 DEF IndInv, TypeOK
<1> DEFINE w == unmark_access(meta[s])
<1>4. w \in Word /\ w.flags = meta[s].flags /\ w.wait = meta[s].wait
  BY <1>3, AccessWords
<1>5. /\ SetMeta(s, w) /\ EpGoto("free") /\ "free" \in Answering
      /\ UNCHANGED <<gen, list, job, req, interest, pending, open, wake, load,
                     epoll_stop, epoll_thread_running, main>>
  BY <1>2 DEF UnaccessOwner, Answering, kernelVars, mainVars
<1> HIDE DEF w
<1>6. /\ meta' \in [Slots -> Word] /\ meta'[s] = w
      /\ \A t \in Slots \ {s} : meta'[t] = meta[t]
  BY <1>1, <1>4, <1>5, Storing
<1>7. /\ ep' \in EpState /\ ep'.pc = "free" /\ ep'.fd = ep.fd
      /\ ep'.batch = ep.batch
  BY <1>1, <1>5, AnswerEp
<1>8. TypeOK'
  BY <1>1, <1>5, <1>6, <1>7 DEF TypeOK, EpState
<1>9. /\ WordInStage(s)' /\ Alive(s)' = Alive(s) /\ FdsOf(s)' = FdsOf(s)
  BY <1>3, <1>4, <1>5, <1>6 DEF SlotInv, WordInStage, Alive, FdsOf
<1>10. Answered(s)'
  <2>1. Outstanding(s)' = Outstanding(s)
    BY <1>1, <1>5, <1>7, <1>9 DEF Outstanding
  <2>2. Listed(s)' = Listed(s)
    BY <1>1, <1>7 DEF Listed
  <2> QED
    BY <1>3, <1>4, <1>5, <1>6, <1>9, <2>1, <2>2 DEF SlotInv, Answered
<1>11. SlotInv(s)' /\ \A x : BeingAdded(s, x)' => BeingAdded(s, x)
  BY <1>3, <1>5, <1>9, <1>10, OwnerKept
<1>12. ep'.pc \in Answering /\ ep'.pc # "setready"
  BY <1>5, <1>7
<1> QED
  BY <1>1, <1>2, <1>5, <1>6, <1>7, <1>8, <1>11, <1>12, AnswerStep

\* The request is freed, once it is no longer counted.
LEMMA FreeRequestStep ==
  ASSUME IndInv, FreeRequest
  PROVE  IndInv'
<1>1. TypeOK /\ ep \in EpState /\ ep.pc = "free" /\ ep.pc \in Answering /\ Running
  BY DEF IndInv, TypeOK, EpState, FreeRequest, EpAt, Answering
<1>2. PICK s \in Slots : /\ Owner(ep.fd) = s /\ ep.fd \in FdsOf(s)
                         /\ ep.fd \in Fds /\ ep.fd # NoFd
                         /\ ~BeingAdded(s, ep.fd)
  BY <1>1, AnsweredOwner
<1>3. /\ UNCHANGED <<meta, gen, list, job, interest, pending, open, wake, load,
                     epoll_stop, epoll_thread_running, main>>
      /\ \A t \in Slots : FdsOf(t)' = FdsOf(t) /\ Alive(t)' = Alive(t)
      /\ \A t \in Slots : \A x : BeingAdded(t, x)' = BeingAdded(t, x)
  BY DEF FreeRequest, jobVars, kernelVars, mainVars, FdsOf, Alive, BeingAdded
<1>4. /\ req' \in [Fds -> [allocated : BOOLEAN, job_gen : Nat]]
      /\ ~req'[ep.fd].allocated
      /\ \A x \in Fds \ {ep.fd} : req'[x] = req[x]
  <2>1. /\ req \in [Fds -> [allocated : BOOLEAN, job_gen : Nat]]
        /\ req' = [req EXCEPT ![ep.fd].allocated = FALSE]
    BY <1>1 DEF TypeOK, FreeRequest
  <2> QED
    BY <1>2, <2>1
<1>5. /\ ep' \in EpState /\ ep'.pc = "handle" /\ ep'.fd = NoFd
      /\ ep'.batch = ep.batch
  BY <1>1 DEF FreeRequest, EpState, EpLabels
<1>6. TypeOK'
  BY <1>1, <1>3, <1>4, <1>5 DEF TypeOK, EpState
<1>7. ASSUME NEW t \in Slots
      PROVE  Outstanding(t)' = Outstanding(t) /\ Listed(t)' = Listed(t)
  <2>1. \A x \in FdsOf(t) : x \in Fds /\ x # NoFd
    BY <1>1, OwnerIs
  <2>2. Outstanding(t)' = Outstanding(t)
    BY <1>1, <1>3, <1>4, <1>5, <2>1 DEF Outstanding
  <2> QED
    BY <1>1, <1>5, <2>2 DEF Listed
<1>8. ASSUME NEW t \in Slots PROVE SlotInv(t)'
  <2>1. SlotInv(t)
    BY DEF IndInv
  <2>2. InPlace(t)'
    <3>1. ASSUME NEW x \in FdsOf(t)
          PROVE  /\ ToCome(t, x)' => ~req'[x].allocated
                 /\ BeingAdded(t, x)' => req'[x].allocated
                 /\ Alive(t)' /\ req'[x].allocated => req'[x].job_gen = gen'[t]
      <4>1. x \in Fds /\ ToCome(t, x)' = ToCome(t, x)
        BY <1>1, <1>3, OwnerIs DEF ToCome
      <4>2. CASE x = ep.fd
        <5>1. t = s
          BY <1>1, <1>2, <4>2, OneOwner
        <5> QED
          BY <1>2, <1>3, <1>4, <4>2, <5>1
      <4>3. CASE x # ep.fd
        BY <1>3, <1>4, <2>1, <4>1, <4>3 DEF SlotInv, InPlace
      <4> QED
        BY <4>2, <4>3
    <3> QED
      BY <1>3, <2>1, <3>1 DEF SlotInv, InPlace
  <2>3. OneLife(t)' /\ WordInStage(t)'
    BY <1>3, <2>1 DEF SlotInv, OneLife, WordInStage
  <2>4. Answered(t)'
    BY <1>3, <1>7, <2>1 DEF SlotInv, Answered
  <2> QED
    BY <2>2, <2>3, <2>4 DEF SlotInv
<1>9. Delivered'
  <2>1. \A x : Registered(x) => x \in Fds
    BY <1>1, OwnerIs DEF Registered
  <2>2. ASSUME NEW x, Registered(x) PROVE Registered(x)'
    <3>1. x \in Fds \ {ep.fd} /\ x # NoFd
      BY <2>1, <2>2, EpollAssumption DEF Registered
    <3> QED
      BY <1>3, <1>4, <1>5, <2>2, <3>1 DEF Registered
  <2>3. ep'.pc \notin Answering
    BY <1>5 DEF Answering
  <2> QED
    BY <1>3, <1>5, <2>2, <2>3 DEF IndInv, Delivered
<1>10. Answer' /\ Running'
  BY <1>1, <1>3, <1>5 DEF Answer, Running
<1> QED
  BY <1>6, <1>8, <1>9, <1>10 DEF IndInv

-----------------------------------------------------------------------------
(* The theorems. *)

\* Nothing is allocated, registered or live at the beginning.
LEMMA InitIndInv ==
  ASSUME OneTime, Init
  PROVE  IndInv
<1>1. load \in Loads /\ load \in [Slots -> [fds : SUBSET Fds, quits : BOOLEAN,
                                            lives : Nat]]
  BY EpollAssumption DEF Init
<1>2. \A s \in Slots : load[s].lives \in Nat /\ load[s].lives <= 1
  BY <1>1 DEF OneTime
<1>3. TypeOK
  <2>1. WordOf({}) \in Word
    BY FreshWords
  <2> QED
    BY <1>1, <1>2, <2>1
    DEF Init, TypeOK, NoList, JobLabels, EpLabels, MainLabels
<1>4. ASSUME NEW s \in Slots PROVE SlotInv(s)
  <2>1. /\ job[s].pc = "free" /\ job[s].todo = {} /\ job[s].lives <= 1
        /\ meta[s].flags = {} /\ \A fd \in FdsOf(s) : ~req[fd].allocated
    <3>1. \A fd \in FdsOf(s) : fd \in Fds
      BY <1>3, OwnerIs
    <3> QED
      BY <1>2, <3>1, FreshWords DEF Init
  <2> QED
    BY <2>1 DEF SlotInv, OneLife, WordInStage, InPlace, Answered, Alive, Adding,
                BeingAdded
<1>5. Delivered /\ Answer /\ Running
  BY DEF Init, Delivered, Answer, Running, Answering
<1> QED
  BY <1>3, <1>4, <1>5 DEF IndInv

\* Every step preserves the inductive invariant.
LEMMA NextIndInv ==
  ASSUME OneTime, IndInv, [Next]_vars
  PROVE  IndInv'
<1>1. ASSUME NEW s \in Slots, JobStep(s) PROVE IndInv'
  <2>1. CASE Claim(s) \/ DestroyNow(s) \/ Teardown(s) \/ ClearMeta(s)
    BY <2>1, SlotSteps
  <2>2. CASE \/ SetReady(s) \/ Pick(s) \/ BeginRun(s) \/ ReturnOne(s)
             \/ MarkReadyBasic(s) \/ ReturnEnd(s)
    BY <2>2, RunSteps
  <2>3. CASE Publish(s)
    BY <2>3, PublishStep
  <2>4. CASE ToolEpoll(s)
    <3>1. job[s].pc = "run" /\ ~job[s].again
          /\ UNCHANGED <<gen, kernelVars, ep, mainVars>>
      BY <2>4 DEF ToolEpoll, At
    <3>2. PICK fd \in job[s].todo :
            IF InRange(meta[s], 0, 1, 0)
            THEN /\ SetMeta(s, cas_update(meta[s], 0, 1, 0, {}, 0, 0))
                 /\ req' = [req EXCEPT ![fd] =
                              [allocated |-> TRUE, job_gen |-> gen[s]]]
                 /\ list' = [list EXCEPT ![s].total = @ + 1]
                 /\ job' = [job EXCEPT ![s].pc = FirstAdd(fd), ![s].fd = fd,
                                       ![s].todo = @ \ {fd}]
            ELSE /\ list' = [list EXCEPT ![s].total = @ + 1,
                                         ![s].failed = @ + 1]
                 /\ job' = [job EXCEPT ![s].todo = @ \ {fd}]
                 /\ UNCHANGED <<meta, req>>
      BY <2>4 DEF ToolEpoll
    <3>3. CASE InRange(meta[s], 0, 1, 0)
      BY <3>1, <3>2, <3>3, ToolEpollCounts
    <3>4. CASE ~InRange(meta[s], 0, 1, 0)
      BY <3>1, <3>2, <3>4, ToolEpollFails
    <3> QED
      BY <3>3, <3>4
  <2>5. CASE AddRead(s) \/ AddWrite(s)
    BY <2>5, AddSteps
  <2>6. CASE AddFailed(s)
    BY <2>6, AddFailedStep
  <2> QED
    BY <1>1, <2>1, <2>2, <2>3, <2>4, <2>5, <2>6 DEF JobStep
<1>2. CASE EpollStep
  BY <1>2, LoopSteps, HandleStep, AccessOwnerStep, CompareGenStep, CasWaitStep,
     SetOwnerReadyStep, UnaccessOwnerStep, FreeRequestStep
  DEF EpollStep
<1>3. CASE \/ ThreadInit \/ ThreadDeinit \/ WakeLoop \/ Join \/ EpollDestroy
           \/ \E fd \in Fds, d \in Dirs : Arrive(fd, d)
  BY <1>3, MainSteps
<1>4. CASE UNCHANGED vars
  <2>1. UNCHANGED <<load, jobVars, req, interest, ep>>
    BY <1>4 DEF vars, kernelVars, mainVars
  <2>2. TypeOK' /\ Running'
    BY <1>4 DEF IndInv, TypeOK, Running, vars, jobVars, kernelVars, mainVars
  <2> QED
    BY <2>1, <2>2, AsideStep
<1> QED
  BY <1>1, <1>2, <1>3, <1>4 DEF Next

\* The inductive invariant holds of every program with one job to a slot and
\* one direction to a descriptor.
THEOREM Invariance == OneTime => (Spec => []IndInv)
<1> SUFFICES ASSUME OneTime PROVE Spec => []IndInv
  OBVIOUS
<1>1. Init => IndInv
  BY InitIndInv
<1>2. IndInv /\ [Next]_vars => IndInv'
  BY NextIndInv
<1> QED
  BY <1>1, <1>2, PTL DEF Spec

\* Type correctness: the words keep to their widths, and every label, count
\* and descriptor to its range.
THEOREM TypeCorrect == OneTime => (Spec => []TypeOK)
<1>1. IndInv => TypeOK
  BY DEF IndInv
<1> QED
  BY <1>1, Invariance, PTL

\* The waiting count of a live job is the number of its outstanding requests,
\* although schedi_job_tool_epoll, a failed schedi_epoll_add and
\* schedi_job_epoll_request_return change it from two threads.
THEOREM WaitCountExact == OneTime => (Spec => []WaitCountsRequests)
<1>1. IndInv => WaitCountsRequests
  BY DEF IndInv, SlotInv, Answered, WaitCountsRequests
<1> QED
  BY <1>1, Invariance, PTL

\* A job that returned 1 is run again only when every request it made was
\* answered or had failed.
THEOREM ResumesAnswered == OneTime => (Spec => []ResumesWhenAnswered)
<1>1. IndInv => ResumesWhenAnswered
  <2>1. SUFFICES ASSUME IndInv, NEW s \in Slots, job[s].again,
                        job[s].pc \in {"cached", "picked", "run"}
                 PROVE  /\ Outstanding(s) = {}
                        /\ list[s].ret + list[s].err + list[s].failed = list[s].total
    BY DEF ResumesWhenAnswered
  <2>2. Alive(s) /\ meta[s].wait = 0
    BY <2>1 DEF IndInv, SlotInv, WordInStage, Alive
  <2>3. /\ IsFiniteSet(Outstanding(s)) /\ Cardinality(Outstanding(s)) = 0
        /\ list[s].total + Listed(s)
             = list[s].ret + list[s].err + list[s].failed + meta[s].wait
    <3>1. Answered(s)
      BY <2>1 DEF IndInv, SlotInv
    <3> QED
      BY <2>2, <3>1 DEF Answered
  <2>4. Outstanding(s) = {}
    BY <2>3, FS_EmptySet
  <2>5. Listed(s) = 0
    <3>1. SUFFICES ASSUME ep.pc = "cas", Owner(ep.fd) = s PROVE FALSE
      BY DEF Listed
    <3>2. /\ ep.fd \in FdsOf(s) /\ req[ep.fd].allocated
          /\ req[ep.fd].job_gen = gen[s]
      BY <2>1, <2>2, <3>1, AnsweredOwner DEF Answering
    <3> QED
      BY <2>4, <3>1, <3>2 DEF Outstanding
  <2>6. /\ list[s].total \in Nat /\ list[s].ret \in Nat /\ list[s].err \in Nat
        /\ list[s].failed \in Nat
    <3>1. list[s] \in ListState
      BY <2>1 DEF IndInv, TypeOK, ListState
    <3> QED
      BY <3>1 DEF ListState
  <2>7. list[s].ret + list[s].err + list[s].failed = list[s].total
    <3>1. list[s].total + 0 = list[s].ret + list[s].err + list[s].failed + 0
      BY <2>2, <2>3, <2>5
    <3> QED
      BY <2>6, <3>1
  <2> QED
    BY <2>4, <2>7
<1> QED
  BY <1>1, Invariance, PTL
=============================================================================
