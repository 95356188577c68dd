------------------------- MODULE DestroyQueueProofs -------------------------
(***************************************************************************)
(* The destroy queue hands every pushed job to exactly one thread and is   *)
(* never full, for any ring, any number of jobs and any number of threads  *)
(* that together fit into the ring (QueueSizeAssumption), until a push     *)
(* laps a thread: the code has no lock, and a thread that stalls between   *)
(* its swap of the packed word and its access of the entry while the       *)
(* others go once around the ring shares the entry with the next push.     *)
(* The theorems say that this (lapped) is the only way the ring can fail.  *)
(*                                                                         *)
(* The argument has two layers.  EntryInv describes the ring without the   *)
(* count: who works on which entry, which entries are ready, and that a    *)
(* job is in one place.  Each ...Effect lemma shows that one kind of step  *)
(* keeps it and says what the step does to Queued and Taken.  StepInv then *)
(* adds the count, which needs nothing of the ring but these two sets and  *)
(* the threads that have yet to take it down.                              *)
(***************************************************************************)
EXTENDS DestroyQueue, FiniteSetTheorems, TLAPS

\* The entries from tail to head.
Segment ==
  {k \in Ring : (k - htc.tail) % RingSize < (htc.head - htc.tail) % RingSize}

InEntry == {"store", "mark", "load", "clear"}

\* No two threads work on one entry.
EntriesExclusive ==
  \A t, u \in ThreadsAt(InEntry) : th[t].slot = th[u].slot => t = u

\* A push works inside the segment on an entry that is not ready, a pop
\* outside of it on one that is; the other entries are ready if they are
\* inside.
ReadyMarksSegment ==
  /\ \A t \in ThreadsAt({"store", "mark"}) :
       th[t].slot \in Segment /\ ~ready[th[t].slot]
  /\ \A t \in ThreadsAt({"load", "clear"}) :
       th[t].slot \notin Segment /\ ready[th[t].slot]
  /\ \A k \in Ring : (\A t \in ThreadsAt(InEntry) : th[t].slot # k) =>
       (ready[k] <=> k \in Segment)

\* Entries whose job nobody has in hand, and threads that have a job in hand.
Stored ==
  {k \in Segment : \A t \in ThreadsAt({"store"}) : th[t].slot # k}
    \cup {th[t].slot : t \in ThreadsAt({"load"})}
Holders == ThreadsAt({"push", "store", "clear", "destroy", "repush"})

\* Every job that is being destroyed is in one place.
JobsOnce ==
  /\ \A k \in Stored : buf[k] \in Jobs \ alive
  /\ \A k, l \in Stored : buf[k] = buf[l] => k = l
  /\ \A t \in Holders : th[t].job \in Jobs \ alive
  /\ \A t, u \in Holders : th[t].job = th[u].job => t = u
  /\ \A k \in Stored, t \in Holders : buf[k] # th[t].job

EntryInv == TypeOK /\ EntriesExclusive /\ ReadyMarksSegment /\ JobsOnce

IndInv ==
  /\ lapped = FALSE
  /\ EntryInv
  /\ CountIsExact
  /\ QueueNeverFull

-----------------------------------------------------------------------------
(* Arithmetic of the ring. *)

\* The distance of two entries along the ring, as a case distinction.
LEMMA RingDistance ==
  ASSUME NEW k \in Ring, NEW l \in Ring
  PROVE  (k - l) % RingSize = IF l <= k THEN k - l ELSE k - l + RingSize
<1>1. RingSize \in Nat \ {0} /\ k \in Int /\ l \in Int
      /\ 0 <= k /\ k < RingSize /\ 0 <= l /\ l < RingSize
  BY DestroyQueueAssumption DEF Ring
<1>2. ASSUME NEW R \in Nat \ {0}, NEW x \in Int, 0 <= x, x < R PROVE x % R = x
  BY <1>2, SMT
<1>3. ASSUME NEW R \in Nat \ {0}, NEW x \in Int, -R <= x, x < 0
      PROVE  x % R = x + R
  BY <1>3, SMT
<1>4. CASE l <= k
  <2>1. k - l \in Int /\ 0 <= k - l /\ k - l < RingSize
    BY <1>1, <1>4
  <2> QED
    BY <1>1, <1>2, <1>4, <2>1
<1>5. CASE ~(l <= k)
  <2>1. k - l \in Int /\ -RingSize <= k - l /\ k - l < 0
    BY <1>1, <1>5
  <2> QED
    BY <1>1, <1>3, <1>5, <2>1
<1> QED
  BY <1>4, <1>5

\* The entry after k, with the wrap of the push and the pop spelled out.
LEMMA RingSuccessor ==
  ASSUME NEW k \in Ring
  PROVE  /\ (k + 1) % RingSize = IF k + 1 = RingSize THEN 0 ELSE k + 1
         /\ (k + 1) % RingSize \in Ring
<1>1. RingSize \in Nat \ {0} /\ k \in Int /\ 0 <= k /\ k < RingSize
  BY DestroyQueueAssumption DEF Ring
<1>2. ASSUME NEW R \in Nat \ {0} PROVE R % R = 0
  BY SMT
<1>3. ASSUME NEW R \in Nat \ {0}, NEW x \in Int, 0 <= x, x < R PROVE x % R = x
  BY <1>3, SMT
<1>4. CASE k + 1 = RingSize
  BY <1>1, <1>2, <1>4 DEF Ring
<1>5. CASE k + 1 # RingSize
  <2>1. k + 1 \in Int /\ 0 <= k + 1 /\ k + 1 < RingSize
    BY <1>1, <1>5
  <2> QED
    BY <1>1, <1>3, <1>5, <2>1 DEF Ring
<1> QED
  BY <1>4, <1>5

\* The segment as a range that may wrap.
LEMMA SegmentRange ==
  ASSUME NEW h \in Ring, NEW l \in Ring, NEW k \in Ring
  PROVE  (k - l) % RingSize < (h - l) % RingSize <=>
           IF l <= h THEN l <= k /\ k < h ELSE l <= k \/ k < h
<1>1. RingSize \in Nat /\ Ring \subseteq Int
      /\ \A x \in Ring : 0 <= x /\ x < RingSize
  BY DestroyQueueAssumption DEF Ring
<1> QED
  BY <1>1, RingDistance

\* A reservation adds the entry at head, unless head runs into tail.
LEMMA GrowSegment ==
  ASSUME htc.head \in Ring, htc.tail \in Ring,
         htc'.head = (htc.head + 1) % RingSize, htc'.tail = htc.tail,
         htc'.head # htc.tail
  PROVE  Segment' = Segment \cup {htc.head} /\ htc.head \notin Segment
<1>1. /\ htc'.head \in Ring
      /\ htc'.head = IF htc.head + 1 = RingSize THEN 0 ELSE htc.head + 1
  BY RingSuccessor
<1>2. RingSize \in Nat /\ Ring \subseteq Int
      /\ \A x \in Ring : 0 <= x /\ x < RingSize
  BY DestroyQueueAssumption DEF Ring
<1>3. \A k \in Ring : k \in Segment <=>
        IF htc.tail <= htc.head THEN htc.tail <= k /\ k < htc.head
                                ELSE htc.tail <= k \/ k < htc.head
  BY SegmentRange DEF Segment
<1>4. \A k \in Ring : k \in Segment' <=>
        IF htc.tail <= htc'.head THEN htc.tail <= k /\ k < htc'.head
                                 ELSE htc.tail <= k \/ k < htc'.head
  BY <1>1, SegmentRange DEF Segment
<1>a. /\ htc.head \in Int /\ htc.tail \in Int /\ htc'.head \in Int
      /\ 0 <= htc.head /\ htc.head < RingSize
      /\ 0 <= htc.tail /\ htc.tail < RingSize
  BY <1>1, <1>2
<1>5. ASSUME NEW k \in Ring
      PROVE  k \in Segment' <=> k \in Segment \/ k = htc.head
  <2>1. k \in Int /\ 0 <= k /\ k < RingSize
    BY <1>2
  <2> QED
    BY <1>1, <1>2, <1>3, <1>4, <1>a, <2>1
<1>6. htc.head \notin Segment
  BY <1>3, <1>a
<1>7. Segment \subseteq Ring /\ Segment' \subseteq Ring
  BY DEF Segment
<1> QED
  BY <1>5, <1>6, <1>7

\* A pop removes the entry at tail.
LEMMA ShrinkSegment ==
  ASSUME htc.head \in Ring, htc.tail \in Ring, htc.tail # htc.head,
         htc'.tail = (htc.tail + 1) % RingSize, htc'.head = htc.head
  PROVE  Segment' = Segment \ {htc.tail} /\ htc.tail \in Segment
<1>1. /\ htc'.tail \in Ring
      /\ htc'.tail = IF htc.tail + 1 = RingSize THEN 0 ELSE htc.tail + 1
  BY RingSuccessor
<1>2. RingSize \in Nat /\ Ring \subseteq Int
      /\ \A x \in Ring : 0 <= x /\ x < RingSize
  BY DestroyQueueAssumption DEF Ring
<1>3. \A k \in Ring : k \in Segment <=>
        IF htc.tail <= htc.head THEN htc.tail <= k /\ k < htc.head
                                ELSE htc.tail <= k \/ k < htc.head
  BY SegmentRange DEF Segment
<1>4. \A k \in Ring : k \in Segment' <=>
        IF htc'.tail <= htc.head THEN htc'.tail <= k /\ k < htc.head
                                 ELSE htc'.tail <= k \/ k < htc.head
  BY <1>1, SegmentRange DEF Segment
<1>a. /\ htc.head \in Int /\ htc.tail \in Int /\ htc'.tail \in Int
      /\ 0 <= htc.head /\ htc.head < RingSize
      /\ 0 <= htc.tail /\ htc.tail < RingSize
  BY <1>1, <1>2
<1>5. ASSUME NEW k \in Ring
      PROVE  k \in Segment' <=> k \in Segment /\ k # htc.tail
  <2>1. k \in Int /\ 0 <= k /\ k < RingSize
    BY <1>2
  <2> QED
    BY <1>1, <1>2, <1>3, <1>4, <1>a, <2>1
<1>6. htc.tail \in Segment
  BY <1>3, <1>a
<1>7. Segment \subseteq Ring /\ Segment' \subseteq Ring
  BY DEF Segment
<1> QED
  BY <1>5, <1>6, <1>7

-----------------------------------------------------------------------------
\* A thread that is about to reserve an entry has a job that is not in the
\* segment, so there are fewer entries in it than jobs and head does not run
\* into tail.
LEMMA RoomLeft ==
  ASSUME EntryInv, NEW t \in Threads, th[t].pc \in {"push", "repush"}
  PROVE  (htc.head + 1) % RingSize # htc.tail
<1> SUFFICES ASSUME (htc.head + 1) % RingSize = htc.tail PROVE FALSE
  OBVIOUS
<1> DEFINE Storing(k) == {u \in ThreadsAt({"store"}) : th[u].slot = k}
           f == [k \in Ring |->
                   IF k = htc.head THEN th[t].job
                   ELSE IF Storing(k) # {} THEN th[CHOOSE u \in Storing(k) : TRUE].job
                   ELSE buf[k]]
<1>1. htc.head \in Ring /\ htc.tail \in Ring
  BY DEF EntryInv, TypeOK
<1>2. \A k \in Ring \ {htc.head} : k \in Segment
  <2>1. htc.tail = IF htc.head + 1 = RingSize THEN 0 ELSE htc.head + 1
    BY <1>1, RingSuccessor
  <2>2. RingSize \in Nat /\ htc.head \in Int /\ htc.tail \in Int
        /\ 0 <= htc.head /\ htc.head < RingSize
    BY <1>1, DestroyQueueAssumption DEF Ring
  <2>3. ASSUME NEW k \in Ring \ {htc.head} PROVE k \in Segment
    <3>1. k \in Int /\ 0 <= k /\ k < RingSize
      BY DestroyQueueAssumption DEF Ring
    <3>2. k \in Segment <=>
            IF htc.tail <= htc.head THEN htc.tail <= k /\ k < htc.head
                                    ELSE htc.tail <= k \/ k < htc.head
      BY <1>1, SegmentRange DEF Segment
    <3> QED
      BY <2>1, <2>2, <3>1, <3>2
  <2> QED
    BY <2>3
<1>3. t \in Holders
  BY DEF Holders, ThreadsAt
<1>4. ASSUME NEW k \in Ring, k # htc.head
      PROVE  \/ \E u \in Holders : /\ th[u].pc = "store" /\ th[u].slot = k
                                   /\ f[k] = th[u].job
             \/ k \in Stored /\ f[k] = buf[k]
  <2>1. CASE Storing(k) # {}
    <3>1. PICK u \in Storing(k) : u = CHOOSE v \in Storing(k) : TRUE
      BY <2>1
    <3> QED
      BY <1>4, <2>1, <3>1 DEF Holders, ThreadsAt
  <2>2. CASE Storing(k) = {}
    BY <1>2, <1>4, <2>2 DEF Stored
  <2> QED
    BY <2>1, <2>2
<1>5. f[htc.head] = th[t].job
  BY <1>1
<1> HIDE DEF f
<1>6. \A k \in Ring : f[k] \in Jobs
  BY <1>3, <1>4, <1>5 DEF EntryInv, JobsOnce
<1>7. f \in [Ring -> Jobs]
  BY <1>6 DEF f
<1>8. \A k, l \in Ring : f[k] = f[l] => k = l
  <2> SUFFICES ASSUME NEW k \in Ring, NEW l \in Ring, f[k] = f[l], k # l
               PROVE  FALSE
    OBVIOUS
  <2>1. CASE k = htc.head
    BY <1>3, <1>4, <1>5, <2>1 DEF EntryInv, JobsOnce
  <2>2. CASE l = htc.head
    BY <1>3, <1>4, <1>5, <2>2 DEF EntryInv, JobsOnce
  <2>3. CASE k # htc.head /\ l # htc.head
    BY <1>4, <2>3 DEF EntryInv, JobsOnce
  <2> QED
    BY <2>1, <2>2, <2>3
<1>9. IsFiniteSet(Ring) /\ Cardinality(Ring) = RingSize
  BY FS_Interval, DestroyQueueAssumption DEF Ring
<1>10. Cardinality(Jobs) < RingSize
  <2>1. Cardinality(Jobs) \in Nat /\ Cardinality(Threads) \in Nat
    BY FS_CardinalityType, QueueSizeAssumption
  <2>2. Cardinality(Threads) # 0
    BY FS_EmptySet, QueueSizeAssumption
  <2> QED
    BY <2>1, <2>2, QueueSizeAssumption, DestroyQueueAssumption
<1> QED
  BY <1>7, <1>8, <1>9, <1>10, FS_PigeonHole, QueueSizeAssumption

-----------------------------------------------------------------------------
\* Queued and taken jobs are different jobs, and none of them is in the hands
\* of a thread that has just begun to destroy it.
LEMMA PlacesApart ==
  ASSUME EntryInv
  PROVE  /\ Queued \subseteq Jobs \ alive /\ Taken \subseteq Jobs \ alive
         /\ Queued \cap Taken = {}
         /\ \A t \in ThreadsAt({"push"}) : th[t].job \notin Queued \cup Taken
<1> DEFINE Inside == {k \in Segment : \A t \in ThreadsAt({"store"}) : th[t].slot # k}
<1>1. Queued = {buf[k] : k \in Inside} \cup {th[t].job : t \in ThreadsAt({"store"})}
  BY DEF Queued, Segment
<1>2. Inside \subseteq Stored
  BY DEF Stored
<1>3. \A t \in ThreadsAt({"load"}) : th[t].slot \in Stored /\ th[t].slot \notin Inside
  BY DEF Stored, EntryInv, ReadyMarksSegment, ThreadsAt
<1>4. /\ ThreadsAt({"store"}) \subseteq Holders
      /\ ThreadsAt({"push"}) \subseteq Holders
      /\ ThreadsAt({"clear", "destroy", "repush"}) \subseteq Holders
      /\ ThreadsAt({"store"}) \cap ThreadsAt({"push"}) = {}
      /\ ThreadsAt({"store"}) \cap ThreadsAt({"clear", "destroy", "repush"}) = {}
      /\ ThreadsAt({"push"}) \cap ThreadsAt({"clear", "destroy", "repush"}) = {}
  BY DEF Holders, ThreadsAt
<1> HIDE DEF Inside
<1>5. JobsOnce
  BY DEF EntryInv
<1>6. Queued \subseteq Jobs \ alive
  BY <1>1, <1>2, <1>4, <1>5 DEF JobsOnce
<1>7. Taken \subseteq Jobs \ alive
  BY <1>3, <1>4, <1>5 DEF JobsOnce, Taken
<1>8. ASSUME NEW j \in Queued, j \in Taken PROVE FALSE
  <2>1. CASE \E k \in Inside : j = buf[k]
    BY <1>2, <1>3, <1>4, <1>5, <1>8, <2>1 DEF JobsOnce, Taken
  <2>2. CASE \E t \in ThreadsAt({"store"}) : j = th[t].job
    BY <1>3, <1>4, <1>5, <1>8, <2>2 DEF JobsOnce, Taken
  <2> QED
    BY <1>1, <2>1, <2>2
<1>9. ASSUME NEW t \in ThreadsAt({"push"}) PROVE th[t].job \notin Queued \cup Taken
  <2>1. th[t].job \notin Queued
    BY <1>1, <1>2, <1>4, <1>5 DEF JobsOnce
  <2>2. th[t].job \notin Taken
    BY <1>3, <1>4, <1>5 DEF JobsOnce, Taken
  <2> QED
    BY <2>1, <2>2
<1> QED
  BY <1>6, <1>7, <1>8, <1>9

\* dq_push and dq_super_push put the job of the thread into the queue.
LEMMA ReserveEffect ==
  ASSUME EntryInv, lapped' = FALSE, ~Full,
         NEW t \in Threads, th[t].pc \in {"push", "repush"},
         NEW counted \in BOOLEAN, Reserve(t, counted),
         UNCHANGED <<buf, ready, lives, alive, busy, notent>>
  PROVE  /\ EntryInv'
         /\ Queued' = Queued \cup {th[t].job}
         /\ Taken' = Taken \ {th[t].job}
<1>1. /\ htc \in [head : Ring, tail : Ring, count : 0 .. RingSize]
      /\ th \in [Threads -> ThreadState]
      /\ ready \in [Ring -> BOOLEAN]
  BY DEF EntryInv, TypeOK
<1>2. /\ htc'.head = (htc.head + 1) % RingSize
      /\ htc'.tail = htc.tail
      /\ htc'.count = IF counted THEN htc.count + 1 ELSE htc.count
  BY <1>1 DEF Reserve
<1>3. /\ th'[t].pc = "store" /\ th'[t].slot = htc.head /\ th'[t].job = th[t].job
      /\ \A u \in Threads \ {t} : th'[u] = th[u]
  BY <1>1 DEF Reserve, ThreadState
<1>4. Segment' = Segment \cup {htc.head} /\ htc.head \notin Segment
  BY <1>1, <1>2, RoomLeft, GrowSegment
<1>5. \A u \in ThreadsAt(InEntry) : th[u].slot # htc.head
  <2>1. htc.head \notin EntriesInUse
    BY DEF Reserve
  <2> QED
    BY <2>1 DEF EntriesInUse, ThreadsAt, InEntry
<1>6. \A L : t \notin ThreadsAt(L)' <=> "store" \notin L
  BY <1>3 DEF ThreadsAt
<1>7. \A L : ThreadsAt(L) \ {t} = ThreadsAt(L)' \ {t}
  BY <1>3 DEF ThreadsAt
<1>8. TypeOK'
  <2>1. htc' \in [head : Ring, tail : Ring, count : 0 .. RingSize]
    <3>1. htc'.head \in Ring
      BY <1>1, <1>2, RingSuccessor
    <3>2. htc'.count \in 0 .. RingSize
      BY <1>1, <1>2, DestroyQueueAssumption DEF Full
    <3> QED
      BY <1>1, <1>2, <3>1, <3>2 DEF Reserve
  <2>2. th' \in [Threads -> ThreadState]
    <3>1. th' = [th EXCEPT ![t] = [th[t] EXCEPT !.pc = "store",
                             !.slot = htc.head, !.super = ~counted]]
      BY <1>1 DEF Reserve, ThreadState
    <3>2a. (~counted) \in BOOLEAN
      OBVIOUS
    <3>2. "store" \in Labels
      BY DEF Labels
    <3>3. th[t] \in ThreadState
      BY <1>1
    <3>4. [th[t] EXCEPT !.pc = "store", !.slot = htc.head, !.super = ~counted]
            \in ThreadState
      BY <1>1, <3>2a, <3>2, <3>3 DEF ThreadState
    <3> QED
      BY <1>1, <3>1, <3>4
  <2> QED
    BY <2>1, <2>2 DEF EntryInv, TypeOK
<1>9. EntriesExclusive'
  BY <1>3, <1>5 DEF EntryInv, EntriesExclusive, ThreadsAt, InEntry
<1>10. ~ready[htc.head]
  BY <1>1, <1>4, <1>5 DEF EntryInv, ReadyMarksSegment
<1>11. ReadyMarksSegment'
  <2>1. ASSUME NEW u \in Threads, th'[u].pc \in {"store", "mark"}
        PROVE  th'[u].slot \in Segment' /\ ~ready'[th'[u].slot]
    BY <1>3, <1>4, <1>10, <2>1 DEF EntryInv, ReadyMarksSegment, ThreadsAt
  <2>2. ASSUME NEW u \in Threads, th'[u].pc \in {"load", "clear"}
        PROVE  th'[u].slot \notin Segment' /\ ready'[th'[u].slot]
    BY <1>3, <1>4, <1>5, <2>2 DEF EntryInv, ReadyMarksSegment, ThreadsAt, InEntry
  <2>3. ASSUME NEW k \in Ring, \A u \in ThreadsAt(InEntry)' : th'[u].slot # k
        PROVE  ready'[k] <=> k \in Segment'
    <3>1. k # htc.head
      BY <1>3, <2>3 DEF ThreadsAt, InEntry
    <3>2. \A u \in ThreadsAt(InEntry) : th[u].slot # k
      BY <1>3, <2>3 DEF ThreadsAt, InEntry
    <3> QED
      BY <1>4, <3>1, <3>2 DEF EntryInv, ReadyMarksSegment
  <2> QED
    BY <2>1, <2>2, <2>3 DEF ReadyMarksSegment, ThreadsAt
<1>12. Stored' = Stored
  <2>1. \A k : k \in Stored => k # htc.head
    BY <1>4, <1>5 DEF Stored, ThreadsAt, InEntry
  <2>2. \A k : k \in Stored' <=> k \in Stored
    BY <1>3, <1>4, <2>1 DEF Stored, ThreadsAt
  <2> QED
    BY <2>2
<1>13. Holders' = Holders
  BY <1>3 DEF Holders, ThreadsAt
<1>14. JobsOnce'
  <2>1. \A u \in Holders : th'[u].job = th[u].job
    BY <1>3 DEF Holders, ThreadsAt
  <2> QED
    BY <1>12, <1>13, <2>1 DEF EntryInv, JobsOnce
<1>15. Queued' = Queued \cup {th[t].job}
  BY <1>3, <1>4 DEF Queued, Segment, ThreadsAt
<1>16. Taken' = Taken \ {th[t].job}
  <2>1. \A u \in Threads \ {t} :
          th[u].pc \in {"clear", "destroy", "repush"} => th[u].job # th[t].job
    BY DEF EntryInv, JobsOnce, Holders, ThreadsAt
  <2>2. \A u \in Threads : th[u].pc = "load" => buf[th[u].slot] # th[t].job
    BY DEF EntryInv, JobsOnce, Holders, ThreadsAt, Stored
  <2>3. \A j : j \in Taken' <=> j \in Taken /\ j # th[t].job
    BY <1>3, <2>1, <2>2 DEF Taken, ThreadsAt
  <2> QED
    BY <2>3
<1> QED
  BY <1>8, <1>9, <1>11, <1>14, <1>15, <1>16 DEF EntryInv

HandLabels == {"push", "store", "clear", "destroy", "repush"}

\* A step of a thread that has neither an entry nor a job, before and after,
\* disturbs nothing.
LEMMA ControlEffect ==
  ASSUME EntryInv, lapped' = FALSE, TypeOK', NEW t \in Threads,
         th[t].pc \notin InEntry \cup HandLabels,
         th'[t].pc \notin InEntry \cup HandLabels,
         \A u \in Threads \ {t} : th'[u] = th[u],
         htc'.head = htc.head, htc'.tail = htc.tail,
         UNCHANGED <<buf, ready, alive>>
  PROVE  EntryInv' /\ Queued' = Queued /\ Taken' = Taken
<1> USE DEF InEntry, HandLabels
<1>1. Segment' = Segment
  BY DEF Segment
<1>2. EntriesExclusive'
  BY DEF EntryInv, EntriesExclusive, ThreadsAt
<1>3. ReadyMarksSegment'
  BY <1>1 DEF EntryInv, ReadyMarksSegment, ThreadsAt
<1>4. Stored' = Stored
  BY <1>1 DEF Stored, ThreadsAt
<1>5. Holders' = Holders /\ \A u \in Holders : th'[u] = th[u]
  BY DEF Holders, ThreadsAt
<1>6. JobsOnce'
  BY <1>4, <1>5 DEF EntryInv, JobsOnce
<1>7. Queued' = Queued
  BY DEF Queued, ThreadsAt
<1>8. Taken' = Taken
  BY DEF Taken, ThreadsAt
<1> QED
  BY <1>2, <1>3, <1>6, <1>7, <1>8 DEF EntryInv

\* schedi_job_destroy takes a job that is nowhere else.
LEMMA BeginEffect ==
  ASSUME EntryInv, lapped' = FALSE, NEW t \in Threads, BeginDestroy(t)
  PROVE  EntryInv' /\ Queued' = Queued /\ Taken' = Taken
<1>1. PICK j \in alive :
        /\ lives[j] > 0
        /\ lives' = [lives EXCEPT ![j] = @ - 1]
        /\ alive' = alive \ {j}
        /\ th' = [th EXCEPT ![t].pc = "push", ![t].job = j]
  BY DEF BeginDestroy
<1>2. /\ th[t].pc = "work" /\ UNCHANGED <<buf, ready, htc, busy, notent>>
      /\ th \in [Threads -> ThreadState] /\ alive \subseteq Jobs
  BY DEF BeginDestroy, At, EntryInv, TypeOK
<1>3. /\ th'[t].pc = "push" /\ th'[t].job = j
      /\ \A u \in Threads \ {t} : th'[u] = th[u]
  BY <1>1, <1>2 DEF ThreadState
<1>4. TypeOK'
  <2>1. th' \in [Threads -> ThreadState]
    BY <1>1, <1>2, ZenonT(60) DEF ThreadState, Labels
  <2>2. lives' \in [Jobs -> 0 .. Lives]
    BY <1>1, <1>2, DestroyQueueAssumption DEF EntryInv, TypeOK
  <2> QED
    BY <1>1, <1>2, <2>1, <2>2 DEF EntryInv, TypeOK
<1>5. Segment' = Segment
  BY <1>2 DEF Segment
<1>6. EntriesExclusive'
  BY <1>3 DEF EntryInv, EntriesExclusive, ThreadsAt, InEntry
<1>7. ReadyMarksSegment'
  BY <1>2, <1>3, <1>5 DEF EntryInv, ReadyMarksSegment, ThreadsAt, InEntry
<1>8. Stored' = Stored
  BY <1>2, <1>3, <1>5 DEF Stored, ThreadsAt
<1>9. Holders' = Holders \cup {t} /\ t \notin Holders
  BY <1>2, <1>3 DEF Holders, ThreadsAt
<1>10. \A u \in Holders : th'[u].job = th[u].job
  BY <1>3, <1>9 DEF Holders, ThreadsAt
<1>11. JobsOnce'
  <2>1. JobsOnce /\ j \in Jobs /\ j \in alive /\ alive' = alive \ {j}
    BY <1>1, <1>2 DEF EntryInv
  <2>2. \A k \in Stored : buf'[k] \in Jobs \ alive' /\ buf'[k] # j
    BY <1>2, <2>1 DEF JobsOnce
  <2>3. \A u \in Holders : th'[u].job \in Jobs \ alive' /\ th'[u].job # j
    BY <1>10, <2>1 DEF JobsOnce
  <2>4. \A u \in Holders' : u = t \/ u \in Holders
    BY <1>9
  <2>5. \A u \in Holders' : th'[u].job \in Jobs \ alive'
    BY <1>3, <2>1, <2>3, <2>4
  <2>6. \A u, v \in Holders' : th'[u].job = th'[v].job => u = v
    BY <1>3, <1>10, <2>1, <2>3, <2>4 DEF JobsOnce
  <2>7. \A k \in Stored, u \in Holders' : buf'[k] # th'[u].job
    BY <1>2, <1>3, <1>10, <2>1, <2>2, <2>4 DEF JobsOnce
  <2>8. \A k, l \in Stored : buf'[k] = buf'[l] => k = l
    BY <1>2, <2>1 DEF JobsOnce
  <2> QED
    BY <1>8, <2>2, <2>5, <2>6, <2>7, <2>8 DEF JobsOnce
<1>12. Queued' = Queued /\ Taken' = Taken
  BY <1>2, <1>3 DEF Queued, Taken, ThreadsAt
<1> QED
  BY <1>4, <1>6, <1>7, <1>11, <1>12 DEF EntryInv

\* The store moves the job from the thread into the entry it has reserved.
LEMMA StoreEffect ==
  ASSUME EntryInv, lapped' = FALSE, NEW t \in Threads, StoreEntry(t)
  PROVE  EntryInv' /\ Queued' = Queued /\ Taken' = Taken
<1> DEFINE s == th[t].slot
<1>1. /\ th[t].pc = "store"
      /\ buf' = [buf EXCEPT ![s] = th[t].job]
      /\ th' = [th EXCEPT ![t].pc = "mark"]
      /\ UNCHANGED <<ready, htc, lives, alive, busy, notent>>
      /\ th \in [Threads -> ThreadState]
      /\ buf \in [Ring -> Jobs \cup {NoJob}]
  BY DEF StoreEntry, At, Goto, EntryInv, TypeOK
<1>2. s \in Ring /\ th[t].job \in Jobs \cup {NoJob}
  BY <1>1 DEF ThreadState
<1>3. /\ th'[t].pc = "mark" /\ th'[t].slot = s
      /\ \A u \in Threads \ {t} : th'[u] = th[u]
  BY <1>1 DEF ThreadState
<1>4. buf'[s] = th[t].job /\ \A k \in Ring \ {s} : buf'[k] = buf[k]
  BY <1>1, <1>2
<1>5. TypeOK'
  <2>1. th' \in [Threads -> ThreadState]
    BY <1>1 DEF ThreadState, Labels
  <2> QED
    BY <1>1, <1>2, <2>1 DEF EntryInv, TypeOK
<1>6. Segment' = Segment /\ s \in Segment
  BY <1>1 DEF Segment, EntryInv, ReadyMarksSegment, ThreadsAt
<1>7. EntriesExclusive'
  BY <1>1, <1>3 DEF EntryInv, EntriesExclusive, ThreadsAt, InEntry
<1>8. ReadyMarksSegment'
  BY <1>1, <1>3, <1>6 DEF EntryInv, ReadyMarksSegment, ThreadsAt, InEntry
<1>9. \A u \in Threads \ {t} : th[u].pc \in InEntry => th[u].slot # s
  BY <1>1 DEF EntryInv, EntriesExclusive, ThreadsAt, InEntry
<1>10. Stored' = Stored \cup {s} /\ s \notin Stored
  <2>1. s \notin Stored
    BY <1>1, <1>9 DEF Stored, ThreadsAt, InEntry
  <2>2. \A k : k \in Stored' <=> k \in Stored \/ k = s
    BY <1>1, <1>3, <1>6, <1>9 DEF Stored, ThreadsAt, InEntry
  <2> QED
    BY <2>1, <2>2
<1>11. Holders' = Holders \ {t} /\ t \in Holders
  BY <1>1, <1>3 DEF Holders, ThreadsAt
<1>12. Stored \subseteq Ring
  BY <1>1 DEF Stored, Segment, ThreadsAt, ThreadState
<1>13. JobsOnce'
  BY <1>1, <1>3, <1>4, <1>10, <1>11, <1>12 DEF EntryInv, JobsOnce, Holders, ThreadsAt
<1>14. Queued' = Queued
  <2>1. Queued = {buf[k] : k \in {i \in Segment : \A u \in ThreadsAt({"store"}) : th[u].slot # i}}
                   \cup {th[u].job : u \in ThreadsAt({"store"})}
    BY DEF Queued, Segment
  <2>2. Queued' = {buf'[k] : k \in {i \in Segment' : \A u \in ThreadsAt({"store"})' : th'[u].slot # i}}
                    \cup {th'[u].job : u \in ThreadsAt({"store"})'}
    BY DEF Queued, Segment
  <2>3. ThreadsAt({"store"})' = ThreadsAt({"store"}) \ {t} /\ t \in ThreadsAt({"store"})
    BY <1>1, <1>3 DEF ThreadsAt
  <2>4. {i \in Segment' : \A u \in ThreadsAt({"store"})' : th'[u].slot # i}
          = {i \in Segment : \A u \in ThreadsAt({"store"}) : th[u].slot # i} \cup {s}
    BY <1>3, <1>6, <1>9, <2>3 DEF ThreadsAt, InEntry
  <2>5. \A j : j \in Queued' <=> j \in Queued
    BY <1>3, <1>4, <2>1, <2>2, <2>3, <2>4 DEF ThreadsAt, Segment
  <2> QED
    BY <2>5
<1>15. Taken' = Taken
  <2>1. \A u \in Threads : th[u].pc = "load" => buf'[th'[u].slot] = buf[th[u].slot]
    BY <1>1, <1>3, <1>4, <1>9 DEF InEntry, ThreadState
  <2> QED
    BY <1>1, <1>3, <2>1 DEF Taken, ThreadsAt
<1> QED
  BY <1>5, <1>7, <1>8, <1>13, <1>14, <1>15 DEF EntryInv

\* The mark makes the entry one that can be popped.
LEMMA MarkEffect ==
  ASSUME EntryInv, lapped' = FALSE, NEW t \in Threads, MarkEntry(t)
  PROVE  EntryInv' /\ Queued' = Queued /\ Taken' = Taken
<1> DEFINE s == th[t].slot
<1>1. /\ th[t].pc = "mark"
      /\ ready' = [ready EXCEPT ![s] = TRUE]
      /\ UNCHANGED <<buf, htc, lives, alive, busy, notent>>
      /\ th \in [Threads -> ThreadState]
      /\ ready \in [Ring -> BOOLEAN]
  BY DEF MarkEntry, At, EntryInv, TypeOK
<1>2. s \in Ring
  BY <1>1 DEF ThreadState
<1>3. /\ th'[t].pc \in {"pop", "check"}
      /\ \A u \in Threads \ {t} : th'[u] = th[u]
      /\ th' \in [Threads -> ThreadState]
  <2>1. th' = [th EXCEPT ![t] = [th[t] EXCEPT
                 !.pc = IF th[t].super THEN "pop" ELSE "check", !.job = NoJob]]
    BY <1>1 DEF MarkEntry, ThreadState
  <2>2. th[t] \in ThreadState
    BY <1>1
  <2> DEFINE new == [th[t] EXCEPT
                 !.pc = IF th[t].super THEN "pop" ELSE "check", !.job = NoJob]
  <2>3. new \in ThreadState /\ new.pc \in {"pop", "check"}
    BY <2>2 DEF ThreadState, Labels
  <2> HIDE DEF new
  <2>4. th' = [th EXCEPT ![t] = new]
    BY <2>1 DEF new
  <2> QED
    BY <1>1, <2>3, <2>4
<1>4. ready'[s] = TRUE /\ \A k \in Ring \ {s} : ready'[k] = ready[k]
  BY <1>1, <1>2
<1>5. TypeOK'
  BY <1>1, <1>2, <1>3 DEF EntryInv, TypeOK
<1>6. Segment' = Segment /\ s \in Segment
  BY <1>1 DEF Segment, EntryInv, ReadyMarksSegment, ThreadsAt
<1>7. EntriesExclusive'
  BY <1>3 DEF EntryInv, EntriesExclusive, ThreadsAt, InEntry
<1>8. \A u \in Threads \ {t} : th[u].pc \in InEntry => th[u].slot # s
  BY <1>1 DEF EntryInv, EntriesExclusive, ThreadsAt, InEntry
<1>9. ReadyMarksSegment'
  <2>1. ASSUME NEW u \in Threads, th'[u].pc \in InEntry
        PROVE  /\ u # t /\ th[u].pc \in InEntry /\ th[u] = th'[u]
               /\ ready'[th[u].slot] = ready[th[u].slot]
    BY <1>1, <1>3, <1>4, <1>8, <2>1 DEF InEntry, ThreadState
  <2>2. ASSUME NEW k \in Ring, \A u \in ThreadsAt(InEntry)' : th'[u].slot # k
        PROVE  ready'[k] <=> k \in Segment'
    <3>1. CASE k = s
      BY <1>4, <1>6, <3>1
    <3>2. CASE k # s
      <4>1. \A u \in ThreadsAt(InEntry) : th[u].slot # k
        BY <1>3, <2>2, <3>2 DEF ThreadsAt, InEntry
      <4> QED
        BY <1>4, <1>6, <3>2, <4>1 DEF EntryInv, ReadyMarksSegment
    <3> QED
      BY <3>1, <3>2
  <2> QED
    BY <1>6, <2>1, <2>2 DEF EntryInv, ReadyMarksSegment, ThreadsAt, InEntry
<1>10. Stored' = Stored
  BY <1>1, <1>3, <1>6 DEF Stored, ThreadsAt
<1>11. Holders' = Holders /\ \A u \in Holders : th'[u] = th[u]
  BY <1>1, <1>3 DEF Holders, ThreadsAt
<1>12. JobsOnce'
  BY <1>1, <1>10, <1>11 DEF EntryInv, JobsOnce
<1>13. Queued' = Queued /\ Taken' = Taken
  BY <1>1, <1>3 DEF Queued, Taken, ThreadsAt
<1> QED
  BY <1>5, <1>7, <1>9, <1>12, <1>13 DEF EntryInv

\* dq_super_pop takes the entry at tail out of the segment; its job is taken.
LEMMA PopEffect ==
  ASSUME EntryInv, lapped' = FALSE, NEW t \in Threads, SuperPop(t), th[t].n # 0, CanPop
  PROVE  /\ EntryInv'
         /\ buf[htc.tail] \in Queued
         /\ Queued' = Queued \ {buf[htc.tail]}
         /\ Taken' = Taken \cup {buf[htc.tail]}
<1> DEFINE s == htc.tail
<1>1. /\ th[t].pc = "pop"
      /\ htc' = [htc EXCEPT !.tail = (@ + 1) % RingSize]
      /\ th' = [th EXCEPT ![t].pc = "load", ![t].slot = s, ![t].n = @ - 1]
      /\ UNCHANGED <<buf, ready, lives, alive, busy, notent>>
      /\ htc \in [head : Ring, tail : Ring, count : 0 .. RingSize]
      /\ th \in [Threads -> ThreadState]
      /\ ready[s] /\ s # htc.head /\ s \in Ring
  BY DEF SuperPop, CanPop, At, EntryInv, TypeOK
<1>2. /\ htc'.tail = (s + 1) % RingSize /\ htc'.head = htc.head
      /\ htc'.count = htc.count
  BY <1>1
<1>3. /\ th'[t].pc = "load" /\ th'[t].slot = s /\ th'[t].job = th[t].job
      /\ \A u \in Threads \ {t} : th'[u] = th[u]
  BY <1>1 DEF ThreadState
<1>4. TypeOK'
  <2>1. htc' \in [head : Ring, tail : Ring, count : 0 .. RingSize]
    <3>1. htc'.tail \in Ring
      BY <1>1, <1>2, RingSuccessor
    <3> QED
      BY <1>1, <1>2, <3>1
  <2>2. th' \in [Threads -> ThreadState]
    <3>1. th[t].n \in 0 .. RingSize /\ th[t] \in ThreadState
      BY <1>1 DEF ThreadState
    <3>2. th[t].n - 1 \in 0 .. RingSize
      BY <3>1, DestroyQueueAssumption
    <3> QED
      BY <1>1, <3>1, <3>2 DEF ThreadState, Labels
  <2> QED
    BY <1>1, <2>1, <2>2 DEF EntryInv, TypeOK
<1>5. Segment' = Segment \ {s} /\ s \in Segment
  BY <1>1, <1>2, ShrinkSegment
<1>6. \A u \in ThreadsAt(InEntry) : th[u].slot # s
  BY <1>1, <1>5 DEF EntryInv, ReadyMarksSegment, ThreadsAt, InEntry
<1>7. EntriesExclusive'
  BY <1>3, <1>6 DEF EntryInv, EntriesExclusive, ThreadsAt, InEntry
<1>8. ReadyMarksSegment'
  <2>1. ASSUME NEW u \in Threads, th'[u].pc \in {"store", "mark"}
        PROVE  th'[u].slot \in Segment' /\ ~ready'[th'[u].slot]
    BY <1>1, <1>3, <1>5, <1>6, <2>1
    DEF EntryInv, ReadyMarksSegment, ThreadsAt, InEntry
  <2>2. ASSUME NEW u \in Threads, th'[u].pc \in {"load", "clear"}
        PROVE  th'[u].slot \notin Segment' /\ ready'[th'[u].slot]
    BY <1>1, <1>3, <1>5, <2>2 DEF EntryInv, ReadyMarksSegment, ThreadsAt
  <2>3. ASSUME NEW k \in Ring, \A u \in ThreadsAt(InEntry)' : th'[u].slot # k
        PROVE  ready'[k] <=> k \in Segment'
    <3>1. k # s
      BY <1>3, <2>3 DEF ThreadsAt, InEntry
    <3>2. \A u \in ThreadsAt(InEntry) : th[u].slot # k
      BY <1>1, <1>3, <2>3 DEF ThreadsAt, InEntry
    <3> QED
      BY <1>1, <1>5, <3>1, <3>2 DEF EntryInv, ReadyMarksSegment
  <2> QED
    BY <2>1, <2>2, <2>3 DEF ReadyMarksSegment, ThreadsAt
<1>9. s \in Stored
  BY <1>5, <1>6 DEF Stored, ThreadsAt, InEntry
<1>10. Stored' = Stored
  <2>1. \A k : k \in Stored' <=> k \in Stored
    BY <1>1, <1>3, <1>5, <1>9 DEF Stored, ThreadsAt
  <2> QED
    BY <2>1
<1>11. Holders' = Holders /\ \A u \in Holders : th'[u] = th[u]
  BY <1>1, <1>3 DEF Holders, ThreadsAt
<1>12. JobsOnce'
  <2>1. JobsOnce /\ buf' = buf /\ alive' = alive
    BY <1>1 DEF EntryInv
  <2> QED
    BY <1>10, <1>11, <2>1 DEF JobsOnce
<1> DEFINE Inside == {k \in Segment : \A u \in ThreadsAt({"store"}) : th[u].slot # k}
<1>13. Queued = {buf[k] : k \in Inside} \cup {th[u].job : u \in ThreadsAt({"store"})}
  BY DEF Queued, Segment
<1>14. s \in Inside
  BY <1>5, <1>6 DEF ThreadsAt, InEntry
<1>15. Queued' = {buf[k] : k \in Inside \ {s}}
                   \cup {th[u].job : u \in ThreadsAt({"store"})}
  <2>1. ThreadsAt({"store"})' = ThreadsAt({"store"})
    BY <1>1, <1>3 DEF ThreadsAt
  <2>2. \A u \in ThreadsAt({"store"}) : th'[u] = th[u]
    BY <1>1, <1>3 DEF ThreadsAt
  <2>3. Queued' = {buf[k] : k \in {i \in Segment' :
                                   \A u \in ThreadsAt({"store"})' : th'[u].slot # i}}
                    \cup {th'[u].job : u \in ThreadsAt({"store"})'}
    BY <1>1 DEF Queued, Segment
  <2>4. {i \in Segment' : \A u \in ThreadsAt({"store"})' : th'[u].slot # i}
          = Inside \ {s}
    BY <1>5, <2>1, <2>2
  <2> QED
    BY <2>1, <2>2, <2>3, <2>4
<1>16. /\ Inside \subseteq Stored
       /\ ThreadsAt({"store"}) \subseteq Holders
  BY DEF Stored, Holders, ThreadsAt
<1> HIDE DEF Inside
<1>17. Queued' = Queued \ {buf[s]}
  <2>1. \A k \in Inside : buf[k] = buf[s] => k = s
    BY <1>14, <1>16 DEF EntryInv, JobsOnce
  <2>2. \A u \in ThreadsAt({"store"}) : th[u].job # buf[s]
    BY <1>9, <1>16 DEF EntryInv, JobsOnce
  <2> QED
    BY <1>13, <1>15, <2>1, <2>2
<1>18. Taken' = Taken \cup {buf[s]}
  BY <1>1, <1>3 DEF Taken, ThreadsAt
<1> QED
  BY <1>4, <1>7, <1>8, <1>12, <1>13, <1>14, <1>17, <1>18 DEF EntryInv

\* The load moves the job from the entry into the hands of the thread.
LEMMA LoadEffect ==
  ASSUME EntryInv, lapped' = FALSE, NEW t \in Threads, LoadEntry(t)
  PROVE  EntryInv' /\ Queued' = Queued /\ Taken' = Taken
<1> DEFINE s == th[t].slot
<1>1. /\ th[t].pc = "load"
      /\ th' = [th EXCEPT ![t].pc = "clear", ![t].job = buf[s]]
      /\ UNCHANGED <<buf, ready, htc, lives, alive, busy, notent>>
      /\ th \in [Threads -> ThreadState]
      /\ buf \in [Ring -> Jobs \cup {NoJob}]
  BY DEF LoadEntry, At, EntryInv, TypeOK
<1>2. s \in Ring /\ buf[s] \in Jobs \cup {NoJob}
  BY <1>1 DEF ThreadState
<1>3. /\ th'[t].pc = "clear" /\ th'[t].slot = s /\ th'[t].job = buf[s]
      /\ \A u \in Threads \ {t} : th'[u] = th[u]
  BY <1>1 DEF ThreadState
<1>4. TypeOK'
  <2>1. th' \in [Threads -> ThreadState]
    <3>1. th' = [th EXCEPT ![t] = [th[t] EXCEPT !.pc = "clear", !.job = buf[s]]]
      BY <1>1 DEF ThreadState
    <3>2. [th[t] EXCEPT !.pc = "clear", !.job = buf[s]] \in ThreadState
      BY <1>1, <1>2 DEF ThreadState, Labels
    <3> QED
      BY <1>1, <3>1, <3>2
  <2> QED
    BY <1>1, <2>1 DEF EntryInv, TypeOK
<1>5. Segment' = Segment
  BY <1>1 DEF Segment
<1>6. EntriesExclusive'
  BY <1>1, <1>3 DEF EntryInv, EntriesExclusive, ThreadsAt, InEntry
<1>7. ReadyMarksSegment'
  BY <1>1, <1>3, <1>5 DEF EntryInv, ReadyMarksSegment, ThreadsAt, InEntry
<1>8. \A u \in Threads \ {t} : th[u].pc \in InEntry => th[u].slot # s
  BY <1>1 DEF EntryInv, EntriesExclusive, ThreadsAt, InEntry
<1>9. s \in Stored /\ s \notin Segment
  BY <1>1 DEF Stored, ThreadsAt, EntryInv, ReadyMarksSegment
<1>10. Stored' = Stored \ {s}
  <2>1. \A k : k \in Stored' <=> k \in Stored /\ k # s
    BY <1>1, <1>3, <1>5, <1>8, <1>9 DEF Stored, ThreadsAt, InEntry
  <2> QED
    BY <2>1
<1>11. Holders' = Holders \cup {t} /\ t \notin Holders
  BY <1>1, <1>3 DEF Holders, ThreadsAt
<1>12. \A u \in Holders : th'[u].job = th[u].job
  BY <1>3, <1>11 DEF Holders, ThreadsAt
<1>13. JobsOnce'
  <2>1. JobsOnce /\ buf' = buf /\ alive' = alive
    BY <1>1 DEF EntryInv
  <2>2. \A u \in Holders' : u # t => u \in Holders /\ th'[u].job = th[u].job
    BY <1>11, <1>12
  <2>3. \A u \in Holders' : th'[u].job \in Jobs \ alive'
    BY <1>3, <1>9, <2>1, <2>2 DEF JobsOnce
  <2>4. \A u, v \in Holders' : th'[u].job = th'[v].job => u = v
    BY <1>3, <1>9, <2>1, <2>2 DEF JobsOnce
  <2>5. \A k \in Stored', u \in Holders' : buf'[k] # th'[u].job
    BY <1>3, <1>9, <1>10, <2>1, <2>2 DEF JobsOnce
  <2> QED
    BY <1>10, <2>1, <2>3, <2>4, <2>5 DEF JobsOnce
<1>14. Queued' = Queued
  BY <1>1, <1>3 DEF Queued, ThreadsAt
<1>15. Taken' = Taken
  BY <1>1, <1>3 DEF Taken, ThreadsAt
<1> QED
  BY <1>4, <1>6, <1>7, <1>13, <1>14, <1>15 DEF EntryInv

\* The entry is given back; the thread keeps the job.
LEMMA ClearEffect ==
  ASSUME EntryInv, lapped' = FALSE, NEW t \in Threads, ClearEntry(t)
  PROVE  EntryInv' /\ Queued' = Queued /\ Taken' = Taken
<1> DEFINE s == th[t].slot
<1>1. /\ th[t].pc = "clear"
      /\ ready' = [ready EXCEPT ![s] = FALSE]
      /\ th' = [th EXCEPT ![t].pc = "destroy"]
      /\ UNCHANGED <<buf, htc, lives, alive, busy, notent>>
      /\ th \in [Threads -> ThreadState]
      /\ ready \in [Ring -> BOOLEAN]
  BY DEF ClearEntry, At, Goto, EntryInv, TypeOK
<1>2. s \in Ring
  BY <1>1 DEF ThreadState
<1>3. /\ th'[t].pc = "destroy" /\ th'[t].job = th[t].job
      /\ \A u \in Threads \ {t} : th'[u] = th[u]
  BY <1>1 DEF ThreadState
<1>4. ready'[s] = FALSE /\ \A k \in Ring \ {s} : ready'[k] = ready[k]
  BY <1>1, <1>2
<1>5. TypeOK'
  <2>1. th' \in [Threads -> ThreadState]
    BY <1>1 DEF ThreadState, Labels
  <2> QED
    BY <1>1, <1>2, <2>1 DEF EntryInv, TypeOK
<1>6. Segment' = Segment /\ s \notin Segment
  BY <1>1 DEF Segment, EntryInv, ReadyMarksSegment, ThreadsAt
<1>7. EntriesExclusive'
  BY <1>3 DEF EntryInv, EntriesExclusive, ThreadsAt, InEntry
<1>8. \A u \in Threads \ {t} : th[u].pc \in InEntry => th[u].slot # s
  BY <1>1 DEF EntryInv, EntriesExclusive, ThreadsAt, InEntry
<1>9. ReadyMarksSegment'
  <2>1. ASSUME NEW u \in Threads, th'[u].pc \in InEntry
        PROVE  /\ u # t /\ th[u].pc \in InEntry /\ th[u] = th'[u]
               /\ ready'[th[u].slot] = ready[th[u].slot]
    BY <1>1, <1>3, <1>4, <1>8, <2>1 DEF InEntry, ThreadState
  <2>2. ASSUME NEW k \in Ring, \A u \in ThreadsAt(InEntry)' : th'[u].slot # k
        PROVE  ready'[k] <=> k \in Segment'
    <3>1. CASE k = s
      BY <1>4, <1>6, <3>1
    <3>2. CASE k # s
      <4>1. \A u \in ThreadsAt(InEntry) : th[u].slot # k
        BY <1>3, <2>2, <3>2 DEF ThreadsAt, InEntry
      <4> QED
        BY <1>4, <1>6, <3>2, <4>1 DEF EntryInv, ReadyMarksSegment
    <3> QED
      BY <3>1, <3>2
  <2> QED
    BY <1>6, <2>1, <2>2 DEF EntryInv, ReadyMarksSegment, ThreadsAt, InEntry
<1>10. Stored' = Stored
  BY <1>1, <1>3, <1>6 DEF Stored, ThreadsAt
<1>11. Holders' = Holders /\ \A u \in Holders : th'[u].job = th[u].job
  BY <1>1, <1>3 DEF Holders, ThreadsAt
<1>12. JobsOnce'
  BY <1>1, <1>10, <1>11 DEF EntryInv, JobsOnce
<1>13. Queued' = Queued
  BY <1>1, <1>3 DEF Queued, ThreadsAt
<1>14. Taken' = Taken
  BY <1>1, <1>3 DEF Taken, ThreadsAt
<1> QED
  BY <1>5, <1>7, <1>9, <1>12, <1>13, <1>14 DEF EntryInv

\* schedi_job_destroy_now finds the job busy: the thread keeps it.  Otherwise
\* the job is no longer taken.
LEMMA DestroyEffect ==
  ASSUME EntryInv, lapped' = FALSE, NEW t \in Threads, DestroyNow(t)
  PROVE  /\ EntryInv'
         /\ Queued' = Queued
         /\ th[t].job \in Taken
         /\ \/ th'[t].pc = "repush" /\ Taken' = Taken
            \/ th'[t].pc = "dec" /\ Taken' = Taken \ {th[t].job}
<1>1. /\ th[t].pc = "destroy"
      /\ UNCHANGED <<buf, ready, htc, lives, notent>>
      /\ th \in [Threads -> ThreadState]
  BY DEF DestroyNow, At, EntryInv, TypeOK
<1>2. th[t].job \in Taken
  BY <1>1 DEF Taken, ThreadsAt
<1>3. t \in Holders /\ th[t].job \in Jobs /\ th[t].job \notin alive
  BY <1>1 DEF Holders, ThreadsAt, EntryInv, JobsOnce
<1>4. Segment' = Segment
  BY <1>1 DEF Segment
<1>5. CASE /\ busy < MaxBusy /\ busy' = busy + 1
           /\ Goto(t, "repush") /\ UNCHANGED alive
  <2>1. /\ th'[t].pc = "repush" /\ th'[t].job = th[t].job
        /\ \A u \in Threads \ {t} : th'[u] = th[u]
    BY <1>1, <1>5 DEF Goto, ThreadState
  <2>2. TypeOK'
    <3>1. th' \in [Threads -> ThreadState]
      BY <1>1, <1>5 DEF Goto, ThreadState, Labels
    <3>2. busy' \in 0 .. MaxBusy
      BY <1>5, DestroyQueueAssumption DEF EntryInv, TypeOK
    <3> QED
      BY <1>1, <1>5, <3>1, <3>2 DEF EntryInv, TypeOK
  <2>3. EntriesExclusive'
    BY <1>1, <2>1 DEF EntryInv, EntriesExclusive, ThreadsAt, InEntry
  <2>4. ReadyMarksSegment'
    BY <1>1, <1>4, <2>1 DEF EntryInv, ReadyMarksSegment, ThreadsAt, InEntry
  <2>5. Stored' = Stored
    BY <1>1, <1>4, <2>1 DEF Stored, ThreadsAt
  <2>6. Holders' = Holders /\ \A u \in Holders : th'[u].job = th[u].job
    BY <1>1, <2>1 DEF Holders, ThreadsAt
  <2>7. JobsOnce'
    BY <1>1, <1>5, <2>5, <2>6 DEF EntryInv, JobsOnce
  <2>8. Queued' = Queued
    BY <1>1, <2>1 DEF Queued, ThreadsAt
  <2>9. Taken' = Taken
    BY <1>1, <2>1 DEF Taken, ThreadsAt
  <2> QED
    BY <1>2, <2>1, <2>2, <2>3, <2>4, <2>7, <2>8, <2>9 DEF EntryInv
<1>6. CASE /\ alive' = alive \cup {th[t].job}
           /\ th' = [th EXCEPT ![t].pc = "dec", ![t].job = NoJob]
           /\ UNCHANGED busy
  <2>1. /\ th'[t].pc = "dec"
        /\ \A u \in Threads \ {t} : th'[u] = th[u]
    BY <1>1, <1>6 DEF ThreadState
  <2>2. TypeOK'
    <3>1. th' \in [Threads -> ThreadState]
      BY <1>1, <1>6, ZenonT(60) DEF ThreadState, Labels
    <3> QED
      BY <1>1, <1>3, <1>6, <3>1 DEF EntryInv, TypeOK
  <2>3. EntriesExclusive'
    BY <1>1, <2>1 DEF EntryInv, EntriesExclusive, ThreadsAt, InEntry
  <2>4. ReadyMarksSegment'
    BY <1>1, <1>4, <2>1 DEF EntryInv, ReadyMarksSegment, ThreadsAt, InEntry
  <2>5. Stored' = Stored
    BY <1>1, <1>4, <2>1 DEF Stored, ThreadsAt
  <2>6. Holders' = Holders \ {t} /\ \A u \in Holders' : th'[u] = th[u]
    BY <1>1, <2>1 DEF Holders, ThreadsAt
  <2>7. JobsOnce'
    <3>1. JobsOnce /\ alive' = alive \cup {th[t].job} /\ buf' = buf
      BY <1>1, <1>6 DEF EntryInv
    <3>2. \A k \in Stored : buf[k] \in Jobs \ alive'
      BY <1>3, <3>1 DEF JobsOnce
    <3>3. \A u \in Holders' : th'[u].job \in Jobs \ alive'
      BY <1>3, <2>6, <3>1 DEF JobsOnce
    <3> QED
      BY <2>5, <2>6, <3>1, <3>2, <3>3 DEF JobsOnce
  <2>8. Queued' = Queued
    BY <1>1, <2>1 DEF Queued, ThreadsAt
  <2>9. Taken' = Taken \ {th[t].job}
    <3>1. \A u \in Threads \ {t} :
            th[u].pc \in {"clear", "destroy", "repush"} => th[u].job # th[t].job
      BY <1>3 DEF EntryInv, JobsOnce, Holders, ThreadsAt
    <3>2. \A u \in Threads : th[u].pc = "load" => buf[th[u].slot] # th[t].job
      BY <1>3 DEF EntryInv, JobsOnce, Holders, ThreadsAt, Stored
    <3>3. \A j : j \in Taken' <=> j \in Taken /\ j # th[t].job
      BY <1>1, <2>1, <3>1, <3>2 DEF Taken, ThreadsAt
    <3> QED
      BY <3>3
  <2> QED
    BY <1>2, <2>1, <2>2, <2>3, <2>4, <2>7, <2>8, <2>9 DEF EntryInv
<1> QED
  BY <1>5, <1>6 DEF DestroyNow

-----------------------------------------------------------------------------
(* The count. *)

\* What is counted is finite.
LEMMA FinitePlaces ==
  ASSUME EntryInv
  PROVE  /\ IsFiniteSet(Queued) /\ Cardinality(Queued) \in Nat
         /\ IsFiniteSet(Taken) /\ Cardinality(Taken) \in Nat
         /\ IsFiniteSet(ThreadsAt({"dec"}))
         /\ Cardinality(ThreadsAt({"dec"})) \in Nat
<1>1. Queued \in SUBSET Jobs /\ Taken \in SUBSET Jobs
  BY PlacesApart
<1>2. ThreadsAt({"dec"}) \in SUBSET Threads
  BY DEF ThreadsAt
<1>3. IsFiniteSet(Queued) /\ IsFiniteSet(Taken) /\ IsFiniteSet(ThreadsAt({"dec"}))
  BY <1>1, <1>2, FS_Subset, QueueSizeAssumption
<1> QED
  BY <1>3, FS_CardinalityType

\* A thread that is not about to take the count down finds it below the size.
LEMMA CountBelowSize ==
  ASSUME EntryInv, lapped = FALSE, CountIsExact, NEW t \in Threads, th[t].pc # "dec"
  PROVE  ~Full
<1> DEFINE D == ThreadsAt({"dec"})
<1>1. /\ Cardinality(Queued) \in Nat /\ Cardinality(Taken) \in Nat
      /\ IsFiniteSet(Queued) /\ IsFiniteSet(Taken) /\ Cardinality(D) \in Nat
  BY FinitePlaces
<1>2. Cardinality(Queued) + Cardinality(Taken) <= Cardinality(Jobs)
  <2>1. Queued \cap Taken = {} /\ Queued \cup Taken \in SUBSET Jobs
    BY PlacesApart
  <2>2. Cardinality(Queued \cup Taken) = Cardinality(Queued) + Cardinality(Taken)
    <3>1. Cardinality(Queued \cup Taken)
            = Cardinality(Queued) + Cardinality(Taken)
              - Cardinality(Queued \cap Taken)
      BY <1>1, FS_Union
    <3>2. Cardinality(Queued \cap Taken) = 0
      BY <2>1, FS_EmptySet
    <3> QED
      BY <1>1, <3>1, <3>2
  <2>3. Cardinality(Queued \cup Taken) <= Cardinality(Jobs)
    BY <2>1, FS_Subset, QueueSizeAssumption
  <2> QED
    BY <2>2, <2>3
<1>3. Cardinality(D) <= Cardinality(Threads) - 1
  <2>1. D \in SUBSET (Threads \ {t})
    BY DEF ThreadsAt
  <2>2. /\ IsFiniteSet(Threads \ {t})
        /\ Cardinality(Threads \ {t}) = Cardinality(Threads) - 1
    BY FS_RemoveElement, QueueSizeAssumption
  <2>3. Cardinality(D) <= Cardinality(Threads \ {t})
    BY <2>1, <2>2, FS_Subset
  <2> QED
    BY <2>2, <2>3
<1>4. Cardinality(Jobs) \in Nat /\ Cardinality(Threads) \in Nat
  BY FS_CardinalityType, QueueSizeAssumption
<1> QED
  BY <1>1, <1>2, <1>3, <1>4, QueueSizeAssumption, DestroyQueueAssumption
  DEF CountIsExact, Full

-----------------------------------------------------------------------------
\* The empty ring satisfies the invariant and is the empty bag.
LEMMA InitInv == Init => IndInv /\ Bag!Init
<1> SUFFICES ASSUME Init PROVE IndInv /\ Bag!Init
  OBVIOUS
<1>1. /\ 0 \in Ring /\ 0 \in 0 .. RingSize /\ 0 \in 0 .. MaxBusy
      /\ Lives \in 0 .. Lives
  BY DestroyQueueAssumption DEF Ring
<1>2. \A t \in Threads : th[t].pc = "work"
  BY DEF Init, Local
<1>3. \A L : "work" \notin L => ThreadsAt(L) = {}
  BY <1>2 DEF ThreadsAt
<1>4. Segment = {}
  <2>1. \A k \in Ring : k \notin Segment
    <3>1. Ring \subseteq Int
      BY DEF Ring
    <3> QED
      BY <1>1, <3>1, SegmentRange DEF Segment, Init
  <2> QED
    BY <2>1 DEF Segment
<1>5. TypeOK
  <2>1. Local \in ThreadState
    BY <1>1 DEF Local, ThreadState, Labels
  <2>2. htc \in [head : Ring, tail : Ring, count : 0 .. RingSize]
    BY <1>1 DEF Init
  <2> QED
    BY <1>1, <2>1, <2>2 DEF Init, TypeOK
<1>6. Queued = {} /\ Taken = {}
  BY <1>3, <1>4 DEF Queued, Taken, Segment
<1>7. EntryInv
  BY <1>3, <1>4, <1>5
  DEF EntryInv, EntriesExclusive, ReadyMarksSegment, JobsOnce, Stored, Holders,
      InEntry, Init
<1>8. CountIsExact
  <2>1. ThreadsAt({"dec"}) = {} /\ htc.count = 0
    BY <1>3 DEF Init
  <2>2. /\ Cardinality(Queued) = 0 /\ Cardinality(Taken) = 0
        /\ Cardinality(ThreadsAt({"dec"})) = 0
    BY <1>6, <2>1, FS_EmptySet
  <2> QED
    BY <2>1, <2>2 DEF CountIsExact
<1> QED
  BY <1>6, <1>7, <1>8 DEF IndInv, QueueNeverFull, Init, Bag!Init

\* Every step of the ring is a step of the abstract bag and keeps IndInv.
LEMMA StepInv ==
  ASSUME IndInv, [Next]_vars, lapped' = FALSE
  PROVE  IndInv' /\ [Bag!Next]_(Bag!vars)
<1> DEFINE D == ThreadsAt({"dec"})
           Kept == EntryInv' /\ Queued' = Queued /\ Taken' = Taken
<1>1. lapped = FALSE /\ EntryInv /\ CountIsExact /\ notent = {}
  BY DEF IndInv, QueueNeverFull
<1>2. ASSUME Kept, D' = D, htc'.count = htc.count, notent' = notent
      PROVE  IndInv' /\ [Bag!Next]_(Bag!vars)
  BY <1>1, <1>2 DEF IndInv, CountIsExact, QueueNeverFull, Bag!vars
<1>3. ASSUME NEW t \in Threads, BeginDestroy(t)
      PROVE  IndInv' /\ [Bag!Next]_(Bag!vars)
  <2>1. D' = D /\ UNCHANGED <<htc, notent>>
    BY <1>1, <1>3 DEF BeginDestroy, At, ThreadsAt, EntryInv, TypeOK, ThreadState
  <2> QED
    BY <1>1, <1>2, <1>3, <2>1, BeginEffect
<1>4. ASSUME NEW t \in Threads, At(t, "check") \/ At(t, "work"), EnterQueueCheck(t)
      PROVE  IndInv' /\ [Bag!Next]_(Bag!vars)
  <2>1. /\ th \in [Threads -> ThreadState]
        /\ htc \in [head : Ring, tail : Ring, count : 0 .. RingSize]
    BY <1>1 DEF EntryInv, TypeOK
  <2>2. [Local EXCEPT !.pc = "pop", !.n = htc.count] \in ThreadState
    <3>1. htc.count \in 0 .. RingSize /\ 0 \in Ring
      BY <2>1, DestroyQueueAssumption DEF Ring
    <3>2. Local \in ThreadState
      BY <3>1, DestroyQueueAssumption DEF Local, ThreadState, Labels
    <3> QED
      BY <3>1, <3>2 DEF ThreadState, Labels
  <2>3. /\ th'[t].pc = "pop" /\ \A u \in Threads \ {t} : th'[u] = th[u]
        /\ th' \in [Threads -> ThreadState]
    BY <1>4, <2>1, <2>2 DEF EnterQueueCheck, Local
  <2>4. UNCHANGED <<buf, ready, htc, lives, alive, busy, notent>>
    BY <1>4 DEF EnterQueueCheck
  <2>5. TypeOK'
    BY <1>1, <2>3, <2>4 DEF EntryInv, TypeOK
  <2>6. Kept
    BY <1>1, <1>4, <2>3, <2>4, <2>5, ControlEffect DEF At, InEntry, HandLabels
  <2>7. D' = D
    BY <1>4, <2>3 DEF ThreadsAt, At
  <2> QED
    BY <1>2, <2>4, <2>6, <2>7
<1>5. ASSUME NEW t \in Threads, Push(t)
      PROVE  IndInv' /\ [Bag!Next]_(Bag!vars)
  <2>1. th[t].pc = "push" /\ ~Full
    BY <1>1, <1>5, CountBelowSize DEF Push, At
  <2>2. Reserve(t, TRUE) /\ UNCHANGED <<buf, ready, lives, alive, busy, notent>>
    BY <1>5, <2>1 DEF Push
  <2>3. /\ EntryInv'
        /\ Queued' = Queued \cup {th[t].job}
        /\ Taken' = Taken \ {th[t].job}
    BY <1>1, <2>1, <2>2, ReserveEffect
  <2>4. th[t].job \notin Queued /\ th[t].job \notin Taken
    BY <1>1, <2>1, PlacesApart DEF ThreadsAt
  <2>5. th[t].job \in Jobs
    BY <1>1, <2>1 DEF EntryInv, JobsOnce, Holders, ThreadsAt
  <2>6. D' = D /\ htc'.count = htc.count + 1
    BY <1>1, <2>1, <2>2 DEF Reserve, ThreadsAt, EntryInv, TypeOK, ThreadState
  <2>7. Taken' = Taken
    BY <2>3, <2>4
  <2>8. Cardinality(Queued') = Cardinality(Queued) + 1
    BY <1>1, <2>3, <2>4, FinitePlaces, FS_AddElement
  <2>9. CountIsExact'
    BY <1>1, <2>6, <2>7, <2>8, FinitePlaces DEF CountIsExact
  <2>10. Bag!Put(th[t].job)
    BY <2>3, <2>4, <2>7 DEF Bag!Put
  <2> QED
    BY <1>1, <2>2, <2>3, <2>5, <2>9, <2>10 DEF IndInv, QueueNeverFull, Bag!Next
<1>6. ASSUME NEW t \in Threads, StoreEntry(t)
      PROVE  IndInv' /\ [Bag!Next]_(Bag!vars)
  <2>1. D' = D /\ UNCHANGED <<htc, notent>>
    BY <1>1, <1>6 DEF StoreEntry, At, Goto, ThreadsAt, EntryInv, TypeOK, ThreadState
  <2> QED
    BY <1>1, <1>2, <1>6, <2>1, StoreEffect
<1>7. ASSUME NEW t \in Threads, MarkEntry(t)
      PROVE  IndInv' /\ [Bag!Next]_(Bag!vars)
  <2>1. D' = D /\ UNCHANGED <<htc, notent>>
    BY <1>1, <1>7 DEF MarkEntry, At, ThreadsAt, EntryInv, TypeOK, ThreadState
  <2> QED
    BY <1>1, <1>2, <1>7, <2>1, MarkEffect
<1>8. ASSUME NEW t \in Threads, SuperPop(t)
      PROVE  IndInv' /\ [Bag!Next]_(Bag!vars)
  <2>1. CASE th[t].n = 0 \/ ~CanPop
    <3>1. /\ th[t].pc = "pop" /\ th' = [th EXCEPT ![t] = Local]
          /\ UNCHANGED <<buf, ready, htc, lives, alive, busy, notent>>
          /\ th \in [Threads -> ThreadState]
      BY <1>1, <1>8, <2>1 DEF SuperPop, At, EntryInv, TypeOK
    <3>2. Local \in ThreadState
      BY DestroyQueueAssumption DEF Local, ThreadState, Labels, Ring
    <3>3. /\ th'[t].pc = "work" /\ \A u \in Threads \ {t} : th'[u] = th[u]
          /\ th' \in [Threads -> ThreadState]
      BY <3>1, <3>2 DEF Local
    <3>4. TypeOK'
      BY <1>1, <3>1, <3>3 DEF EntryInv, TypeOK
    <3>5. Kept
      BY <1>1, <3>1, <3>3, <3>4, ControlEffect DEF InEntry, HandLabels
    <3>6. D' = D
      BY <3>1, <3>3 DEF ThreadsAt
    <3> QED
      BY <1>2, <3>1, <3>5, <3>6
  <2>2. CASE ~(th[t].n = 0 \/ ~CanPop)
    <3> DEFINE j == buf[htc.tail]
    <3>1. /\ EntryInv' /\ j \in Queued
          /\ Queued' = Queued \ {j} /\ Taken' = Taken \cup {j}
      BY <1>1, <1>8, <2>2, PopEffect
    <3>2. D' = D /\ htc'.count = htc.count /\ notent' = notent
      BY <1>1, <1>8, <2>2
      DEF SuperPop, At, ThreadsAt, EntryInv, TypeOK, ThreadState
    <3> HIDE DEF j
    <3>3. j \in Jobs /\ j \notin Taken
      BY <1>1, <3>1, PlacesApart
    <3>4. /\ Cardinality(Queued') = Cardinality(Queued) - 1
          /\ Cardinality(Taken') = Cardinality(Taken) + 1
      BY <1>1, <3>1, <3>3, FinitePlaces, FS_AddElement, FS_RemoveElement
    <3>5. CountIsExact'
      BY <1>1, <3>2, <3>4, FinitePlaces DEF CountIsExact
    <3>6. Bag!Take(j)
      BY <3>1 DEF Bag!Take
    <3> QED
      BY <1>1, <3>1, <3>2, <3>3, <3>5, <3>6 DEF IndInv, QueueNeverFull, Bag!Next
  <2> QED
    BY <2>1, <2>2
<1>9. ASSUME NEW t \in Threads, LoadEntry(t)
      PROVE  IndInv' /\ [Bag!Next]_(Bag!vars)
  <2>1. D' = D /\ UNCHANGED <<htc, notent>>
    BY <1>1, <1>9 DEF LoadEntry, At, ThreadsAt, EntryInv, TypeOK, ThreadState
  <2> QED
    BY <1>1, <1>2, <1>9, <2>1, LoadEffect
<1>10. ASSUME NEW t \in Threads, ClearEntry(t)
       PROVE  IndInv' /\ [Bag!Next]_(Bag!vars)
  <2>1. D' = D /\ UNCHANGED <<htc, notent>>
    BY <1>1, <1>10 DEF ClearEntry, At, Goto, ThreadsAt, EntryInv, TypeOK, ThreadState
  <2> QED
    BY <1>1, <1>2, <1>10, <2>1, ClearEffect
<1>11. ASSUME NEW t \in Threads, DestroyNow(t)
       PROVE  IndInv' /\ [Bag!Next]_(Bag!vars)
  <2> DEFINE j == th[t].job
  <2>1. /\ EntryInv' /\ Queued' = Queued /\ j \in Taken
        /\ \/ th'[t].pc = "repush" /\ Taken' = Taken
           \/ th'[t].pc = "dec" /\ Taken' = Taken \ {j}
    BY <1>1, <1>11, DestroyEffect
  <2>2. /\ th[t].pc = "destroy" /\ \A u \in Threads \ {t} : th'[u] = th[u]
        /\ UNCHANGED <<htc, notent>>
    BY <1>1, <1>11 DEF DestroyNow, At, Goto, EntryInv, TypeOK
  <2> HIDE DEF j
  <2>3. CASE th'[t].pc = "repush" /\ Taken' = Taken
    <3>1. D' = D
      BY <2>2, <2>3 DEF ThreadsAt
    <3> QED
      BY <1>2, <2>1, <2>2, <2>3, <3>1
  <2>4. CASE th'[t].pc = "dec" /\ Taken' = Taken \ {j}
    <3>1. D' = D \cup {t} /\ t \notin D
      BY <2>2, <2>4 DEF ThreadsAt
    <3>2. /\ Cardinality(D') = Cardinality(D) + 1
          /\ Cardinality(Taken') = Cardinality(Taken) - 1
      BY <1>1, <2>1, <2>4, <3>1, FinitePlaces, FS_AddElement, FS_RemoveElement, ZenonT(60)
    <3>3. CountIsExact'
      BY <1>1, <2>1, <2>2, <3>2, FinitePlaces DEF CountIsExact
    <3>4. Bag!Drop(j) /\ j \in Jobs
      BY <1>1, <2>1, <2>4, PlacesApart DEF Bag!Drop
    <3> QED
      BY <1>1, <2>1, <2>2, <3>3, <3>4 DEF IndInv, QueueNeverFull, Bag!Next
  <2> QED
    BY <2>1, <2>3, <2>4
<1>12. ASSUME NEW t \in Threads, SuperPush(t)
       PROVE  IndInv' /\ [Bag!Next]_(Bag!vars)
  <2> DEFINE j == th[t].job
  <2>1. th[t].pc = "repush" /\ ~Full
    BY <1>1, <1>12, CountBelowSize DEF SuperPush, At
  <2>2. Reserve(t, FALSE) /\ UNCHANGED <<buf, ready, lives, alive, busy, notent>>
    BY <1>12, <2>1 DEF SuperPush
  <2>3. EntryInv' /\ Queued' = Queued \cup {j} /\ Taken' = Taken \ {j}
    BY <1>1, <2>1, <2>2, ReserveEffect
  <2>4. j \in Taken
    BY <2>1 DEF Taken, ThreadsAt
  <2>5. j \in Jobs /\ j \notin Queued
    BY <1>1, <2>4, PlacesApart
  <2>6. D' = D /\ htc'.count = htc.count
    BY <1>1, <2>1, <2>2 DEF Reserve, ThreadsAt, EntryInv, TypeOK, ThreadState
  <2>7. /\ Cardinality(Queued') = Cardinality(Queued) + 1
        /\ Cardinality(Taken') = Cardinality(Taken) - 1
    BY <1>1, <2>3, <2>4, <2>5, FinitePlaces, FS_AddElement, FS_RemoveElement
  <2>8. CountIsExact'
    BY <1>1, <2>6, <2>7, FinitePlaces DEF CountIsExact
  <2>9. Bag!Again(j)
    BY <2>3, <2>4 DEF Bag!Again
  <2> QED
    BY <1>1, <2>2, <2>3, <2>5, <2>8, <2>9 DEF IndInv, QueueNeverFull, Bag!Next
<1>13. ASSUME NEW t \in Threads, DecCount(t)
       PROVE  IndInv' /\ [Bag!Next]_(Bag!vars)
  <2>1. /\ th[t].pc = "dec" /\ htc' = [htc EXCEPT !.count = @ - 1]
        /\ UNCHANGED <<buf, ready, lives, alive, busy, notent>>
        /\ th \in [Threads -> ThreadState]
        /\ htc \in [head : Ring, tail : Ring, count : 0 .. RingSize]
    BY <1>1, <1>13 DEF DecCount, At, EntryInv, TypeOK
  <2>2. /\ th'[t].pc = "pop" /\ \A u \in Threads \ {t} : th'[u] = th[u]
        /\ th' \in [Threads -> ThreadState]
    BY <1>13, <2>1 DEF DecCount, Goto, ThreadState, Labels
  <2>3. D' = D \ {t} /\ t \in D
    BY <2>1, <2>2 DEF ThreadsAt
  <2>4. Cardinality(D') = Cardinality(D) - 1 /\ Cardinality(D) # 0
    BY <1>1, <2>3, FinitePlaces, FS_RemoveElement, FS_EmptySet
  <2>5. htc.count \in Nat /\ htc.count # 0
    BY <1>1, <2>4, FinitePlaces DEF CountIsExact
  <2>6. htc' \in [head : Ring, tail : Ring, count : 0 .. RingSize]
    <3>1. htc.count - 1 \in 0 .. RingSize
      BY <2>1, <2>5, DestroyQueueAssumption
    <3> QED
      BY <2>1, <3>1
  <2>7. TypeOK'
    BY <1>1, <2>1, <2>2, <2>6 DEF EntryInv, TypeOK
  <2>8. Kept
    BY <1>1, <2>1, <2>2, <2>7, ControlEffect DEF InEntry, HandLabels
  <2>9. htc'.count = htc.count - 1
    BY <2>1
  <2>10. CountIsExact'
    BY <1>1, <2>4, <2>5, <2>8, <2>9, FinitePlaces DEF CountIsExact
  <2> QED
    BY <1>1, <2>1, <2>8, <2>10 DEF IndInv, QueueNeverFull, Bag!vars
<1>14. CASE UNCHANGED vars
  <2>1. Kept /\ D' = D
    BY <1>1, <1>14
    DEF vars, EntryInv, TypeOK, EntriesExclusive, ReadyMarksSegment, JobsOnce,
        Stored, Holders, Segment, ThreadsAt, Queued, Taken
  <2> QED
    BY <1>2, <1>14, <2>1 DEF vars
<1> QED
  BY <1>3, <1>4, <1>5, <1>6, <1>7, <1>8, <1>9, <1>10, <1>11, <1>12, <1>13, <1>14
  DEF Next, QueueStep, QueueCheck, IdleCheck

-----------------------------------------------------------------------------
(* The theorems. *)

\* What holds as long as no entry has been lapped.
Inv == lapped = TRUE \/ IndInv

\* A lapped ring stays lapped; until then the invariant is kept, and every
\* step that does not lap is a step of the abstract bag.
LEMMA StepUnlessLapped ==
  ASSUME Inv, [Next]_vars
  PROVE  Inv' /\ [lapped' \/ Bag!Next]_(Bag!vars)
<1>1. \/ lapped' = lapped
      \/ lapped' = (lapped \/ htc.head \in EntriesInUse)
  BY DEF Next, vars, QueueStep, BeginDestroy, IdleCheck, QueueCheck,
         EnterQueueCheck, Push, StoreEntry, MarkEntry, SuperPop, LoadEntry,
         ClearEntry, DestroyNow, SuperPush, DecCount, Reserve
<1>2. lapped \in BOOLEAN
  BY DEF Inv, IndInv
<1>3. lapped' \in BOOLEAN /\ (lapped = TRUE => lapped' = TRUE)
  BY <1>1, <1>2
<1>4. CASE lapped' = TRUE
  BY <1>4 DEF Inv
<1>5. CASE lapped' = FALSE
  <2>1. IndInv
    BY <1>3, <1>5 DEF Inv
  <2> QED
    BY <1>5, <2>1, StepInv DEF Inv
<1> QED
  BY <1>3, <1>4, <1>5

\* The packed word's head and tail stay inside the ring and its count between
\* 0 and the size, whatever the pushes, pops and dq_dec_count of the threads
\* do to them, as long as no push has lapped a thread.
THEOREM TypeCorrect == Spec => [](lapped \/ TypeOK)
<1>1. Inv /\ [Next]_vars => Inv'
  BY StepUnlessLapped
<1>2. Inv => lapped \/ TypeOK
  BY DEF Inv, IndInv, EntryInv
<1>3. Init => Inv
  BY InitInv DEF Inv
<1> QED
  BY <1>1, <1>2, <1>3, PTL DEF Spec

\* dq_push and dq_super_push never find the queue full, so no job is marked
\* DESTROYNOTENT or lost by the push whose result nobody looks at, as long as
\* no push has lapped a thread.
THEOREM NeverFull == Spec => []QueueNeverFull
<1>1. Inv /\ [Next]_vars => Inv'
  BY StepUnlessLapped
<1>2. Inv => QueueNeverFull
  BY DEF Inv, IndInv, QueueNeverFull
<1>3. Init => Inv
  BY InitInv DEF Inv
<1> QED
  BY <1>1, <1>2, <1>3, PTL DEF Spec

\* The count of the packed word is the number of jobs that wait, are in a
\* thread's hand, or are destroyed and not counted down yet by dq_dec_count,
\* as long as no push has lapped a thread.
THEOREM CountExact == Spec => []CountIsExact
<1>1. Inv /\ [Next]_vars => Inv'
  BY StepUnlessLapped
<1>2. Inv => CountIsExact
  BY DEF Inv, IndInv, CountIsExact
<1>3. Init => Inv
  BY InitInv DEF Inv
<1> QED
  BY <1>1, <1>2, <1>3, PTL DEF Spec

\* The ring implements the abstract bag of jobs: a push adds the job, exactly
\* one dq_super_pop takes it, and it is put back or destroyed by that thread.
\* A step that is none of the bag is, or comes after, a push that took an
\* entry in which another thread was still at work.
THEOREM ImplementsBag == Spec => QueueSpec
<1>1. Inv /\ [Next]_vars => Inv' /\ [lapped' \/ Bag!Next]_(Bag!vars)
  BY StepUnlessLapped
<1>2. Init => Inv
  BY InitInv DEF Inv
<1> QED
  BY InitInv, <1>1, <1>2, PTL DEF Spec, QueueSpec
=============================================================================
