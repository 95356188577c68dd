------------------------- MODULE SocketStreamProofs -------------------------
(***************************************************************************)
(* Proofs about SocketStream, for every buffer size, condition, size of a  *)
(* request, program of the job and the peer, and room in the kernel.       *)
(*                                                                         *)
(* The invariant IndInv says where every byte is.  A buffer holds Left(d)  *)
(* bytes from position First(d) on, and the next byte goes to End(d); the  *)
(* three differ from the positions and the counts that the code keeps by   *)
(* the transfers under way, because each thread moves bytes, then adds to  *)
(* the word, then stores its position (JobTransfer and EpTransfer: what a  *)
(* thread saw in the word can only have changed in its favour since).  The *)
(* bytes in the buffer, in the kernel and delivered are numbered through.  *)
(*                                                                         *)
(* FlagsInv is the argument for the readiness flags: a flag is current or  *)
(* the job is about to compute it, and a compare-and-swap of the epoll     *)
(* thread that will succeed computes with the condition of now or comes    *)
(* before the job's own.  A step keeps it unless the thread is overtaken.  *)
(***************************************************************************)
EXTENDS SocketStream, SequenceTheorems, TLAPS

\* Bytes that have left one ring position pointer behind: those the job has
\* copied out of the read buffer, and those the epoll thread has moved.
Taking == IF job.pc \in {"read_add", "read_tail"} THEN job.n ELSE 0
Moved(d) ==
  IF ep.dir = d /\ ep.pc \in {"rest", "add", "cas", "store"} THEN ep.n ELSE 0

\* Bytes in a buffer, and where the first of them and the next one go.
Left(d) == put[d] - Len(queue[d]) - Len(got[d])
First(d) ==
  IF d = "in" THEN (jobpos["in"] + Taking) % BufferSize
              ELSE (eppos["out"] + Moved("out")) % BufferSize
End(d) ==
  IF d = "in" THEN (eppos["in"] + Moved("in")) % BufferSize ELSE jobpos["out"]

\* Bytes that a transfer has moved and that the word does not count yet.
ReadDue  == IF job.pc = "read_add" THEN job.n ELSE 0
WriteDue == IF job.pc = "buffer_add" THEN job.n ELSE 0
MoveDue(d) ==
  IF ep.dir = d /\ ep.pc \in {"rest", "add", "cas"} THEN ep.n ELSE 0

\* The number of the last byte before those in the buffer, and before those
\* in the kernel.
BufferBase(d) ==
  Len(got[d]) + IF d = "in" THEN 0 ELSE Len(queue[d])
QueueBase(d) ==
  Len(got[d]) + IF d = "in" THEN Left(d) ELSE 0

\* The position k after pos, and a buffer r with bytes b + 1 to b + n from
\* position f on.
At(pos, k) == (pos + k) % BufferSize
Holds(r, f, n, b) == \A k \in 0 .. n - 1 : r[At(f, k)] = b + k + 1

\* What is in a buffer, in the kernel and delivered is in order.
InOrder(d) ==
  /\ End(d) = At(First(d), Left(d))
  /\ Holds(ring[d], First(d), Left(d), BufferBase(d))
  /\ \A k \in 1 .. Len(queue[d]) : queue[d][k] = QueueBase(d) + k
  /\ \A k \in 1 .. Len(got[d]) : got[d][k] = k
BytesInOrder == InOrder("in") /\ InOrder("out")

\* What a thread has seen of the word is still true in its favour: only the
\* other thread has changed it.
JobTransfer ==
  /\ job.pc \in {"read", "read_add"} => job.n <= htc.count
  /\ job.pc = "send" => htc.avail = BufferSize
  /\ job.pc \in {"buffer_copy", "buffer_add"} => job.n <= htc.avail

EpTransfer ==
  /\ ep.pc \in {"move", "rest", "add", "cas"} =>
       /\ 0 < ep.size
       /\ ep.size <= BufferSize - IF ep.dir = "in" THEN htc.count ELSE htc.avail
  /\ ep.pc \in {"rest", "add", "cas", "store"} => 0 < ep.n /\ ep.n <= ep.size
  /\ ep.pc = "rest" => ep.n = BufferSize - eppos[ep.dir]

NoTimeout == "TIMEOUT" \notin htc.flags

\* The kernel takes no more than it has room for.
RoomKept == Len(queue["out"]) <= SendRoom

IndInv ==
  /\ TypeOK
  /\ CountsAreExact
  /\ BytesInOrder
  /\ JobTransfer
  /\ EpTransfer
  /\ NoTimeout
  /\ RoomKept

\* The flag of a direction is current, unless the job is about to compute it.
FlagsOf(d) ==
  IF d = "in" THEN "READ_READY" \in htc.flags <=> htc.count >= cond["in"]
              ELSE "WRITE_READY" \in htc.flags <=> htc.avail >= cond["out"]
Settling(d) == job.pc = "cond_add" /\ job.dir = d
FlagsSettled == \A d \in Dirs : Settling(d) \/ FlagsOf(d)

\* A compare-and-swap that will succeed stores the flag for the condition of
\* now, or the job computes it once more.
CasCurrent ==
  ep.pc = "cas" /\ htc = ep.old =>
    ep.cond = cond[ep.dir] \/ Settling(ep.dir)

FlagsInv == FlagsSettled /\ CasCurrent

-----------------------------------------------------------------------------
(* The ring: positions wrap, and a buffer holds a run of numbered bytes. *)

\* Positions are computed modulo the size from numbers below twice the size.
LEMMA Wrap ==
  ASSUME NEW x \in Nat, x < BufferSize + BufferSize
  PROVE  /\ x % BufferSize = IF x < BufferSize THEN x ELSE x - BufferSize
         /\ x % BufferSize \in Pos
<1>1. BufferSize \in Nat \ {0}
  BY SocketWordAssumption
<1>2. ASSUME NEW R \in Nat \ {0}, NEW y \in Nat, y < R PROVE y % R = y
  BY <1>2, SMT
<1>3. ASSUME NEW R \in Nat \ {0}, NEW y \in Nat, R <= y, y < R + R
      PROVE  y % R = y - R
  BY <1>3, SMT
<1>4. CASE x < BufferSize
  BY <1>1, <1>2, <1>4 DEF Pos
<1>5. CASE ~(x < BufferSize)
  <2>1. BufferSize <= x
    BY <1>1, <1>5
  <2>2. x % BufferSize = x - BufferSize
    BY <1>1, <1>3, <2>1
  <2> QED
    BY <1>1, <1>5, <2>2 DEF Pos
<1> QED
  BY <1>4, <1>5

\* A position and how far to go on from it.
LEMMA AtWraps ==
  ASSUME NEW pos \in Pos, NEW k \in 0 .. BufferSize
  PROVE  /\ At(pos, k) = IF pos + k < BufferSize THEN pos + k
                         ELSE pos + k - BufferSize
         /\ At(pos, k) \in Pos
<1>1. BufferSize \in Nat \ {0} /\ pos \in Nat /\ k \in Nat /\ pos < BufferSize
      /\ k <= BufferSize
  BY SocketWordAssumption DEF Pos
<1>2. pos + k \in Nat /\ pos + k < BufferSize + BufferSize
  BY <1>1
<1> DEFINE x == pos + k
<1>3. x \in Nat /\ x < BufferSize + BufferSize
  BY <1>2
<1> HIDE DEF x
<1>4. /\ x % BufferSize = IF x < BufferSize THEN x ELSE x - BufferSize
      /\ x % BufferSize \in Pos
  BY <1>3, Wrap
<1> QED
  BY <1>1, <1>4 DEF At, x

\* The buffer r after s was copied to position pos.
Fill(r, pos, s) ==
  [i \in Pos |->
     IF \E k \in 1 .. Len(s) : i = (pos + k - 1) % BufferSize
     THEN s[CHOOSE k \in 1 .. Len(s) : i = (pos + k - 1) % BufferSize]
     ELSE r[i]]

\* A copy changes the positions it is made to and no other.
LEMMA FillEntries ==
  ASSUME NEW r \in [Pos -> Nat], NEW pos \in Pos, NEW s \in Seq(Nat),
         Len(s) <= BufferSize
  PROVE  /\ Fill(r, pos, s) \in [Pos -> Nat]
         /\ \A k \in 1 .. Len(s) : Fill(r, pos, s)[At(pos, k - 1)] = s[k]
         /\ \A i \in Pos :
              (\A k \in 1 .. Len(s) : i # At(pos, k - 1)) =>
                Fill(r, pos, s)[i] = r[i]
<1>1. /\ BufferSize \in Nat \ {0} /\ Len(s) \in Nat /\ pos \in Nat
      /\ pos < BufferSize /\ \A k \in 1 .. Len(s) : s[k] \in Nat
  BY SocketWordAssumption, LenProperties, ElementOfSeq DEF Pos
<1>2. \A k \in 1 .. Len(s) : /\ At(pos, k - 1) = (pos + k - 1) % BufferSize
                             /\ At(pos, k - 1) \in Pos
  <2> SUFFICES ASSUME NEW k \in 1 .. Len(s)
               PROVE  /\ At(pos, k - 1) = (pos + k - 1) % BufferSize
                      /\ At(pos, k - 1) \in Pos
    OBVIOUS
  <2>1. k - 1 \in 0 .. BufferSize /\ pos + (k - 1) = pos + k - 1
    BY <1>1
  <2> QED
    BY <2>1, AtWraps DEF At
<1>3. \A k, l \in 1 .. Len(s) : At(pos, k - 1) = At(pos, l - 1) => k = l
  <2> SUFFICES ASSUME NEW k \in 1 .. Len(s), NEW l \in 1 .. Len(s),
                      At(pos, k - 1) = At(pos, l - 1)
               PROVE  k = l
    OBVIOUS
  <2>1. k - 1 \in 0 .. BufferSize /\ l - 1 \in 0 .. BufferSize
    BY <1>1
  <2>2. /\ At(pos, k - 1) = IF pos + (k - 1) < BufferSize THEN pos + (k - 1)
                            ELSE pos + (k - 1) - BufferSize
        /\ At(pos, l - 1) = IF pos + (l - 1) < BufferSize THEN pos + (l - 1)
                            ELSE pos + (l - 1) - BufferSize
    BY <2>1, AtWraps
  <2> QED
    BY <1>1, <2>2, SMTT(30)
<1> DEFINE entry(i) == CHOOSE k \in 1 .. Len(s) : i = (pos + k - 1) % BufferSize
<1>4. \A i \in Pos : (\E k \in 1 .. Len(s) : i = (pos + k - 1) % BufferSize) =>
        entry(i) \in 1 .. Len(s) /\ i = (pos + entry(i) - 1) % BufferSize
  OBVIOUS
<1>5. \A k \in 1 .. Len(s) : entry(At(pos, k - 1)) = k
  <2> SUFFICES ASSUME NEW k \in 1 .. Len(s) PROVE entry(At(pos, k - 1)) = k
    OBVIOUS
  <2>1. /\ entry(At(pos, k - 1)) \in 1 .. Len(s)
        /\ At(pos, k - 1) = (pos + entry(At(pos, k - 1)) - 1) % BufferSize
    BY <1>2, <1>4
  <2>2. At(pos, k - 1) = At(pos, entry(At(pos, k - 1)) - 1)
    BY <1>2, <2>1
  <2> QED
    BY <1>3, <2>1, <2>2
<1> HIDE DEF entry
<1>6. \A i \in Pos : Fill(r, pos, s)[i] =
        IF \E k \in 1 .. Len(s) : i = (pos + k - 1) % BufferSize
        THEN s[entry(i)] ELSE r[i]
  BY DEF Fill, entry
<1>7. Fill(r, pos, s) \in [Pos -> Nat]
  <2>1. \A i \in Pos : Fill(r, pos, s)[i] \in Nat
    BY <1>1, <1>4, <1>6
  <2>2. Fill(r, pos, s) = [i \in Pos |-> Fill(r, pos, s)[i]]
    BY DEF Fill
  <2> QED
    BY <2>1, <2>2
<1>8. \A k \in 1 .. Len(s) : Fill(r, pos, s)[At(pos, k - 1)] = s[k]
  BY <1>2, <1>5, <1>6
<1>9. \A i \in Pos : (\A k \in 1 .. Len(s) : i # At(pos, k - 1)) =>
        Fill(r, pos, s)[i] = r[i]
  BY <1>2, <1>6
<1> QED
  BY <1>7, <1>8, <1>9

\* A copy behind the bytes of a buffer adds to them and disturbs none.
LEMMA HoldsMore ==
  ASSUME NEW r \in [Pos -> Nat], NEW f \in Pos, NEW n \in Nat, NEW b \in Nat,
         NEW s \in Seq(Nat), n + Len(s) <= BufferSize, Holds(r, f, n, b),
         \A k \in 1 .. Len(s) : s[k] = b + n + k
  PROVE  /\ Holds(Fill(r, At(f, n), s), f, n + Len(s), b)
         /\ At(At(f, n), Len(s)) = At(f, n + Len(s))
<1> DEFINE pos == At(f, n)
           L == Len(s)
<1>1. /\ BufferSize \in Nat \ {0} /\ L \in Nat /\ f \in Nat /\ f < BufferSize
      /\ n \in 0 .. BufferSize /\ L \in 0 .. BufferSize
      /\ n + L \in 0 .. BufferSize
  BY SocketWordAssumption, LenProperties DEF Pos
<1>2. /\ pos \in Pos
      /\ pos = IF f + n < BufferSize THEN f + n ELSE f + n - BufferSize
  BY <1>1, AtWraps
<1>3. \A k \in 0 .. BufferSize :
        /\ At(f, k) = IF f + k < BufferSize THEN f + k ELSE f + k - BufferSize
        /\ At(f, k) \in Pos
        /\ At(pos, k) = IF pos + k < BufferSize THEN pos + k
                        ELSE pos + k - BufferSize
  BY <1>2, AtWraps
<1>4. pos \in Nat /\ pos < BufferSize
  BY <1>1, <1>2 DEF Pos
<1> HIDE DEF pos, L
<1>5. /\ \A k \in 1 .. L : Fill(r, pos, s)[At(pos, k - 1)] = s[k]
      /\ \A i \in Pos : (\A k \in 1 .. L : i # At(pos, k - 1)) =>
           Fill(r, pos, s)[i] = r[i]
  <2>1. Len(s) <= BufferSize
    BY <1>1 DEF L
  <2> QED
    BY <1>2, <2>1, FillEntries DEF L
<1>6. ASSUME NEW k \in 0 .. L PROVE At(f, n + k) = At(pos, k)
  <2>1. k \in 0 .. BufferSize /\ n + k \in 0 .. BufferSize
    BY <1>1
  <2>2. /\ At(f, n + k) = IF f + (n + k) < BufferSize THEN f + (n + k)
                          ELSE f + (n + k) - BufferSize
        /\ At(pos, k) = IF pos + k < BufferSize THEN pos + k
                        ELSE pos + k - BufferSize
    BY <1>3, <2>1
  <2> QED
    BY <1>1, <1>2, <1>4, <2>1, <2>2
<1>7. ASSUME NEW k \in 0 .. n - 1, NEW l \in 1 .. L
      PROVE  At(f, k) # At(pos, l - 1)
  <2>1. /\ k \in 0 .. BufferSize /\ l - 1 \in 0 .. BufferSize
        /\ n + (l - 1) \in 0 .. BufferSize /\ l - 1 \in 0 .. L
    BY <1>1
  <2>2. At(pos, l - 1) = At(f, n + (l - 1))
    BY <1>6, <2>1
  <2>3. /\ At(f, k) = IF f + k < BufferSize THEN f + k ELSE f + k - BufferSize
        /\ At(f, n + (l - 1)) = IF f + (n + (l - 1)) < BufferSize
                                THEN f + (n + (l - 1))
                                ELSE f + (n + (l - 1)) - BufferSize
    BY <1>3, <2>1
  <2> QED
    BY <1>1, <2>1, <2>2, <2>3
<1>8. At(pos, L) = At(f, n + L)
  BY <1>1, <1>6
<1>9. ASSUME NEW k \in 0 .. (n + L) - 1
      PROVE  Fill(r, pos, s)[At(f, k)] = b + k + 1
  <2>1. CASE k < n
    <3>1. k \in 0 .. n - 1 /\ k \in 0 .. BufferSize
      BY <1>1, <2>1
    <3>2. Fill(r, pos, s)[At(f, k)] = r[At(f, k)]
      BY <1>3, <1>5, <1>7, <3>1
    <3> QED
      BY <3>1, <3>2 DEF Holds
  <2>2. CASE ~(k < n)
    <3> DEFINE l == k - n
    <3>1. l \in 0 .. L - 1 /\ l + 1 \in 1 .. L /\ k = n + l
      BY <1>1, <2>2
    <3> HIDE DEF l
    <3>2. At(f, k) = At(pos, l)
      BY <1>1, <1>6, <3>1
    <3>3. Fill(r, pos, s)[At(pos, l)] = s[l + 1]
      <4>1. (l + 1) - 1 = l
        BY <1>1, <3>1
      <4>2. Fill(r, pos, s)[At(pos, (l + 1) - 1)] = s[l + 1]
        BY <1>5, <3>1
      <4> QED
        BY <4>1, <4>2
    <3>4. s[l + 1] = b + n + (l + 1)
      BY <3>1 DEF L
    <3> QED
      BY <1>1, <3>1, <3>2, <3>3, <3>4
  <2> QED
    BY <2>1, <2>2
<1> QED
  BY <1>8, <1>9 DEF Holds, pos, L

\* The first m bytes of a buffer are the next ones, and the rest remains.
LEMMA HoldsLess ==
  ASSUME NEW r, NEW f \in Pos, NEW n \in 0 .. BufferSize, NEW b \in Nat,
         NEW m \in 0 .. n, Holds(r, f, n, b)
  PROVE  /\ Holds(r, At(f, m), n - m, b + m)
         /\ At(f, m) \in Pos
         /\ At(At(f, m), n - m) = At(f, n)
         /\ \A k \in 1 .. m : r[(f + k - 1) % BufferSize] = b + k
<1>1. /\ BufferSize \in Nat \ {0} /\ f \in Nat /\ f < BufferSize
      /\ n \in Nat /\ m \in Nat /\ m <= n /\ n <= BufferSize
  BY SocketWordAssumption DEF Pos
<1> DEFINE g == At(f, m)
<1>2. g \in Pos /\ g = IF f + m < BufferSize THEN f + m ELSE f + m - BufferSize
  BY <1>1, AtWraps
<1>3. g \in Nat /\ g < BufferSize
  BY <1>1, <1>2 DEF Pos
<1>4. \A k \in 0 .. BufferSize :
        /\ At(f, k) = IF f + k < BufferSize THEN f + k ELSE f + k - BufferSize
        /\ At(g, k) = IF g + k < BufferSize THEN g + k ELSE g + k - BufferSize
  BY <1>2, AtWraps
<1> HIDE DEF g
<1>5. \A k \in 0 .. n - m : At(g, k) = At(f, m + k)
  BY <1>1, <1>2, <1>3, <1>4
<1>6. At(g, n - m) = At(f, n)
  BY <1>1, <1>2, <1>3, <1>4
<1>7. Holds(r, g, n - m, b + m)
  <2> SUFFICES ASSUME NEW k \in 0 .. (n - m) - 1
               PROVE  r[At(g, k)] = b + m + k + 1
    BY DEF Holds
  <2>1. m + k \in 0 .. n - 1 /\ k \in 0 .. n - m
    BY <1>1
  <2>2. r[At(f, m + k)] = b + (m + k) + 1
    BY <2>1 DEF Holds
  <2> QED
    BY <1>1, <1>5, <2>1, <2>2
<1>8. ASSUME NEW k \in 1 .. m PROVE r[(f + k - 1) % BufferSize] = b + k
  <2>1. k - 1 \in 0 .. n - 1 /\ f + (k - 1) = f + k - 1 /\ k \in Nat
    BY <1>1
  <2>2. r[At(f, k - 1)] = b + (k - 1) + 1
    BY <2>1 DEF Holds
  <2> QED
    BY <2>1, <2>2 DEF At
<1> QED
  BY <1>2, <1>6, <1>7, <1>8 DEF g

\* The n bytes after byte b, as a sequence.
Run(b, n) == [k \in 1 .. n |-> b + k]

\* It is a sequence of n numbers.
LEMMA RunIsSeq ==
  ASSUME NEW b \in Nat, NEW n \in Nat
  PROVE  /\ Run(b, n) \in Seq(Nat) /\ Len(Run(b, n)) = n
         /\ \A k \in 1 .. n : Run(b, n)[k] = b + k
<1>1. Run(b, n) \in [1 .. n -> Nat]
  BY DEF Run
<1>2. Run(b, n) \in Seq(Nat)
  BY <1>1, SeqDef
<1>3. Len(Run(b, n)) = n
  <2>1. DOMAIN Run(b, n) = 1 .. n /\ DOMAIN Run(b, n) = 1 .. Len(Run(b, n))
    BY <1>1, <1>2, LenProperties
  <2> QED
    BY <2>1, <1>2, LenProperties
<1> QED
  BY <1>2, <1>3 DEF Run

\* A sequence of the bytes after byte b.
Numbered(s, b) == \A k \in 1 .. Len(s) : s[k] = b + k

\* Numbered bytes with the next ones behind them are numbered bytes.
LEMMA RunAppended ==
  ASSUME NEW s \in Seq(Nat), NEW n \in Nat, NEW b \in Nat, NEW c \in Nat,
         c = b + Len(s), Numbered(s, b)
  PROVE  /\ s \o Run(c, n) \in Seq(Nat)
         /\ Len(s \o Run(c, n)) = Len(s) + n
         /\ Numbered(s \o Run(c, n), b)
<1>1. Len(s) \in Nat
  BY LenProperties
<1> DEFINE t == Run(c, n)
<1>3. t \in Seq(Nat) /\ Len(t) = n /\ \A k \in 1 .. n : t[k] = c + k
  BY RunIsSeq
<1> HIDE DEF t
<1>4. /\ s \o t \in Seq(Nat) /\ Len(s \o t) = Len(s) + Len(t)
      /\ \A k \in 1 .. Len(s) + Len(t) :
           (s \o t)[k] = IF k <= Len(s) THEN s[k] ELSE t[k - Len(s)]
  BY <1>3, ConcatProperties
<1>5. ASSUME NEW k \in 1 .. Len(s) + n PROVE (s \o t)[k] = b + k
  <2>1. CASE k <= Len(s)
    BY <1>1, <1>3, <1>4, <2>1 DEF Numbered
  <2>2. CASE ~(k <= Len(s))
    <3>1. k - Len(s) \in 1 .. n /\ (s \o t)[k] = t[k - Len(s)]
      BY <1>1, <1>3, <1>4, <2>2
    <3>2. t[k - Len(s)] = c + (k - Len(s))
      BY <1>3, <3>1
    <3> QED
      BY <1>1, <3>1, <3>2
  <2> QED
    BY <2>1, <2>2
<1> QED
  BY <1>3, <1>4, <1>5 DEF t, Numbered

\* The same for bytes that begin with the first one.
LEMMA RunDelivered ==
  ASSUME NEW s \in Seq(Nat), NEW n \in Nat, \A k \in 1 .. Len(s) : s[k] = k
  PROVE  /\ s \o Run(Len(s), n) \in Seq(Nat)
         /\ Len(s \o Run(Len(s), n)) = Len(s) + n
         /\ \A k \in 1 .. Len(s) + n : (s \o Run(Len(s), n))[k] = k
<1>1. Len(s) \in Nat
  BY LenProperties
<1> DEFINE t == Run(Len(s), n)
<1>2. t \in Seq(Nat) /\ Len(t) = n /\ \A k \in 1 .. n : t[k] = Len(s) + k
  BY <1>1, RunIsSeq
<1> HIDE DEF t
<1>3. /\ s \o t \in Seq(Nat) /\ Len(s \o t) = Len(s) + Len(t)
      /\ \A k \in 1 .. Len(s) + Len(t) :
           (s \o t)[k] = IF k <= Len(s) THEN s[k] ELSE t[k - Len(s)]
  BY <1>2, ConcatProperties
<1>4. ASSUME NEW k \in 1 .. Len(s) + n PROVE (s \o t)[k] = k
  <2>1. CASE k <= Len(s)
    BY <1>1, <1>2, <1>3, <2>1
  <2>2. CASE ~(k <= Len(s))
    <3>1. k - Len(s) \in 1 .. n /\ (s \o t)[k] = t[k - Len(s)]
      BY <1>1, <1>2, <1>3, <2>2
    <3>2. t[k - Len(s)] = Len(s) + (k - Len(s))
      BY <1>2, <3>1
    <3> QED
      BY <1>1, <3>1, <3>2
  <2> QED
    BY <2>1, <2>2
<1> QED
  BY <1>2, <1>3, <1>4 DEF t

-----------------------------------------------------------------------------
(* The word. *)

\* The computation of READY leaves every other flag alone.
LEMMA ReadyOnly ==
  ASSUME NEW F \in SUBSET SocketFlag
  PROVE  /\ WithReady(F) \in SUBSET SocketFlag
         /\ \A f : f # "READY" => (f \in WithReady(F) <=> f \in F)
BY DEF WithReady, SocketFlag

\* count_add changes the count and its flag, and nothing of the write side.
LEMMA CountAdd ==
  ASSUME NEW h \in HtcWord, "TIMEOUT" \notin h.flags, NEW delta \in Int,
         NEW dead \in BOOLEAN, NEW c \in Nat,
         h.count + delta \in 0 .. BufferSize
  PROVE  LET g == count_add(h, delta, dead, c) IN
         /\ g \in HtcWord /\ "TIMEOUT" \notin g.flags
         /\ g.count = h.count + delta /\ g.avail = h.avail
         /\ "READ_READY" \in g.flags <=> g.count >= c
         /\ "WRITE_READY" \in g.flags <=> "WRITE_READY" \in h.flags
<1> DEFINE F == (h.flags \ {"READ_READY"})
                  \cup FlagIf(h.count + delta >= c, "READ_READY")
                  \cup FlagIf(dead, "DEAD")
<1>1. /\ F \in SUBSET SocketFlag /\ "TIMEOUT" \notin F
      /\ "READ_READY" \in F <=> h.count + delta >= c
      /\ "WRITE_READY" \in F <=> "WRITE_READY" \in h.flags
  BY DEF FlagIf, HtcWord, SocketFlag
<1> HIDE DEF F
<1>2. /\ WithReady(F) \in SUBSET SocketFlag /\ "TIMEOUT" \notin WithReady(F)
      /\ "READ_READY" \in WithReady(F) <=> h.count + delta >= c
      /\ "WRITE_READY" \in WithReady(F) <=> "WRITE_READY" \in h.flags
  BY <1>1, ReadyOnly
<1>3. count_add(h, delta, dead, c) =
        [h EXCEPT !.count = h.count + delta, !.flags = WithReady(F)]
  BY DEF count_add, F, HtcWord
<1> QED
  BY <1>2, <1>3 DEF HtcWord

\* avail_add changes the free room and its flag, and nothing of the read side.
LEMMA AvailAdd ==
  ASSUME NEW h \in HtcWord, "TIMEOUT" \notin h.flags, NEW delta \in Int,
         NEW dead \in BOOLEAN, NEW c \in Nat,
         h.avail + delta \in 0 .. BufferSize
  PROVE  LET g == avail_add(h, delta, dead, c) IN
         /\ g \in HtcWord /\ "TIMEOUT" \notin g.flags
         /\ g.avail = h.avail + delta /\ g.count = h.count
         /\ "WRITE_READY" \in g.flags <=> g.avail >= c
         /\ "READ_READY" \in g.flags <=> "READ_READY" \in h.flags
<1> DEFINE F == (h.flags \ {"WRITE_READY"})
                  \cup FlagIf(h.avail + delta >= c, "WRITE_READY")
                  \cup FlagIf(dead, "DEAD")
<1>1. /\ F \in SUBSET SocketFlag /\ "TIMEOUT" \notin F
      /\ "WRITE_READY" \in F <=> h.avail + delta >= c
      /\ "READ_READY" \in F <=> "READ_READY" \in h.flags
  BY DEF FlagIf, HtcWord, SocketFlag
<1> HIDE DEF F
<1>2. /\ WithReady(F) \in SUBSET SocketFlag /\ "TIMEOUT" \notin WithReady(F)
      /\ "WRITE_READY" \in WithReady(F) <=> h.avail + delta >= c
      /\ "READ_READY" \in WithReady(F) <=> "READ_READY" \in h.flags
  BY <1>1, ReadyOnly
<1>3. avail_add(h, delta, dead, c) =
        [h EXCEPT !.avail = h.avail + delta, !.flags = WithReady(F)]
  BY DEF avail_add, F, HtcWord
<1> QED
  BY <1>2, <1>3 DEF HtcWord

\* The end of the connection and of the epoll side change no count.
LEMMA EndMarks ==
  ASSUME NEW h \in HtcWord, "TIMEOUT" \notin h.flags,
         NEW g \in {mark_dead(h), done_cas_epollside(h)}
  PROVE  /\ g \in HtcWord /\ "TIMEOUT" \notin g.flags
         /\ g.count = h.count /\ g.avail = h.avail
         /\ "READ_READY" \in g.flags <=> "READ_READY" \in h.flags
         /\ "WRITE_READY" \in g.flags <=> "WRITE_READY" \in h.flags
BY DEF mark_dead, done_cas_epollside, HtcWord, SocketFlag

-----------------------------------------------------------------------------
(* Locals of the threads. *)

\* A thread that starts on a path has locals of their types.
LEMMA ThreadType ==
  ASSUME NEW labels, NEW pc \in labels
  PROVE  Thread(pc) \in ThreadState(labels)
<1>1. /\ BufferSize \in Nat \ {0} /\ FirstCond \in 1 .. BufferSize
      /\ "in" \in Dirs
  BY SocketWordAssumption, StreamAssumption DEF Dirs
<1>2. htc_init(FirstCond, FirstCond) \in HtcWord
  <2>1. FlagIf(0 >= FirstCond, "READ_READY")
          \cup FlagIf(BufferSize >= FirstCond, "WRITE_READY")
          \in SUBSET SocketFlag
    BY DEF FlagIf, SocketFlag
  <2>2. WithReady(FlagIf(0 >= FirstCond, "READ_READY")
          \cup FlagIf(BufferSize >= FirstCond, "WRITE_READY"))
          \in SUBSET SocketFlag
    BY <2>1, ReadyOnly
  <2> QED
    BY <1>1, <2>2 DEF htc_init, HtcWord
<1>3. 0 \in Nat /\ 0 \in 0 .. BufferSize /\ {} \in SUBSET Dirs
  BY <1>1
<1> QED
  BY <1>1, <1>2, <1>3 DEF Thread, ThreadState

\* What the proofs of the steps use of the state.
LEMMA Facts ==
  ASSUME IndInv
  PROVE  /\ BufferSize \in Nat \ {0}
         /\ htc.count \in 0 .. BufferSize /\ htc.avail \in 0 .. BufferSize
         /\ job.n \in 0 .. BufferSize /\ ep.n \in 0 .. BufferSize
         /\ ep.dir \in Dirs
         /\ \A d \in Dirs :
              /\ jobpos[d] \in Pos /\ eppos[d] \in Pos
              /\ First(d) \in Pos /\ End(d) \in Pos /\ Left(d) \in 0 .. BufferSize
              /\ put[d] \in Nat /\ Len(queue[d]) \in Nat /\ Len(got[d]) \in Nat
              /\ queue[d] \in Seq(Nat) /\ got[d] \in Seq(Nat)
              /\ ring[d] \in [Pos -> Nat]
              /\ InOrder(d)
         /\ htc.count = Left("in") - MoveDue("in") + ReadDue
         /\ BufferSize - htc.avail = Left("out") + MoveDue("out") - WriteDue
<1>1. BufferSize \in Nat \ {0}
  BY SocketWordAssumption
<1>2. /\ htc.count \in 0 .. BufferSize /\ htc.avail \in 0 .. BufferSize
      /\ job.n \in 0 .. BufferSize /\ ep.n \in 0 .. BufferSize
      /\ ep.dir \in Dirs
  BY DEF IndInv, TypeOK, HtcWord, ThreadState
<1>3. ASSUME NEW d \in Dirs
      PROVE  /\ jobpos[d] \in Pos /\ eppos[d] \in Pos
             /\ put[d] \in Nat /\ Len(queue[d]) \in Nat /\ Len(got[d]) \in Nat
             /\ queue[d] \in Seq(Nat) /\ got[d] \in Seq(Nat)
             /\ ring[d] \in [Pos -> Nat]
  <2>1. /\ jobpos[d] \in Pos /\ eppos[d] \in Pos /\ put[d] \in Nat
        /\ queue[d] \in Seq(Nat) /\ got[d] \in Seq(Nat)
        /\ ring[d] \in [Pos -> Nat]
    BY DEF IndInv, TypeOK
  <2> QED
    BY <2>1, LenProperties
<1>4. /\ Taking \in 0 .. BufferSize
      /\ \A d \in Dirs : Moved(d) \in 0 .. BufferSize
  BY <1>1, <1>2 DEF Taking, Moved
<1>5. \A d \in Dirs : First(d) \in Pos /\ End(d) \in Pos
  BY <1>3, <1>4, AtWraps DEF First, End, Dirs, At
<1>6. /\ htc.count = Left("in") - MoveDue("in") + ReadDue
      /\ BufferSize - htc.avail = Left("out") + MoveDue("out") - WriteDue
  BY DEF IndInv, CountsAreExact, Left, MoveDue, ReadDue, WriteDue
<1>7. Left("in") \in 0 .. BufferSize /\ Left("out") \in 0 .. BufferSize
  <2>1. "in" \in Dirs /\ "out" \in Dirs
    BY DEF Dirs
  <2>2. Left("in") \in Int /\ Left("out") \in Int
    BY <1>3, <2>1 DEF Left
  <2>3. /\ ReadDue \in Nat /\ ReadDue <= htc.count
        /\ WriteDue \in Nat /\ WriteDue <= htc.avail
    BY <1>2 DEF ReadDue, WriteDue, IndInv, JobTransfer
  <2>4. /\ MoveDue("in") \in Nat /\ MoveDue("in") <= BufferSize - htc.count
        /\ MoveDue("out") \in Nat /\ MoveDue("out") <= BufferSize - htc.avail
    <3>1. ep.size \in Nat
      BY DEF IndInv, TypeOK, ThreadState
    <3>2. EpTransfer
      BY DEF IndInv
    <3>3. CASE ep.pc \in {"rest", "add", "cas"}
      <4>1. /\ ep.n <= ep.size
            /\ ep.size <= BufferSize
                 - IF ep.dir = "in" THEN htc.count ELSE htc.avail
        BY <3>2, <3>3 DEF EpTransfer
      <4> QED
        BY <1>1, <1>2, <3>1, <4>1 DEF MoveDue
    <3>4. CASE ep.pc \notin {"rest", "add", "cas"}
      BY <1>1, <1>2, <3>4 DEF MoveDue
    <3> QED
      BY <3>3, <3>4
  <2> QED
    BY <1>1, <1>2, <1>6, <2>2, <2>3, <2>4
<1> QED
  BY <1>1, <1>2, <1>3, <1>5, <1>6, <1>7 DEF Dirs, IndInv, BytesInOrder

-----------------------------------------------------------------------------
(* Steps that move no byte. *)

\* When no byte moves, the counts follow what is under way and the positions
\* stand for the same places, the step keeps the invariant and is a stutter
\* of the channels.
LEMMA QuietStep ==
  ASSUME IndInv, TypeOK', JobTransfer', EpTransfer', NoTimeout',
         UNCHANGED <<ring, put, queue, got>>,
         htc'.count = htc.count + (MoveDue("in") - MoveDue("in")')
                      + (ReadDue' - ReadDue),
         htc'.avail = htc.avail + (MoveDue("out") - MoveDue("out")')
                      + (WriteDue' - WriteDue),
         \A d \in Dirs : First(d)' = First(d) /\ End(d)' = End(d)
  PROVE  IndInv' /\ [Stream!Next]_(Stream!streamVars)
<1>1. \A d \in Dirs : Left(d)' = Left(d) /\ BufferBase(d)' = BufferBase(d)
                      /\ QueueBase(d)' = QueueBase(d)
  BY DEF Left, BufferBase, QueueBase
<1>2. "in" \in Dirs /\ "out" \in Dirs
  BY DEF Dirs
<1>3. BytesInOrder'
  BY <1>1, <1>2 DEF IndInv, BytesInOrder, InOrder, Holds, At
<1>4. CountsAreExact'
  <2>1. /\ htc.count = Left("in") - MoveDue("in") + ReadDue
        /\ BufferSize - htc.avail = Left("out") + MoveDue("out") - WriteDue
        /\ BufferSize \in Nat /\ htc.count \in Int /\ htc.avail \in Int
        /\ Left("in") \in Int /\ Left("out") \in Int
    BY <1>2, Facts
  <2>2. /\ MoveDue("in") \in Int /\ MoveDue("out") \in Int
        /\ ReadDue \in Int /\ WriteDue \in Int
    BY Facts DEF MoveDue, ReadDue, WriteDue
  <2>3. /\ MoveDue("in")' \in Int /\ MoveDue("out")' \in Int
        /\ ReadDue' \in Int /\ WriteDue' \in Int
    BY SocketWordAssumption
    DEF MoveDue, ReadDue, WriteDue, TypeOK, ThreadState
  <2>4. /\ htc'.count = Left("in")' - MoveDue("in")' + ReadDue'
        /\ BufferSize - htc'.avail = Left("out")' + MoveDue("out")' - WriteDue'
    BY <1>1, <1>2, <2>1, <2>2, <2>3
  <2> QED
    BY <2>4 DEF CountsAreExact, Left, MoveDue, ReadDue, WriteDue
<1> QED
  BY <1>3, <1>4 DEF IndInv, RoomKept, Stream!streamVars

\* A step of the job that leaves the counts and the positions alone.
LEMMA JobQuiet ==
  ASSUME IndInv, job' \in ThreadState(JobLabels), htc' \in HtcWord,
         htc'.count = htc.count, htc'.avail = htc.avail, NoTimeout',
         job.pc \notin {"read_add", "read_tail", "buffer_add"},
         job'.pc \notin {"read_add", "read_tail", "buffer_add"},
         JobTransfer', armed' \in SUBSET Dirs,
         cond' \in [Dirs -> {FirstCond, LastCond}],
         UNCHANGED <<ring, jobpos, eppos, ep, added, load, queue, fault, put, got>>
  PROVE  IndInv' /\ [Stream!Next]_(Stream!streamVars)
<1>1. /\ UNCHANGED <<Taking, ReadDue, WriteDue>> /\ ReadDue = 0 /\ WriteDue = 0
      /\ \A d \in Dirs : MoveDue(d)' = MoveDue(d) /\ Moved(d)' = Moved(d)
  BY DEF Taking, ReadDue, WriteDue, MoveDue, Moved
<1>2. \A d \in Dirs : First(d)' = First(d) /\ End(d)' = End(d)
  BY <1>1 DEF First, End, Dirs
<1>3. TypeOK'
  BY DEF IndInv, TypeOK
<1>4. EpTransfer'
  BY DEF IndInv, EpTransfer
<1>5. /\ htc'.count = htc.count + (MoveDue("in") - MoveDue("in")')
                       + (ReadDue' - ReadDue)
      /\ htc'.avail = htc.avail + (MoveDue("out") - MoveDue("out")')
                       + (WriteDue' - WriteDue)
  <2>1. /\ htc.count \in Int /\ htc.avail \in Int
        /\ MoveDue("in") \in Int /\ MoveDue("out") \in Int
    BY Facts DEF MoveDue
  <2> QED
    BY <1>1, <2>1 DEF Dirs
<1> QED
  BY <1>2, <1>3, <1>4, <1>5, QuietStep

\* A step of the epoll thread of that kind.
LEMMA EpQuiet ==
  ASSUME IndInv, ep' \in ThreadState(EpLabels), htc' \in HtcWord,
         htc'.count = htc.count, htc'.avail = htc.avail, NoTimeout',
         \A d \in Dirs : MoveDue(d)' = MoveDue(d) /\ Moved(d)' = Moved(d),
         EpTransfer', armed' \in SUBSET Dirs, added' \in BOOLEAN,
         UNCHANGED <<ring, jobpos, eppos, job, load, cond, queue, fault, put, got>>
  PROVE  IndInv' /\ [Stream!Next]_(Stream!streamVars)
<1>1. UNCHANGED <<Taking, ReadDue, WriteDue>>
  BY DEF Taking, ReadDue, WriteDue
<1>2. \A d \in Dirs : First(d)' = First(d) /\ End(d)' = End(d)
  BY <1>1 DEF First, End, Dirs
<1>3. TypeOK'
  BY DEF IndInv, TypeOK
<1>4. JobTransfer'
  BY DEF IndInv, JobTransfer
<1>5. /\ htc'.count = htc.count + (MoveDue("in") - MoveDue("in")')
                       + (ReadDue' - ReadDue)
      /\ htc'.avail = htc.avail + (MoveDue("out") - MoveDue("out")')
                       + (WriteDue' - WriteDue)
  <2>1. /\ htc.count \in Int /\ htc.avail \in Int
        /\ MoveDue("in") \in Int /\ MoveDue("out") \in Int
        /\ ReadDue \in Int /\ WriteDue \in Int
    BY Facts DEF MoveDue, ReadDue, WriteDue
  <2> QED
    BY <1>1, <2>1 DEF Dirs
<1> QED
  BY <1>2, <1>3, <1>4, <1>5, QuietStep

\* The steps of the job that are of this kind.
LEMMA JobControl ==
  ASSUME IndInv,
         \/ ReadLoad \/ WriteLoad \/ WriteDead \/ BufferLoad \/ JobActivate
         \/ JobMod \/ (\E d \in Dirs : CondStore(d)) \/ CondAdd
  PROVE  IndInv' /\ [Stream!Next]_(Stream!streamVars)
<1>1. /\ job \in ThreadState(JobLabels) /\ htc \in HtcWord /\ NoTimeout
      /\ htc.count \in 0 .. BufferSize /\ htc.avail \in 0 .. BufferSize
      /\ armed \in SUBSET Dirs /\ added \in BOOLEAN /\ BufferSize \in Nat \ {0}
      /\ cond \in [Dirs -> {FirstCond, LastCond}]
      /\ load["out"] \in Nat /\ put["out"] \in Nat
  <2>1. load["out"] \in Nat
    BY StreamAssumption DEF IndInv, TypeOK, Dirs
  <2>2. "out" \in Dirs
    BY DEF Dirs
  <2> QED
    BY <2>1, <2>2, Facts DEF IndInv, TypeOK
<1>2. FirstCond \in Nat /\ LastCond \in Nat
  BY StreamAssumption, <1>1 DEF LastCond
<1>3. Thread("idle") \in ThreadState(JobLabels)
      /\ Thread("gone") \in ThreadState(JobLabels)
  BY ThreadType DEF JobLabels
<1>4. CASE ReadLoad
  <2>1. PICK size \in Sizes :
          job' = [job EXCEPT !.pc = "read", !.seen = htc.count,
                             !.n = lesser(htc.count, size)]
    BY <1>4 DEF ReadLoad
  <2>2. lesser(htc.count, size) \in 0 .. BufferSize
        /\ lesser(htc.count, size) <= htc.count
    BY <1>1, StreamAssumption DEF lesser
  <2>3. job' \in ThreadState(JobLabels)
    BY <1>1, <2>1, <2>2 DEF ThreadState, JobLabels
  <2>4. job'.pc = "read" /\ job'.n <= htc.count
    BY <1>1, <2>1, <2>2 DEF ThreadState
  <2>5. JobTransfer'
    BY <1>4, <2>4 DEF JobTransfer, ReadLoad
  <2> QED
    BY <1>1, <1>4, <2>3, <2>4, <2>5, JobQuiet
    DEF ReadLoad, jobOnly, netVars, NoTimeout
<1>5. CASE WriteLoad
  <2>1. PICK size \in Sizes :
          job' = [job EXCEPT !.size = lesser(size, load["out"] - put["out"]),
                    !.pc = IF htc.avail = BufferSize THEN "send" ELSE "buffer"]
    BY <1>5 DEF WriteLoad
  <2>2. lesser(size, load["out"] - put["out"]) \in Nat
    <3>1. put["out"] < load["out"] /\ size \in Nat
      BY <1>5, StreamAssumption DEF WriteLoad
    <3>2. load["out"] - put["out"] \in Nat
      BY <1>1, <3>1
    <3> QED
      BY <3>1, <3>2 DEF lesser
  <2>3. job' \in ThreadState(JobLabels)
    BY <1>1, <2>1, <2>2 DEF ThreadState, JobLabels
  <2>4. job'.pc = IF htc.avail = BufferSize THEN "send" ELSE "buffer"
    BY <1>1, <2>1 DEF ThreadState
  <2>5. JobTransfer'
    BY <1>5, <2>4 DEF JobTransfer, WriteLoad
  <2> QED
    BY <1>1, <1>5, <2>3, <2>4, <2>5, JobQuiet
    DEF WriteLoad, jobOnly, netVars, NoTimeout
<1>6. CASE WriteDead
  <2>1. /\ htc' \in HtcWord /\ htc'.count = htc.count /\ htc'.avail = htc.avail
        /\ NoTimeout'
    BY <1>1, <1>6, EndMarks DEF WriteDead, NoTimeout
  <2>2. job' \in ThreadState(JobLabels) /\ job'.pc = "gone"
    BY <1>3, <1>6 DEF WriteDead, Thread
  <2>3. JobTransfer'
    BY <2>2 DEF JobTransfer
  <2> QED
    BY <1>1, <1>6, <2>1, <2>2, <2>3, JobQuiet DEF WriteDead, jobOnly, netVars
<1>7. CASE BufferLoad
  <2>1. lesser(job.size, htc.avail) \in 0 .. BufferSize
        /\ lesser(job.size, htc.avail) <= htc.avail
    BY <1>1 DEF lesser, ThreadState
  <2>2. job' \in ThreadState(JobLabels)
    BY <1>1, <1>7, <2>1 DEF BufferLoad, ThreadState, JobLabels
  <2>3. job'.pc = "buffer_copy" /\ job'.n <= htc.avail
    BY <1>1, <1>7, <2>1 DEF BufferLoad, ThreadState
  <2>4. JobTransfer'
    BY <1>7, <2>3 DEF JobTransfer, BufferLoad
  <2> QED
    BY <1>1, <1>7, <2>2, <2>3, <2>4, JobQuiet
    DEF BufferLoad, jobOnly, netVars, NoTimeout
<1>8. CASE JobActivate
  <2>1. ModsOf(htc) \in SUBSET Dirs
    BY DEF ModsOf, Dirs
  <2>2. job' \in ThreadState(JobLabels) /\ job'.pc \in {"idle", "mod"}
    <3>1. CASE ModsOf(htc) = {}
      BY <1>3, <1>8, <3>1 DEF JobActivate, Thread
    <3>2. CASE ModsOf(htc) # {}
      BY <1>1, <1>8, <2>1, <3>2 DEF JobActivate, ThreadState, JobLabels
    <3> QED
      BY <3>1, <3>2
  <2>3. JobTransfer'
    BY <2>2 DEF JobTransfer
  <2> QED
    BY <1>1, <1>8, <2>2, <2>3, JobQuiet
    DEF JobActivate, jobOnly, netVars, NoTimeout
<1>9. CASE JobMod
  <2>1. AfterMod(job.mods) \in SUBSET Dirs /\ armed' \in SUBSET Dirs
    BY <1>1, <1>9 DEF AfterMod, ThreadState, JobMod, Mod, Dirs
  <2>2. job' \in ThreadState(JobLabels) /\ job'.pc \in {"idle", "mod"}
    <3>1. CASE AfterMod(job.mods) = {}
      BY <1>3, <1>9, <3>1 DEF JobMod, Thread
    <3>2. CASE AfterMod(job.mods) # {}
      BY <1>1, <1>9, <2>1, <3>2 DEF JobMod, ThreadState
    <3> QED
      BY <3>1, <3>2
  <2>3. JobTransfer'
    BY <2>2 DEF JobTransfer
  <2> QED
    BY <1>1, <1>9, <2>1, <2>2, <2>3, JobQuiet
    DEF JobMod, jobOnly, netVars, NoTimeout
<1>10. CASE \E d \in Dirs : CondStore(d)
  <2>1. PICK d \in Dirs : CondStore(d)
    BY <1>10
  <2>2. job' \in ThreadState(JobLabels) /\ job'.pc = "cond_add"
    BY <1>1, <2>1 DEF CondStore, ThreadState, JobLabels
  <2>3. cond' \in [Dirs -> {FirstCond, LastCond}]
    BY <1>1, <2>1 DEF CondStore
  <2>4. JobTransfer'
    BY <2>2 DEF JobTransfer
  <2> QED
    BY <1>1, <2>1, <2>2, <2>3, <2>4, JobQuiet
    DEF CondStore, netVars, NoTimeout
<1>11. CASE CondAdd
  <2>1. htc.count + 0 = htc.count /\ htc.avail + 0 = htc.avail
        /\ cond["in"] \in Nat /\ cond["out"] \in Nat
    BY <1>1, <1>2 DEF Dirs
  <2>2. /\ htc' \in HtcWord /\ htc'.count = htc.count /\ htc'.avail = htc.avail
        /\ NoTimeout'
    <3>1. CASE job.dir = "in"
      <4>1. htc' = count_add(htc, 0, FALSE, cond["in"])
        BY <1>11, <3>1 DEF CondAdd
      <4>2. htc.count + 0 \in 0 .. BufferSize /\ "TIMEOUT" \notin htc.flags
        BY <1>1 DEF NoTimeout
      <4>3. 0 \in Int /\ FALSE \in BOOLEAN
        OBVIOUS
      <4>4. htc' \in HtcWord /\ "TIMEOUT" \notin htc'.flags
            /\ htc'.count = htc.count + 0 /\ htc'.avail = htc.avail
        BY <1>1, <2>1, <4>1, <4>2, <4>3, CountAdd, ZenonT(60)
      <4> QED
        BY <2>1, <4>4 DEF NoTimeout
    <3>2. CASE job.dir # "in"
      <4>1. htc' = avail_add(htc, 0, FALSE, cond["out"])
        BY <1>11, <3>2 DEF CondAdd
      <4>2. htc.avail + 0 \in 0 .. BufferSize /\ "TIMEOUT" \notin htc.flags
        BY <1>1 DEF NoTimeout
      <4>3. 0 \in Int /\ FALSE \in BOOLEAN
        OBVIOUS
      <4>4. htc' \in HtcWord /\ "TIMEOUT" \notin htc'.flags
            /\ htc'.count = htc.count /\ htc'.avail = htc.avail + 0
        BY <1>1, <2>1, <4>1, <4>2, <4>3, AvailAdd, ZenonT(60)
      <4> QED
        BY <2>1, <4>4 DEF NoTimeout
    <3> QED
      BY <3>1, <3>2
  <2>3. job' \in ThreadState(JobLabels) /\ job'.pc = "idle"
    BY <1>3, <1>11 DEF CondAdd, Thread
  <2>4. JobTransfer'
    BY <2>3 DEF JobTransfer
  <2> QED
    BY <1>1, <1>11, <2>2, <2>3, <2>4, JobQuiet DEF CondAdd, jobOnly, netVars
<1> QED
  BY <1>4, <1>5, <1>6, <1>7, <1>8, <1>9, <1>10, <1>11

\* The mark of a dead socket changes only itself.
LEMMA DeadField ==
  ASSUME NEW labels, NEW t \in ThreadState(labels), NEW b \in BOOLEAN
  PROVE  /\ [t EXCEPT !.dead = b] \in ThreadState(labels)
         /\ [t EXCEPT !.dead = b].pc = t.pc
         /\ [t EXCEPT !.dead = b].n = t.n
         /\ [t EXCEPT !.dead = b].size = t.size
         /\ [t EXCEPT !.dead = b].dir = t.dir
BY DEF ThreadState

\* The steps of the epoll thread that move no byte.
LEMMA EpControl ==
  ASSUME IndInv,
         \/ (\E d \in Dirs : Wait(d)) \/ MarkDead \/ ReturnLoad \/ ReturnRead
         \/ EpActivate \/ EpMod \/ Del \/ Done
  PROVE  IndInv' /\ [Stream!Next]_(Stream!streamVars)
<1>1. /\ ep \in ThreadState(EpLabels) /\ htc \in HtcWord /\ NoTimeout
      /\ htc.count \in 0 .. BufferSize /\ htc.avail \in 0 .. BufferSize
      /\ armed \in SUBSET Dirs /\ added \in BOOLEAN /\ BufferSize \in Nat \ {0}
      /\ cond \in [Dirs -> {FirstCond, LastCond}] /\ EpTransfer
  BY Facts DEF IndInv, TypeOK
<1>2. FirstCond \in Nat /\ LastCond \in Nat
  BY StreamAssumption, <1>1 DEF LastCond
<1>3. \A pc \in EpLabels : Thread(pc) \in ThreadState(EpLabels)
                           /\ Thread(pc).pc = pc
  BY ThreadType DEF Thread
<1> DEFINE Still == {"idle", "load", "dead", "activate", "mod", "del", "done",
                     "gone"}
<1>4. ASSUME ep.pc \in Still \cup {"move"}, ep'.pc \in Still \cup {"move"}
      PROVE  \A d \in Dirs : MoveDue(d)' = MoveDue(d) /\ Moved(d)' = Moved(d)
  BY <1>4 DEF MoveDue, Moved
<1>5. ASSUME ep'.pc \in Still PROVE EpTransfer'
  BY <1>5 DEF EpTransfer
<1>6. CASE \E d \in Dirs : Wait(d)
  <2>1. PICK d \in Dirs : Wait(d)
    BY <1>6
  <2>2. ep' \in ThreadState(EpLabels) /\ ep'.pc \in {"load", "dead"}
    <3>1. Thread("load") \in ThreadState(EpLabels) /\ Thread("load").pc = "load"
          /\ Thread("dead") \in ThreadState(EpLabels) /\ Thread("dead").pc = "dead"
      BY <1>3 DEF EpLabels
    <3>2. ep' = [Thread("load") EXCEPT !.dir = d] \/ ep' = Thread("dead")
      BY <2>1 DEF Wait
    <3>3. CASE ep' = [Thread("load") EXCEPT !.dir = d]
      BY <3>1, <3>3 DEF ThreadState
    <3> QED
      BY <3>1, <3>2, <3>3
  <2>3. ep.pc = "idle" /\ armed' \in SUBSET Dirs
    BY <1>1, <2>1 DEF Wait
  <2>4. EpTransfer' /\ \A e \in Dirs : MoveDue(e)' = MoveDue(e)
                                       /\ Moved(e)' = Moved(e)
    BY <1>4, <1>5, <2>2, <2>3
  <2> QED
    BY <1>1, <2>1, <2>2, <2>3, <2>4, EpQuiet DEF Wait, epOnly, NoTimeout
<1>7. CASE MarkDead
  <2>1. /\ htc' \in HtcWord /\ htc'.count = htc.count /\ htc'.avail = htc.avail
        /\ NoTimeout'
    BY <1>1, <1>7, EndMarks DEF MarkDead, NoTimeout
  <2>2. ep' \in ThreadState(EpLabels) /\ ep'.pc = "activate"
    <3>1. Thread("activate") \in ThreadState(EpLabels)
          /\ Thread("activate").pc = "activate"
      BY <1>3 DEF EpLabels
    <3> QED
      BY <1>7, <3>1, DeadField DEF MarkDead
  <2>3. EpTransfer' /\ \A e \in Dirs : MoveDue(e)' = MoveDue(e)
                                       /\ Moved(e)' = Moved(e)
    BY <1>4, <1>5, <1>7, <2>2 DEF MarkDead
  <2> QED
    BY <1>1, <1>7, <2>1, <2>2, <2>3, EpQuiet DEF MarkDead, epOnly
<1>8. CASE ReturnLoad
  <2> DEFINE size == BufferSize - IF ep.dir = "in" THEN htc.count ELSE htc.avail
  <2>1. size \in Nat
    BY <1>1
  <2>2. ep' = IF size = 0 THEN Thread("activate")
              ELSE [ep EXCEPT !.pc = "move", !.size = size]
    BY <1>8 DEF ReturnLoad
  <2> HIDE DEF size
  <2>3. CASE size = 0
    <3>1. ep' \in ThreadState(EpLabels) /\ ep'.pc = "activate"
      BY <1>3, <2>2, <2>3 DEF EpLabels
    <3>2. EpTransfer' /\ \A e \in Dirs : MoveDue(e)' = MoveDue(e)
                                         /\ Moved(e)' = Moved(e)
      BY <1>4, <1>5, <1>8, <3>1 DEF ReturnLoad
    <3> QED
      BY <1>1, <1>8, <3>1, <3>2, EpQuiet DEF ReturnLoad, epOnly, NoTimeout
  <2>4. CASE size # 0
    <3>1. ep' \in ThreadState(EpLabels)
      BY <1>1, <2>1, <2>2, <2>4 DEF ThreadState, EpLabels
    <3>2. ep'.pc = "move" /\ ep'.size = size /\ ep'.dir = ep.dir
      BY <1>1, <2>2, <2>4 DEF ThreadState
    <3>3. \A e \in Dirs : MoveDue(e)' = MoveDue(e) /\ Moved(e)' = Moved(e)
      BY <1>4, <1>8, <3>2 DEF ReturnLoad
    <3>4. EpTransfer'
      <4>1. size > 0 /\ size <= size
        BY <2>1, <2>4
      <4>2. htc' = htc
        BY <1>8 DEF ReturnLoad
      <4> QED
        BY <3>2, <4>1, <4>2 DEF EpTransfer, size
    <3> QED
      BY <1>1, <1>8, <3>1, <3>3, <3>4, EpQuiet DEF ReturnLoad, epOnly, NoTimeout
  <2> QED
    BY <2>3, <2>4
<1>9. CASE ReturnRead
  <2>1. cond[ep.dir] \in Nat
    BY <1>1, <1>2 DEF ThreadState
  <2>2. ep' \in ThreadState(EpLabels)
    BY <1>1, <1>9, <2>1 DEF ReturnRead, ThreadState, EpLabels
  <2>3. /\ ep'.pc = "cas" /\ ep'.n = ep.n /\ ep'.size = ep.size
        /\ ep'.dir = ep.dir /\ ep.pc = "add"
    BY <1>1, <1>9 DEF ReturnRead, ThreadState
  <2>4. EpTransfer'
    BY <1>1, <1>9, <2>3 DEF EpTransfer, ReturnRead
  <2>5. \A e \in Dirs : MoveDue(e)' = MoveDue(e) /\ Moved(e)' = Moved(e)
    BY <2>3 DEF MoveDue, Moved
  <2> QED
    BY <1>1, <1>9, <2>2, <2>4, <2>5, EpQuiet DEF ReturnRead, epOnly, NoTimeout
<1>10. AfterReturn \in ThreadState(EpLabels) /\ AfterReturn.pc \in {"idle", "del"}
  BY <1>3 DEF AfterReturn, EpLabels
<1>11. CASE EpActivate
  <2>1. ModsOf(htc) \in SUBSET Dirs
    BY DEF ModsOf, Dirs
  <2>2. ep' \in ThreadState(EpLabels) /\ ep'.pc \in {"idle", "del", "mod"}
    <3>1. CASE ModsOf(htc) = {}
      BY <1>10, <1>11, <3>1 DEF EpActivate
    <3>2. CASE ModsOf(htc) # {}
      BY <1>1, <1>11, <2>1, <3>2 DEF EpActivate, ThreadState, EpLabels
    <3> QED
      BY <3>1, <3>2
  <2>3. EpTransfer' /\ \A e \in Dirs : MoveDue(e)' = MoveDue(e)
                                       /\ Moved(e)' = Moved(e)
    BY <1>4, <1>5, <1>11, <2>2 DEF EpActivate
  <2> QED
    BY <1>1, <1>11, <2>2, <2>3, EpQuiet DEF EpActivate, epOnly, NoTimeout
<1>12. CASE EpMod
  <2>1. AfterMod(ep.mods) \in SUBSET Dirs /\ armed' \in SUBSET Dirs
    BY <1>1, <1>12 DEF AfterMod, ThreadState, EpMod, Mod, Dirs
  <2>2. ep' \in ThreadState(EpLabels) /\ ep'.pc \in {"idle", "del", "mod"}
    <3>1. CASE AfterMod(ep.mods) = {}
      BY <1>10, <1>12, <3>1 DEF EpMod
    <3>2. CASE AfterMod(ep.mods) # {}
      BY <1>1, <1>12, <2>1, <3>2 DEF EpMod, ThreadState
    <3> QED
      BY <3>1, <3>2
  <2>3. EpTransfer' /\ \A e \in Dirs : MoveDue(e)' = MoveDue(e)
                                       /\ Moved(e)' = Moved(e)
    BY <1>4, <1>5, <1>12, <2>2 DEF EpMod
  <2> QED
    BY <1>1, <1>12, <2>1, <2>2, <2>3, EpQuiet DEF EpMod, epOnly, NoTimeout
<1>13. CASE Del
  <2>1. ep' \in ThreadState(EpLabels) /\ ep'.pc = "done"
    BY <1>3, <1>13 DEF Del, EpLabels
  <2>2. EpTransfer' /\ \A e \in Dirs : MoveDue(e)' = MoveDue(e)
                                       /\ Moved(e)' = Moved(e)
    BY <1>4, <1>5, <1>13, <2>1 DEF Del
  <2> QED
    BY <1>1, <1>13, <2>1, <2>2, EpQuiet DEF Del, epOnly, NoTimeout
<1>14. CASE Done
  <2>1. /\ htc' \in HtcWord /\ htc'.count = htc.count /\ htc'.avail = htc.avail
        /\ NoTimeout'
    BY <1>1, <1>14, EndMarks DEF Done, NoTimeout
  <2>2. ep' \in ThreadState(EpLabels) /\ ep'.pc = "gone"
    BY <1>3, <1>14 DEF Done, EpLabels
  <2>3. EpTransfer' /\ \A e \in Dirs : MoveDue(e)' = MoveDue(e)
                                       /\ Moved(e)' = Moved(e)
    BY <1>4, <1>5, <1>14, <2>2 DEF Done
  <2> QED
    BY <1>1, <1>14, <2>1, <2>2, <2>3, EpQuiet DEF Done, epOnly
<1> QED
  BY <1>6, <1>7, <1>8, <1>9, <1>11, <1>12, <1>13, <1>14

-----------------------------------------------------------------------------
(* Steps that count a transfer or move a position past it. *)

\* Advance and the modulus agree.
LEMMA AdvanceIsAt ==
  ASSUME NEW pos \in Pos, NEW n \in 0 .. BufferSize
  PROVE  Advance(pos, n) = At(pos, n) /\ At(At(pos, n), 0) = At(pos, n)
<1>1. /\ BufferSize \in Nat \ {0} /\ pos \in Nat /\ pos < BufferSize
      /\ n \in Nat /\ 0 \in 0 .. BufferSize
  BY SocketWordAssumption DEF Pos
<1>2. /\ At(pos, n) = IF pos + n < BufferSize THEN pos + n
                      ELSE pos + n - BufferSize
      /\ At(pos, n) \in Pos
  BY AtWraps
<1>3. Advance(pos, n) = At(pos, n)
  BY <1>1, <1>2 DEF Advance
<1>4. At(At(pos, n), 0) = At(pos, n)
  <2> DEFINE q == At(pos, n)
  <2>1. q \in Pos /\ q \in Nat /\ q < BufferSize
    BY <1>1, <1>2 DEF Pos
  <2> HIDE DEF q
  <2>2. At(q, 0) = IF q + 0 < BufferSize THEN q + 0 ELSE q + 0 - BufferSize
    BY <1>1, <2>1, AtWraps
  <2> QED
    BY <1>1, <2>1, <2>2 DEF q
<1> QED
  BY <1>3, <1>4

\* The job only makes the room of a transfer of the epoll thread larger.
LEMMA EpTransferKept ==
  ASSUME IndInv, UNCHANGED <<ep, eppos>>, htc' \in HtcWord,
         htc'.count <= htc.count, htc'.avail <= htc.avail
  PROVE  EpTransfer'
<1>1. /\ BufferSize \in Nat /\ htc.count \in Nat /\ htc.avail \in Nat
      /\ htc'.count \in Nat /\ htc'.avail \in Nat /\ ep.size \in Nat
  <2>1. /\ BufferSize \in Nat /\ htc.count \in 0 .. BufferSize
        /\ htc.avail \in 0 .. BufferSize
    BY Facts
  <2>2. htc'.count \in 0 .. BufferSize /\ htc'.avail \in 0 .. BufferSize
    BY DEF HtcWord
  <2>3. ep.size \in Nat
    BY DEF IndInv, TypeOK, ThreadState
  <2> QED
    BY <2>1, <2>2, <2>3
<1> DEFINE Room == BufferSize - IF ep.dir = "in" THEN htc.count ELSE htc.avail
<1>2. Room \in Int /\ Room' \in Int /\ Room <= Room'
  BY <1>1
<1>3. EpTransfer
  BY DEF IndInv
<1>4. ep.pc \in {"move", "rest", "add", "cas"} =>
        0 < ep.size /\ ep.size <= Room
  BY <1>3 DEF EpTransfer
<1> HIDE DEF Room
<1>5. ep.pc \in {"move", "rest", "add", "cas"} =>
        0 < ep.size /\ ep.size <= Room'
  BY <1>1, <1>2, <1>4
<1> QED
  BY <1>3, <1>5 DEF EpTransfer, Room

\* The job's counterparts: count_add and avail_add of what it has copied, and
\* the store of the tail.
LEMMA JobCounts ==
  ASSUME IndInv, ReadAdd \/ ReadTail \/ BufferAdd
  PROVE  IndInv' /\ [Stream!Next]_(Stream!streamVars)
<1>1. /\ job \in ThreadState(JobLabels) /\ htc \in HtcWord
      /\ "TIMEOUT" \notin htc.flags
      /\ htc.count \in 0 .. BufferSize /\ htc.avail \in 0 .. BufferSize
      /\ BufferSize \in Nat \ {0} /\ job.n \in 0 .. BufferSize
      /\ jobpos \in [Dirs -> Pos] /\ jobpos["in"] \in Pos
      /\ 0 \in 0 .. BufferSize
  BY Facts DEF IndInv, TypeOK, NoTimeout, Dirs
<1>2. cond["in"] \in Nat /\ cond["out"] \in Nat
  <2>1. FirstCond \in Nat /\ LastCond \in Nat
    BY StreamAssumption, <1>1 DEF LastCond
  <2> QED
    BY <2>1 DEF IndInv, TypeOK, Dirs
<1>3. /\ MoveDue("in") \in Int /\ MoveDue("out") \in Int
  BY Facts DEF MoveDue
<1>4. EpTransfer /\ JobTransfer
  BY DEF IndInv
<1>5. -job.n \in Int /\ FALSE \in BOOLEAN
  BY <1>1
<1>6. CASE ReadAdd
  <2>1. /\ job.pc = "read_add" /\ job' = [job EXCEPT !.pc = "read_tail"]
        /\ htc' = count_add(htc, -job.n, FALSE, cond["in"])
        /\ UNCHANGED <<ring, jobpos, armed, put, got, cond, eppos, ep, added,
                       load, queue, fault>>
    BY <1>6 DEF ReadAdd, jobOnly, netVars
  <2>2. htc.count + (-job.n) \in 0 .. BufferSize
    BY <1>1, <1>4, <2>1 DEF JobTransfer
  <2>3. /\ htc' \in HtcWord /\ "TIMEOUT" \notin htc'.flags
        /\ htc'.count = htc.count + (-job.n) /\ htc'.avail = htc.avail
    BY <1>1, <1>2, <1>5, <2>1, <2>2, CountAdd, ZenonT(60)
  <2>4. /\ job' \in ThreadState(JobLabels) /\ job'.pc = "read_tail"
        /\ job'.n = job.n
    BY <1>1, <2>1 DEF ThreadState, JobLabels
  <2>5. TypeOK' /\ NoTimeout' /\ JobTransfer'
    BY <2>1, <2>3, <2>4 DEF IndInv, TypeOK, NoTimeout, JobTransfer
  <2>6. EpTransfer'
    <3>1. htc'.count <= htc.count /\ htc'.avail <= htc.avail
      BY <1>1, <2>3
    <3> QED
      BY <2>1, <2>3, <3>1, EpTransferKept
  <2>7. \A d \in Dirs : /\ MoveDue(d)' = MoveDue(d)
                        /\ First(d)' = First(d) /\ End(d)' = End(d)
    BY <2>1, <2>4 DEF MoveDue, Moved, First, End, Taking
  <2>8. ReadDue = job.n /\ ReadDue' = 0 /\ WriteDue = 0 /\ WriteDue' = 0
    BY <2>1, <2>4 DEF ReadDue, WriteDue
  <2>9. /\ htc'.count = htc.count + (MoveDue("in") - MoveDue("in")')
                         + (ReadDue' - ReadDue)
        /\ htc'.avail = htc.avail + (MoveDue("out") - MoveDue("out")')
                         + (WriteDue' - WriteDue)
    BY <1>1, <1>3, <2>3, <2>7, <2>8 DEF Dirs
  <2> QED
    BY <2>1, <2>5, <2>6, <2>7, <2>9, QuietStep
<1>7. CASE ReadTail
  <2>1. /\ job.pc = "read_tail"
        /\ jobpos' = [jobpos EXCEPT !["in"] = Advance(@, job.n)]
        /\ job' = IF job.seen = BufferSize
                  THEN [job EXCEPT !.pc = "activate", !.n = 0]
                  ELSE Thread("idle")
        /\ UNCHANGED <<htc, ring, armed, put, got, cond, eppos, ep, added,
                       load, queue, fault>>
    BY <1>7 DEF ReadTail, jobOnly, netVars
  <2>2. job' \in ThreadState(JobLabels) /\ job'.pc \in {"activate", "idle"}
    <3>1. Thread("idle") \in ThreadState(JobLabels)
          /\ Thread("idle").pc = "idle"
      BY ThreadType DEF JobLabels, Thread
    <3>2. CASE job.seen = BufferSize
      BY <1>1, <2>1, <3>2 DEF ThreadState, JobLabels
    <3> QED
      BY <2>1, <3>1, <3>2
  <2>3. /\ jobpos'["in"] = At(jobpos["in"], job.n)
        /\ At(jobpos["in"], job.n) \in Pos
        /\ jobpos' \in [Dirs -> Pos] /\ jobpos'["out"] = jobpos["out"]
    <3>1. /\ Advance(jobpos["in"], job.n) = At(jobpos["in"], job.n)
          /\ At(jobpos["in"], job.n) \in Pos
      BY <1>1, AdvanceIsAt, AtWraps
    <3> QED
      BY <1>1, <2>1, <3>1 DEF Dirs
  <2>4. TypeOK' /\ NoTimeout' /\ JobTransfer' /\ EpTransfer'
    BY <2>1, <2>2, <2>3
    DEF IndInv, TypeOK, NoTimeout, JobTransfer, EpTransfer
  <2>5. Taking = job.n /\ Taking' = 0
    BY <2>1, <2>2 DEF Taking
  <2>6. First("in")' = First("in")
    <3>1. First("in") = At(jobpos["in"], job.n)
      BY <2>5 DEF First, At
    <3>2. First("in")' = At(At(jobpos["in"], job.n), 0)
      BY <2>3, <2>5 DEF First, At
    <3> QED
      BY <1>1, <3>1, <3>2, AdvanceIsAt
  <2>7. /\ First("out")' = First("out")
        /\ End("in")' = End("in") /\ End("out")' = End("out")
        /\ MoveDue("in")' = MoveDue("in") /\ MoveDue("out")' = MoveDue("out")
    BY <2>1, <2>3 DEF First, End, Moved, MoveDue
  <2>8. ReadDue = 0 /\ ReadDue' = 0 /\ WriteDue = 0 /\ WriteDue' = 0
    BY <2>1, <2>2 DEF ReadDue, WriteDue
  <2>9. /\ htc'.count = htc.count + (MoveDue("in") - MoveDue("in")')
                         + (ReadDue' - ReadDue)
        /\ htc'.avail = htc.avail + (MoveDue("out") - MoveDue("out")')
                         + (WriteDue' - WriteDue)
    BY <1>1, <1>3, <2>1, <2>7, <2>8
  <2>10. \A d \in Dirs : First(d)' = First(d) /\ End(d)' = End(d)
    BY <2>6, <2>7 DEF Dirs
  <2> QED
    BY <2>1, <2>4, <2>9, <2>10, QuietStep
<1>8. CASE BufferAdd
  <2>1. /\ job.pc = "buffer_add"
        /\ job' = [job EXCEPT !.pc = "activate", !.n = 0]
        /\ htc' = avail_add(htc, -job.n, FALSE, cond["out"])
        /\ UNCHANGED <<ring, jobpos, armed, put, got, cond, eppos, ep, added,
                       load, queue, fault>>
    BY <1>8 DEF BufferAdd, jobOnly, netVars
  <2>2. htc.avail + (-job.n) \in 0 .. BufferSize
    BY <1>1, <1>4, <2>1 DEF JobTransfer
  <2>3. /\ htc' \in HtcWord /\ "TIMEOUT" \notin htc'.flags
        /\ htc'.avail = htc.avail + (-job.n) /\ htc'.count = htc.count
    BY <1>1, <1>2, <1>5, <2>1, <2>2, AvailAdd, ZenonT(60)
  <2>4. job' \in ThreadState(JobLabels) /\ job'.pc = "activate"
    BY <1>1, <2>1 DEF ThreadState, JobLabels
  <2>5. TypeOK' /\ NoTimeout' /\ JobTransfer'
    BY <2>1, <2>3, <2>4 DEF IndInv, TypeOK, NoTimeout, JobTransfer
  <2>6. EpTransfer'
    <3>1. htc'.count <= htc.count /\ htc'.avail <= htc.avail
      BY <1>1, <2>3
    <3> QED
      BY <2>1, <2>3, <3>1, EpTransferKept
  <2>7. \A d \in Dirs : /\ MoveDue(d)' = MoveDue(d)
                        /\ First(d)' = First(d) /\ End(d)' = End(d)
    BY <2>1, <2>4 DEF MoveDue, Moved, First, End, Taking
  <2>8. WriteDue = job.n /\ WriteDue' = 0 /\ ReadDue = 0 /\ ReadDue' = 0
    BY <2>1, <2>4 DEF ReadDue, WriteDue
  <2>9. /\ htc'.count = htc.count + (MoveDue("in") - MoveDue("in")')
                         + (ReadDue' - ReadDue)
        /\ htc'.avail = htc.avail + (MoveDue("out") - MoveDue("out")')
                         + (WriteDue' - WriteDue)
    BY <1>1, <1>3, <2>3, <2>7, <2>8 DEF Dirs
  <2> QED
    BY <2>1, <2>5, <2>6, <2>7, <2>9, QuietStep
<1> QED
  BY <1>6, <1>7, <1>8

\* The epoll thread's: the compare-and-swap of count_add or avail_add, and the
\* store of its position.
LEMMA EpCounts ==
  ASSUME IndInv, ReturnAdd \/ ReturnStore
  PROVE  IndInv' /\ [Stream!Next]_(Stream!streamVars)
<1>1. /\ ep \in ThreadState(EpLabels) /\ htc \in HtcWord
      /\ "TIMEOUT" \notin htc.flags
      /\ htc.count \in 0 .. BufferSize /\ htc.avail \in 0 .. BufferSize
      /\ BufferSize \in Nat \ {0} /\ ep.n \in 0 .. BufferSize
      /\ eppos \in [Dirs -> Pos] /\ ep.dir \in Dirs /\ ep.size \in Nat
      /\ 0 \in 0 .. BufferSize /\ ep.n \in Int /\ ep.dead \in BOOLEAN
      /\ ep.cond \in Nat
  <2>1. /\ ep.size \in Nat /\ ep.dead \in BOOLEAN /\ ep.cond \in Nat
    BY DEF IndInv, TypeOK, ThreadState
  <2> QED
    BY <2>1, Facts DEF IndInv, TypeOK, NoTimeout
<1>2. EpTransfer /\ JobTransfer
  BY DEF IndInv
<1>3. ReadDue \in Int /\ WriteDue \in Int
  BY Facts DEF ReadDue, WriteDue
<1>4. job.n \in Int
  BY Facts
<1>5. CASE ReturnAdd /\ htc # ep.old
  <2>1. /\ ep.pc = "cas" /\ ep' = [ep EXCEPT !.pc = "add"]
        /\ UNCHANGED <<htc, ring, eppos, armed, added, queue, load, cond, jobpos,
                       job, fault, put, got>>
    BY <1>5 DEF ReturnAdd, epOnly
  <2>2. /\ ep' \in ThreadState(EpLabels) /\ ep'.pc = "add"
        /\ ep'.n = ep.n /\ ep'.size = ep.size /\ ep'.dir = ep.dir
    BY <1>1, <2>1 DEF ThreadState, EpLabels
  <2>3. EpTransfer'
    BY <1>2, <2>1, <2>2 DEF EpTransfer
  <2>4. \A d \in Dirs : MoveDue(d)' = MoveDue(d) /\ Moved(d)' = Moved(d)
    BY <2>1, <2>2 DEF MoveDue, Moved
  <2>5. armed' \in SUBSET Dirs /\ added' \in BOOLEAN
    BY <2>1 DEF IndInv, TypeOK
  <2> QED
    BY <1>1, <2>1, <2>2, <2>3, <2>4, <2>5, EpQuiet DEF NoTimeout
<1>6. CASE ReturnAdd /\ htc = ep.old
  <2>1. /\ ep.pc = "cas" /\ ep' = [ep EXCEPT !.pc = "store"]
        /\ htc' = Added(ep.n)
        /\ UNCHANGED <<ring, eppos, armed, added, queue, load, cond, jobpos,
                       job, fault, put, got>>
    BY <1>6 DEF ReturnAdd, epOnly
  <2>2. /\ ep' \in ThreadState(EpLabels) /\ ep'.pc = "store"
        /\ ep'.n = ep.n /\ ep'.size = ep.size /\ ep'.dir = ep.dir
    BY <1>1, <2>1 DEF ThreadState, EpLabels
  <2>3. EpTransfer'
    BY <1>2, <2>1, <2>2 DEF EpTransfer
  <2>4. /\ 0 < ep.n /\ ep.n <= ep.size
        /\ ep.size <= BufferSize - IF ep.dir = "in" THEN htc.count ELSE htc.avail
    BY <1>2, <2>1 DEF EpTransfer
  <2>5. CASE ep.dir = "in"
    <3>1. htc.count + ep.n \in 0 .. BufferSize
      BY <1>1, <2>4, <2>5
    <3>2. /\ htc' \in HtcWord /\ "TIMEOUT" \notin htc'.flags
          /\ htc'.count = htc.count + ep.n /\ htc'.avail = htc.avail
      <4>1. htc' = count_add(htc, ep.n, ep.dead, ep.cond)
        BY <2>1, <2>5 DEF Added
      <4>2. \/ htc' = count_add(htc, ep.n, TRUE, ep.cond)
            \/ htc' = count_add(htc, ep.n, FALSE, ep.cond)
        BY <1>1, <4>1, Zenon
      <4>3. TRUE \in BOOLEAN /\ FALSE \in BOOLEAN
        OBVIOUS
      <4>4. CASE htc' = count_add(htc, ep.n, TRUE, ep.cond)
        BY <1>1, <3>1, <4>3, <4>4, CountAdd, ZenonT(60)
      <4>5. CASE htc' = count_add(htc, ep.n, FALSE, ep.cond)
        BY <1>1, <3>1, <4>3, <4>5, CountAdd, ZenonT(60)
      <4> QED
        BY <4>2, <4>4, <4>5
    <3>3. htc.count <= htc'.count
      BY <1>1, <2>4, <3>2
    <3>4. TypeOK' /\ NoTimeout'
      BY <2>1, <2>2, <3>2 DEF IndInv, TypeOK, NoTimeout
    <3>5. JobTransfer'
      <4>1. htc.count \in Int /\ htc'.count \in Int
        BY <1>1, <3>2
      <4>2. job.n <= htc.count => job.n <= htc'.count
        BY <1>4, <3>3, <4>1
      <4>3. job' = job
        BY <2>1
      <4> QED
        BY <1>2, <3>2, <4>2, <4>3 DEF JobTransfer
    <3>6. /\ MoveDue("in") = ep.n /\ MoveDue("in")' = 0
          /\ MoveDue("out") = 0 /\ MoveDue("out")' = 0
      BY <2>1, <2>2, <2>5 DEF MoveDue
    <3>7. ReadDue' = ReadDue /\ WriteDue' = WriteDue
      BY <2>1 DEF ReadDue, WriteDue
    <3>8. /\ htc'.count = htc.count + (MoveDue("in") - MoveDue("in")')
                           + (ReadDue' - ReadDue)
          /\ htc'.avail = htc.avail + (MoveDue("out") - MoveDue("out")')
                           + (WriteDue' - WriteDue)
      BY <1>1, <1>3, <3>2, <3>6, <3>7
    <3>9. \A d \in Dirs : First(d)' = First(d) /\ End(d)' = End(d)
      BY <2>1, <2>2 DEF First, End, Taking, Moved
    <3> QED
      BY <2>1, <2>3, <3>4, <3>5, <3>8, <3>9, QuietStep
  <2>6. CASE ep.dir = "out"
    <3>1. htc.avail + ep.n \in 0 .. BufferSize /\ htc.avail # BufferSize
      BY <1>1, <2>4, <2>6
    <3>2. /\ htc' \in HtcWord /\ "TIMEOUT" \notin htc'.flags
          /\ htc'.avail = htc.avail + ep.n /\ htc'.count = htc.count
      <4>1. htc' = avail_add(htc, ep.n, ep.dead, ep.cond)
        BY <2>1, <2>6 DEF Added
      <4>2. \/ htc' = avail_add(htc, ep.n, TRUE, ep.cond)
            \/ htc' = avail_add(htc, ep.n, FALSE, ep.cond)
        BY <1>1, <4>1, Zenon
      <4>3. TRUE \in BOOLEAN /\ FALSE \in BOOLEAN
        OBVIOUS
      <4>4. CASE htc' = avail_add(htc, ep.n, TRUE, ep.cond)
        BY <1>1, <3>1, <4>3, <4>4, AvailAdd, ZenonT(60)
      <4>5. CASE htc' = avail_add(htc, ep.n, FALSE, ep.cond)
        BY <1>1, <3>1, <4>3, <4>5, AvailAdd, ZenonT(60)
      <4> QED
        BY <4>2, <4>4, <4>5
    <3>3. htc.avail <= htc'.avail
      BY <1>1, <2>4, <3>2
    <3>4. TypeOK' /\ NoTimeout'
      BY <2>1, <2>2, <3>2 DEF IndInv, TypeOK, NoTimeout
    <3>5. JobTransfer'
      <4>1. htc.avail \in Int /\ htc'.avail \in Int
        BY <1>1, <3>2
      <4>2. job.n <= htc.avail => job.n <= htc'.avail
        BY <1>4, <3>3, <4>1
      <4>3. job' = job
        BY <2>1
      <4> QED
        BY <1>2, <3>1, <3>2, <4>2, <4>3 DEF JobTransfer
    <3>6. /\ MoveDue("out") = ep.n /\ MoveDue("out")' = 0
          /\ MoveDue("in") = 0 /\ MoveDue("in")' = 0
      BY <2>1, <2>2, <2>6 DEF MoveDue
    <3>7. ReadDue' = ReadDue /\ WriteDue' = WriteDue
      BY <2>1 DEF ReadDue, WriteDue
    <3>8. /\ htc'.count = htc.count + (MoveDue("in") - MoveDue("in")')
                           + (ReadDue' - ReadDue)
          /\ htc'.avail = htc.avail + (MoveDue("out") - MoveDue("out")')
                           + (WriteDue' - WriteDue)
      BY <1>1, <1>3, <3>2, <3>6, <3>7
    <3>9. \A d \in Dirs : First(d)' = First(d) /\ End(d)' = End(d)
      BY <2>1, <2>2 DEF First, End, Taking, Moved
    <3> QED
      BY <2>1, <2>3, <3>4, <3>5, <3>8, <3>9, QuietStep
  <2> QED
    BY <1>1, <2>5, <2>6 DEF Dirs
<1>7. CASE ReturnStore
  <2>1. /\ ep.pc = "store" /\ ep' = [Thread("activate") EXCEPT !.dead = ep.dead]
        /\ eppos' = [eppos EXCEPT ![ep.dir] = (@ + ep.n) % BufferSize]
        /\ UNCHANGED <<htc, ring, armed, added, queue, load, cond, jobpos,
                       job, fault, put, got>>
    BY <1>7 DEF ReturnStore, epOnly
  <2>2. ep' \in ThreadState(EpLabels) /\ ep'.pc = "activate"
    <3>1. Thread("activate") \in ThreadState(EpLabels)
          /\ Thread("activate").pc = "activate"
      BY ThreadType DEF EpLabels, Thread
    <3> QED
      BY <1>1, <2>1, <3>1, DeadField
  <2>3. /\ eppos[ep.dir] \in Pos /\ At(eppos[ep.dir], ep.n) \in Pos
        /\ eppos'[ep.dir] = At(eppos[ep.dir], ep.n)
        /\ eppos' \in [Dirs -> Pos]
        /\ \A d \in Dirs \ {ep.dir} : eppos'[d] = eppos[d]
    <3>1. eppos[ep.dir] \in Pos
      BY <1>1
    <3>2. At(eppos[ep.dir], ep.n) \in Pos
      BY <1>1, <3>1, AtWraps
    <3>3. eppos' = [eppos EXCEPT ![ep.dir] = At(eppos[ep.dir], ep.n)]
      BY <2>1 DEF At
    <3> QED
      BY <1>1, <3>1, <3>2, <3>3
  <2>4. TypeOK' /\ NoTimeout' /\ JobTransfer' /\ EpTransfer'
    BY <2>1, <2>2, <2>3
    DEF IndInv, TypeOK, NoTimeout, JobTransfer, EpTransfer
  <2>5. /\ MoveDue("in") = 0 /\ MoveDue("in")' = 0
        /\ MoveDue("out") = 0 /\ MoveDue("out")' = 0
        /\ ReadDue' = ReadDue /\ WriteDue' = WriteDue
    BY <2>1, <2>2 DEF MoveDue, ReadDue, WriteDue
  <2>6. /\ htc'.count = htc.count + (MoveDue("in") - MoveDue("in")')
                         + (ReadDue' - ReadDue)
        /\ htc'.avail = htc.avail + (MoveDue("out") - MoveDue("out")')
                         + (WriteDue' - WriteDue)
    BY <1>1, <1>3, <2>1, <2>5
  <2>7. \A d \in Dirs : At(eppos'[d], Moved(d)') = At(eppos[d], Moved(d))
    <3>1. ASSUME NEW d \in Dirs, d = ep.dir
          PROVE  At(eppos'[d], Moved(d)') = At(eppos[d], Moved(d))
      <4>1. Moved(d) = ep.n /\ Moved(d)' = 0
        BY <2>1, <2>2, <3>1 DEF Moved
      <4>2. At(At(eppos[d], ep.n), 0) = At(eppos[d], ep.n)
        BY <1>1, <2>3, <3>1, AdvanceIsAt
      <4> QED
        BY <2>3, <3>1, <4>1, <4>2
    <3>2. ASSUME NEW d \in Dirs, d # ep.dir
          PROVE  At(eppos'[d], Moved(d)') = At(eppos[d], Moved(d))
      <4>1. Moved(d) = 0 /\ Moved(d)' = 0
        BY <2>2, <3>2 DEF Moved
      <4> QED
        BY <2>3, <3>2, <4>1
    <3> QED
      BY <3>1, <3>2
  <2>8. \A d \in Dirs : First(d)' = First(d) /\ End(d)' = End(d)
    BY <2>1, <2>7 DEF First, End, Taking, At, Dirs
  <2> QED
    BY <2>1, <2>4, <2>6, <2>8, QuietStep
<1> QED
  BY <1>5, <1>6, <1>7

-----------------------------------------------------------------------------
(* Steps that move bytes. *)

\* A direction that a step does not touch stays in order.
LEMMA OtherDirection ==
  ASSUME NEW d \in Dirs, InOrder(d), ring'[d] = ring[d], put'[d] = put[d],
         queue'[d] = queue[d], got'[d] = got[d],
         First(d)' = First(d), End(d)' = End(d)
  PROVE  InOrder(d)' /\ Left(d)' = Left(d)
<1>1. Left(d)' = Left(d) /\ BufferBase(d)' = BufferBase(d)
      /\ QueueBase(d)' = QueueBase(d)
  BY DEF Left, BufferBase, QueueBase
<1> QED
  BY <1>1 DEF InOrder, Holds, At

\* Two advances are one.
LEMMA AtAdd ==
  ASSUME NEW pos \in Pos, NEW a \in Nat, NEW b \in Nat, a + b <= BufferSize
  PROVE  At(At(pos, a), b) = At(pos, a + b) /\ At(pos, 0) = pos
<1>1. /\ BufferSize \in Nat \ {0} /\ pos \in Nat /\ pos < BufferSize
      /\ a \in 0 .. BufferSize /\ b \in 0 .. BufferSize
      /\ a + b \in 0 .. BufferSize /\ 0 \in 0 .. BufferSize
  BY SocketWordAssumption DEF Pos
<1> DEFINE q == At(pos, a)
<1>2. q \in Pos /\ q = IF pos + a < BufferSize THEN pos + a
                       ELSE pos + a - BufferSize
  BY <1>1, AtWraps
<1>3. q \in Nat /\ q < BufferSize
  BY <1>1, <1>2 DEF Pos
<1> HIDE DEF q
<1>4. At(q, b) = IF q + b < BufferSize THEN q + b ELSE q + b - BufferSize
  BY <1>1, <1>2, AtWraps
<1>5. /\ At(pos, a + b) = IF pos + (a + b) < BufferSize THEN pos + (a + b)
                          ELSE pos + (a + b) - BufferSize
      /\ At(pos, 0) = IF pos + 0 < BufferSize THEN pos + 0
                      ELSE pos + 0 - BufferSize
  BY <1>1, AtWraps
<1>6. At(q, b) = At(pos, a + b)
  BY <1>1, <1>2, <1>3, <1>4, <1>5
<1>7. At(pos, 0) = pos
  BY <1>1, <1>5
<1> QED
  BY <1>6, <1>7 DEF q

\* What recv and send move fits into the request, the bytes there are and the
\* room of the kernel.
LEMMA MovableFits ==
  ASSUME IndInv, NEW n \in Nat
  PROVE  /\ Movable(n) \in Nat /\ Movable(n) <= n
         /\ ep.dir = "in" => Movable(n) <= Len(queue["in"])
         /\ ep.dir = "out" => Len(queue["out"]) + Movable(n) <= SendRoom
<1>1. /\ Len(queue["in"]) \in Nat /\ Len(queue["out"]) \in Nat
      /\ SendRoom \in Nat /\ Len(queue["out"]) <= SendRoom /\ ep.dir \in Dirs
  BY Facts, StreamAssumption DEF Dirs, IndInv, RoomKept
<1>2. CASE ep.dir = "in"
  BY <1>1, <1>2 DEF Movable, lesser
<1>3. CASE ep.dir = "out" /\ fault = "none"
  BY <1>1, <1>3 DEF Movable, Sendable, lesser
<1>4. CASE ep.dir = "out" /\ fault # "none"
  BY <1>1, <1>4 DEF Movable
<1> QED
  BY <1>1, <1>2, <1>3, <1>4 DEF Dirs

\* recv into the read buffer, behind the bytes it holds.
LEMMA MoveIn ==
  ASSUME IndInv, ep.dir = "in", NEW pos, NEW n \in Nat, Move(pos, n),
         pos = At(eppos["in"], Moved("in")), n <= Len(queue["in"]),
         Left("in") + n <= BufferSize, Moved("in") + n <= BufferSize,
         ep' \in ThreadState(EpLabels), ep'.dir = "in",
         Moved("in")' = Moved("in") + n,
         UNCHANGED <<jobpos, eppos, job, put, got>>
  PROVE  /\ ring' \in [Dirs -> [Pos -> Nat]] /\ queue' \in [Dirs -> Seq(Nat)]
         /\ queue'["out"] = queue["out"]
         /\ BytesInOrder'
         /\ Left("in")' = Left("in") + n /\ Left("out")' = Left("out")
<1>1. "in" \in Dirs /\ "out" \in Dirs
  BY DEF Dirs
<1>2. /\ BufferSize \in Nat \ {0} /\ eppos["in"] \in Pos /\ First("in") \in Pos
      /\ Left("in") \in 0 .. BufferSize /\ InOrder("in") /\ InOrder("out")
      /\ queue["in"] \in Seq(Nat) /\ Len(queue["in"]) \in Nat
      /\ Len(got["in"]) \in Nat /\ put["in"] \in Nat
      /\ ring["in"] \in [Pos -> Nat] /\ Moved("in") \in Nat
      /\ ring \in [Dirs -> [Pos -> Nat]] /\ queue \in [Dirs -> Seq(Nat)]
  <2>1. Moved("in") \in Nat
    BY Facts DEF Moved
  <2> QED
    BY <1>1, <2>1, Facts DEF IndInv, TypeOK
<1> DEFINE Q == queue["in"]
           s == SubSeq(Q, 1, n)
           rest == SubSeq(Q, n + 1, Len(Q))
           b == Len(got["in"])
           f == First("in")
           l == Left("in")
<1>3. \A k \in 1 .. Len(Q) : Q[k] \in Nat /\ Q[k] = b + l + k
  BY <1>2, ElementOfSeq DEF InOrder, QueueBase
<1>4. s \in Seq(Nat) /\ Len(s) = n /\ \A k \in 1 .. n : s[k] = b + l + k
  <2>1. \A i \in 1 .. n : Q[i] \in Nat
    BY <1>2, <1>3
  <2>2. /\ s \in Seq(Nat) /\ Len(s) = IF 1 <= n THEN n - 1 + 1 ELSE 0
        /\ \A i \in 1 .. n - 1 + 1 : s[i] = Q[1 + i - 1]
    <3>1. 1 \in Int /\ n \in Int
      OBVIOUS
    <3> QED
      BY <2>1, <3>1, SubSeqProperties
  <2>3. \A k \in 1 .. n : s[k] = Q[k]
    BY <2>2
  <2>4. Len(s) = n
    BY <2>2
  <2> QED
    BY <1>2, <1>3, <2>2, <2>3, <2>4, SMTT(30)
<1>5. /\ rest \in Seq(Nat) /\ Len(rest) = Len(Q) - n
      /\ \A k \in 1 .. Len(Q) - n : rest[k] = b + l + n + k
  <2>1. \A i \in n + 1 .. Len(Q) : Q[i] \in Nat
    BY <1>2, <1>3
  <2>2. /\ rest \in Seq(Nat)
        /\ Len(rest) = IF n + 1 <= Len(Q) THEN Len(Q) - (n + 1) + 1 ELSE 0
        /\ \A i \in 1 .. Len(Q) - (n + 1) + 1 : rest[i] = Q[(n + 1) + i - 1]
    <3>1. n + 1 \in Int /\ Len(Q) \in Int
      BY <1>2
    <3> QED
      BY <2>1, <3>1, SubSeqProperties
  <2>3. Len(rest) = Len(Q) - n
    BY <1>2, <2>2, SMTT(30)
  <2>4. ASSUME NEW k \in 1 .. Len(Q) - n PROVE rest[k] = b + l + n + k
    <3>1. k \in 1 .. Len(Q) - (n + 1) + 1 /\ (n + 1) + k - 1 = n + k
          /\ n + k \in 1 .. Len(Q)
      BY <1>2
    <3>2. rest[k] = Q[n + k] /\ Q[n + k] = b + l + (n + k)
      BY <1>3, <2>2, <3>1
    <3> QED
      BY <1>2, <3>1, <3>2, SMTT(30)
  <2> QED
    BY <2>2, <2>3, <2>4
<1>6. /\ ring' = [ring EXCEPT !["in"] = Fill(ring["in"], pos, s)]
      /\ queue' = [queue EXCEPT !["in"] = rest]
  BY DEF Move, IntoRing, Fill
<1> HIDE DEF s, rest
<1>7. pos = At(f, l) /\ pos \in Pos
  BY <1>2, AtWraps DEF InOrder, End, At
<1>15. /\ f \in Pos /\ l \in Nat /\ l + n <= BufferSize /\ b \in Nat
       /\ Holds(ring["in"], f, l, b) /\ n <= BufferSize
  BY <1>2 DEF InOrder, BufferBase
<1>8. /\ Fill(ring["in"], pos, s) \in [Pos -> Nat]
      /\ Holds(Fill(ring["in"], pos, s), f, l + n, b)
      /\ At(At(f, l), n) = At(f, l + n)
  <2> HIDE DEF f, l, b
  <2>1. Fill(ring["in"], pos, s) \in [Pos -> Nat]
    BY <1>2, <1>4, <1>7, <1>15, FillEntries
  <2>2. /\ Holds(Fill(ring["in"], At(f, l), s), f, l + Len(s), b)
        /\ At(At(f, l), Len(s)) = At(f, l + Len(s))
    <3>1. l + Len(s) <= BufferSize /\ \A k \in 1 .. Len(s) : s[k] = b + l + k
      BY <1>4, <1>15
    <3> DEFINE r == ring["in"]
    <3>2. r \in [Pos -> Nat] /\ s \in Seq(Nat) /\ Holds(r, f, l, b)
      BY <1>2, <1>4, <1>15
    <3> HIDE DEF r
    <3>3. /\ Holds(Fill(r, At(f, l), s), f, l + Len(s), b)
          /\ At(At(f, l), Len(s)) = At(f, l + Len(s))
      BY <1>15, <3>1, <3>2, HoldsMore
    <3> QED
      BY <3>3 DEF r
  <2> QED
    BY <1>4, <1>7, <2>1, <2>2
<1>9. /\ ring' \in [Dirs -> [Pos -> Nat]] /\ queue' \in [Dirs -> Seq(Nat)]
      /\ ring'["in"] = Fill(ring["in"], pos, s) /\ ring'["out"] = ring["out"]
      /\ queue'["in"] = rest /\ queue'["out"] = queue["out"]
  BY <1>1, <1>2, <1>5, <1>6, <1>8
<1>10. Left("in")' = l + n
  <2>1. Len(queue'["in"]) = Len(Q) - n
    BY <1>5, <1>9
  <2>2. Left("in")' = put["in"] - Len(queue'["in"]) - b
    BY DEF Left
  <2>3. l = put["in"] - Len(Q) - b
    BY DEF Left
  <2>4. Len(Q) \in Nat /\ put["in"] \in Nat
    BY <1>2
  <2> HIDE DEF l, b, Q
  <2> QED
    BY <1>15, <2>1, <2>2, <2>3, <2>4
<1>11. First("in")' = f
  BY DEF First, Taking
<1>12. End("in")' = At(f, l + n)
  <2>1. End("in")' = At(eppos["in"], Moved("in") + n)
    BY DEF End, At
  <2>2. At(At(eppos["in"], Moved("in")), n) = At(eppos["in"], Moved("in") + n)
    BY <1>2, AtAdd
  <2> QED
    BY <1>7, <1>8, <2>1, <2>2
<1>13. InOrder("in")'
  <2>1. BufferBase("in")' = b + 0 /\ QueueBase("in")' = b + (l + n)
    BY <1>10 DEF BufferBase, QueueBase
  <2>2. Holds(ring["in"], First("in"), Left("in"), BufferBase("in"))'
    <3>1. b + 0 = b
      BY <1>2
    <3> QED
      BY <1>8, <1>9, <1>10, <1>11, <2>1, <3>1 DEF Holds, At
  <2>3. (End("in") = At(First("in"), Left("in")))'
    BY <1>10, <1>11, <1>12 DEF At
  <2>4. \A k \in 1 .. Len(queue'["in"]) :
          queue'["in"][k] = QueueBase("in")' + k
    <3> HIDE DEF l, b
    <3>1. \A k \in 1 .. Len(Q) - n : rest[k] = (b + (l + n)) + k
      BY <1>2, <1>5, <1>15
    <3>2. Len(rest) = Len(Q) - n
      BY <1>5
    <3> QED
      BY <1>9, <2>1, <3>1, <3>2
  <2> QED
    BY <1>2, <2>2, <2>3, <2>4 DEF InOrder
<1>14. InOrder("out")' /\ Left("out")' = Left("out")
  <2>1. First("out")' = First("out") /\ End("out")' = End("out")
    BY DEF First, End, Moved
  <2> QED
    BY <1>1, <1>2, <1>9, <2>1, OtherDirection
<1> QED
  BY <1>9, <1>10, <1>13, <1>14 DEF BytesInOrder

\* What is read from a buffer is the run of its first bytes.
LEMMA ReadsRun ==
  ASSUME IndInv, NEW d \in Dirs, NEW n \in Nat, n <= Left(d)
  PROVE  /\ FromRing(d, First(d), n) = Run(BufferBase(d), n)
         /\ Holds(ring[d], At(First(d), n), Left(d) - n, BufferBase(d) + n)
         /\ At(First(d), n) \in Pos
         /\ At(At(First(d), n), Left(d) - n) = End(d)
<1> DEFINE f == First(d)
           l == Left(d)
           b == BufferBase(d)
           r == ring[d]
<1>1. /\ BufferSize \in Nat /\ f \in Pos /\ l \in 0 .. BufferSize /\ b \in Nat
      /\ Holds(r, f, l, b) /\ End(d) = At(f, l)
  <2>1. Len(got[d]) \in Nat /\ Len(queue[d]) \in Nat /\ InOrder(d)
    BY Facts
  <2>2. b \in Nat
    <3> DEFINE x == Len(got[d])
               y == IF d = "in" THEN 0 ELSE Len(queue[d])
    <3>1. x \in Nat /\ y \in Nat
      BY <2>1
    <3>2. b = x + y
      BY DEF BufferBase
    <3> HIDE DEF x, y, b
    <3> QED
      BY <3>1, <3>2
  <2>3. BufferSize \in Nat /\ f \in Pos /\ l \in 0 .. BufferSize
    BY Facts
  <2> QED
    BY <2>1, <2>2, <2>3 DEF InOrder
<1>2. n \in 0 .. l
  BY <1>1
<1>3. FromRing(d, f, n) = [k \in 1 .. n |-> r[(f + k - 1) % BufferSize]]
  BY DEF FromRing
<1> HIDE DEF f, l, b, r
<1>4. /\ Holds(r, At(f, n), l - n, b + n) /\ At(f, n) \in Pos
      /\ At(At(f, n), l - n) = At(f, l)
      /\ \A k \in 1 .. n : r[(f + k - 1) % BufferSize] = b + k
  BY <1>1, <1>2, HoldsLess, SMTT(30)
<1>5. FromRing(d, f, n) = Run(b, n)
  BY <1>3, <1>4 DEF Run
<1> QED
  BY <1>1, <1>4, <1>5 DEF f, l, b, r

\* send from the write buffer: its first bytes go behind those in the kernel.
LEMMA MoveOut ==
  ASSUME IndInv, ep.dir = "out", NEW pos, NEW n \in Nat, Move(pos, n),
         pos = At(eppos["out"], Moved("out")), n <= Left("out"),
         Moved("out") + n <= BufferSize,
         ep' \in ThreadState(EpLabels), ep'.dir = "out",
         Moved("out")' = Moved("out") + n,
         UNCHANGED <<jobpos, eppos, job, put, got>>
  PROVE  /\ ring' = ring /\ queue' \in [Dirs -> Seq(Nat)]
         /\ queue'["in"] = queue["in"]
         /\ Len(queue'["out"]) = Len(queue["out"]) + n
         /\ BytesInOrder'
         /\ Left("out")' = Left("out") - n /\ Left("in")' = Left("in")
<1>1. "in" \in Dirs /\ "out" \in Dirs
  BY DEF Dirs
<1> DEFINE Q == queue["out"]
           g == Len(got["out"])
           f == First("out")
           l == Left("out")
           b == BufferBase("out")
<1>2. /\ BufferSize \in Nat \ {0} /\ eppos["out"] \in Pos /\ l \in 0 .. BufferSize
      /\ InOrder("in") /\ InOrder("out") /\ Q \in Seq(Nat) /\ Len(Q) \in Nat
      /\ g \in Nat /\ put["out"] \in Nat /\ Moved("out") \in Nat
      /\ queue \in [Dirs -> Seq(Nat)]
  <2>1. Moved("out") \in Nat
    BY Facts DEF Moved
  <2> QED
    BY <1>1, <2>1, Facts DEF IndInv, TypeOK
<1>3. f = pos
  BY DEF First, At
<1>4. b = g + Len(Q) /\ \A k \in 1 .. Len(Q) : Q[k] = g + k
  BY <1>2 DEF BufferBase, InOrder, QueueBase
<1>5. /\ FromRing("out", f, n) = Run(b, n)
      /\ Holds(ring["out"], At(f, n), l - n, b + n)
      /\ At(f, n) \in Pos /\ At(At(f, n), l - n) = End("out")
  BY <1>1, ReadsRun
<1>6. ring' = ring /\ queue' = [queue EXCEPT !["out"] = @ \o Run(b, n)]
  BY <1>3, <1>5 DEF Move
<1> DEFINE P == Q \o Run(b, n)
<1>7. /\ P \in Seq(Nat) /\ Len(P) = Len(Q) + n
      /\ \A k \in 1 .. Len(Q) + n : P[k] = g + k
  <2> HIDE DEF Q, g, b
  <2>1. /\ Q \in Seq(Nat) /\ g \in Nat /\ b \in Nat /\ b = g + Len(Q)
        /\ Numbered(Q, g)
    BY <1>2, <1>4 DEF Numbered
  <2>2. P \in Seq(Nat) /\ Len(P) = Len(Q) + n /\ Numbered(P, g)
    BY <2>1, RunAppended
  <2> HIDE DEF P
  <2> QED
    BY <2>2 DEF Numbered
<1>8. queue'["out"] = P /\ queue'["in"] = queue["in"]
      /\ queue' \in [Dirs -> Seq(Nat)]
  <2>1. queue' = [queue EXCEPT !["out"] = P]
    BY <1>4, <1>6
  <2> HIDE DEF P
  <2> QED
    BY <1>1, <1>2, <1>7, <2>1
<1> HIDE DEF P
<1>9. Left("out")' = l - n
  <2>1. Left("out")' = put["out"] - Len(P) - g /\ l = put["out"] - Len(Q) - g
    BY <1>8 DEF Left
  <2> HIDE DEF g, l, Q
  <2> QED
    BY <1>2, <1>7, <2>1, SMTT(30)
<1>10. First("out")' = At(f, n)
  <2>1. First("out")' = At(eppos["out"], Moved("out") + n)
    BY DEF First, At
  <2> QED
    BY <1>2, <1>3, <2>1, AtAdd
<1>11. End("out")' = End("out")
  BY DEF End
<1>12. InOrder("out")'
  <2>1. BufferBase("out")' = b + n /\ QueueBase("out")' = g + 0
    <3>1. BufferBase("out")' = g + Len(P) /\ QueueBase("out")' = g + 0
      BY <1>8 DEF BufferBase, QueueBase
    <3> HIDE DEF g, b, Q
    <3> QED
      BY <1>2, <1>4, <1>7, <3>1
  <2>2. Holds(ring["out"], First("out"), Left("out"), BufferBase("out"))'
    BY <1>5, <1>6, <1>9, <1>10, <2>1 DEF Holds, At
  <2>3. (End("out") = At(First("out"), Left("out")))'
    BY <1>5, <1>9, <1>10, <1>11 DEF At
  <2>4. \A k \in 1 .. Len(queue'["out"]) :
          queue'["out"][k] = QueueBase("out")' + k
    <3> HIDE DEF g, Q
    <3> QED
      BY <1>2, <1>7, <1>8, <2>1
  <2> QED
    BY <1>2, <2>2, <2>3, <2>4 DEF InOrder
<1>13. InOrder("in")' /\ Left("in")' = Left("in")
  <2>1. First("in")' = First("in") /\ End("in")' = End("in")
    BY DEF First, End, Moved, Taking
  <2> QED
    BY <1>1, <1>2, <1>6, <1>8, <2>1, OtherDirection
<1> QED
  BY <1>6, <1>7, <1>8, <1>9, <1>12, <1>13 DEF BytesInOrder

\* A transfer of n more bytes by the epoll thread, in either direction.
LEMMA Transfer ==
  ASSUME IndInv, NEW pos, NEW n \in Nat, Move(pos, n),
         pos = At(eppos[ep.dir], Moved(ep.dir)),
         ep.pc \in {"move", "rest"}, Moved(ep.dir) + n <= ep.size,
         ep.dir = "in" => n <= Len(queue["in"]),
         ep.dir = "out" => Len(queue["out"]) + n <= SendRoom,
         ep' \in ThreadState(EpLabels), ep'.dir = ep.dir, ep'.size = ep.size,
         ep'.pc \in {"rest", "add"}, ep'.n = Moved(ep.dir) + n,
         0 < ep'.n, ep'.pc = "rest" => ep'.n = BufferSize - eppos[ep.dir],
         UNCHANGED <<htc, eppos, armed, added, load, cond, jobpos, job, fault,
                     put, got>>
  PROVE  IndInv' /\ [Stream!Next]_(Stream!streamVars)
<1> DEFINE d == ep.dir
           m == Moved(d)
<1>1. /\ BufferSize \in Nat \ {0} /\ d \in Dirs /\ ep.size \in Nat
      /\ htc.count \in 0 .. BufferSize /\ htc.avail \in 0 .. BufferSize
      /\ ep.n \in 0 .. BufferSize /\ job.n \in 0 .. BufferSize
      /\ Left("in") \in Int /\ Left("out") \in Int
      /\ htc.count = Left("in") - MoveDue("in") + ReadDue
      /\ BufferSize - htc.avail = Left("out") + MoveDue("out") - WriteDue
  <2>1. ep.size \in Nat
    BY DEF IndInv, TypeOK, ThreadState
  <2> QED
    BY <2>1, Facts DEF Dirs
<1>2. /\ 0 < ep.size
      /\ ep.size <= BufferSize - IF d = "in" THEN htc.count ELSE htc.avail
  BY DEF IndInv, EpTransfer
<1>3. /\ ReadDue \in Nat /\ WriteDue \in Nat
      /\ ReadDue' = ReadDue /\ WriteDue' = WriteDue
  BY <1>1 DEF ReadDue, WriteDue
<1>4. m \in Nat /\ MoveDue(d) = m
  BY <1>1 DEF Moved, MoveDue
<1>5. Moved(d)' = m + n /\ MoveDue(d)' = m + n
  BY DEF Moved, MoveDue
<1>6. EpTransfer' /\ JobTransfer' /\ NoTimeout'
  <2>1. EpTransfer'
    <3>1. ep'.n <= ep.size
      OBVIOUS
    <3> QED
      BY <1>2, <3>1 DEF EpTransfer
  <2> QED
    BY <2>1 DEF IndInv, JobTransfer, NoTimeout
<1>7. m + n <= BufferSize
  BY <1>1, <1>2, <1>4
<1>8. CASE d = "in"
  <2>1. MoveDue("out") = 0 /\ MoveDue("out")' = 0
    BY <1>8 DEF MoveDue
  <2> HIDE DEF m
  <2>2. Left("in") + n <= BufferSize
    BY <1>1, <1>2, <1>3, <1>4, <1>8 DEF m
  <2>3. /\ ring' \in [Dirs -> [Pos -> Nat]] /\ queue' \in [Dirs -> Seq(Nat)]
        /\ queue'["out"] = queue["out"] /\ BytesInOrder'
        /\ Left("in")' = Left("in") + n /\ Left("out")' = Left("out")
    <3>1. /\ ep.dir = "in" /\ ep'.dir = "in"
          /\ pos = At(eppos["in"], Moved("in")) /\ n <= Len(queue["in"])
          /\ Moved("in") + n <= BufferSize /\ Moved("in")' = Moved("in") + n
      BY <1>5, <1>7, <1>8 DEF m
    <3> QED
      BY <2>2, <3>1, MoveIn
  <2>4. TypeOK'
    BY <2>3 DEF IndInv, TypeOK
  <2>5. RoomKept'
    BY <2>3 DEF IndInv, RoomKept
  <2>6. CountsAreExact'
    <3>1. /\ htc.count = Left("in")' - MoveDue("in")' + ReadDue'
          /\ BufferSize - htc.avail = Left("out")' + MoveDue("out")' - WriteDue'
      BY <1>1, <1>3, <1>4, <1>5, <1>8, <2>1, <2>3
    <3> QED
      BY <3>1 DEF CountsAreExact, Left, MoveDue, ReadDue, WriteDue
  <2> QED
    BY <1>6, <2>3, <2>4, <2>5, <2>6 DEF IndInv, Stream!streamVars
<1>9. CASE d = "out"
  <2>1. MoveDue("in") = 0 /\ MoveDue("in")' = 0
    BY <1>9 DEF MoveDue
  <2> HIDE DEF m
  <2>2. n <= Left("out")
    <3>1. WriteDue \in Nat /\ MoveDue("out") = m /\ m + n <= BufferSize - htc.avail
      BY <1>1, <1>2, <1>3, <1>4, <1>9, SMTT(30) DEF m
    <3> QED
      BY <1>1, <1>4, <3>1
  <2>3. /\ ring' = ring /\ queue' \in [Dirs -> Seq(Nat)]
        /\ queue'["in"] = queue["in"] /\ BytesInOrder'
        /\ Len(queue'["out"]) = Len(queue["out"]) + n
        /\ Left("out")' = Left("out") - n /\ Left("in")' = Left("in")
    <3>1. /\ ep.dir = "out" /\ ep'.dir = "out"
          /\ pos = At(eppos["out"], Moved("out"))
          /\ Moved("out") + n <= BufferSize /\ Moved("out")' = Moved("out") + n
      BY <1>5, <1>7, <1>9 DEF m
    <3> QED
      BY <2>2, <3>1, MoveOut
  <2>4. TypeOK'
    BY <2>3 DEF IndInv, TypeOK
  <2>5. RoomKept'
    BY <1>9, <2>3 DEF RoomKept
  <2>6. CountsAreExact'
    <3>1. /\ htc.count = Left("in")' - MoveDue("in")' + ReadDue'
          /\ BufferSize - htc.avail = Left("out")' + MoveDue("out")' - WriteDue'
      BY <1>1, <1>3, <1>4, <1>5, <1>9, <2>1, <2>3
    <3> QED
      BY <3>1 DEF CountsAreExact, Left, MoveDue, ReadDue, WriteDue
  <2> QED
    BY <1>6, <2>3, <2>4, <2>5, <2>6 DEF IndInv, Stream!streamVars
<1> QED
  BY <1>1, <1>8, <1>9 DEF Dirs

\* The part of a transfer up to the end of the buffer, and the rest.
LEMMA EpMoves ==
  ASSUME IndInv, MoveFirst \/ MoveRest
  PROVE  IndInv' /\ [Stream!Next]_(Stream!streamVars)
<1> DEFINE d == ep.dir
<1>1. /\ BufferSize \in Nat \ {0} /\ d \in Dirs /\ ep.size \in Nat
      /\ ep.n \in 0 .. BufferSize /\ eppos[d] \in Pos
      /\ ep \in ThreadState(EpLabels) /\ EpTransfer
      /\ htc.count \in 0 .. BufferSize /\ htc.avail \in 0 .. BufferSize
  <2>1. ep.size \in Nat
    BY DEF IndInv, TypeOK, ThreadState
  <2> QED
    BY <2>1, Facts DEF IndInv, TypeOK
<1>2. eppos[d] \in Nat /\ eppos[d] < BufferSize
  BY <1>1 DEF Pos
<1>3. ep.pc \in {"move", "rest"} => ep.size <= BufferSize
  <2>1. ep.pc \in {"move", "rest"} => ep.size <= BufferSize
          - IF d = "in" THEN htc.count ELSE htc.avail
    BY <1>1 DEF EpTransfer
  <2> QED
    BY <1>1, <2>1
<1>4. CASE MoveFirst
  <2> DEFINE first == lesser(ep.size, BufferSize - eppos[d])
             n == Movable(first)
  <2>1. /\ ep.pc = "move"
        /\ UNCHANGED <<htc, eppos, armed, added, load, cond, jobpos, job, fault,
                       put, got>>
        /\ IF n = 0 THEN ep' = AfterFailure /\ UNCHANGED <<ring, queue>>
           ELSE /\ Move(eppos[d], n)
                /\ ep' = [ep EXCEPT !.n = n, !.pc =
                            IF n = first /\ first < ep.size THEN "rest" ELSE "add"]
    BY <1>4 DEF MoveFirst, epOnly
  <2>2. /\ first \in Nat /\ first <= ep.size /\ first <= BufferSize
        /\ first < ep.size => first = BufferSize - eppos[d]
    BY <1>1, <1>2 DEF lesser
  <2> HIDE DEF first
  <2>3. /\ n \in Nat /\ n <= first
        /\ d = "in" => n <= Len(queue["in"])
        /\ d = "out" => Len(queue["out"]) + n <= SendRoom
    BY <2>2, MovableFits
  <2> HIDE DEF n
  <2>4. Moved(d) = 0 /\ \A e \in Dirs : Moved(e) = 0 /\ MoveDue(e) = 0
    BY <1>1, <2>1 DEF Moved, MoveDue
  <2>5. CASE n = 0
    <3>1. ep' \in ThreadState(EpLabels) /\ ep'.pc \in {"activate", "dead"}
      BY <2>1, <2>5, ThreadType DEF AfterFailure, Thread, EpLabels
    <3>2. EpTransfer' /\ \A e \in Dirs : MoveDue(e)' = MoveDue(e)
                                         /\ Moved(e)' = Moved(e)
      BY <2>4, <3>1 DEF EpTransfer, MoveDue, Moved
    <3>3. htc' \in HtcWord /\ NoTimeout' /\ armed' \in SUBSET Dirs
          /\ added' \in BOOLEAN
      BY <2>1 DEF IndInv, TypeOK, NoTimeout
    <3> QED
      BY <2>1, <2>5, <3>1, <3>2, <3>3, EpQuiet
  <2>6. CASE n # 0
    <3>1. /\ Move(eppos[d], n)
          /\ ep' = [ep EXCEPT !.n = n, !.pc =
                      IF n = first /\ first < ep.size THEN "rest" ELSE "add"]
      BY <2>1, <2>6
    <3>2. n \in 0 .. BufferSize
      BY <1>1, <2>2, <2>3
    <3>3. ep' \in ThreadState(EpLabels)
      BY <1>1, <3>1, <3>2 DEF ThreadState, EpLabels
    <3>4. /\ ep'.n = n /\ ep'.dir = d /\ ep'.size = ep.size
          /\ ep'.pc = IF n = first /\ first < ep.size THEN "rest" ELSE "add"
      BY <1>1, <3>1 DEF ThreadState
    <3>5. eppos[d] = At(eppos[d], Moved(d))
      BY <1>1, <2>4, AtAdd
    <3>6. /\ Moved(d) + n <= ep.size /\ ep'.n = Moved(d) + n /\ 0 < ep'.n
          /\ ep'.pc \in {"rest", "add"}
          /\ ep'.pc = "rest" => ep'.n = BufferSize - eppos[d]
      BY <1>1, <2>2, <2>3, <2>4, <2>6, <3>4
    <3> QED
      BY <2>1, <2>3, <3>1, <3>3, <3>4, <3>5, <3>6, Transfer
  <2> QED
    BY <2>5, <2>6
<1>5. CASE MoveRest
  <2> DEFINE n == Movable(ep.size - ep.n)
             b == n = 0 /\ fault # "none"
  <2>1. /\ ep.pc = "rest" /\ Move(0, n)
        /\ ep' = [ep EXCEPT !.pc = "add", !.n = @ + n, !.dead = b]
        /\ UNCHANGED <<htc, eppos, armed, added, load, cond, jobpos, job, fault,
                       put, got>>
    BY <1>5 DEF MoveRest, epOnly
  <2>2. /\ 0 < ep.n /\ ep.n <= ep.size /\ ep.n = BufferSize - eppos[d]
    BY <1>1, <2>1 DEF EpTransfer
  <2>3. ep.size - ep.n \in Nat
    BY <1>1, <2>2
  <2>4. /\ n \in Nat /\ n <= ep.size - ep.n
        /\ d = "in" => n <= Len(queue["in"])
        /\ d = "out" => Len(queue["out"]) + n <= SendRoom
    BY <2>3, MovableFits
  <2>5. b \in BOOLEAN
    OBVIOUS
  <2> HIDE DEF n, b
  <2>6. ep.n + n \in 0 .. BufferSize
    BY <1>1, <1>3, <2>1, <2>2, <2>4
  <2> DEFINE e == [ep EXCEPT !.pc = "add", !.n = ep.n + n]
  <2>7. /\ e \in ThreadState(EpLabels) /\ e.pc = "add" /\ e.n = ep.n + n
        /\ e.size = ep.size /\ e.dir = d
    BY <1>1, <2>6 DEF ThreadState, EpLabels
  <2>8. ep' = [e EXCEPT !.dead = b]
    BY <1>1, <2>1 DEF ThreadState
  <2> HIDE DEF e
  <2>9. /\ ep' \in ThreadState(EpLabels) /\ ep'.pc = "add" /\ ep'.n = ep.n + n
        /\ ep'.size = ep.size /\ ep'.dir = d
    BY <2>5, <2>7, <2>8, DeadField
  <2>10. Moved(d) = ep.n
    BY <2>1 DEF Moved
  <2>11. 0 = At(eppos[d], Moved(d))
    <3>1. eppos[d] + ep.n = BufferSize
      BY <1>1, <1>2, <2>2
    <3> QED
      BY <1>1, <1>2, <2>10, <3>1, AtWraps
  <2>12. Moved(d) + n <= ep.size /\ 0 < ep'.n
    BY <1>1, <2>2, <2>3, <2>4, <2>9, <2>10
  <2> QED
    BY <2>1, <2>4, <2>9, <2>10, <2>11, <2>12, Transfer
<1> QED
  BY <1>4, <1>5

\* The job's copy out of the read buffer delivers the next bytes.
LEMMA JobReads ==
  ASSUME IndInv, ReadCopy
  PROVE  IndInv' /\ [Stream!Next]_(Stream!streamVars)
<1> DEFINE n == job.n
           G == got["in"]
           l == Left("in")
           f == First("in")
<1>1. "in" \in Dirs /\ "out" \in Dirs
  BY DEF Dirs
<1>2. /\ BufferSize \in Nat \ {0} /\ n \in Nat /\ n <= BufferSize
      /\ jobpos["in"] \in Pos /\ l \in Nat /\ l <= BufferSize
      /\ G \in Seq(Nat) /\ Len(G) \in Nat /\ Len(queue["in"]) \in Nat
      /\ put["in"] \in Nat /\ htc.count \in Nat
      /\ InOrder("in") /\ InOrder("out") /\ job \in ThreadState(JobLabels)
      /\ got \in [Dirs -> Seq(Nat)]
      /\ htc.count = Left("in") - MoveDue("in") + ReadDue
      /\ BufferSize - htc.avail = Left("out") + MoveDue("out") - WriteDue
  <2>1. /\ job.n \in 0 .. BufferSize /\ Left("in") \in 0 .. BufferSize
        /\ htc.count \in 0 .. BufferSize /\ BufferSize \in Nat \ {0}
    BY <1>1, Facts
  <2>2. n \in Nat /\ n <= BufferSize /\ l \in Nat /\ l <= BufferSize
        /\ htc.count \in Nat
    BY <2>1
  <2> HIDE DEF n, l
  <2> QED
    BY <1>1, <2>1, <2>2, Facts DEF IndInv, TypeOK
<1>3. /\ job.pc = "read" /\ job' = [job EXCEPT !.pc = "read_add"]
      /\ got' = [got EXCEPT !["in"] = @ \o FromRing("in", jobpos["in"], n)]
      /\ UNCHANGED <<htc, ring, jobpos, armed, put, cond, eppos, ep, added, load,
                     queue, fault>>
  BY DEF ReadCopy, jobOnly, netVars
<1>4. /\ job' \in ThreadState(JobLabels) /\ job'.pc = "read_add" /\ job'.n = n
  BY <1>2, <1>3 DEF ThreadState, JobLabels
<1>5. f = jobpos["in"] /\ f \in Pos
  <2>1. f = At(jobpos["in"], 0)
    BY <1>3 DEF First, Taking, At
  <2> QED
    BY <1>2, <2>1, AtAdd
<1>6. n <= l
  <2>1. n <= htc.count /\ ReadDue = 0
    BY <1>3 DEF IndInv, JobTransfer, ReadDue
  <2>2. MoveDue("in") \in Nat
    BY Facts DEF MoveDue
  <2> QED
    BY <1>2, <2>1, <2>2
<1>7. /\ FromRing("in", f, n) = Run(Len(G), n)
      /\ Holds(ring["in"], At(f, n), l - n, Len(G) + n)
      /\ At(At(f, n), l - n) = End("in")
  <2>1. BufferBase("in") = Len(G)
    BY <1>2 DEF BufferBase
  <2>2. n \in Nat /\ n <= Left("in")
    BY <1>2, <1>6
  <2> QED
    BY <1>1, <2>1, <2>2, ReadsRun
<1> DEFINE H == G \o Run(Len(G), n)
<1>8. /\ H \in Seq(Nat) /\ Len(H) = Len(G) + n
      /\ \A k \in 1 .. Len(H) : H[k] = k
  <2>1. \A k \in 1 .. Len(G) : G[k] = k
    BY <1>2 DEF InOrder
  <2> HIDE DEF G, n
  <2> QED
    BY <1>2, <2>1, RunDelivered
<1>9. /\ got' = [got EXCEPT !["in"] = H] /\ got'["in"] = H
      /\ got'["out"] = got["out"] /\ got' \in [Dirs -> Seq(Nat)]
  <2>1. got' = [got EXCEPT !["in"] = H]
    BY <1>3, <1>5, <1>7
  <2> HIDE DEF H
  <2> QED
    BY <1>1, <1>2, <1>8, <2>1
<1> HIDE DEF H
<1>10. Left("in")' = l - n
  <2>1. /\ Left("in")' = put["in"] - Len(queue["in"]) - Len(H)
        /\ l = put["in"] - Len(queue["in"]) - Len(G)
    BY <1>3, <1>9 DEF Left
  <2> HIDE DEF l, G, n
  <2> QED
    BY <1>2, <1>8, <2>1
<1>11. First("in")' = At(f, n) /\ End("in")' = End("in")
  BY <1>3, <1>4, <1>5 DEF First, Taking, At, End, Moved
<1>12. InOrder("in")'
  <2>1. /\ BufferBase("in")' = Len(G) + n
        /\ QueueBase("in")' = QueueBase("in")
    <3>1. /\ BufferBase("in")' = Len(H) + 0
          /\ QueueBase("in")' = Len(H) + (l - n)
          /\ QueueBase("in") = Len(G) + l
      BY <1>9, <1>10 DEF BufferBase, QueueBase
    <3> HIDE DEF G, n, l
    <3> QED
      BY <1>2, <1>8, <3>1
  <2>2. Holds(ring["in"], First("in"), Left("in"), BufferBase("in"))'
    BY <1>3, <1>7, <1>10, <1>11, <2>1 DEF Holds, At
  <2>3. (End("in") = At(First("in"), Left("in")))'
    BY <1>7, <1>10, <1>11 DEF At
  <2>4. \A k \in 1 .. Len(queue'["in"]) :
          queue'["in"][k] = QueueBase("in")' + k
    BY <1>2, <1>3, <2>1 DEF InOrder
  <2> QED
    BY <1>8, <1>9, <2>2, <2>3, <2>4 DEF InOrder
<1>13. InOrder("out")' /\ Left("out")' = Left("out")
  <2>1. First("out")' = First("out") /\ End("out")' = End("out")
    BY <1>3 DEF First, End, Moved
  <2> QED
    BY <1>1, <1>2, <1>3, <1>9, <2>1, OtherDirection
<1>14. CountsAreExact'
  <2>1. /\ ReadDue = 0 /\ ReadDue' = n /\ WriteDue = 0 /\ WriteDue' = 0
        /\ MoveDue("in")' = MoveDue("in") /\ MoveDue("out")' = MoveDue("out")
    BY <1>3, <1>4 DEF ReadDue, WriteDue, MoveDue
  <2>2. MoveDue("in") \in Nat /\ MoveDue("out") \in Nat
    BY Facts DEF MoveDue
  <2>3. /\ htc.count = Left("in")' - MoveDue("in")' + ReadDue'
        /\ BufferSize - htc.avail = Left("out")' + MoveDue("out")' - WriteDue'
    <3> HIDE DEF n
    <3> QED
      BY <1>2, <1>10, <1>13, <2>1, <2>2
  <2> QED
    BY <1>3, <2>3 DEF CountsAreExact, Left, MoveDue, ReadDue, WriteDue
<1>15. TypeOK' /\ NoTimeout' /\ EpTransfer' /\ JobTransfer' /\ RoomKept'
  BY <1>3, <1>4, <1>9
  DEF IndInv, TypeOK, NoTimeout, EpTransfer, JobTransfer, RoomKept
<1>16. Stream!Get("in", Len(got'["in"]) - Len(got["in"]))
  <2>1. Len(got'["in"]) - Len(got["in"]) = n
    <3>1. Len(got'["in"]) = Len(G) + n
      BY <1>8, <1>9
    <3> HIDE DEF n
    <3> QED
      BY <1>2, <3>1
  <2>2. Len(G) + n <= put["in"]
    <3>1. l = put["in"] - Len(queue["in"]) - Len(G)
      BY DEF Left
    <3> HIDE DEF l, G, n
    <3> QED
      BY <1>2, <1>6, <3>1
  <2>3. got' = [got EXCEPT !["in"] = @ \o [i \in 1 .. n |-> Len(@) + i]]
    BY <1>9 DEF H, Run
  <2> QED
    BY <1>3, <2>1, <2>2, <2>3 DEF Stream!Get
<1> QED
  BY <1>1, <1>12, <1>13, <1>14, <1>15, <1>16
  DEF IndInv, BytesInOrder, Stream!Next

\* Bytes handed over are a step of the channel, or none.
LEMMA PutStep ==
  ASSUME NEW d \in Dirs, NEW n \in Nat, put \in [Dirs -> Nat],
         put' = [put EXCEPT ![d] = @ + n], got' = got
  PROVE  [Stream!Next]_(Stream!streamVars)
<1>1. put[d] \in Nat /\ put'[d] = put[d] + n
  OBVIOUS
<1>2. CASE n = 0
  <2>1. put' = put
    BY <1>1, <1>2
  <2> QED
    BY <2>1 DEF Stream!streamVars
<1>3. CASE n # 0
  <2>1. put'[d] > put[d] /\ put'[d] - put[d] = n
    BY <1>1, <1>3
  <2>2. Stream!Put(d, put'[d] - put[d])
    BY <2>1 DEF Stream!Put
  <2> QED
    BY <2>1, <2>2 DEF Stream!Next
<1> QED
  BY <1>2, <1>3

\* The job copies bytes behind those in the write buffer.
LEMMA JobBuffers ==
  ASSUME IndInv, BufferCopy
  PROVE  IndInv' /\ [Stream!Next]_(Stream!streamVars)
<1> DEFINE n == job.n
           p == put["out"]
           l == Left("out")
           f == First("out")
           b == BufferBase("out")
           pos == jobpos["out"]
           r == ring["out"]
           s == Run(p, n)
           q == Len(queue["out"])
           g == Len(got["out"])
<1>1. "in" \in Dirs /\ "out" \in Dirs
  BY DEF Dirs
<1>2. /\ BufferSize \in Nat \ {0} /\ n \in Nat /\ n <= BufferSize
      /\ n \in 0 .. BufferSize
      /\ pos \in Pos /\ l \in Nat /\ l <= BufferSize /\ f \in Pos
      /\ q \in Nat /\ g \in Nat /\ p \in Nat /\ htc.avail \in Nat
      /\ r \in [Pos -> Nat]
  <2>1. /\ job.n \in 0 .. BufferSize /\ Left("out") \in 0 .. BufferSize
        /\ htc.avail \in 0 .. BufferSize /\ BufferSize \in Nat \ {0}
    BY <1>1, Facts
  <2>2. n \in Nat /\ n <= BufferSize /\ l \in Nat /\ l <= BufferSize
        /\ htc.avail \in Nat /\ n \in 0 .. BufferSize
    BY <2>1
  <2> HIDE DEF n, l
  <2> QED
    BY <1>1, <2>1, <2>2, Facts
<1>3. /\ InOrder("in") /\ InOrder("out") /\ job \in ThreadState(JobLabels)
      /\ ring \in [Dirs -> [Pos -> Nat]] /\ jobpos \in [Dirs -> Pos]
      /\ put \in [Dirs -> Nat]
      /\ htc.count = Left("in") - MoveDue("in") + ReadDue
      /\ BufferSize - htc.avail = Left("out") + MoveDue("out") - WriteDue
  BY <1>1, Facts DEF IndInv, TypeOK
<1>4. /\ job.pc = "buffer_copy" /\ job' = [job EXCEPT !.pc = "buffer_add"]
      /\ ring' = [ring EXCEPT !["out"] = Fill(r, pos, s)]
      /\ jobpos' = [jobpos EXCEPT !["out"] = Advance(pos, n)]
      /\ put' = [put EXCEPT !["out"] = @ + n]
      /\ UNCHANGED <<htc, armed, got, cond, eppos, ep, added, load, queue,
                     fault>>
  BY DEF BufferCopy, jobOnly, netVars, IntoRing, Fill, NextBytes, Run
<1>5. job' \in ThreadState(JobLabels) /\ job'.pc = "buffer_add" /\ job'.n = n
  BY <1>3, <1>4 DEF ThreadState, JobLabels
<1>6. l + n <= BufferSize
  <2>1. n <= htc.avail /\ WriteDue = 0
    BY <1>4 DEF IndInv, JobTransfer, WriteDue
  <2>2. MoveDue("out") \in Nat
    BY Facts DEF MoveDue
  <2> HIDE DEF n
  <2> QED
    BY <1>2, <1>3, <2>1, <2>2
<1>7. b = g + q /\ b \in Nat /\ p = b + l
  <2>1. b = g + q /\ l = p - q - g
    BY DEF BufferBase, Left
  <2> HIDE DEF b, l, g, q, p
  <2> QED
    BY <1>2, <2>1
<1>8. pos = At(f, l) /\ Holds(r, f, l, b)
  BY <1>3 DEF InOrder, End
<1>9. s \in Seq(Nat) /\ Len(s) = n /\ \A k \in 1 .. n : s[k] = p + k
  BY <1>2, RunIsSeq
<1>10. Advance(pos, n) = At(pos, n) /\ At(pos, n) \in Pos
  BY <1>2, AdvanceIsAt, AtWraps
<1> HIDE DEF n, p, l, f, b, pos, r, s, q, g
<1>11. /\ Fill(r, pos, s) \in [Pos -> Nat]
       /\ Holds(Fill(r, pos, s), f, l + n, b)
       /\ At(pos, n) = At(f, l + n)
  <2>1. l + Len(s) <= BufferSize /\ Len(s) <= BufferSize
    BY <1>2, <1>6, <1>9
  <2>2. \A k \in 1 .. Len(s) : s[k] = b + l + k
    BY <1>2, <1>7, <1>9
  <2>3. Fill(r, pos, s) \in [Pos -> Nat]
    BY <1>2, <1>9, <2>1, FillEntries
  <2>4. /\ Holds(Fill(r, At(f, l), s), f, l + Len(s), b)
        /\ At(At(f, l), Len(s)) = At(f, l + Len(s))
    <3>1. /\ r \in [Pos -> Nat] /\ f \in Pos /\ l \in Nat /\ b \in Nat
          /\ s \in Seq(Nat) /\ Holds(r, f, l, b)
      BY <1>2, <1>7, <1>8, <1>9
    <3> QED
      BY <2>1, <2>2, <3>1, HoldsMore
  <2> QED
    BY <1>8, <1>9, <2>3, <2>4
<1>12. /\ ring' \in [Dirs -> [Pos -> Nat]] /\ ring'["out"] = Fill(r, pos, s)
       /\ ring'["in"] = ring["in"]
       /\ jobpos' \in [Dirs -> Pos] /\ jobpos'["out"] = At(pos, n)
       /\ jobpos'["in"] = jobpos["in"]
       /\ put' \in [Dirs -> Nat] /\ put'["out"] = p + n /\ put'["in"] = put["in"]
  <2>1. put'["out"] = p + n /\ put'["in"] = put["in"] /\ put' \in [Dirs -> Nat]
    BY <1>1, <1>2, <1>3, <1>4 DEF p
  <2> QED
    BY <1>1, <1>2, <1>3, <1>4, <1>10, <1>11, <2>1
<1>13. Left("out")' = l + n
  <2>1. Left("out")' = (p + n) - q - g /\ l = p - q - g
    BY <1>4, <1>12 DEF Left, l, p, q, g
  <2> QED
    BY <1>2, <2>1
<1>14. First("out")' = f /\ End("out")' = At(pos, n)
  BY <1>4, <1>12 DEF First, End, Moved, f
<1>15. InOrder("out")'
  <2>1. BufferBase("out")' = b /\ QueueBase("out")' = QueueBase("out")
    BY <1>4 DEF BufferBase, QueueBase, b
  <2>2. Holds(ring["out"], First("out"), Left("out"), BufferBase("out"))'
    BY <1>11, <1>12, <1>13, <1>14, <2>1 DEF Holds, At
  <2>3. (End("out") = At(First("out"), Left("out")))'
    BY <1>11, <1>13, <1>14 DEF At
  <2> QED
    BY <1>3, <1>4, <2>1, <2>2, <2>3 DEF InOrder
<1>16. InOrder("in")' /\ Left("in")' = Left("in")
  <2>1. First("in")' = First("in") /\ End("in")' = End("in")
    BY <1>4, <1>5, <1>12 DEF First, End, Moved, Taking
  <2> QED
    BY <1>1, <1>3, <1>4, <1>12, <2>1, OtherDirection
<1>17. CountsAreExact'
  <2>1. /\ ReadDue = 0 /\ ReadDue' = 0 /\ WriteDue = 0 /\ WriteDue' = n
        /\ MoveDue("in")' = MoveDue("in") /\ MoveDue("out")' = MoveDue("out")
    BY <1>4, <1>5 DEF ReadDue, WriteDue, MoveDue
  <2>2. MoveDue("in") \in Nat /\ MoveDue("out") \in Nat
    BY Facts DEF MoveDue
  <2>3. /\ htc.count = Left("in")' - MoveDue("in")' + ReadDue'
        /\ BufferSize - htc.avail = Left("out")' + MoveDue("out")' - WriteDue'
    <3>1. BufferSize - htc.avail = l + MoveDue("out") - WriteDue
      BY <1>3 DEF l
    <3> QED
      BY <1>2, <1>3, <1>13, <1>16, <2>1, <2>2, <3>1
  <2> QED
    BY <1>4, <2>3 DEF CountsAreExact, Left, MoveDue, ReadDue, WriteDue
<1>18. TypeOK' /\ NoTimeout' /\ EpTransfer' /\ RoomKept'
  BY <1>4, <1>5, <1>12 DEF IndInv, TypeOK, NoTimeout, EpTransfer, RoomKept
<1>19. JobTransfer'
  BY <1>4, <1>5 DEF IndInv, JobTransfer, n
<1>20. [Stream!Next]_(Stream!streamVars)
  BY <1>1, <1>2, <1>3, <1>4, PutStep
<1> QED
  BY <1>15, <1>16, <1>17, <1>18, <1>19, <1>20 DEF IndInv, BytesInOrder

\* The job sends past the write buffer, which is then empty, or finds the
\* connection ended.
LEMMA JobSends ==
  ASSUME IndInv, WriteSend
  PROVE  IndInv' /\ [Stream!Next]_(Stream!streamVars)
<1> DEFINE n == Sendable(job.size)
           p == put["out"]
           l == Left("out")
           Q == queue["out"]
           P == Q \o Run(p, n)
           g == Len(got["out"])
<1>1. "in" \in Dirs /\ "out" \in Dirs
  BY DEF Dirs
<1>2. /\ BufferSize \in Nat \ {0} /\ l \in Nat /\ htc.avail \in Nat
      /\ Q \in Seq(Nat) /\ Len(Q) \in Nat /\ g \in Nat /\ p \in Nat
      /\ job.size \in Nat /\ SendRoom \in Nat /\ Len(Q) <= SendRoom
      /\ htc.count \in Nat
  <2>1. /\ Left("out") \in 0 .. BufferSize /\ htc.avail \in 0 .. BufferSize
        /\ BufferSize \in Nat \ {0} /\ htc.count \in 0 .. BufferSize
    BY <1>1, Facts
  <2>2. l \in Nat /\ htc.avail \in Nat /\ htc.count \in Nat
    BY <2>1
  <2>3. job.size \in Nat /\ SendRoom \in Nat /\ Len(Q) <= SendRoom
    BY StreamAssumption DEF IndInv, TypeOK, ThreadState, RoomKept
  <2> HIDE DEF l
  <2> QED
    BY <1>1, <2>1, <2>2, <2>3, Facts
<1>3. /\ InOrder("in") /\ InOrder("out") /\ job \in ThreadState(JobLabels)
      /\ put \in [Dirs -> Nat] /\ queue \in [Dirs -> Seq(Nat)]
      /\ htc.count = Left("in") - MoveDue("in") + ReadDue
      /\ BufferSize - htc.avail = Left("out") + MoveDue("out") - WriteDue
      /\ cond \in [Dirs -> {FirstCond, LastCond}] /\ armed \in SUBSET Dirs
      /\ htc \in HtcWord
  BY <1>1, Facts DEF IndInv, TypeOK
<1>4. /\ job.pc = "send"
      /\ UNCHANGED <<htc, cond, ring, jobpos, armed, got, eppos, ep, added, load,
                     fault>>
  BY DEF WriteSend
<1>5. CASE fault # "none"
  <2>1. job' = [job EXCEPT !.pc = "write_dead"] /\ UNCHANGED <<queue, put>>
    BY <1>5 DEF WriteSend
  <2>2. job' \in ThreadState(JobLabels) /\ job'.pc = "write_dead"
    BY <1>3, <2>1 DEF ThreadState, JobLabels
  <2>3. JobTransfer' /\ NoTimeout'
    BY <1>4, <2>2 DEF IndInv, JobTransfer, NoTimeout
  <2> QED
    BY <1>3, <1>4, <2>1, <2>2, <2>3, JobQuiet
<1>6. CASE fault = "none"
  <2>1. /\ queue' = [queue EXCEPT !["out"] = P]
        /\ put' = [put EXCEPT !["out"] = @ + n]
        /\ job' = IF n = job.size THEN Thread("idle")
                  ELSE [job EXCEPT !.pc = "buffer", !.size = @ - n]
    BY <1>6 DEF WriteSend, NextBytes, Run
  <2>2. n \in Nat /\ n <= job.size /\ Len(Q) + n <= SendRoom
    BY <1>2 DEF Sendable, lesser
  <2>3. job' \in ThreadState(JobLabels) /\ job'.pc \in {"idle", "buffer"}
    <3>1. /\ Thread("idle") \in ThreadState(JobLabels)
          /\ Thread("idle").pc = "idle"
      BY ThreadType DEF JobLabels, Thread
    <3>2. job.size - n \in Nat
      <4> HIDE DEF n
      <4> QED
        BY <1>2, <2>2
    <3> HIDE DEF n
    <3>3. CASE n # job.size
      BY <1>3, <2>1, <3>2, <3>3 DEF ThreadState, JobLabels
    <3> QED
      BY <2>1, <3>1, <3>3
  <2>4. l = 0
    <3>1. htc.avail = BufferSize /\ WriteDue = 0
      BY <1>4 DEF IndInv, JobTransfer, WriteDue
    <3>2. MoveDue("out") \in Nat
      BY Facts DEF MoveDue
    <3> QED
      BY <1>2, <1>3, <3>1, <3>2
  <2>5. p = g + Len(Q) /\ \A k \in 1 .. Len(Q) : Q[k] = g + k
    <3>1. l = p - Len(Q) - g
      BY DEF Left
    <3>2. \A k \in 1 .. Len(Q) : Q[k] = g + k
      <4>1. QueueBase("out") = g + 0
        BY DEF QueueBase
      <4>2. QueueBase("out") = g
        BY <1>2, <4>1
      <4> QED
        BY <1>3, <4>2 DEF InOrder
    <3> HIDE DEF l, p, Q, g
    <3> QED
      BY <1>2, <2>4, <3>1, <3>2
  <2>6. /\ P \in Seq(Nat) /\ Len(P) = Len(Q) + n
        /\ \A k \in 1 .. Len(Q) + n : P[k] = g + k
    <3> HIDE DEF p, Q, g, n
    <3>1. /\ Q \in Seq(Nat) /\ n \in Nat /\ g \in Nat /\ p \in Nat
          /\ p = g + Len(Q) /\ Numbered(Q, g)
      BY <1>2, <2>2, <2>5 DEF Numbered
    <3>2. P \in Seq(Nat) /\ Len(P) = Len(Q) + n /\ Numbered(P, g)
      BY <3>1, RunAppended
    <3> HIDE DEF P
    <3> QED
      BY <3>2 DEF Numbered
  <2>7. /\ queue' \in [Dirs -> Seq(Nat)] /\ queue'["out"] = P
        /\ queue'["in"] = queue["in"]
        /\ put' \in [Dirs -> Nat] /\ put'["out"] = p + n
        /\ put'["in"] = put["in"]
    <3>1. /\ put' \in [Dirs -> Nat] /\ put'["out"] = p + n
          /\ put'["in"] = put["in"]
      <4> HIDE DEF n
      <4> QED
        BY <1>1, <1>3, <2>1, <2>2
    <3> HIDE DEF P
    <3> QED
      BY <1>1, <1>3, <2>1, <2>6, <3>1
  <2>8. Left("out")' = 0
    <3>1. Left("out")' = (p + n) - Len(P) - g
      BY <1>4, <2>7 DEF Left
    <3> HIDE DEF p, Q, g, n, P
    <3> QED
      BY <1>2, <2>2, <2>5, <2>6, <3>1
  <2>9. First("out")' = First("out") /\ End("out")' = End("out")
    BY <1>4 DEF First, End, Moved
  <2>10. InOrder("out")'
    <3>1. (End("out") = At(First("out"), Left("out")))'
      BY <1>3, <2>4, <2>8, <2>9 DEF InOrder, At
    <3>2. Holds(ring["out"], First("out"), Left("out"), BufferBase("out"))'
      BY <2>8 DEF Holds
    <3>3. QueueBase("out")' = g
      <4>1. QueueBase("out")' = g + 0
        BY <1>4 DEF QueueBase
      <4> QED
        BY <1>2, <4>1
    <3>4. \A k \in 1 .. Len(P) : P[k] = g + k
      <4> HIDE DEF P, Q, g, n
      <4> QED
        BY <2>6
    <3> HIDE DEF P
    <3> QED
      BY <1>3, <1>4, <2>7, <3>1, <3>2, <3>3, <3>4 DEF InOrder
  <2>11. InOrder("in")' /\ Left("in")' = Left("in")
    <3>1. First("in")' = First("in") /\ End("in")' = End("in")
      BY <1>4, <2>3 DEF First, End, Moved, Taking
    <3> QED
      BY <1>1, <1>3, <1>4, <2>7, <3>1, OtherDirection
  <2>12. CountsAreExact'
    <3>1. /\ ReadDue = 0 /\ ReadDue' = 0 /\ WriteDue = 0 /\ WriteDue' = 0
          /\ MoveDue("in")' = MoveDue("in") /\ MoveDue("out")' = MoveDue("out")
      BY <1>4, <2>3 DEF ReadDue, WriteDue, MoveDue
    <3>2. /\ htc.count = Left("in")' - MoveDue("in")' + ReadDue'
          /\ BufferSize - htc.avail = Left("out")' + MoveDue("out")' - WriteDue'
      BY <1>3, <2>4, <2>8, <2>11, <3>1
    <3> QED
      BY <1>4, <3>2 DEF CountsAreExact, Left, MoveDue, ReadDue, WriteDue
  <2>13. TypeOK' /\ NoTimeout' /\ EpTransfer' /\ JobTransfer'
    BY <1>4, <2>3, <2>7
    DEF IndInv, TypeOK, NoTimeout, EpTransfer, JobTransfer
  <2>14. RoomKept'
    <3>1. Len(P) <= SendRoom
      <4> HIDE DEF P, Q, n
      <4> QED
        BY <2>2, <2>6
    <3> QED
      BY <2>7, <3>1 DEF RoomKept
  <2>15. [Stream!Next]_(Stream!streamVars)
    <3> HIDE DEF n
    <3> QED
      BY <1>1, <1>3, <1>4, <2>1, <2>2, PutStep
  <2> QED
    BY <2>10, <2>11, <2>12, <2>13, <2>14, <2>15 DEF IndInv, BytesInOrder
<1> QED
  BY <1>5, <1>6

-----------------------------------------------------------------------------
(* The peer. *)

\* One more numbered byte.
LEMMA ByteAppended ==
  ASSUME NEW s \in Seq(Nat), NEW b \in Nat, NEW e \in Nat, Numbered(s, b),
         e = b + Len(s) + 1
  PROVE  /\ Append(s, e) \in Seq(Nat) /\ Len(Append(s, e)) = Len(s) + 1
         /\ Numbered(Append(s, e), b)
<1>1. Len(s) \in Nat
  BY LenProperties
<1> DEFINE t == Append(s, e)
<1>2. /\ t \in Seq(Nat) /\ Len(t) = Len(s) + 1
      /\ \A i \in 1 .. Len(s) : t[i] = s[i]
      /\ t[Len(s) + 1] = e
  BY AppendProperties
<1> HIDE DEF t
<1>3. ASSUME NEW k \in 1 .. Len(t) PROVE t[k] = b + k
  <2>1. CASE k \in 1 .. Len(s)
    BY <1>2, <2>1 DEF Numbered
  <2>2. CASE k \notin 1 .. Len(s)
    <3>1. k = Len(s) + 1
      BY <1>1, <1>2, <2>2
    <3>2. t[k] = e
      BY <1>2, <3>1
    <3> QED
      BY <1>1, <3>1, <3>2
  <2> QED
    BY <2>1, <2>2
<1> QED
  BY <1>2, <1>3 DEF t, Numbered

\* The first of numbered bytes taken away.
LEMMA ByteTaken ==
  ASSUME NEW s \in Seq(Nat), NEW b \in Nat, NEW c, Numbered(s, b), s # <<>>,
         c = b + 1
  PROVE  /\ Head(s) = c /\ Tail(s) \in Seq(Nat) /\ Len(Tail(s)) = Len(s) - 1
         /\ Len(s) > 0 /\ Numbered(Tail(s), c)
<1>1. Len(s) \in Nat /\ Len(s) > 0
  BY LenProperties, EmptySeq
<1>2. Head(s) = s[1] /\ s[1] = b + 1
  BY <1>1 DEF Numbered
<1> DEFINE t == Tail(s)
<1>3. /\ t \in Seq(Nat) /\ Len(t) = Len(s) - 1
      /\ \A i \in 1 .. Len(t) : t[i] = s[i + 1]
  BY HeadTailProperties
<1> HIDE DEF t
<1>4. ASSUME NEW k \in 1 .. Len(t) PROVE t[k] = c + k
  <2>1. k + 1 \in 1 .. Len(s) /\ k \in Nat
    BY <1>1, <1>3
  <2>2. t[k] = s[k + 1] /\ s[k + 1] = b + (k + 1)
    BY <1>3, <2>1 DEF Numbered
  <2> QED
    BY <2>1, <2>2
<1> QED
  BY <1>1, <1>2, <1>3, <1>4 DEF t, Numbered

\* The next byte appended is the run of one byte appended.
LEMMA ByteIsRun ==
  ASSUME NEW s \in Seq(Nat), NEW e, e = Len(s) + 1
  PROVE  Append(s, e) = s \o Run(Len(s), 1)
<1>1. Len(s) \in Nat /\ e \in Nat
  BY LenProperties
<1> DEFINE r == Run(Len(s), 1)
<1>2. r \in Seq(Nat) /\ Len(r) = 1 /\ r[1] = Len(s) + 1
  <2>1. 1 \in Nat /\ 1 \in 1 .. 1
    OBVIOUS
  <2>2. /\ r \in Seq(Nat) /\ Len(r) = 1
        /\ \A k \in 1 .. 1 : r[k] = Len(s) + k
    BY <1>1, <2>1, RunIsSeq
  <2> QED
    BY <2>1, <2>2
<1> HIDE DEF r
<1> DEFINE t == s \o r
           a == Append(s, e)
<1>3. /\ t \in Seq(Nat) /\ Len(t) = Len(s) + Len(r)
      /\ \A i \in 1 .. Len(s) + Len(r) :
           t[i] = IF i <= Len(s) THEN s[i] ELSE r[i - Len(s)]
  BY <1>2, ConcatProperties
<1>4. /\ a \in Seq(Nat) /\ Len(a) = Len(s) + 1
      /\ \A i \in 1 .. Len(s) : a[i] = s[i]
      /\ a[Len(s) + 1] = e
  BY <1>1, AppendProperties
<1> HIDE DEF t, a
<1>5. ASSUME NEW k \in 1 .. Len(a) PROVE a[k] = t[k]
  <2>1. CASE k <= Len(s)
    <3>1. k \in 1 .. Len(s) /\ k \in 1 .. Len(s) + Len(r)
      BY <1>1, <1>2, <1>4, <2>1
    <3>2. a[k] = s[k]
      BY <1>4, <3>1
    <3>3. t[k] = s[k]
      BY <1>3, <2>1, <3>1
    <3> QED
      BY <3>2, <3>3
  <2>2. CASE ~(k <= Len(s))
    <3>1. k = Len(s) + 1 /\ k - Len(s) = 1
      BY <1>1, <1>4, <2>2
    <3>2. t[k] = r[k - Len(s)]
      BY <1>1, <1>2, <1>3, <2>2, <3>1
    <3> QED
      BY <1>2, <1>4, <3>1, <3>2
  <2> QED
    BY <2>1, <2>2
<1>6. Len(a) = Len(t)
  BY <1>2, <1>3, <1>4
<1>7. a = t
  BY <1>3, <1>4, <1>5, <1>6, SeqEqual
<1> QED
  BY <1>7 DEF a, t, r

\* The peer changes nothing of the buffers and the word.
LEMMA PeerKeeps ==
  ASSUME IndInv, UNCHANGED peerOnly, fault' \in {"none", "eof", "reset"},
         put' \in [Dirs -> Nat], queue' \in [Dirs -> Seq(Nat)],
         got' \in [Dirs -> Seq(Nat)],
         Left("in")' = Left("in"), Left("out")' = Left("out"), BytesInOrder',
         RoomKept'
  PROVE  IndInv'
<1>1. UNCHANGED <<load, htc, cond, ring, jobpos, eppos, job, ep, armed, added>>
  BY DEF peerOnly
<1>2. TypeOK' /\ NoTimeout' /\ EpTransfer' /\ JobTransfer'
  BY <1>1 DEF IndInv, TypeOK, NoTimeout, EpTransfer, JobTransfer
<1>3. CountsAreExact'
  <2>1. /\ htc.count = Left("in") - MoveDue("in") + ReadDue
        /\ BufferSize - htc.avail = Left("out") + MoveDue("out") - WriteDue
    BY Facts
  <2>2. /\ MoveDue("in")' = MoveDue("in") /\ MoveDue("out")' = MoveDue("out")
        /\ ReadDue' = ReadDue /\ WriteDue' = WriteDue
    BY <1>1 DEF MoveDue, ReadDue, WriteDue
  <2>3. /\ htc'.count = Left("in")' - MoveDue("in")' + ReadDue'
        /\ BufferSize - htc'.avail = Left("out")' + MoveDue("out")' - WriteDue'
    BY <1>1, <2>1, <2>2
  <2> QED
    BY <2>3 DEF CountsAreExact, Left, MoveDue, ReadDue, WriteDue
<1> QED
  BY <1>2, <1>3 DEF IndInv

\* The peer sends one byte.
LEMMA PeerSends ==
  ASSUME IndInv, PeerSend
  PROVE  IndInv' /\ [Stream!Next]_(Stream!streamVars)
<1> DEFINE Q == queue["in"]
           p == put["in"]
           l == Left("in")
           g == Len(got["in"])
           b == QueueBase("in")
           e == p + 1
           P == Append(Q, e)
<1>1. "in" \in Dirs /\ "out" \in Dirs
  BY DEF Dirs
<1>2. /\ Q \in Seq(Nat) /\ Len(Q) \in Nat /\ g \in Nat /\ p \in Nat
      /\ InOrder("in") /\ InOrder("out") /\ l \in Nat
  <2>1. l \in 0 .. BufferSize /\ BufferSize \in Nat
    BY <1>1, Facts
  <2>2. l \in Nat
    BY <2>1
  <2> HIDE DEF l
  <2> QED
    BY <1>1, <2>2, Facts
<1>3. /\ put \in [Dirs -> Nat] /\ queue \in [Dirs -> Seq(Nat)]
      /\ got \in [Dirs -> Seq(Nat)] /\ fault \in {"none", "eof", "reset"}
  BY DEF IndInv, TypeOK
<1>4. /\ put' = [put EXCEPT !["in"] = @ + 1]
      /\ queue' = [queue EXCEPT !["in"] = P]
      /\ UNCHANGED <<fault, got, peerOnly>>
  BY DEF PeerSend
<1>5. UNCHANGED <<load, htc, cond, ring, jobpos, eppos, job, ep, armed, added>>
  BY <1>4 DEF peerOnly
<1>6. b = g + l /\ l = p - Len(Q) - g /\ Numbered(Q, b)
  BY <1>2 DEF QueueBase, Left, InOrder, Numbered
<1> HIDE DEF Q, p, l, g, b
<1>7. b \in Nat /\ e \in Nat /\ e = b + Len(Q) + 1
  BY <1>2, <1>6
<1> HIDE DEF e
<1>8. P \in Seq(Nat) /\ Len(P) = Len(Q) + 1 /\ Numbered(P, b)
  BY <1>2, <1>6, <1>7, ByteAppended
<1> HIDE DEF P
<1>9. /\ put' \in [Dirs -> Nat] /\ put'["in"] = p + 1 /\ put'["out"] = put["out"]
      /\ queue' \in [Dirs -> Seq(Nat)] /\ queue'["in"] = P
      /\ queue'["out"] = queue["out"]
  <2>1. put' \in [Dirs -> Nat] /\ put'["in"] = p + 1 /\ put'["out"] = put["out"]
    BY <1>1, <1>3, <1>4 DEF p
  <2> QED
    BY <1>1, <1>3, <1>4, <1>8, <2>1
<1>10. Left("in")' = l
  <2>1. Left("in")' = (p + 1) - Len(P) - g
    BY <1>4, <1>9 DEF Left, g
  <2> QED
    BY <1>2, <1>6, <1>8, <2>1
<1>11. /\ First("in")' = First("in") /\ End("in")' = End("in")
       /\ First("out")' = First("out") /\ End("out")' = End("out")
  BY <1>5 DEF First, End, Moved, Taking
<1>12. InOrder("in")'
  <2>1. BufferBase("in")' = BufferBase("in") /\ QueueBase("in")' = b
    BY <1>4, <1>10 DEF BufferBase, QueueBase, b, l
  <2>2. Left("in")' = Left("in")
    BY <1>10 DEF l
  <2>3. \A k \in 1 .. Len(queue'["in"]) : queue'["in"][k] = QueueBase("in")' + k
    BY <1>8, <1>9, <2>1 DEF Numbered
  <2> QED
    BY <1>2, <1>4, <1>5, <1>11, <2>1, <2>2, <2>3 DEF InOrder, Holds, At
<1>13. InOrder("out")' /\ Left("out")' = Left("out")
  BY <1>1, <1>2, <1>4, <1>5, <1>9, <1>11, OtherDirection
<1>14. RoomKept'
  BY <1>9 DEF IndInv, RoomKept
<1>15. IndInv'
  <2>1. fault' \in {"none", "eof", "reset"} /\ got' \in [Dirs -> Seq(Nat)]
    BY <1>3, <1>4
  <2>2. Left("in")' = Left("in")
    BY <1>10 DEF l
  <2> QED
    BY <1>4, <1>9, <1>12, <1>13, <1>14, <2>1, <2>2, PeerKeeps DEF BytesInOrder
<1>16. [Stream!Next]_(Stream!streamVars)
  <2>1. 1 \in Nat
    OBVIOUS
  <2> QED
    BY <1>1, <1>3, <1>4, <2>1, PutStep
<1> QED
  BY <1>15, <1>16

\* The peer receives one byte.
LEMMA PeerReceives ==
  ASSUME IndInv, PeerReceive
  PROVE  IndInv' /\ [Stream!Next]_(Stream!streamVars)
<1> DEFINE Q == queue["out"]
           T == Tail(Q)
           G == got["out"]
           g == Len(G)
           c == g + 1
           H == Append(G, c)
           p == put["out"]
           l == Left("out")
<1>1. "in" \in Dirs /\ "out" \in Dirs
  BY DEF Dirs
<1>2. /\ Q \in Seq(Nat) /\ Len(Q) \in Nat /\ G \in Seq(Nat) /\ g \in Nat
      /\ p \in Nat /\ InOrder("in") /\ InOrder("out") /\ l \in Nat
  <2>1. l \in 0 .. BufferSize /\ BufferSize \in Nat
    BY <1>1, Facts
  <2>2. l \in Nat
    BY <2>1
  <2> HIDE DEF l
  <2> QED
    BY <1>1, <2>2, Facts
<1>3. /\ put \in [Dirs -> Nat] /\ queue \in [Dirs -> Seq(Nat)]
      /\ got \in [Dirs -> Seq(Nat)] /\ fault \in {"none", "eof", "reset"}
      /\ Len(Q) <= SendRoom /\ SendRoom \in Nat
  BY StreamAssumption DEF IndInv, TypeOK, RoomKept
<1>4. /\ Q # <<>>
      /\ got' = [got EXCEPT !["out"] = Append(@, Head(Q))]
      /\ queue' = [queue EXCEPT !["out"] = T]
      /\ UNCHANGED <<fault, put, peerOnly>>
  BY DEF PeerReceive
<1>5. UNCHANGED <<load, htc, cond, ring, jobpos, eppos, job, ep, armed, added>>
  BY <1>4 DEF peerOnly
<1>6. l = p - Len(Q) - g /\ Numbered(Q, g) /\ \A k \in 1 .. g : G[k] = k
  <2>1. QueueBase("out") = g
    <3>1. QueueBase("out") = g + 0
      BY DEF QueueBase
    <3> QED
      BY <1>2, <3>1
  <2> QED
    BY <1>2, <2>1 DEF Left, InOrder, Numbered
<1> HIDE DEF Q, g, p, l
<1>7. /\ Head(Q) = c /\ T \in Seq(Nat) /\ Len(T) = Len(Q) - 1
      /\ Len(Q) > 0 /\ Numbered(T, c)
  BY <1>2, <1>4, <1>6, ByteTaken
<1>8. H = G \o Run(g, 1)
  BY <1>2, ByteIsRun DEF g
<1>9. /\ H \in Seq(Nat) /\ Len(H) = g + 1 /\ \A k \in 1 .. Len(H) : H[k] = k
  <2>1. 1 \in Nat /\ \A k \in 1 .. Len(G) : G[k] = k
    BY <1>6 DEF g
  <2>2. /\ G \o Run(Len(G), 1) \in Seq(Nat)
        /\ Len(G \o Run(Len(G), 1)) = Len(G) + 1
        /\ \A k \in 1 .. Len(G) + 1 : (G \o Run(Len(G), 1))[k] = k
    <3> HIDE DEF G
    <3> QED
      BY <1>2, <2>1, RunDelivered
  <2>3. H \in Seq(Nat) /\ Len(H) = g + 1 /\ \A k \in 1 .. g + 1 : H[k] = k
    BY <1>8, <2>2 DEF g
  <2> HIDE DEF H
  <2> QED
    BY <2>3
<1> HIDE DEF T, H
<1>10. /\ got' = [got EXCEPT !["out"] = H]
       /\ got' \in [Dirs -> Seq(Nat)] /\ got'["out"] = H
       /\ got'["in"] = got["in"]
       /\ queue' \in [Dirs -> Seq(Nat)] /\ queue'["out"] = T
       /\ queue'["in"] = queue["in"]
  <2>1. got' = [got EXCEPT !["out"] = H]
    BY <1>4, <1>7 DEF H
  <2> QED
    BY <1>1, <1>3, <1>4, <1>7, <1>9, <2>1
<1>11. Left("out")' = l
  <2>1. Left("out")' = p - Len(T) - Len(H)
    BY <1>4, <1>10 DEF Left, p
  <2> QED
    BY <1>2, <1>6, <1>7, <1>9, <2>1
<1>12. /\ First("in")' = First("in") /\ End("in")' = End("in")
       /\ First("out")' = First("out") /\ End("out")' = End("out")
  BY <1>5 DEF First, End, Moved, Taking
<1>13. InOrder("out")'
  <2>1. BufferBase("out")' = BufferBase("out") /\ QueueBase("out")' = c
    <3>1. /\ BufferBase("out")' = Len(H) + Len(T) /\ BufferBase("out") = g + Len(Q)
          /\ QueueBase("out")' = Len(H) + 0
      BY <1>10 DEF BufferBase, QueueBase, g, Q
    <3> QED
      BY <1>2, <1>7, <1>9, <3>1
  <2>2. Left("out")' = Left("out")
    BY <1>11 DEF l
  <2>3. /\ \A k \in 1 .. Len(queue'["out"]) :
             queue'["out"][k] = QueueBase("out")' + k
        /\ \A k \in 1 .. Len(got'["out"]) : got'["out"][k] = k
    BY <1>7, <1>9, <1>10, <2>1 DEF Numbered
  <2> QED
    BY <1>2, <1>5, <1>12, <2>1, <2>2, <2>3 DEF InOrder, Holds, At
<1>14. InOrder("in")' /\ Left("in")' = Left("in")
  BY <1>1, <1>2, <1>4, <1>5, <1>10, <1>12, OtherDirection
<1>15. RoomKept'
  BY <1>2, <1>3, <1>7, <1>10 DEF RoomKept
<1>16. IndInv'
  <2>1. fault' \in {"none", "eof", "reset"} /\ put' \in [Dirs -> Nat]
    BY <1>3, <1>4
  <2>2. Left("out")' = Left("out")
    BY <1>11 DEF l
  <2> QED
    BY <1>4, <1>10, <1>13, <1>14, <1>15, <2>1, <2>2, PeerKeeps DEF BytesInOrder
<1>17. Stream!Get("out", Len(got'["out"]) - Len(got["out"]))
  <2>1. Len(got'["out"]) - Len(got["out"]) = 1
    <3>1. Len(got'["out"]) = g + 1 /\ Len(got["out"]) = g
      BY <1>9, <1>10 DEF g
    <3> QED
      BY <1>2, <3>1
  <2>2. g + 1 <= p
    BY <1>2, <1>6, <1>7
  <2>3. got' = [got EXCEPT !["out"] = @ \o [i \in 1 .. 1 |-> Len(@) + i]]
    BY <1>8, <1>10 DEF Run, g
  <2> QED
    BY <1>4, <2>1, <2>2, <2>3 DEF Stream!Get, g, p
<1> QED
  BY <1>1, <1>16, <1>17 DEF Stream!Next

\* The peer ends the connection.
LEMMA PeerEnds ==
  ASSUME IndInv, NEW f \in Faults, PeerEnd(f)
  PROVE  IndInv' /\ [Stream!Next]_(Stream!streamVars)
<1>1. UNCHANGED <<queue, put, got, peerOnly>> /\ fault' = f
  BY DEF PeerEnd
<1>2. UNCHANGED <<load, htc, cond, ring, jobpos, eppos, job, ep, armed, added>>
  BY <1>1 DEF peerOnly
<1>3. /\ fault' \in {"none", "eof", "reset"} /\ put' \in [Dirs -> Nat]
      /\ queue' \in [Dirs -> Seq(Nat)] /\ got' \in [Dirs -> Seq(Nat)] /\ RoomKept'
  BY <1>1, StreamAssumption DEF IndInv, TypeOK, RoomKept
<1>4. \A d \in Dirs : First(d)' = First(d) /\ End(d)' = End(d)
  BY <1>2 DEF First, End, Moved, Taking
<1>5. \A d \in Dirs : InOrder(d)' /\ Left(d)' = Left(d)
  BY <1>1, <1>2, <1>4, Facts, OtherDirection
<1>6. IndInv'
  BY <1>1, <1>3, <1>5, PeerKeeps DEF BytesInOrder, Dirs
<1> QED
  BY <1>1, <1>6 DEF Stream!streamVars

-----------------------------------------------------------------------------
(* Every step. *)

\* An empty socket.
LEMMA InitInv ==
  ASSUME Init
  PROVE  IndInv /\ Stream!Init
<1>1. /\ BufferSize \in Nat \ {0} /\ FirstCond \in 1 .. BufferSize
      /\ SendRoom \in Nat /\ 0 \in Pos /\ 0 \in 0 .. BufferSize
  BY SocketWordAssumption, StreamAssumption DEF Pos
<1>2. /\ Thread("idle") \in ThreadState(JobLabels)
      /\ Thread("idle") \in ThreadState(EpLabels) /\ Thread("idle").pc = "idle"
      /\ Thread("idle").old = htc_init(FirstCond, FirstCond)
  BY ThreadType DEF JobLabels, EpLabels, Thread
<1>3. htc \in HtcWord
  BY <1>2 DEF Init, ThreadState
<1>4. htc.count = 0 /\ htc.avail = BufferSize /\ "TIMEOUT" \notin htc.flags
  BY DEF Init, htc_init, WithReady, FlagIf
<1>5. <<>> \in Seq(Nat) /\ Len(<<>>) = 0
  BY EmptySeq
<1>6. job.pc = "idle" /\ ep.pc = "idle"
  BY <1>2 DEF Init
<1>7. TypeOK
  <2>1. /\ job \in ThreadState(JobLabels) /\ ep \in ThreadState(EpLabels)
    BY <1>2 DEF Init
  <2>2. /\ cond \in [Dirs -> {FirstCond, LastCond}]
        /\ ring \in [Dirs -> [Pos -> Nat]] /\ jobpos \in [Dirs -> Pos]
        /\ eppos \in [Dirs -> Pos] /\ put \in [Dirs -> Nat]
    BY <1>1 DEF Init
  <2>3. queue \in [Dirs -> Seq(Nat)] /\ got \in [Dirs -> Seq(Nat)]
    BY <1>5 DEF Init
  <2> QED
    BY <1>3, <2>1, <2>2, <2>3 DEF Init, TypeOK
<1>8. ASSUME NEW d \in Dirs
      PROVE  /\ put[d] = 0 /\ queue[d] = <<>> /\ got[d] = <<>>
             /\ jobpos[d] = 0 /\ eppos[d] = 0
             /\ Len(queue[d]) = 0 /\ Len(got[d]) = 0
  BY <1>5 DEF Init
<1>9. Taking = 0 /\ \A d \in Dirs : Moved(d) = 0
  BY <1>6 DEF Taking, Moved
<1>10. At(0, 0) = 0
  BY <1>1, AtAdd
<1>11. ASSUME NEW d \in Dirs PROVE InOrder(d) /\ Left(d) = 0
  <2>1. Left(d) = 0
    BY <1>8 DEF Left
  <2>2. First(d) = 0 /\ End(d) = 0
    <3>1. /\ jobpos["in"] = 0 /\ eppos["out"] = 0 /\ eppos["in"] = 0
          /\ jobpos["out"] = 0 /\ Moved("out") = 0 /\ Moved("in") = 0
      BY <1>8, <1>9 DEF Dirs
    <3> QED
      BY <1>9, <1>10, <3>1 DEF First, End, At
  <2>3. Holds(ring[d], First(d), Left(d), BufferBase(d))
    BY <2>1 DEF Holds
  <2>4. End(d) = At(First(d), Left(d))
    BY <1>10, <2>1, <2>2
  <2>5. /\ \A k \in 1 .. Len(queue[d]) : queue[d][k] = QueueBase(d) + k
        /\ \A k \in 1 .. Len(got[d]) : got[d][k] = k
    BY <1>8
  <2> QED
    BY <2>1, <2>3, <2>4, <2>5 DEF InOrder
<1>12. CountsAreExact
  <2>1. Left("in") = 0 /\ Left("out") = 0
    BY <1>11 DEF Dirs
  <2>2. /\ MoveDue("in") = 0 /\ MoveDue("out") = 0 /\ ReadDue = 0
        /\ WriteDue = 0
    BY <1>6 DEF MoveDue, ReadDue, WriteDue
  <2>3. /\ htc.count = Left("in") - MoveDue("in") + ReadDue
        /\ BufferSize - htc.avail = Left("out") + MoveDue("out") - WriteDue
    BY <1>1, <1>4, <2>1, <2>2
  <2> QED
    BY <2>3 DEF CountsAreExact, Left, MoveDue, ReadDue, WriteDue
<1>13. JobTransfer /\ EpTransfer /\ NoTimeout
  BY <1>4, <1>6 DEF JobTransfer, EpTransfer, NoTimeout
<1>14. RoomKept
  BY <1>1, <1>8 DEF RoomKept, Dirs
<1> QED
  BY <1>7, <1>11, <1>12, <1>13, <1>14
  DEF IndInv, BytesInOrder, Dirs, Init, Stream!Init

\* Every step keeps the invariant, and moves the bytes as the channels may.
LEMMA StepInv ==
  ASSUME IndInv, [Next]_vars
  PROVE  IndInv' /\ [Stream!Next]_(Stream!streamVars)
<1>1. CASE JobStep
  BY <1>1, JobControl, JobCounts, JobReads, JobBuffers, JobSends DEF JobStep
<1>2. CASE EpStep
  BY <1>2, EpControl, EpCounts, EpMoves DEF EpStep
<1>3. CASE PeerSend
  BY <1>3, PeerSends
<1>4. CASE PeerReceive
  BY <1>4, PeerReceives
<1>5. CASE \E f \in Faults : PeerEnd(f)
  BY <1>5, PeerEnds
<1>6. CASE UNCHANGED vars
  <2>1. UNCHANGED <<queue, put, got, peerOnly, fault>>
    BY <1>6 DEF vars, netVars, peerOnly
  <2>2. UNCHANGED <<load, htc, cond, ring, jobpos, eppos, job, ep, armed, added>>
    BY <2>1 DEF peerOnly
  <2>3. /\ fault' \in {"none", "eof", "reset"} /\ put' \in [Dirs -> Nat]
        /\ queue' \in [Dirs -> Seq(Nat)] /\ got' \in [Dirs -> Seq(Nat)]
        /\ RoomKept'
    BY <2>1 DEF IndInv, TypeOK, RoomKept
  <2>4. \A d \in Dirs : First(d)' = First(d) /\ End(d)' = End(d)
    BY <2>2 DEF First, End, Moved, Taking
  <2>5. \A d \in Dirs : InOrder(d)' /\ Left(d)' = Left(d)
    BY <2>1, <2>2, <2>4, Facts, OtherDirection
  <2>6. IndInv'
    BY <2>1, <2>3, <2>5, PeerKeeps DEF BytesInOrder, Dirs
  <2> QED
    BY <2>1, <2>6 DEF Stream!streamVars
<1> QED
  BY <1>1, <1>2, <1>3, <1>4, <1>5, <1>6 DEF Next

\* The invariant holds in every state that both threads and the peer reach.
THEOREM Invariance == Spec => []IndInv
<1>1. Init => IndInv
  BY InitInv
<1>2. IndInv /\ [Next]_vars => IndInv'
  BY StepInv
<1> QED
  BY <1>1, <1>2, PTL DEF Spec

\* Counts, positions and locals stay in their ranges: no update of the word
\* wraps around or runs into the bits of its neighbour.
THEOREM TypeCorrect == Spec => []TypeOK
<1>1. IndInv => TypeOK
  BY DEF IndInv
<1> QED
  BY <1>1, Invariance, PTL

\* "count is the number of bytes buffered in @read_buffer" and "avail is the
\* number of free bytes in @write_buffer" (jobs.h), up to the transfers under
\* way, although no thread holds a lock between the transfer and the update.
THEOREM CountsExact == Spec => []CountsAreExact
<1>1. IndInv => CountsAreExact
  BY DEF IndInv
<1> QED
  BY <1>1, Invariance, PTL

\* Both directions are first-in first-out channels: a transfer in two parts
\* around the end of a buffer, a short send or recv, and the bytes that write
\* sends past the buffer neither lose, double nor reorder a byte.
THEOREM ImplementsStream == Spec => StreamSpec
<1>1. Init => Stream!Init
  BY InitInv
<1>2. IndInv /\ [Next]_vars => [Stream!Next]_(Stream!streamVars)
  BY StepInv
<1> QED
  BY <1>1, <1>2, Invariance, PTL DEF Spec, StreamSpec, Stream!Spec

-----------------------------------------------------------------------------
(* The readiness flags. *)

\* A step that changes neither the counts, nor the flags, nor the conditions.
LEMMA FlagsKept ==
  ASSUME FlagsSettled, htc'.count = htc.count, htc'.avail = htc.avail,
         "READ_READY" \in htc'.flags <=> "READ_READY" \in htc.flags,
         "WRITE_READY" \in htc'.flags <=> "WRITE_READY" \in htc.flags,
         cond' = cond, job.pc # "cond_add" \/ job' = job
  PROVE  FlagsSettled'
<1>1. \A d \in Dirs : FlagsOf(d) => FlagsOf(d)'
  BY DEF FlagsOf
<1>2. \A d \in Dirs : Settling(d) => Settling(d)'
  BY DEF Settling
<1> QED
  BY <1>1, <1>2 DEF FlagsSettled

\* A step that computes the flag of a direction.
LEMMA FlagComputed ==
  ASSUME FlagsSettled, NEW d \in Dirs, cond' = cond,
         Settling(d)' \/ FlagsOf(d)',
         d = "in" => /\ htc'.avail = htc.avail
                     /\ "WRITE_READY" \in htc'.flags <=> "WRITE_READY" \in htc.flags,
         d = "out" => /\ htc'.count = htc.count
                      /\ "READ_READY" \in htc'.flags <=> "READ_READY" \in htc.flags,
         job.pc # "cond_add" \/ job' = job \/ Settling(d)
  PROVE  FlagsSettled'
<1>1. ASSUME NEW e \in Dirs, e # d PROVE Settling(e)' \/ FlagsOf(e)'
  <2>1. FlagsOf(e) => FlagsOf(e)'
    BY <1>1 DEF FlagsOf, Dirs
  <2>2. Settling(e) => Settling(e)'
    BY <1>1 DEF Settling
  <2> QED
    BY <2>1, <2>2 DEF FlagsSettled
<1> QED
  BY <1>1 DEF FlagsSettled

\* The compare-and-swap of the epoll thread stays current: when the job is not
\* about to compute the flag, because the thread is not overtaken.
LEMMA CasKept ==
  ASSUME IndInv, FlagsInv, ~Overtaken', [Next]_vars
  PROVE  CasCurrent'
<1>1. CASE job'.pc # "cond_add"
  BY <1>1 DEF Overtaken, CasCurrent
<1>2. CASE job'.pc = "cond_add" /\ JobStep
  <2>1. PICK d \in Dirs : CondStore(d)
    <3>1. /\ Thread("idle").pc # "cond_add" /\ Thread("gone").pc # "cond_add"
      BY DEF Thread
    <3>2. job \in ThreadState(JobLabels)
      BY DEF IndInv, TypeOK
    <3>3. CASE ReadLoad \/ ReadCopy \/ ReadAdd \/ ReadTail
      BY <1>2, <3>1, <3>2, <3>3
      DEF ReadLoad, ReadCopy, ReadAdd, ReadTail, ThreadState
    <3>4. CASE WriteLoad \/ WriteSend \/ WriteDead
      <4>1. CASE WriteLoad
        BY <1>2, <3>2, <4>1 DEF WriteLoad, ThreadState
      <4>2. CASE WriteSend
        BY <1>2, <3>1, <3>2, <4>2 DEF WriteSend, ThreadState
      <4>3. CASE WriteDead
        BY <1>2, <3>1, <4>3 DEF WriteDead
      <4> QED
        BY <3>4, <4>1, <4>2, <4>3
    <3>5. CASE BufferLoad \/ BufferCopy \/ BufferAdd \/ JobActivate \/ JobMod
      BY <1>2, <3>1, <3>2, <3>5
      DEF BufferLoad, BufferCopy, BufferAdd, JobActivate, JobMod, ThreadState
    <3>6. CASE CondAdd
      BY <1>2, <3>1, <3>6 DEF CondAdd
    <3> QED
      BY <1>2, <3>3, <3>4, <3>5, <3>6 DEF JobStep
  <2>2. /\ job.pc = "idle" /\ htc' = htc /\ ep' = ep
        /\ cond' = [cond EXCEPT ![d] = LastCond]
        /\ job' = [job EXCEPT !.pc = "cond_add", !.dir = d]
    BY <2>1 DEF CondStore
  <2>3. cond \in [Dirs -> {FirstCond, LastCond}] /\ ep.dir \in Dirs
        /\ job \in ThreadState(JobLabels)
    BY DEF IndInv, TypeOK, ThreadState
  <2>4. ASSUME ep.pc = "cas", htc = ep.old
        PROVE  ep.cond = cond'[ep.dir] \/ Settling(ep.dir)'
    <3>1. ep.cond = cond[ep.dir]
      BY <2>2, <2>4 DEF FlagsInv, CasCurrent, Settling
    <3>2. CASE ep.dir = d
      BY <2>2, <2>3, <3>2 DEF Settling, ThreadState
    <3>3. CASE ep.dir # d
      BY <2>2, <2>3, <3>1, <3>3
    <3> QED
      BY <3>2, <3>3
  <2> QED
    BY <2>2, <2>4 DEF CasCurrent
<1>3. CASE job'.pc = "cond_add" /\ EpStep
  <2>1. CASE ep'.pc # "cas"
    BY <2>1 DEF CasCurrent
  <2>2. CASE ep'.pc = "cas"
    <3>1. ReturnRead
      <4>1. ep \in ThreadState(EpLabels)
        BY DEF IndInv, TypeOK
      <4>2. /\ Thread("activate") \in ThreadState(EpLabels)
            /\ \A l \in EpLabels : Thread(l).pc = l
        BY ThreadType DEF EpLabels, Thread
      <4>3. ASSUME NEW d \in Dirs, Wait(d) PROVE FALSE
        BY <2>2, <4>3 DEF Wait, Thread
      <4>4. CASE MarkDead
        BY <2>2, <4>2, <4>4 DEF MarkDead, ThreadState, EpLabels
      <4>5. CASE ReturnLoad
        BY <2>2, <4>1, <4>2, <4>5 DEF ReturnLoad, ThreadState, EpLabels
      <4>6. CASE MoveFirst
        <5>1. AfterFailure.pc # "cas"
          BY <4>2 DEF AfterFailure, EpLabels
        <5> QED
          BY <2>2, <4>1, <4>6, <5>1 DEF MoveFirst, ThreadState
      <4>7. CASE MoveRest
        BY <2>2, <4>1, <4>7 DEF MoveRest, ThreadState
      <4>8. CASE ReturnAdd
        BY <2>2, <4>1, <4>8 DEF ReturnAdd, ThreadState
      <4>9. CASE ReturnStore
        BY <2>2, <4>2, <4>9 DEF ReturnStore, ThreadState, EpLabels
      <4>10. AfterReturn.pc # "cas"
        BY <4>2 DEF AfterReturn, EpLabels
      <4>11. CASE EpActivate
        BY <2>2, <4>1, <4>10, <4>11 DEF EpActivate, ThreadState
      <4>12. CASE EpMod
        BY <2>2, <4>1, <4>10, <4>12 DEF EpMod, ThreadState
      <4>13. CASE Del \/ Done
        BY <2>2, <4>2, <4>13 DEF Del, Done, EpLabels
      <4> QED
        BY <1>3, <4>3, <4>4, <4>5, <4>6, <4>7, <4>8, <4>9, <4>11, <4>12, <4>13
        DEF EpStep
    <3>2. ep \in ThreadState(EpLabels)
      BY DEF IndInv, TypeOK
    <3>3. ep'.cond = cond[ep'.dir] /\ cond' = cond
      BY <3>1, <3>2 DEF ReturnRead, epOnly, ThreadState
    <3> QED
      BY <3>3 DEF CasCurrent
  <2> QED
    BY <2>1, <2>2
<1>4. CASE UNCHANGED <<htc, cond, job, ep>>
  BY <1>4 DEF FlagsInv, CasCurrent, Settling
<1>5. CASE PeerSend \/ PeerReceive \/ (\E f \in Faults : PeerEnd(f))
  <2>1. UNCHANGED <<htc, cond, job, ep>>
    BY <1>5 DEF PeerSend, PeerReceive, PeerEnd, peerOnly
  <2> QED
    BY <1>4, <2>1
<1>6. CASE UNCHANGED vars
  BY <1>4, <1>6 DEF vars
<1> QED
  BY <1>1, <1>2, <1>3, <1>5, <1>6 DEF Next

\* The flags stay settled.
LEMMA SettledKept ==
  ASSUME IndInv, FlagsInv, [Next]_vars
  PROVE  FlagsSettled'
<1>1. /\ htc \in HtcWord /\ "TIMEOUT" \notin htc.flags
      /\ htc.count \in 0 .. BufferSize /\ htc.avail \in 0 .. BufferSize
      /\ BufferSize \in Nat \ {0} /\ job.n \in 0 .. BufferSize
      /\ ep.n \in 0 .. BufferSize /\ ep.dir \in Dirs
  BY Facts DEF IndInv, TypeOK, NoTimeout
<1>2. cond["in"] \in Nat /\ cond["out"] \in Nat /\ ep.cond \in Nat
      /\ cond \in [Dirs -> {FirstCond, LastCond}]
  <2>1. FirstCond \in Nat /\ LastCond \in Nat
    BY StreamAssumption, <1>1 DEF LastCond
  <2> QED
    BY <2>1 DEF IndInv, TypeOK, Dirs, ThreadState
<1>3. FlagsSettled /\ CasCurrent /\ "in" \in Dirs /\ "out" \in Dirs
  BY DEF FlagsInv, Dirs
<1>4. EpTransfer /\ JobTransfer /\ job \in ThreadState(JobLabels)
      /\ ep \in ThreadState(EpLabels)
  BY DEF IndInv, TypeOK
<1>5. ASSUME htc' = htc, cond' = cond, job.pc # "cond_add" \/ job' = job
      PROVE  FlagsSettled'
  BY <1>3, <1>5, FlagsKept
<1>6. CASE ReadLoad \/ ReadCopy \/ ReadTail \/ WriteLoad \/ WriteSend
  BY <1>5, <1>6 DEF ReadLoad, ReadCopy, ReadTail, WriteLoad, WriteSend, jobOnly
<1>7. CASE BufferLoad \/ BufferCopy \/ JobActivate \/ JobMod
  BY <1>5, <1>7 DEF BufferLoad, BufferCopy, JobActivate, JobMod, jobOnly
<1>8. CASE ReadAdd
  <2>1. /\ job.pc = "read_add" /\ cond' = cond
        /\ htc' = count_add(htc, -job.n, FALSE, cond["in"])
    BY <1>8 DEF ReadAdd, jobOnly
  <2>2. -job.n \in Int /\ FALSE \in BOOLEAN /\ htc.count + (-job.n) \in 0 .. BufferSize
    BY <1>1, <1>4, <2>1 DEF JobTransfer
  <2>3. /\ htc'.avail = htc.avail
        /\ "READ_READY" \in htc'.flags <=> htc'.count >= cond["in"]
        /\ "WRITE_READY" \in htc'.flags <=> "WRITE_READY" \in htc.flags
    BY <1>1, <1>2, <2>1, <2>2, CountAdd, ZenonT(60)
  <2>4. FlagsOf("in")'
    BY <2>1, <2>3 DEF FlagsOf
  <2> QED
    BY <1>3, <2>1, <2>3, <2>4, FlagComputed
<1>9. CASE BufferAdd
  <2>1. /\ job.pc = "buffer_add" /\ cond' = cond
        /\ htc' = avail_add(htc, -job.n, FALSE, cond["out"])
    BY <1>9 DEF BufferAdd, jobOnly
  <2>2. -job.n \in Int /\ FALSE \in BOOLEAN /\ htc.avail + (-job.n) \in 0 .. BufferSize
    BY <1>1, <1>4, <2>1 DEF JobTransfer
  <2>3. /\ htc'.count = htc.count
        /\ "WRITE_READY" \in htc'.flags <=> htc'.avail >= cond["out"]
        /\ "READ_READY" \in htc'.flags <=> "READ_READY" \in htc.flags
    BY <1>1, <1>2, <2>1, <2>2, AvailAdd, ZenonT(60)
  <2>4. FlagsOf("out")'
    BY <2>1, <2>3 DEF FlagsOf
  <2> QED
    BY <1>3, <2>1, <2>3, <2>4, FlagComputed
<1>10. CASE \E d \in Dirs : CondStore(d)
  <2>1. PICK d \in Dirs : CondStore(d)
    BY <1>10
  <2>2. /\ job.pc = "idle" /\ htc' = htc
        /\ cond' = [cond EXCEPT ![d] = LastCond]
        /\ job' = [job EXCEPT !.pc = "cond_add", !.dir = d]
    BY <2>1 DEF CondStore
  <2>3. Settling(d)'
    BY <1>4, <2>2 DEF Settling, ThreadState
  <2>4. ASSUME NEW e \in Dirs, e # d PROVE FlagsOf(e)'
    <3>1. FlagsOf(e) /\ cond'[e] = cond[e]
      BY <1>2, <1>3, <2>2, <2>4 DEF FlagsSettled, Settling
    <3> QED
      BY <2>2, <3>1 DEF FlagsOf, Dirs
  <2> QED
    BY <2>3, <2>4 DEF FlagsSettled
<1>11. CASE CondAdd
  <2>1. /\ job.pc = "cond_add" /\ cond' = cond /\ job.dir \in Dirs
        /\ htc' = IF job.dir = "in" THEN count_add(htc, 0, FALSE, cond["in"])
                                    ELSE avail_add(htc, 0, FALSE, cond["out"])
    BY <1>4, <1>11 DEF CondAdd, jobOnly, ThreadState
  <2>2. /\ 0 \in Int /\ FALSE \in BOOLEAN
        /\ htc.count + 0 \in 0 .. BufferSize /\ htc.avail + 0 \in 0 .. BufferSize
    BY <1>1
  <2>3. CASE job.dir = "in"
    <3>1. htc' = count_add(htc, 0, FALSE, cond["in"])
      BY <2>1, <2>3
    <3>2. /\ htc'.avail = htc.avail
          /\ "READ_READY" \in htc'.flags <=> htc'.count >= cond["in"]
          /\ "WRITE_READY" \in htc'.flags <=> "WRITE_READY" \in htc.flags
      BY <1>1, <1>2, <2>2, <3>1, CountAdd, ZenonT(60)
    <3>3. FlagsOf("in")' /\ Settling("in")
      BY <2>1, <2>3, <3>2 DEF FlagsOf, Settling
    <3> QED
      BY <1>3, <2>1, <3>2, <3>3, FlagComputed
  <2>4. CASE job.dir # "in"
    <3>1. htc' = avail_add(htc, 0, FALSE, cond["out"]) /\ job.dir = "out"
      BY <2>1, <2>4 DEF Dirs
    <3>2. /\ htc'.count = htc.count
          /\ "WRITE_READY" \in htc'.flags <=> htc'.avail >= cond["out"]
          /\ "READ_READY" \in htc'.flags <=> "READ_READY" \in htc.flags
      BY <1>1, <1>2, <2>2, <3>1, AvailAdd, ZenonT(60)
    <3>3. FlagsOf("out")' /\ Settling("out")
      BY <2>1, <3>1, <3>2 DEF FlagsOf, Settling
    <3> QED
      BY <1>3, <2>1, <3>2, <3>3, FlagComputed
  <2> QED
    BY <2>3, <2>4
<1>12. CASE WriteDead \/ MarkDead \/ Done
  <2>1. htc' \in {mark_dead(htc), done_cas_epollside(htc)} /\ cond' = cond
        /\ (job.pc # "cond_add" \/ job' = job)
    BY <1>12 DEF WriteDead, MarkDead, Done, jobOnly, epOnly
  <2>2. /\ htc'.count = htc.count /\ htc'.avail = htc.avail
        /\ "READ_READY" \in htc'.flags <=> "READ_READY" \in htc.flags
        /\ "WRITE_READY" \in htc'.flags <=> "WRITE_READY" \in htc.flags
    BY <1>1, <2>1, EndMarks
  <2> QED
    BY <1>3, <2>1, <2>2, FlagsKept
<1>13. CASE (\E d \in Dirs : Wait(d)) \/ ReturnLoad \/ MoveFirst \/ MoveRest
            \/ ReturnRead
  BY <1>5, <1>13 DEF Wait, ReturnLoad, MoveFirst, MoveRest, ReturnRead, epOnly
<1>14. CASE ReturnStore \/ EpActivate \/ EpMod \/ Del
  BY <1>5, <1>14 DEF ReturnStore, EpActivate, EpMod, Del, epOnly
<1>15. CASE ReturnAdd
  <2>1. ep.pc = "cas" /\ cond' = cond /\ job' = job
    BY <1>15 DEF ReturnAdd, epOnly
  <2>2. CASE htc # ep.old
    BY <1>5, <1>15, <2>1, <2>2 DEF ReturnAdd
  <2>3. CASE htc = ep.old
    <3>1. htc' = Added(ep.n)
      BY <1>15, <2>3 DEF ReturnAdd
    <3>2. ep.cond = cond[ep.dir] \/ Settling(ep.dir)
      BY <1>3, <2>1, <2>3 DEF CasCurrent
    <3>3. ep.size \in Nat /\ ep.n \in Int /\ ep.dead \in BOOLEAN
      BY <1>1, <1>4 DEF ThreadState
    <3>4. /\ ep.n <= ep.size
          /\ ep.size <= BufferSize - IF ep.dir = "in" THEN htc.count ELSE htc.avail
      BY <1>4, <2>1 DEF EpTransfer
    <3>5. Settling(ep.dir) => Settling(ep.dir)'
      <4>1. CASE Settling(ep.dir)
        <5>1. ep'.dir = ep.dir
          BY <1>4, <1>15 DEF ReturnAdd, ThreadState
        <5> QED
          BY <2>1, <4>1, <5>1 DEF Settling
      <4> QED
        BY <4>1
    <3>6. CASE ep.dir = "in"
      <4>1. htc.count + ep.n \in 0 .. BufferSize
        BY <1>1, <3>3, <3>4, <3>6
      <4>2. htc' = count_add(htc, ep.n, ep.dead, ep.cond)
        BY <3>1, <3>6 DEF Added
      <4>3. /\ htc'.avail = htc.avail
            /\ "READ_READY" \in htc'.flags <=> htc'.count >= ep.cond
            /\ "WRITE_READY" \in htc'.flags <=> "WRITE_READY" \in htc.flags
        <5>1. \/ htc' = count_add(htc, ep.n, TRUE, ep.cond)
              \/ htc' = count_add(htc, ep.n, FALSE, ep.cond)
          BY <3>3, <4>2, Zenon
        <5>2. TRUE \in BOOLEAN /\ FALSE \in BOOLEAN
          OBVIOUS
        <5>3. CASE htc' = count_add(htc, ep.n, TRUE, ep.cond)
          BY <1>1, <1>2, <3>3, <4>1, <5>2, <5>3, CountAdd, ZenonT(60)
        <5>4. CASE htc' = count_add(htc, ep.n, FALSE, ep.cond)
          BY <1>1, <1>2, <3>3, <4>1, <5>2, <5>4, CountAdd, ZenonT(60)
        <5> QED
          BY <5>1, <5>3, <5>4
      <4>4. Settling("in")' \/ FlagsOf("in")'
        BY <2>1, <3>2, <3>6, <4>3 DEF FlagsOf, Settling
      <4> QED
        BY <1>3, <2>1, <4>3, <4>4, FlagComputed
    <3>7. CASE ep.dir # "in"
      <4>0. ep.dir = "out"
        BY <1>1, <3>7 DEF Dirs
      <4>1. htc.avail + ep.n \in 0 .. BufferSize
        BY <1>1, <3>3, <3>4, <3>7
      <4>2. htc' = avail_add(htc, ep.n, ep.dead, ep.cond)
        BY <3>1, <3>7 DEF Added
      <4>3. /\ htc'.count = htc.count
            /\ "WRITE_READY" \in htc'.flags <=> htc'.avail >= ep.cond
            /\ "READ_READY" \in htc'.flags <=> "READ_READY" \in htc.flags
        <5>1. \/ htc' = avail_add(htc, ep.n, TRUE, ep.cond)
              \/ htc' = avail_add(htc, ep.n, FALSE, ep.cond)
          BY <3>3, <4>2, Zenon
        <5>2. TRUE \in BOOLEAN /\ FALSE \in BOOLEAN
          OBVIOUS
        <5>3. CASE htc' = avail_add(htc, ep.n, TRUE, ep.cond)
          BY <1>1, <1>2, <3>3, <4>1, <5>2, <5>3, AvailAdd, ZenonT(60)
        <5>4. CASE htc' = avail_add(htc, ep.n, FALSE, ep.cond)
          BY <1>1, <1>2, <3>3, <4>1, <5>2, <5>4, AvailAdd, ZenonT(60)
        <5> QED
          BY <5>1, <5>3, <5>4
      <4>4. Settling("out")' \/ FlagsOf("out")'
        BY <2>1, <3>2, <4>0, <4>3 DEF FlagsOf, Settling
      <4> QED
        BY <1>3, <2>1, <4>3, <4>4, FlagComputed
    <3> QED
      BY <3>6, <3>7
  <2> QED
    BY <2>2, <2>3
<1>16. CASE PeerSend \/ PeerReceive \/ (\E f \in Faults : PeerEnd(f))
  BY <1>5, <1>16 DEF PeerSend, PeerReceive, PeerEnd, peerOnly
<1>17. CASE UNCHANGED vars
  BY <1>5, <1>17 DEF vars
<1> QED
  BY <1>6, <1>7, <1>8, <1>9, <1>10, <1>11, <1>12, <1>13, <1>14, <1>15, <1>16,
     <1>17
  DEF Next, JobStep, EpStep

\* At the start the read buffer is empty and the write buffer free.
LEMMA FlagsInit ==
  ASSUME Init
  PROVE  FlagsInv
<1>1. BufferSize \in Nat \ {0} /\ FirstCond \in 1 .. BufferSize
  BY SocketWordAssumption, StreamAssumption
<1>2. /\ htc.count = 0 /\ htc.avail = BufferSize
      /\ "READ_READY" \in htc.flags <=> 0 >= FirstCond
      /\ "WRITE_READY" \in htc.flags <=> BufferSize >= FirstCond
  BY DEF Init, htc_init, WithReady, FlagIf
<1>3. cond["in"] = FirstCond /\ cond["out"] = FirstCond
  BY DEF Init, Dirs
<1>4. ep.pc = "idle"
  BY DEF Init, Thread
<1> QED
  BY <1>2, <1>3, <1>4 DEF FlagsInv, FlagsSettled, FlagsOf, CasCurrent

\* READ_READY and WRITE_READY say what the counts and the conditions say, in
\* every behaviour in which no update of the epoll thread is Overtaken: one
\* that read the condition before the job stored a new one sets the flag from
\* the old one, and there the code does not keep this.
THEOREM FlagsCurrent == Spec => FlagsAreCurrent
<1> DEFINE Shown == job.pc # "cond_add" =>
                      /\ "READ_READY" \in htc.flags <=> htc.count >= cond["in"]
                      /\ "WRITE_READY" \in htc.flags <=> htc.avail >= cond["out"]
<1>1. Init => FlagsInv
  BY FlagsInit
<1>2. IndInv /\ FlagsInv /\ ~Overtaken' /\ [Next]_vars => FlagsInv'
  BY CasKept, SettledKept DEF FlagsInv
<1>3. FlagsInv => Shown
  BY DEF FlagsInv, FlagsSettled, Settling, FlagsOf, Dirs
<1>4. Spec /\ []~Overtaken => []Shown
  <2> HIDE DEF Shown
  <2> QED
    BY <1>1, <1>2, <1>3, Invariance, PTL DEF Spec
<1>5. FlagsAreCurrent <=> ([]~Overtaken => []Shown)
  BY DEF FlagsAreCurrent
<1> QED
  BY <1>4, <1>5, PTL
=============================================================================
