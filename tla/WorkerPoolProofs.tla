-------------------------- MODULE WorkerPoolProofs --------------------------
(***************************************************************************)
(* For any number of workers and jobs: the lock-free cache never reports   *)
(* that it is full, it implements the bag of jobs, and no job is stranded  *)
(* in it while all workers sleep.                                          *)
(*                                                                         *)
(* IndInv says where each job is: in one entry or in the hands of one      *)
(* thread; what job_count is when the counts of some threads are late; and *)
(* how much room a push has ahead of it.  Every action is shown to keep it *)
(* and to move at most one job, in one of five ways (Moves), from which    *)
(* the refinement follows.  SleepInv is about the mutex and the condition. *)
(***************************************************************************)
EXTENDS WorkerPool, FiniteSetTheorems, TLAPS

-----------------------------------------------------------------------------
(* The inductive invariant of the cache. *)

MainLabels   == {"main", "setready", "cached", "stop", "join", "joined"}
WorkerLabels == Labels \ {"main", "stop", "join", "joined"}
Picking      == {"picked", "pickedlocked"}
Places       == Jobs \cup {Null}
Ops == [pc : Calls, job : Places, i : Entries,
        reorganizes : BOOLEAN, at : Nat, n : Nat]

\* The call o of a thread t fits where the thread is, l, and its job, m.
Fits(t, o, l, m) ==
  /\ l \in IF t = Main THEN MainLabels ELSE WorkerLabels
  /\ o.pc \in {"pop", "scan", "popped"} => l \in Picking
  /\ o.pc \in {"pop", "scan"} => o.job = Null
  /\ o.pc \in {"tick", "reorganize", "take", "taken", "moved", "next"} =>
       l = "ticked"
  /\ o.pc \in {"push", "pushed"} => l \in {"cached", "ticked"}
  /\ o.reorganizes <=>
       \/ o.pc \in {"take", "taken", "moved", "next"}
       \/ o.pc \in {"push", "pushed"} /\ l = "ticked"
  /\ o.reorganizes => o.at \in Entries
  /\ o.pc \in {"popped", "taken", "push"} => o.job \in Jobs
  /\ o.pc = "push" /\ l = "cached" => m = o.job
  /\ o.pc = "scan" => o.i < CacheCheck
  /\ o.pc = "ret" /\ l \notin Picking => o.job = Null
  /\ l \in {"run", "setready"} => m \in Jobs /\ o.pc = "ret"

ThreadsFit == \A t \in Threads : Fits(t, op[t], pc[t], mine[t])

\* The job that a thread has in its hands, or Null.
HandOf(o, l, m) ==
  IF \/ o.pc \in {"popped", "taken", "push"}
     \/ o.pc = "ret" /\ l \in Picking
  THEN o.job
  ELSE IF l \in {"run", "setready"} THEN m ELSE Null

Hands == [t \in Threads |-> HandOf(op[t], pc[t], mine[t])]

\* A job is in one place: in one entry of cache c, or in the hands h of one
\* thread; and it is one of the launched jobs L.
ExclusiveIn(c, h, L) ==
  /\ \A i, k \in Entries : c[i] # Null /\ c[i] = c[k] => i = k
  /\ \A t, u \in Threads : h[t] # Null /\ h[t] = h[u] => t = u
  /\ \A t \in Threads : \A i \in Entries : h[t] # Null => c[i] # h[t]
  /\ \A i \in Entries : c[i] \in L \cup {Null}
  /\ \A t \in Threads : h[t] \in L \cup {Null}

Exclusive == ExclusiveIn(ready_jobs_cache, Hands, launched)

\* Jobs in the cache or taken out of it and not yet taken off the count, and
\* threads whose push is not yet counted.
Owed(o) == IF o.pc \in {"popped", "taken"} THEN o.job ELSE Null
Present ==
  {j \in Jobs : \/ \E i \in Entries : ready_jobs_cache[i] = j
                \/ \E t \in Threads : Owed(op[t]) = j}
Uncounted == {t \in Threads : op[t].pc = "pushed"}
Surplus == Cardinality(Present) - Cardinality(Uncounted)

\* The count is the surplus, below zero modulo its width, so that a peak
\* either is an index of the cache or is beyond the signed range.
Wrap(s) == IF s >= 0 THEN s ELSE s + CountMod
Counted ==
  /\ job_count = Wrap(Surplus)
  /\ peaked_job_count <= CacheSize \/ 2 * peaked_job_count > CountMod

\* Jobs in entries from k on, or being pushed from there on.
Above(k) ==
  {j \in Jobs : \/ \E i \in Entries : i >= k /\ ready_jobs_cache[i] = j
                \/ \E t \in Threads : /\ op[t].pc = "push" /\ op[t].job = j
                                      /\ op[t].i >= k}
Bound(k) == Cardinality(Above(k)) <= Cardinality(Jobs) - k
PushAt(k) == \E t \in Threads : op[t].pc = "push" /\ op[t].i = k

\* A push that has come to entry k has seen k jobs in the entries before it.
Room ==
  /\ \A k \in Entries : PushAt(k) => Bound(k)
  /\ \A k \in Entries : ready_jobs_cache[k] # Null => k < Cardinality(Jobs)

IndInv ==
  /\ TypeOK /\ ThreadsFit
  /\ Exclusive /\ Counted /\ Room
  /\ ~array_full

-----------------------------------------------------------------------------
(* The inductive invariant of the sleep. *)

\* Who holds the mutex.
Locked ==
  ~Lockless =>
    /\ \A t \in Threads : pc[t] \in {"pickedlocked", "cached"} => mutex = t
    /\ pc[Main] = "stop" => mutex = Main

Asleep ==
  /\ \A w \in waiting : pc[w] = "sleep" /\ op[w].pc = "ret"
  /\ Lockless => /\ waiting = {}
                 /\ \A t \in Threads : pc[t] \notin {"lock", "pickedlocked"}
  /\ pc[Main] \in {"stop", "join"} => shutdown
  /\ pc[Main] = "join" => waiting = {}

Empty == \A i \in Entries : ready_jobs_cache[i] = Null

\* The last worker awake, with the mutex, finds a job if there is one.
LastAwake ==
  \A w \in Workers :
    pc[w] = "pickedlocked" /\ Workers \ {w} \subseteq waiting =>
      /\ op[w].pc = "scan" =>
           \A i \in 0 .. op[w].i - 1 : ready_jobs_cache[i] = Null
      /\ op[w].pc = "ret" /\ op[w].job = Null => Empty

AllAsleep == waiting = Workers /\ pc[Main] \in {"main", "setready"} => Empty

SleepInv == Locked /\ Asleep /\ LastAwake /\ AllAsleep

-----------------------------------------------------------------------------
(* Moves of one job between the cache and the hands of a thread. *)

\* A job that is taken out of an entry by a thread is still in one place.
LEMMA GrabExclusive ==
  ASSUME NEW c, c \in [Entries -> Places], NEW h, h \in [Threads -> Places],
         NEW L, ExclusiveIn(c, h, L),
         NEW t \in Threads, NEW i \in Entries, h[t] = Null
  PROVE  ExclusiveIn([c EXCEPT ![i] = Null], [h EXCEPT ![t] = c[i]], L)
<1> DEFINE c2 == [c EXCEPT ![i] = Null]  h2 == [h EXCEPT ![t] = c[i]]
<1>1. /\ c2[i] = Null /\ \A k \in Entries : k # i => c2[k] = c[k]
      /\ h2[t] = c[i] /\ \A u \in Threads : u # t => h2[u] = h[u]
  OBVIOUS
<1> HIDE DEF c2, h2
<1>2. ExclusiveIn(c2, h2, L)
  BY <1>1 DEF ExclusiveIn
<1> QED
  BY <1>2 DEF c2, h2

\* So is one that a thread puts into an empty entry ...
LEMMA PutExclusive ==
  ASSUME NEW c, c \in [Entries -> Places], NEW h, h \in [Threads -> Places],
         NEW L, ExclusiveIn(c, h, L),
         NEW t \in Threads, NEW i \in Entries, c[i] = Null, h[t] # Null
  PROVE  ExclusiveIn([c EXCEPT ![i] = h[t]], [h EXCEPT ![t] = Null], L)
<1> DEFINE c2 == [c EXCEPT ![i] = h[t]]  h2 == [h EXCEPT ![t] = Null]
<1>1. /\ c2[i] = h[t] /\ \A k \in Entries : k # i => c2[k] = c[k]
      /\ h2[t] = Null /\ \A u \in Threads : u # t => h2[u] = h[u]
  OBVIOUS
<1> HIDE DEF c2, h2
<1>2. ExclusiveIn(c2, h2, L)
  BY <1>1 DEF ExclusiveIn
<1> QED
  BY <1>2 DEF c2, h2

\* ... and one that nobody had, or that is dropped.
LEMMA HandExclusive ==
  ASSUME NEW c, NEW h, h \in [Threads -> Places],
         NEW L, ExclusiveIn(c, h, L), NEW t \in Threads,
         NEW j, Null \notin L
  PROVE  /\ ExclusiveIn(c, [h EXCEPT ![t] = Null], L)
         /\ j \notin L \cup {Null} =>
              ExclusiveIn(c, [h EXCEPT ![t] = j], L \cup {j})
<1> DEFINE h1 == [h EXCEPT ![t] = Null]  h2 == [h EXCEPT ![t] = j]
<1>1. /\ h1[t] = Null /\ \A u \in Threads : u # t => h1[u] = h[u]
      /\ h2[t] = j /\ \A u \in Threads : u # t => h2[u] = h[u]
  OBVIOUS
<1> HIDE DEF h1, h2
<1>2. ExclusiveIn(c, h1, L)
  BY <1>1 DEF ExclusiveIn
<1>3. ASSUME j \notin L \cup {Null} PROVE ExclusiveIn(c, h2, L \cup {j})
  BY <1>1, <1>3 DEF ExclusiveIn
<1> QED
  BY <1>2, <1>3 DEF h1, h2

-----------------------------------------------------------------------------
(* The count. *)

\* One more or one less modulo the width of the counter.
LEMMA WrapStep ==
  ASSUME NEW s \in Int, 0 - Cardinality(Threads) <= s, s <= CacheSize
  PROVE  /\ Wrap(s) \in 0 .. CountMod - 1
         /\ s + 1 <= CacheSize => (Wrap(s) + 1) % CountMod = Wrap(s + 1)
         /\ 0 - Cardinality(Threads) <= s - 1 =>
              (Wrap(s) - 1) % CountMod = Wrap(s - 1)
         /\ Wrap(s) <= CacheSize \/ 2 * Wrap(s) > CountMod
<1> DEFINE M == CountMod  T == Cardinality(Threads)  C == CacheSize
<1>1. T \in Nat /\ C \in Nat /\ M \in Nat /\ M > 2 * C /\ 2 * T < M /\ M > 0
  BY FS_CardinalityType, CapacityAssumption, ReadyCacheAssumption
<1>2. ASSUME NEW R \in Nat \ {0}, NEW x \in Int, 0 <= x, x < R PROVE x % R = x
  BY <1>2, Z3
<1>3. ASSUME NEW R \in Nat \ {0}, NEW x \in Int, x < 0, 0 - R <= x
      PROVE  x % R = x + R
  BY <1>3, Z3
<1>4. ASSUME NEW R \in Nat \ {0} PROVE R % R = 0
  BY <1>4, Z3
<1>5. 0 - T <= s /\ s <= C /\ s \in Int
  OBVIOUS
<1> HIDE DEF M, T, C
<1>6. Wrap(s) = IF s >= 0 THEN s ELSE s + M
  BY DEF Wrap, M
<1>7. Wrap(s + 1) = IF s + 1 >= 0 THEN s + 1 ELSE s + 1 + M
  BY DEF Wrap, M
<1>8. Wrap(s - 1) = IF s - 1 >= 0 THEN s - 1 ELSE s - 1 + M
  BY DEF Wrap, M
<1>9. Wrap(s) \in 0 .. M - 1
  BY <1>1, <1>5, <1>6
<1>10. ASSUME s + 1 <= C PROVE (Wrap(s) + 1) % M = Wrap(s + 1)
  <2>1. CASE s >= 0
    <3>1. Wrap(s) + 1 = s + 1 /\ s + 1 \in Int /\ 0 <= s + 1 /\ s + 1 < M
      BY <1>1, <1>5, <1>6, <1>10, <2>1
    <3>2. (s + 1) % M = s + 1
      BY <1>1, <1>2, <3>1
    <3> QED
      BY <3>1, <3>2, <1>7, <1>5
  <2>2. CASE s = 0 - 1
    <3>1. Wrap(s) + 1 = M /\ Wrap(s + 1) = 0
      BY <1>1, <1>6, <1>7, <2>2
    <3> QED
      BY <3>1, <1>1, <1>4
  <2>3. CASE s < 0 - 1
    <3>1. /\ Wrap(s) + 1 = s + 1 + M /\ s + 1 + M \in Int
          /\ 0 <= s + 1 + M /\ s + 1 + M < M
      BY <1>1, <1>5, <1>6, <2>3
    <3>2. (s + 1 + M) % M = s + 1 + M
      BY <1>1, <1>2, <3>1
    <3> QED
      BY <3>1, <3>2, <1>7, <1>5, <2>3
  <2> QED
    BY <1>5, <2>1, <2>2, <2>3
<1>11. ASSUME 0 - T <= s - 1 PROVE (Wrap(s) - 1) % M = Wrap(s - 1)
  <2>1. CASE s > 0
    <3>1. Wrap(s) - 1 = s - 1 /\ s - 1 \in Int /\ 0 <= s - 1 /\ s - 1 < M
      BY <1>1, <1>5, <1>6, <2>1
    <3>2. (s - 1) % M = s - 1
      BY <1>1, <1>2, <3>1
    <3> QED
      BY <3>1, <3>2, <1>8, <1>5
  <2>2. CASE s = 0
    <3>1. Wrap(s) - 1 = 0 - 1 /\ Wrap(s - 1) = 0 - 1 + M
      BY <1>1, <1>6, <1>8, <2>2
    <3>2. (0 - 1) % M = 0 - 1 + M
      BY <1>1, <1>3
    <3> QED
      BY <3>1, <3>2
  <2>3. CASE s < 0
    <3>1. /\ Wrap(s) - 1 = s - 1 + M /\ s - 1 + M \in Int
          /\ 0 <= s - 1 + M /\ s - 1 + M < M
      BY <1>1, <1>5, <1>6, <1>11, <2>3
    <3>2. (s - 1 + M) % M = s - 1 + M
      BY <1>1, <1>2, <3>1
    <3> QED
      BY <3>1, <3>2, <1>8, <1>5, <2>3
  <2> QED
    BY <1>5, <2>1, <2>2, <2>3
<1>12. Wrap(s) <= C \/ 2 * Wrap(s) > M
  BY <1>1, <1>5, <1>6
<1> QED
  BY <1>9, <1>10, <1>11, <1>12 DEF M, T, C

-----------------------------------------------------------------------------
(* Steps of one thread. *)

\* A step changes the call, the place and the job of one thread only.
Local(t, o, l, m) ==
  /\ op' = [op EXCEPT ![t] = o]
  /\ pc' = [pc EXCEPT ![t] = l]
  /\ mine' = [mine EXCEPT ![t] = m]

\* What such a step does to the threads and to what they hold.
LEMMA LocalStep ==
  ASSUME TypeOK, ThreadsFit, NEW t \in Threads,
         NEW o \in Ops, NEW l \in Labels, NEW m \in Places,
         Local(t, o, l, m), Fits(t, o, l, m)
  PROVE  /\ op' \in [Threads -> Ops] /\ op'[t] = o
         /\ pc' \in [Threads -> Labels] /\ pc'[t] = l
         /\ mine' \in [Threads -> Places] /\ mine'[t] = m
         /\ \A u \in Threads :
              u # t => op'[u] = op[u] /\ pc'[u] = pc[u] /\ mine'[u] = mine[u]
         /\ ThreadsFit'
         /\ Hands' = [Hands EXCEPT ![t] = HandOf(o, l, m)]
<1>1. /\ op \in [Threads -> Ops] /\ pc \in [Threads -> Labels]
      /\ mine \in [Threads -> Places]
  BY DEF TypeOK, CacheTypeOK, Ops, Places
<1>2. op' \in [Threads -> Ops] /\ op'[t] = o
  BY <1>1 DEF Local
<1>3. pc' \in [Threads -> Labels] /\ pc'[t] = l
  BY <1>1 DEF Local
<1>4. mine' \in [Threads -> Places] /\ mine'[t] = m
  BY <1>1 DEF Local
<1>5. \A u \in Threads :
        u # t => op'[u] = op[u] /\ pc'[u] = pc[u] /\ mine'[u] = mine[u]
  BY <1>1 DEF Local
<1>6. ThreadsFit'
  <2> SUFFICES ASSUME NEW u \in Threads
               PROVE  Fits(u, op'[u], pc'[u], mine'[u])
    BY DEF ThreadsFit
  <2>1. CASE u = t
    BY <2>1, <1>2, <1>3, <1>4
  <2>2. CASE u # t
    BY <2>2, <1>5 DEF ThreadsFit
  <2> QED
    BY <2>1, <2>2
<1>7. Hands' = [Hands EXCEPT ![t] = HandOf(o, l, m)]
  <2>1. Hands' = [u \in Threads |-> HandOf(op'[u], pc'[u], mine'[u])]
    BY DEF Hands
  <2>2. \A u \in Threads : HandOf(op'[u], pc'[u], mine'[u]) =
          IF u = t THEN HandOf(o, l, m) ELSE HandOf(op[u], pc[u], mine[u])
    BY <1>2, <1>3, <1>4, <1>5
  <2> QED
    BY <2>1, <2>2 DEF Hands
<1> QED
  BY <1>2, <1>3, <1>4, <1>5, <1>6, <1>7

\* What is in a thread's hands is a job or nothing.
LEMMA HandsType ==
  ASSUME TypeOK PROVE Hands \in [Threads -> Places]
<1> SUFFICES ASSUME NEW t \in Threads
             PROVE  HandOf(op[t], pc[t], mine[t]) \in Places
  BY DEF Hands
<1>1. op[t].job \in Places /\ mine[t] \in Places /\ Null \in Places
  BY DEF TypeOK, CacheTypeOK, Places
<1> QED
  BY <1>1 DEF HandOf

\* The ways in which a step moves a job.
Same ==
  /\ ready_jobs_cache' = ready_jobs_cache /\ Hands' = Hands
  /\ launched' = launched
  /\ \A u \in Threads : Hands[u] # Null =>
       op'[u].reorganizes = op[u].reorganizes
Others(t) ==
  \A u \in Threads : u # t => op'[u].reorganizes = op[u].reorganizes
Grabs(t, i) ==
  /\ ready_jobs_cache[i] # Null /\ Hands[t] = Null
  /\ ready_jobs_cache' = [ready_jobs_cache EXCEPT ![i] = Null]
  /\ Hands' = [Hands EXCEPT ![t] = ready_jobs_cache[i]]
  /\ launched' = launched
  /\ op'[t].reorganizes \/ t \in Workers
  /\ Others(t)
Puts(t, i) ==
  /\ ready_jobs_cache[i] = Null /\ Hands[t] # Null
  /\ ready_jobs_cache' = [ready_jobs_cache EXCEPT ![i] = Hands[t]]
  /\ Hands' = [Hands EXCEPT ![t] = Null]
  /\ launched' = launched
  /\ Others(t)
Drops(w) ==
  /\ ready_jobs_cache' = ready_jobs_cache
  /\ Hands[w] # Null /\ ~op[w].reorganizes
  /\ Hands' = [Hands EXCEPT ![w] = Null]
  /\ launched' = launched
  /\ Others(w)
Launches(j) ==
  /\ ready_jobs_cache' = ready_jobs_cache
  /\ j \notin launched
  /\ Hands[Main] = Null /\ ~op'[Main].reorganizes
  /\ Hands' = [Hands EXCEPT ![Main] = j]
  /\ launched' = launched \cup {j}
  /\ Others(Main)
Moves ==
  \/ Same
  \/ \E t \in Threads, i \in Entries : Grabs(t, i) \/ Puts(t, i)
  \/ \E w \in Workers : Drops(w)
  \/ \E j \in Jobs : Launches(j)

\* However a job moves, it is in one place.
LEMMA MoveExclusive ==
  ASSUME TypeOK, Exclusive, Moves PROVE Exclusive'
<1>1. /\ Hands \in [Threads -> Places] /\ Null \notin Jobs
      /\ ready_jobs_cache \in [Entries -> Places] /\ launched \subseteq Jobs
      /\ Null \notin launched
  BY HandsType, ReadyCacheAssumption DEF TypeOK, CacheTypeOK, Places
<1>2. ExclusiveIn(ready_jobs_cache, Hands, launched)
  BY DEF Exclusive
<1> SUFFICES ExclusiveIn(ready_jobs_cache', Hands', launched')
  BY DEF Exclusive
<1>3. CASE Same
  BY <1>2, <1>3 DEF Same
<1>4. ASSUME NEW t \in Threads, NEW i \in Entries, Grabs(t, i)
      PROVE  ExclusiveIn(ready_jobs_cache', Hands', launched')
  <2>1. Hands[t] = Null
    BY <1>4 DEF Grabs
  <2>2. ExclusiveIn([ready_jobs_cache EXCEPT ![i] = Null],
                    [Hands EXCEPT ![t] = ready_jobs_cache[i]], launched)
    BY <1>1, <1>2, <2>1, GrabExclusive
  <2> QED
    BY <2>2, <1>4 DEF Grabs
<1>5. ASSUME NEW t \in Threads, NEW i \in Entries, Puts(t, i)
      PROVE  ExclusiveIn(ready_jobs_cache', Hands', launched')
  <2>1. Hands[t] # Null /\ ready_jobs_cache[i] = Null
    BY <1>5 DEF Puts
  <2>2. ExclusiveIn([ready_jobs_cache EXCEPT ![i] = Hands[t]],
                    [Hands EXCEPT ![t] = Null], launched)
    BY <1>1, <1>2, <2>1, PutExclusive
  <2> QED
    BY <2>2, <1>5 DEF Puts
<1>6. ASSUME NEW w \in Workers, Drops(w)
      PROVE  ExclusiveIn(ready_jobs_cache', Hands', launched')
  <2>1. w \in Threads
    BY WorkerPoolAssumption
  <2>2. ExclusiveIn(ready_jobs_cache, [Hands EXCEPT ![w] = Null], launched)
    BY <1>1, <1>2, <2>1, HandExclusive
  <2> QED
    BY <2>2, <1>6 DEF Drops
<1>7. ASSUME NEW j \in Jobs, Launches(j)
      PROVE  ExclusiveIn(ready_jobs_cache', Hands', launched')
  <2>1. Main \in Threads /\ j \notin launched \cup {Null}
    BY <1>1, <1>7, WorkerPoolAssumption DEF Launches
  <2>2. ExclusiveIn(ready_jobs_cache, [Hands EXCEPT ![Main] = j],
                    launched \cup {j})
    BY <1>1, <1>2, <2>1, HandExclusive
  <2> QED
    BY <2>2, <1>7 DEF Launches
<1> QED
  BY <1>3, <1>4, <1>5, <1>6, <1>7 DEF Moves

\* The surplus is a small number.
LEMMA SurplusRange ==
  /\ Surplus \in Int /\ 0 - Cardinality(Threads) <= Surplus
  /\ Surplus <= CacheSize /\ Surplus <= Cardinality(Present)
  /\ Cardinality(Present) \in Nat /\ Cardinality(Uncounted) \in Nat
  /\ IsFiniteSet(Present) /\ IsFiniteSet(Uncounted)
<1>1. /\ IsFiniteSet(Present) /\ Cardinality(Present) <= Cardinality(Jobs)
      /\ IsFiniteSet(Uncounted)
      /\ Cardinality(Uncounted) <= Cardinality(Threads)
  <2>1. Present \in SUBSET Jobs /\ Uncounted \in SUBSET Threads
    BY DEF Present, Uncounted
  <2> QED
    BY <2>1, FS_Subset, CapacityAssumption
<1>2. /\ Cardinality(Present) \in Nat /\ Cardinality(Jobs) \in Nat
      /\ Cardinality(Uncounted) \in Nat /\ Cardinality(Threads) \in Nat
  BY <1>1, FS_CardinalityType, CapacityAssumption
<1>3. Cardinality(Jobs) <= CacheSize /\ CacheSize \in Nat
  BY CapacityAssumption, ReadyCacheAssumption
<1>4. ASSUME NEW p \in Nat, NEW q \in Nat, NEW J \in Nat, NEW T \in Nat,
             p <= J, q <= T, J <= CacheSize
      PROVE  /\ p - q \in Int /\ 0 - T <= p - q /\ p - q <= CacheSize
             /\ p - q <= p
  BY <1>3, <1>4
<1> QED
  BY <1>1, <1>2, <1>3, <1>4 DEF Surplus

-----------------------------------------------------------------------------
(* Steps that move no job. *)

\* The variables that the invariant of the cache only types.
RestOK ==
  /\ reorganize_counter \in 0 .. CacheCheck
  /\ mutex \in Threads \cup {Null}
  /\ waiting \subseteq Workers
  /\ shutdown \in BOOLEAN
  /\ left \in [Jobs -> 0 .. Runs]
  /\ setup \in Setups

\* A push finds its bound in the set of all jobs, at entry 0.
LEMMA BoundAtZero ==
  \A k \in Entries : k = 0 => Bound(k)'
<1> SUFFICES ASSUME NEW k \in Entries, k = 0 PROVE Bound(k)'
  OBVIOUS
<1>1. Above(k)' \in SUBSET Jobs
  BY DEF Above
<1>2. Cardinality(Above(k)') <= Cardinality(Jobs) /\ Cardinality(Jobs) \in Nat
  BY <1>1, FS_Subset, FS_CardinalityType, CapacityAssumption
<1>3. Cardinality(Jobs) - k = Cardinality(Jobs)
  BY <1>2
<1> QED
  BY <1>2, <1>3 DEF Bound

\* Elsewhere the bound is kept as long as no job comes up from below.
LEMMA BoundKept ==
  ASSUME NEW k \in Entries, Bound(k), Above(k)' \subseteq Above(k)
  PROVE  Bound(k)'
<1>1. Above(k) \in SUBSET Jobs
  BY DEF Above
<1>2. IsFiniteSet(Above(k)) /\ Cardinality(Above(k)) \in Nat
  BY <1>1, FS_Subset, FS_CardinalityType, CapacityAssumption
<1>3. /\ Cardinality(Above(k)') <= Cardinality(Above(k))
      /\ Cardinality(Above(k)') \in Nat
  BY <1>2, FS_Subset, FS_CardinalityType
<1>4. Cardinality(Above(k)) <= Cardinality(Jobs) - k
  BY DEF Bound
<1>5. Cardinality(Jobs) \in Nat /\ k \in Nat
  BY FS_CardinalityType, CapacityAssumption DEF Entries
<1>6. Cardinality(Above(k)') <= Cardinality(Jobs) - k
  BY <1>2, <1>3, <1>4, <1>5
<1> QED
  BY <1>6 DEF Bound

\* A step that leaves the cache and the counts alone keeps the invariant; a
\* push may begin, at entry 0.
LEMMA CalmStep ==
  ASSUME IndInv, NEW t \in Threads,
         NEW o \in Ops, NEW l \in Labels, NEW m \in Places,
         Local(t, o, l, m), Fits(t, o, l, m), RestOK', Moves,
         UNCHANGED <<ready_jobs_cache, job_count, peaked_job_count,
                     array_full>>,
         launched' \subseteq Jobs,
         Owed(o) = Owed(op[t]),
         o.pc = "pushed" <=> op[t].pc = "pushed",
         o.pc = "push" => o.i = 0 \/ o = op[t]
  PROVE  IndInv'
<1> USE DEF IndInv
<1>1. /\ op' \in [Threads -> Ops] /\ op'[t] = o
      /\ pc' \in [Threads -> Labels]
      /\ mine' \in [Threads -> Places]
      /\ \A u \in Threads : u # t => op'[u] = op[u]
      /\ ThreadsFit'
  BY LocalStep
<1>2. TypeOK'
  BY <1>1 DEF TypeOK, CacheTypeOK, RestOK, Ops, Places
<1>3. Exclusive'
  BY MoveExclusive
<1>4. Counted'
  <2>1. \A u \in Threads : Owed(op'[u]) = Owed(op[u])
    BY <1>1
  <2>2. \A u \in Threads : op'[u].pc = "pushed" <=> op[u].pc = "pushed"
    BY <1>1
  <2>3. Present' = Present
    BY <2>1 DEF Present
  <2>4. Uncounted' = Uncounted
    BY <2>2 DEF Uncounted
  <2> QED
    BY <2>3, <2>4 DEF Counted, Surplus
<1>5. Room'
  <2>1. ASSUME NEW k \in Entries, PushAt(k)' PROVE Bound(k)'
    <3>1. CASE k = 0
      BY <3>1, BoundAtZero
    <3>2. CASE k # 0
      <4>1. k \in Nat /\ k >= 1
        BY <3>2 DEF Entries
      <4>2. \A u \in Threads : op'[u].pc = "push" /\ op'[u].i >= k =>
              op'[u] = op[u]
        BY <1>1, <4>1
      <4>3. Above(k)' \subseteq Above(k)
        BY <4>2 DEF Above
      <4>4. PushAt(k)
        <5>1. PICK u \in Threads : op'[u].pc = "push" /\ op'[u].i = k
          BY <2>1 DEF PushAt
        <5>2. op'[u] = op[u]
          BY <4>1, <4>2, <5>1
        <5> QED
          BY <5>1, <5>2 DEF PushAt
      <4>5. Bound(k)
        BY <4>4 DEF Room
      <4> QED
        BY <4>3, <4>5, BoundKept
    <3> QED
      BY <3>1, <3>2
  <2> QED
    BY <2>1 DEF Room
<1> QED
  BY <1>1, <1>2, <1>3, <1>4, <1>5

\* In particular one that leaves the hands alone.
LEMMA QuietStep ==
  ASSUME IndInv, NEW t \in Threads,
         NEW o \in Ops, NEW l \in Labels, NEW m \in Places,
         Local(t, o, l, m), Fits(t, o, l, m), RestOK',
         UNCHANGED <<ready_jobs_cache, job_count, peaked_job_count,
                     array_full, launched>>,
         HandOf(o, l, m) = HandOf(op[t], pc[t], mine[t]),
         HandOf(o, l, m) # Null => o.reorganizes = op[t].reorganizes,
         Owed(o) = Owed(op[t]),
         o.pc = "pushed" <=> op[t].pc = "pushed",
         o.pc = "push" => o.i = 0 \/ o = op[t]
  PROVE  IndInv' /\ Moves
<1> USE DEF IndInv
<1>1. /\ op'[t] = o
      /\ \A u \in Threads : u # t => op'[u] = op[u]
      /\ Hands' = [Hands EXCEPT ![t] = HandOf(o, l, m)]
  BY LocalStep
<1>3. Hands \in [Threads -> Places]
  BY HandsType
<1>4. Hands[t] = HandOf(op[t], pc[t], mine[t])
  BY DEF Hands
<1>5. Hands' = Hands
  BY <1>1, <1>3, <1>4
<1>6. Moves
  <2>1. \A u \in Threads : Hands[u] # Null =>
          op'[u].reorganizes = op[u].reorganizes
    BY <1>1, <1>4
  <2> QED
    BY <1>5, <2>1 DEF Moves, Same
<1>7. launched' \subseteq Jobs
  BY DEF TypeOK
<1> HIDE DEF IndInv
<1>8. IndInv'
  BY <1>6, <1>7, CalmStep
<1> QED
  BY <1>6, <1>8

\* Thread t may come to call o, place l and job m without moving a job.
QuietTo(t, o, l, m) ==
  /\ o \in Ops /\ l \in Labels /\ m \in Places
  /\ Fits(t, o, l, m)
  /\ HandOf(o, l, m) = HandOf(op[t], pc[t], mine[t])
  /\ HandOf(o, l, m) # Null => o.reorganizes = op[t].reorganizes
  /\ Owed(o) = Owed(op[t])
  /\ o.pc = "pushed" <=> op[t].pc = "pushed"
  /\ o.pc = "push" => o.i = 0 \/ o = op[t]

\* The same, with the conditions on the thread in one.
LEMMA Quiet ==
  ASSUME IndInv, NEW t \in Threads, NEW o, NEW l, NEW m,
         Local(t, o, l, m), QuietTo(t, o, l, m), RestOK',
         UNCHANGED <<ready_jobs_cache, job_count, peaked_job_count,
                     array_full, launched>>
  PROVE  IndInv' /\ Moves
BY QuietStep DEF QuietTo

\* A call that has just begun, or has returned.
Fresh(name, j) == [NoCall EXCEPT !.pc = name, !.job = j]

\* A thread that is in no call has a well-typed record of it.
LEMMA NoCallType == NoCall \in Ops
<1>1. 0 \in Entries /\ Null \in Places /\ "ret" \in Calls
  BY ReadyCacheAssumption DEF Entries, Places, Calls
<1> QED
  BY <1>1 DEF NoCall, Ops

\* The fields of such a call.
LEMMA FreshFields ==
  ASSUME NEW name \in Calls, NEW j \in Places
  PROVE  /\ Fresh(name, j) \in Ops
         /\ Fresh(name, j).pc = name /\ Fresh(name, j).job = j
         /\ Fresh(name, j).i = 0 /\ ~Fresh(name, j).reorganizes
<1>1. NoCall.i = 0 /\ ~NoCall.reorganizes
  BY DEF NoCall
<1> QED
  BY <1>1, NoCallType DEF Fresh, Ops

\* A return leaves a fresh record with the result.
LEMMA FreshReturn ==
  \A j \in Places : [NoCall EXCEPT !.job = j] = Fresh("ret", j)
<1>1. NoCall.pc = "ret"
  BY DEF NoCall
<1> QED
  BY <1>1, NoCallType DEF Fresh, Ops

\* What the invariant says of a thread.
LEMMA ThreadFacts ==
  ASSUME IndInv, NEW t \in Threads
  PROVE  /\ op[t] \in Ops /\ pc[t] \in Labels /\ mine[t] \in Places
         /\ op \in [Threads -> Ops] /\ pc \in [Threads -> Labels]
         /\ mine \in [Threads -> Places]
         /\ Fits(t, op[t], pc[t], mine[t])
         /\ RestOK
BY DEF IndInv, ThreadsFit, TypeOK, CacheTypeOK, Ops, Places, RestOK

\* The steps of worker_routine that neither run a job nor touch the cache.
LEMMA LoopHeadKeeps ==
  ASSUME IndInv, NEW w \in Workers, LoopHead(w)
  PROVE  IndInv' /\ Moves
<1>0. w \in Threads /\ w # Main
  BY WorkerPoolAssumption
<1>1. /\ op[w] \in Ops /\ mine[w] \in Places
      /\ op \in [Threads -> Ops] /\ pc \in [Threads -> Labels]
      /\ mine \in [Threads -> Places]
      /\ Fits(w, op[w], pc[w], mine[w]) /\ RestOK
  BY <1>0, ThreadFacts
<1>2. pc[w] = "head" /\ op[w].pc = "ret"
  BY DEF LoopHead, At
<1>3. RestOK' /\ UNCHANGED <<ready_jobs_cache, job_count, peaked_job_count,
                             array_full, launched>>
  BY <1>1 DEF LoopHead, RestOK, arrayVars, env
<1>4. CASE shutdown
  <2>1. Local(w, op[w], "exited", mine[w])
    BY <1>0, <1>1, <1>4 DEF LoopHead, Local, Go
  <2>2. QuietTo(w, op[w], "exited", mine[w])
    BY <1>0, <1>1, <1>2
       DEF QuietTo, Fits, HandOf, Owed, Labels, WorkerLabels, Picking
  <2> QED
    BY <1>0, <1>3, <2>1, <2>2, Quiet
<1>5. CASE ~shutdown
  <2> DEFINE o == Fresh("pop", Null)
  <2>1. Local(w, o, "picked", mine[w])
    BY <1>0, <1>1, <1>5 DEF LoopHead, Local, Go, Call, Fresh
  <2>2. o \in Ops /\ o.pc = "pop" /\ o.job = Null /\ ~o.reorganizes
    BY FreshFields DEF Calls, Places
  <2> HIDE DEF o
  <2>3. QuietTo(w, o, "picked", mine[w])
    BY <1>0, <1>1, <1>2, <2>2
       DEF QuietTo, Fits, HandOf, Owed, Labels, WorkerLabels, Picking
  <2> QED
    BY <1>0, <1>3, <2>1, <2>3, Quiet
<1> QED
  BY <1>4, <1>5

\* The job that a pick returned goes from the call to the worker.
LEMMA PickedKeeps ==
  ASSUME IndInv, NEW w \in Workers, Picked(w) \/ PickedLocked(w)
  PROVE  IndInv' /\ Moves
<1>0. w \in Threads /\ w # Main
  BY WorkerPoolAssumption
<1>1. /\ op[w] \in Ops /\ mine[w] \in Places
      /\ op \in [Threads -> Ops] /\ pc \in [Threads -> Labels]
      /\ mine \in [Threads -> Places]
      /\ Fits(w, op[w], pc[w], mine[w]) /\ RestOK
  BY <1>0, ThreadFacts
<1>2. pc[w] \in Picking /\ op[w].pc = "ret" /\ op[w].job \in Places
  BY <1>1 DEF Picked, PickedLocked, At, Picking, Ops
<1>3. RestOK' /\ UNCHANGED <<ready_jobs_cache, job_count, peaked_job_count,
                             array_full, launched>>
  BY <1>0, <1>1 DEF Picked, PickedLocked, RestOK, arrayVars, env
<1> DEFINE o == Fresh("ret", Null)  m == op[w].job
<1>4. o \in Ops /\ o.pc = "ret" /\ o.job = Null /\ ~o.reorganizes
  BY FreshFields DEF Calls, Places
<1>5. /\ op' = [op EXCEPT ![w] = o]
      /\ mine' = [mine EXCEPT ![w] = m]
  BY FreshReturn DEF Picked, PickedLocked, Return, Places
<1>6. PICK l \in {"run", "tick", "lock", "exited", "sleep"} :
        /\ pc' = [pc EXCEPT ![w] = l]
        /\ l = "run" <=> m # Null
  BY DEF Picked, PickedLocked, Go
<1>7. m = op[w].job /\ m \in Places
  BY <1>2
<1> HIDE DEF o, m
<1>8. Local(w, o, l, m)
  BY <1>5, <1>6 DEF Local
<1>9. HandOf(op[w], pc[w], mine[w]) = m /\ HandOf(o, l, m) = m
  BY <1>2, <1>4, <1>6, <1>7 DEF HandOf, Picking
<1>10. o.reorganizes = op[w].reorganizes
  <2>1. ~op[w].reorganizes
    BY <1>1, <1>2 DEF Fits
  <2> QED
    BY <1>1, <1>4, <2>1 DEF Ops
<1>11. Fits(w, o, l, m) /\ l \in Labels
  BY <1>0, <1>4, <1>6, <1>7
     DEF Fits, Labels, WorkerLabels, Picking, Places
<1>12. QuietTo(w, o, l, m)
  BY <1>2, <1>4, <1>7, <1>9, <1>10, <1>11 DEF QuietTo, Owed
<1> QED
  BY <1>0, <1>3, <1>8, <1>12, Quiet

\* A worker begins its second pick, or the tick.
LEMMA PickLockedKeeps ==
  ASSUME IndInv, NEW w \in Workers, PickLocked(w) \/ CallTick(w)
  PROVE  IndInv' /\ Moves
<1>0. w \in Threads /\ w # Main
  BY WorkerPoolAssumption
<1>1. /\ op[w] \in Ops /\ mine[w] \in Places
      /\ op \in [Threads -> Ops] /\ pc \in [Threads -> Labels]
      /\ mine \in [Threads -> Places]
      /\ Fits(w, op[w], pc[w], mine[w]) /\ RestOK
  BY <1>0, ThreadFacts
<1>2. pc[w] \in {"lock", "tick"} /\ op[w].pc = "ret"
  BY DEF PickLocked, CallTick, At
<1>3. RestOK' /\ UNCHANGED <<ready_jobs_cache, job_count, peaked_job_count,
                             array_full, launched>>
  BY <1>0, <1>1 DEF PickLocked, CallTick, RestOK, arrayVars, env
<1>4. PICK name \in {"pop", "tick"}, l \in {"pickedlocked", "ticked"} :
        /\ name = "pop" <=> l = "pickedlocked"
        /\ op' = [op EXCEPT ![w] = Fresh(name, Null)]
        /\ pc' = [pc EXCEPT ![w] = l]
  BY DEF PickLocked, CallTick, Call, Fresh, Go
<1> DEFINE o == Fresh(name, Null)
<1>5. o \in Ops /\ o.pc = name /\ o.job = Null /\ ~o.reorganizes
  BY FreshFields DEF Calls, Places
<1>6. op' = [op EXCEPT ![w] = o]
  BY <1>4
<1> HIDE DEF o
<1>7. Local(w, o, l, mine[w])
  BY <1>0, <1>1, <1>4, <1>6 DEF PickLocked, CallTick, Local
<1>8. QuietTo(w, o, l, mine[w])
  BY <1>0, <1>1, <1>2, <1>4, <1>5
     DEF QuietTo, Fits, HandOf, Owed, Labels, WorkerLabels, Picking
<1> QED
  BY <1>0, <1>3, <1>7, <1>8, Quiet

\* A worker wakes up, or goes round its loop.
LEMMA WakeKeeps ==
  ASSUME IndInv, NEW w \in Workers, Wake(w) \/ Ticked(w)
  PROVE  IndInv' /\ Moves
<1>0. w \in Threads /\ w # Main
  BY WorkerPoolAssumption
<1>1. /\ op[w] \in Ops /\ mine[w] \in Places
      /\ op \in [Threads -> Ops] /\ pc \in [Threads -> Labels]
      /\ mine \in [Threads -> Places]
      /\ Fits(w, op[w], pc[w], mine[w]) /\ RestOK
  BY <1>0, ThreadFacts
<1>2. pc[w] \in {"sleep", "ticked"} /\ op[w].pc = "ret"
  BY DEF Wake, Ticked, At
<1>3. RestOK' /\ UNCHANGED <<ready_jobs_cache, job_count, peaked_job_count,
                             array_full, launched>>
  BY <1>0, <1>1 DEF Wake, Ticked, RestOK, cacheVars, env
<1>4. PICK l \in {"tick", "head"} : Local(w, op[w], l, mine[w])
  BY <1>0, <1>1 DEF Wake, Ticked, Local, Go, cacheVars
<1>5. QuietTo(w, op[w], l, mine[w])
  BY <1>0, <1>1, <1>2
     DEF QuietTo, Fits, HandOf, Owed, Labels, WorkerLabels, Picking
<1> QED
  BY <1>0, <1>3, <1>4, <1>5, Quiet

\* A spurious wakeup changes nobody's place.
LEMMA SpuriousKeeps ==
  ASSUME IndInv, NEW w \in Workers, SpuriousWakeup(w)
  PROVE  IndInv' /\ Moves
<1>0. w \in Threads
  BY WorkerPoolAssumption
<1>1. /\ op[w] \in Ops /\ mine[w] \in Places /\ pc[w] \in Labels
      /\ op \in [Threads -> Ops] /\ pc \in [Threads -> Labels]
      /\ mine \in [Threads -> Places]
      /\ Fits(w, op[w], pc[w], mine[w]) /\ RestOK
  BY <1>0, ThreadFacts
<1>3. RestOK' /\ UNCHANGED <<ready_jobs_cache, job_count, peaked_job_count,
                             array_full, launched>>
  BY <1>0, <1>1 DEF SpuriousWakeup, RestOK, cacheVars
<1>4. Local(w, op[w], pc[w], mine[w])
  BY <1>0, <1>1 DEF SpuriousWakeup, Local, cacheVars
<1>5. QuietTo(w, op[w], pc[w], mine[w])
  BY <1>0, <1>1 DEF QuietTo
<1> QED
  BY <1>0, <1>3, <1>4, <1>5, Quiet

\* A reorganization has woken a worker.
LEMMA WakeJobWaiterKeeps ==
  ASSUME IndInv, NEW w \in Workers, WakeJobWaiter(w)
  PROVE  IndInv' /\ Moves
<1>0. w \in Threads /\ w # Main
  BY WorkerPoolAssumption
<1>1. /\ op[w] \in Ops /\ mine[w] \in Places /\ pc[w] \in Labels
      /\ op \in [Threads -> Ops] /\ pc \in [Threads -> Labels]
      /\ mine \in [Threads -> Places]
      /\ Fits(w, op[w], pc[w], mine[w]) /\ RestOK
  BY <1>0, ThreadFacts
<1>2. op[w].pc = "moved" /\ pc[w] = "ticked"
  BY <1>1 DEF WakeJobWaiter, Fits
<1>3. RestOK' /\ UNCHANGED <<ready_jobs_cache, job_count, peaked_job_count,
                             array_full, launched>>
  BY <1>0, <1>1 DEF WakeJobWaiter, Signal, RestOK, arrayVars, env
<1> DEFINE o == [op[w] EXCEPT !.pc = "next"]
<1>4. /\ o \in Ops /\ o.pc = "next" /\ o.reorganizes = op[w].reorganizes
      /\ o.at = op[w].at
  BY <1>1 DEF Ops, Calls
<1>5. Local(w, o, pc[w], mine[w])
  BY <1>0, <1>1 DEF WakeJobWaiter, Step, Local
<1> HIDE DEF o
<1>6. QuietTo(w, o, pc[w], mine[w])
  BY <1>0, <1>1, <1>2, <1>4 DEF QuietTo, Fits, HandOf, Owed, Picking
<1> QED
  BY <1>0, <1>3, <1>5, <1>6, Quiet

\* The steps of schedi_job_setready around the push.
LEMMA SetReadyKeeps ==
  ASSUME IndInv, NEW t \in Threads, SetReady(t)
  PROVE  IndInv' /\ Moves
<1>1. /\ op[t] \in Ops /\ mine[t] \in Places
      /\ op \in [Threads -> Ops] /\ pc \in [Threads -> Labels]
      /\ mine \in [Threads -> Places]
      /\ Fits(t, op[t], pc[t], mine[t]) /\ RestOK
  BY ThreadFacts
<1>2. pc[t] = "setready" /\ op[t].pc = "ret" /\ mine[t] \in Jobs
  BY <1>1 DEF SetReady, At, Fits
<1>3. RestOK' /\ UNCHANGED <<ready_jobs_cache, job_count, peaked_job_count,
                             array_full, launched>>
  BY <1>1 DEF SetReady, RestOK, arrayVars, env
<1> DEFINE o == Fresh("push", mine[t])
<1>4. /\ o \in Ops /\ o.pc = "push" /\ o.job = mine[t] /\ o.i = 0
      /\ ~o.reorganizes
  BY <1>1, FreshFields DEF Calls
<1>5. Local(t, o, "cached", mine[t])
  BY <1>1 DEF SetReady, Call, Go, Local, Fresh
<1> HIDE DEF o
<1>6. o.reorganizes = op[t].reorganizes
  <2>1. ~op[t].reorganizes
    BY <1>1, <1>2 DEF Fits
  <2> QED
    BY <1>1, <1>4, <2>1 DEF Ops
<1>7. HandOf(op[t], pc[t], mine[t]) = mine[t] /\ HandOf(o, "cached", mine[t]) = mine[t]
  BY <1>2, <1>4 DEF HandOf, Picking
<1>8. Fits(t, o, "cached", mine[t])
  BY <1>2, <1>4 DEF Fits, Labels, MainLabels, WorkerLabels, Picking
<1>9. QuietTo(t, o, "cached", mine[t])
  BY <1>1, <1>2, <1>4, <1>6, <1>7, <1>8 DEF QuietTo, Owed, Labels
<1> QED
  BY <1>3, <1>5, <1>9, Quiet

\* The push has returned.
LEMMA CachedKeeps ==
  ASSUME IndInv, NEW t \in Threads, Cached(t)
  PROVE  IndInv' /\ Moves
<1>1. /\ op[t] \in Ops /\ mine[t] \in Places
      /\ op \in [Threads -> Ops] /\ pc \in [Threads -> Labels]
      /\ mine \in [Threads -> Places]
      /\ Fits(t, op[t], pc[t], mine[t]) /\ RestOK
  BY ThreadFacts
<1>2. pc[t] = "cached" /\ op[t].pc = "ret"
  BY DEF Cached, At
<1>3. RestOK' /\ UNCHANGED <<ready_jobs_cache, job_count, peaked_job_count,
                             array_full, launched>>
  BY <1>1 DEF Cached, Signal, RestOK, arrayVars, env
<1> DEFINE o == Fresh("ret", Null)  l == IF t = Main THEN "main" ELSE "tick"
<1>4. o \in Ops /\ o.pc = "ret" /\ o.job = Null /\ ~o.reorganizes
  BY FreshFields DEF Calls, Places
<1>5. /\ op' = [op EXCEPT ![t] = o] /\ pc' = [pc EXCEPT ![t] = l]
      /\ mine' = [mine EXCEPT ![t] = Null]
  BY FreshReturn DEF Cached, Return, Go, Places
<1>6. l \in Labels /\ l \in IF t = Main THEN {"main"} ELSE {"tick"}
  BY DEF Labels
<1> HIDE DEF o, l
<1>7. Local(t, o, l, Null)
  BY <1>5 DEF Local
<1>8. Fits(t, o, l, Null)
  BY <1>4, <1>6 DEF Fits, Labels, MainLabels, WorkerLabels, Picking
<1>9. HandOf(op[t], pc[t], mine[t]) = Null /\ HandOf(o, l, Null) = Null
  BY <1>2, <1>4, <1>6 DEF HandOf, Picking
<1>10. QuietTo(t, o, l, Null)
  BY <1>2, <1>4, <1>6, <1>8, <1>9 DEF QuietTo, Owed, Places
<1> QED
  BY <1>3, <1>7, <1>10, Quiet

\* The steps of main() that do not touch the jobs.
LEMMA CreateWorkerKeeps ==
  ASSUME IndInv, NEW w \in Workers, CreateWorker(w)
  PROVE  IndInv' /\ Moves
<1>0. w \in Threads /\ w # Main
  BY WorkerPoolAssumption
<1>1. /\ op[w] \in Ops /\ mine[w] \in Places
      /\ op \in [Threads -> Ops] /\ pc \in [Threads -> Labels]
      /\ mine \in [Threads -> Places]
      /\ Fits(w, op[w], pc[w], mine[w]) /\ RestOK
  BY <1>0, ThreadFacts
<1>2. pc[w] = "new"
  BY DEF CreateWorker
<1>3. RestOK' /\ UNCHANGED <<ready_jobs_cache, job_count, peaked_job_count,
                             array_full, launched>>
  BY <1>1 DEF CreateWorker, RestOK, cacheVars, env
<1>4. Local(w, op[w], "head", mine[w])
  BY <1>0, <1>1 DEF CreateWorker, Go, Local, cacheVars
<1>5. QuietTo(w, op[w], "head", mine[w])
  BY <1>0, <1>1, <1>2
     DEF QuietTo, Fits, HandOf, Owed, Labels, WorkerLabels, Picking
<1> QED
  BY <1>0, <1>3, <1>4, <1>5, Quiet

\* schedi_worker_deinit and the join touch no job.
LEMMA StopKeeps ==
  ASSUME IndInv, StopWorkers \/ WakeAllWorkers \/ Join
  PROVE  IndInv' /\ Moves
<1>0. Main \in Threads
  BY WorkerPoolAssumption
<1>1. /\ op[Main] \in Ops /\ mine[Main] \in Places
      /\ op \in [Threads -> Ops] /\ pc \in [Threads -> Labels]
      /\ mine \in [Threads -> Places]
      /\ Fits(Main, op[Main], pc[Main], mine[Main]) /\ RestOK
  BY <1>0, ThreadFacts
<1>2. pc[Main] \in {"main", "stop", "join"} /\ op[Main].pc = "ret"
  BY DEF StopWorkers, WakeAllWorkers, Join, At
<1>3. RestOK' /\ UNCHANGED <<ready_jobs_cache, job_count, peaked_job_count,
                             array_full, launched>>
  BY <1>0, <1>1 DEF StopWorkers, WakeAllWorkers, Join, RestOK, cacheVars, env
<1>4. PICK l \in {"stop", "join", "joined"} :
        Local(Main, op[Main], l, mine[Main])
  BY <1>0, <1>1 DEF StopWorkers, WakeAllWorkers, Join, Go, Local, cacheVars
<1>5. QuietTo(Main, op[Main], l, mine[Main])
  BY <1>0, <1>1, <1>2
     DEF QuietTo, Fits, HandOf, Owed, Labels, MainLabels, Picking
<1> QED
  BY <1>0, <1>3, <1>4, <1>5, Quiet

\* A run of a job keeps it in the worker's hands, or is its last.
LEMMA RunKeeps ==
  ASSUME IndInv, NEW w \in Workers, Run(w)
  PROVE  IndInv' /\ Moves
<1>0. w \in Threads /\ w # Main /\ Null \notin Jobs
  BY WorkerPoolAssumption, ReadyCacheAssumption
<1>1. /\ op[w] \in Ops /\ mine[w] \in Places
      /\ op \in [Threads -> Ops] /\ pc \in [Threads -> Labels]
      /\ mine \in [Threads -> Places]
      /\ Fits(w, op[w], pc[w], mine[w]) /\ RestOK
  BY <1>0, ThreadFacts
<1>2. /\ pc[w] = "run" /\ op[w].pc = "ret" /\ mine[w] \in Jobs
      /\ ~op[w].reorganizes /\ op[w].job = Null
  BY <1>1 DEF Run, At, Fits, Picking
<1>3. left' \in [Jobs -> 0 .. Runs]
  <2>1. left \in [Jobs -> 0 .. Runs] /\ Runs \in Nat
    BY <1>1, WorkerPoolAssumption DEF RestOK
  <2>2. left[mine[w]] >= 1 /\ left' = [left EXCEPT ![mine[w]] = @ - 1]
    BY <1>2, <2>1 DEF Run
  <2> QED
    BY <1>2, <2>1, <2>2
<1>4. RestOK' /\ UNCHANGED <<ready_jobs_cache, job_count, peaked_job_count,
                             array_full, launched, op>>
  BY <1>1, <1>3 DEF Run, RestOK, cacheVars, env
<1>5. CASE Go(w, "setready") /\ UNCHANGED mine
  <2>1. Local(w, op[w], "setready", mine[w])
    BY <1>0, <1>1, <1>4, <1>5 DEF Go, Local
  <2>2. QuietTo(w, op[w], "setready", mine[w])
    BY <1>0, <1>1, <1>2
       DEF QuietTo, Fits, HandOf, Owed, Labels, WorkerLabels, Picking
  <2> QED
    BY <1>0, <1>4, <2>1, <2>2, Quiet
<1>6. CASE Go(w, "tick") /\ mine' = [mine EXCEPT ![w] = Null]
  <2>1. Local(w, op[w], "tick", Null)
    BY <1>0, <1>1, <1>4, <1>6 DEF Go, Local
  <2>2. Fits(w, op[w], "tick", Null) /\ "tick" \in Labels /\ Null \in Places
    BY <1>0, <1>1, <1>2 DEF Fits, Labels, WorkerLabels, Picking, Places
  <2>3. /\ HandOf(op[w], "tick", Null) = Null
        /\ HandOf(op[w], pc[w], mine[w]) = mine[w]
    BY <1>2 DEF HandOf, Picking
  <2>4. TypeOK /\ ThreadsFit /\ launched \subseteq Jobs
    BY DEF IndInv, TypeOK
  <2>5. Hands' = [Hands EXCEPT ![w] = HandOf(op[w], "tick", Null)]
    BY <1>0, <1>1, <2>1, <2>2, <2>4, LocalStep
  <2>6. Hands[w] = mine[w]
    BY <1>0, <2>3 DEF Hands
  <2>7. Drops(w)
    BY <1>0, <1>2, <1>4, <2>3, <2>5, <2>6 DEF Drops, Others
  <2>8. Moves
    BY <2>7 DEF Moves
  <2>9. IndInv'
    BY <1>0, <1>1, <1>2, <1>4, <2>1, <2>2, <2>4, <2>8, CalmStep
  <2> QED
    BY <2>8, <2>9
<1> QED
  BY <1>5, <1>6 DEF Run

\* main() takes a job that was nowhere.
LEMMA LaunchKeeps ==
  ASSUME IndInv, LaunchJob
  PROVE  IndInv' /\ Moves
<1>0. Main \in Threads /\ Null \notin Jobs
  BY WorkerPoolAssumption, ReadyCacheAssumption
<1>1. /\ op[Main] \in Ops /\ mine[Main] \in Places
      /\ op \in [Threads -> Ops] /\ pc \in [Threads -> Labels]
      /\ mine \in [Threads -> Places]
      /\ Fits(Main, op[Main], pc[Main], mine[Main]) /\ RestOK
  BY <1>0, ThreadFacts
<1>2. /\ pc[Main] = "main" /\ op[Main].pc = "ret"
      /\ ~op[Main].reorganizes /\ op[Main].job = Null
  BY <1>1 DEF LaunchJob, At, Fits, Picking
<1>3. RestOK' /\ UNCHANGED <<ready_jobs_cache, job_count, peaked_job_count,
                             array_full, op>>
  BY <1>1 DEF LaunchJob, RestOK, cacheVars, env
<1>4. PICK j \in Jobs \ launched : /\ launched' = launched \cup {j}
                                   /\ mine' = [mine EXCEPT ![Main] = j]
  BY DEF LaunchJob
<1>5. Local(Main, op[Main], "setready", j)
  BY <1>0, <1>1, <1>3, <1>4 DEF LaunchJob, Go, Local
<1>6. Fits(Main, op[Main], "setready", j) /\ "setready" \in Labels /\ j \in Places
  BY <1>0, <1>1, <1>2, <1>4 DEF Fits, Labels, MainLabels, Picking, Places
<1>7. /\ HandOf(op[Main], "setready", j) = j
      /\ HandOf(op[Main], pc[Main], mine[Main]) = Null
  BY <1>2 DEF HandOf, Picking
<1>8. TypeOK /\ ThreadsFit /\ launched' \subseteq Jobs
  BY <1>4 DEF IndInv, TypeOK
<1>9. Hands' = [Hands EXCEPT ![Main] = HandOf(op[Main], "setready", j)]
  BY <1>0, <1>1, <1>5, <1>6, <1>8, LocalStep
<1>10. Hands[Main] = Null
  BY <1>0, <1>7 DEF Hands
<1>11. Launches(j)
  BY <1>0, <1>2, <1>3, <1>4, <1>7, <1>9, <1>10 DEF Launches, Others
<1>12. Moves
  BY <1>4, <1>11 DEF Moves
<1>13. IndInv'
  BY <1>0, <1>1, <1>2, <1>3, <1>5, <1>6, <1>8, <1>12, CalmStep
<1> QED
  BY <1>12, <1>13

-----------------------------------------------------------------------------
(* Steps of a call of the cache. *)

\* A step of a call leaves the pool alone.
LEMMA InCall ==
  ASSUME IndInv, NEW t \in Threads, UNCHANGED poolVars, NEW o,
         op' = [op EXCEPT ![t] = o], reorganize_counter' \in 0 .. CacheCheck
  PROVE  /\ Local(t, o, pc[t], mine[t]) /\ RestOK' /\ launched' = launched
<1>1. /\ pc \in [Threads -> Labels] /\ mine \in [Threads -> Places] /\ RestOK
  BY ThreadFacts
<1> QED
  BY <1>1 DEF poolVars, Local, RestOK

\* A call that returns without a job moves none.
LEMMA ReturnKeeps ==
  ASSUME IndInv, NEW t \in Threads, UNCHANGED poolVars, Return(t, Null),
         reorganize_counter' \in 0 .. CacheCheck,
         UNCHANGED <<ready_jobs_cache, job_count, peaked_job_count,
                     array_full>>,
         op[t].pc \in {"pop", "scan", "tick", "reorganize", "take", "next"}
  PROVE  IndInv' /\ Moves
<1>1. /\ op[t] \in Ops /\ mine[t] \in Places /\ pc[t] \in Labels
      /\ Fits(t, op[t], pc[t], mine[t])
  BY ThreadFacts
<1> DEFINE o == Fresh("ret", Null)
<1>2. o \in Ops /\ o.pc = "ret" /\ o.job = Null /\ ~o.reorganizes
  BY FreshFields DEF Calls, Places
<1>3. op' = [op EXCEPT ![t] = o]
  BY FreshReturn DEF Return, Places
<1> HIDE DEF o
<1>4. Local(t, o, pc[t], mine[t]) /\ RestOK' /\ launched' = launched
  BY <1>3, InCall
<1>5. pc[t] \in Picking \cup {"ticked"}
  BY <1>1 DEF Fits
<1>6. /\ HandOf(o, pc[t], mine[t]) = Null
      /\ HandOf(op[t], pc[t], mine[t]) = Null
  BY <1>2, <1>5 DEF HandOf, Picking
<1>7. Fits(t, o, pc[t], mine[t])
  BY <1>1, <1>2, <1>5 DEF Fits, Picking
<1>8. QuietTo(t, o, pc[t], mine[t])
  BY <1>1, <1>2, <1>6, <1>7 DEF QuietTo, Owed
<1> QED
  BY <1>4, <1>8, Quiet

\* A pop gives up when the count is 0, or begins its scan.
LEMMA PopStartKeeps ==
  ASSUME IndInv, NEW t \in Threads, PopStart(t), UNCHANGED poolVars
  PROVE  IndInv' /\ Moves
<1>1. /\ op[t] \in Ops /\ mine[t] \in Places /\ pc[t] \in Labels
      /\ op \in [Threads -> Ops]
      /\ Fits(t, op[t], pc[t], mine[t]) /\ RestOK
  BY ThreadFacts
<1>2. /\ reorganize_counter' \in 0 .. CacheCheck
      /\ UNCHANGED <<ready_jobs_cache, job_count, peaked_job_count, array_full>>
      /\ op[t].pc = "pop"
  BY <1>1 DEF PopStart, RestOK
<1>3. CASE job_count = 0
  BY <1>2, <1>3, ReturnKeeps DEF PopStart
<1>4. CASE job_count # 0
  <2> DEFINE o == [op[t] EXCEPT !.pc = "scan", !.i = 0]
  <2>0. 0 \in Entries /\ 0 < CacheCheck
    BY ReadyCacheAssumption DEF Entries
  <2>1. /\ o \in Ops /\ o.pc = "scan" /\ o.i = 0 /\ o.job = op[t].job
        /\ o.reorganizes = op[t].reorganizes /\ o.at = op[t].at
    BY <1>1, <2>0 DEF Ops, Calls
  <2>2. op' = [op EXCEPT ![t] = o]
    BY <1>1, <1>4 DEF PopStart, StepTo
  <2> HIDE DEF o
  <2>3. Local(t, o, pc[t], mine[t]) /\ RestOK' /\ launched' = launched
    BY <1>2, <2>2, InCall
  <2>4. QuietTo(t, o, pc[t], mine[t])
    BY <1>1, <1>2, <2>0, <2>1 DEF QuietTo, Fits, HandOf, Owed, Picking
  <2> QED
    BY <1>2, <2>3, <2>4, Quiet
<1> QED
  BY <1>3, <1>4

\* The tick decides whether to reorganize.
LEMMA ReorganizeTickKeeps ==
  ASSUME IndInv, NEW t \in Threads, ReorganizeTick(t), UNCHANGED poolVars
  PROVE  IndInv' /\ Moves
<1>1. /\ op[t] \in Ops /\ mine[t] \in Places /\ pc[t] \in Labels
      /\ op \in [Threads -> Ops]
      /\ Fits(t, op[t], pc[t], mine[t]) /\ RestOK
  BY ThreadFacts
<1>2. /\ reorganize_counter' \in 0 .. CacheCheck
      /\ UNCHANGED <<ready_jobs_cache, job_count, peaked_job_count, array_full>>
      /\ op[t].pc = "tick"
  BY <1>1, ReadyCacheAssumption DEF ReorganizeTick, RestOK
<1>3. CASE Return(t, Null)
  BY <1>2, <1>3, ReturnKeeps
<1>4. CASE Step(t, "reorganize")
  <2> DEFINE o == [op[t] EXCEPT !.pc = "reorganize"]
  <2>1. /\ o \in Ops /\ o.pc = "reorganize" /\ o.i = op[t].i
        /\ o.reorganizes = op[t].reorganizes
    BY <1>1 DEF Ops, Calls
  <2>2. op' = [op EXCEPT ![t] = o]
    BY <1>1, <1>4 DEF Step
  <2> HIDE DEF o
  <2>3. Local(t, o, pc[t], mine[t]) /\ RestOK' /\ launched' = launched
    BY <1>2, <2>2, InCall
  <2>4. QuietTo(t, o, pc[t], mine[t])
    BY <1>1, <1>2, <2>1 DEF QuietTo, Fits, HandOf, Owed, Picking
  <2> QED
    BY <1>2, <2>3, <2>4, Quiet
<1> QED
  BY <1>3, <1>4 DEF ReorganizeTick

\* The peak is an index of the cache, or there is no reorganization.
LEMMA ReorganizeStartKeeps ==
  ASSUME IndInv, NEW t \in Threads, ReorganizeStart(t), UNCHANGED poolVars
  PROVE  IndInv' /\ Moves
<1>1. /\ op[t] \in Ops /\ mine[t] \in Places /\ pc[t] \in Labels
      /\ op \in [Threads -> Ops]
      /\ Fits(t, op[t], pc[t], mine[t]) /\ RestOK
  BY ThreadFacts
<1>2. /\ reorganize_counter' \in 0 .. CacheCheck
      /\ UNCHANGED <<ready_jobs_cache, job_count, peaked_job_count, array_full>>
      /\ op[t].pc = "reorganize"
  BY <1>1 DEF ReorganizeStart, RestOK
<1>3. CASE Return(t, Null)
  BY <1>2, <1>3, ReturnKeeps
<1>4. CASE ~(peaked_job_count = 0 \/ 2 * peaked_job_count > CountMod)
  <2> DEFINE a == peaked_job_count - 1
  <2>1. a \in Entries /\ a \in Nat
    BY <1>4, ReadyCacheAssumption
       DEF IndInv, Counted, TypeOK, CacheTypeOK, Entries
  <2>2. op' = [op EXCEPT ![t] =
                [NoCall EXCEPT !.pc = "take", !.reorganizes = TRUE, !.at = a]]
    BY <1>4 DEF ReorganizeStart
  <2> HIDE DEF a
  <2> DEFINE o == [NoCall EXCEPT !.pc = "take", !.reorganizes = TRUE, !.at = a]
  <2>3. /\ o \in Ops /\ o.pc = "take" /\ o.reorganizes /\ o.at \in Entries
    BY <2>1, NoCallType DEF Ops, Calls
  <2>4. op' = [op EXCEPT ![t] = o]
    BY <2>2
  <2> HIDE DEF o
  <2>5. Local(t, o, pc[t], mine[t]) /\ RestOK' /\ launched' = launched
    BY <1>2, <2>4, InCall
  <2>6. /\ HandOf(o, pc[t], mine[t]) = Null
        /\ HandOf(op[t], pc[t], mine[t]) = Null
    BY <1>1, <1>2, <2>3 DEF Fits, HandOf, Picking
  <2>7. Fits(t, o, pc[t], mine[t])
    BY <1>1, <1>2, <2>3 DEF Fits, Picking
  <2>8. QuietTo(t, o, pc[t], mine[t])
    BY <1>1, <1>2, <2>3, <2>6, <2>7 DEF QuietTo, Owed
  <2> QED
    BY <1>2, <2>5, <2>8, Quiet
<1> QED
  BY <1>3, <1>4 DEF ReorganizeStart

\* A reorganization goes down to the next entry.
LEMMA DescendKeeps ==
  ASSUME IndInv, NEW t \in Threads, UNCHANGED poolVars, NEW o \in Ops,
         op[t].pc \in {"take", "next"}, op[t].at # 0,
         op' = [op EXCEPT ![t] = o], o.pc = "take", o.at = op[t].at - 1,
         o.reorganizes = op[t].reorganizes,
         UNCHANGED <<ready_jobs_cache, job_count, peaked_job_count,
                     reorganize_counter, array_full>>
  PROVE  IndInv' /\ Moves
<1>1. /\ op[t] \in Ops /\ mine[t] \in Places /\ pc[t] \in Labels
      /\ Fits(t, op[t], pc[t], mine[t]) /\ RestOK
  BY ThreadFacts
<1>2. pc[t] = "ticked" /\ op[t].at \in Entries /\ op[t].reorganizes
  BY <1>1 DEF Fits
<1>3. o.at \in Entries
  <2>1. ASSUME NEW a \in Entries, a # 0 PROVE a - 1 \in Entries
    BY <2>1, ReadyCacheAssumption DEF Entries
  <2> QED
    BY <1>2, <2>1
<1>4. reorganize_counter' \in 0 .. CacheCheck
  BY <1>1 DEF RestOK
<1>5. Local(t, o, pc[t], mine[t]) /\ RestOK' /\ launched' = launched
  BY <1>4, InCall
<1>6. /\ HandOf(o, pc[t], mine[t]) = Null
      /\ HandOf(op[t], pc[t], mine[t]) = Null
  BY <1>2 DEF HandOf, Picking
<1>7. Fits(t, o, pc[t], mine[t])
  BY <1>1, <1>2, <1>3 DEF Fits, Picking
<1>8. QuietTo(t, o, pc[t], mine[t])
  BY <1>1, <1>6, <1>7 DEF QuietTo, Owed
<1> QED
  BY <1>5, <1>8, Quiet

\* A reorganization goes on after a job it has moved, or ends.
LEMMA ReorganizeNextKeeps ==
  ASSUME IndInv, NEW t \in Threads, ReorganizeNext(t), UNCHANGED poolVars
  PROVE  IndInv' /\ Moves
<1>1. op[t] \in Ops /\ op \in [Threads -> Ops] /\ RestOK
      /\ Fits(t, op[t], pc[t], mine[t])
  BY ThreadFacts
<1>2. /\ reorganize_counter' \in 0 .. CacheCheck
      /\ UNCHANGED <<ready_jobs_cache, job_count, peaked_job_count,
                     reorganize_counter, array_full>>
      /\ op[t].pc = "next"
  BY <1>1 DEF ReorganizeNext, RestOK
<1>3. CASE Return(t, Null)
  BY <1>2, <1>3, ReturnKeeps
<1>4. CASE ~(op[t].at <= op[t].n + 1 \/ op[t].at = 0)
  <2> DEFINE a == op[t].at - 1  n == op[t].n + 1
  <2> DEFINE o == [op[t] EXCEPT !.pc = "take", !.job = Null, !.at = a, !.n = n]
  <2>1. a \in Nat /\ n \in Nat /\ Null \in Places
    <3>1. op[t].at \in Nat /\ op[t].n \in Nat
      BY <1>1 DEF Ops
    <3> QED
      BY <3>1, <1>4 DEF Places
  <2>2. op' = [op EXCEPT ![t] = o]
    BY <1>1, <1>4 DEF ReorganizeNext
  <2>3. a = op[t].at - 1
    OBVIOUS
  <2> HIDE DEF a, n
  <2>4. /\ o \in Ops /\ o.pc = "take" /\ o.at = a
        /\ o.reorganizes = op[t].reorganizes
    BY <1>1, <2>1 DEF Ops, Calls
  <2> HIDE DEF o
  <2> QED
    BY <1>2, <1>4, <2>2, <2>3, <2>4, DescendKeeps
<1> QED
  BY <1>3, <1>4 DEF ReorganizeNext

\* What a step of a call has to keep.
LEMMA CallKeeps ==
  ASSUME IndInv, NEW t \in Threads, NEW o \in Ops,
         UNCHANGED poolVars, op' = [op EXCEPT ![t] = o],
         Fits(t, o, pc[t], mine[t]),
         reorganize_counter' \in 0 .. CacheCheck, array_full' = FALSE,
         ready_jobs_cache' \in [Entries -> Places],
         job_count' \in 0 .. CountMod - 1,
         peaked_job_count' \in 0 .. CountMod - 1,
         Moves, Counted', Room'
  PROVE  IndInv'
<1>1. Local(t, o, pc[t], mine[t]) /\ RestOK' /\ launched' = launched
  BY InCall
<1>2. /\ pc[t] \in Labels /\ mine[t] \in Places /\ TypeOK /\ ThreadsFit
      /\ Exclusive /\ launched \subseteq Jobs
  BY ThreadFacts DEF IndInv, TypeOK
<1>3. /\ op' \in [Threads -> Ops] /\ pc' \in [Threads -> Labels]
      /\ mine' \in [Threads -> Places] /\ ThreadsFit'
  BY <1>1, <1>2, LocalStep
<1>4. TypeOK'
  BY <1>1, <1>2, <1>3 DEF TypeOK, CacheTypeOK, RestOK, Ops, Places
<1>5. Exclusive'
  BY <1>2, MoveExclusive
<1> QED
  BY <1>3, <1>4, <1>5 DEF IndInv

\* There is room as long as no job comes up from below.
LEMMA RoomShrinks ==
  ASSUME Room,
         \A k \in Entries : k # 0 => /\ Above(k)' \subseteq Above(k)
                                     /\ PushAt(k)' => PushAt(k),
         \A k \in Entries : ready_jobs_cache'[k] # Null =>
           k < Cardinality(Jobs)
  PROVE  Room'
<1>1. ASSUME NEW k \in Entries, PushAt(k)' PROVE Bound(k)'
  <2>1. CASE k = 0
    BY <2>1, BoundAtZero
  <2>2. CASE k # 0
    <3>1. Above(k)' \subseteq Above(k) /\ PushAt(k)
      BY <1>1, <2>2
    <3>2. Bound(k)
      BY <3>1 DEF Room
    <3> QED
      BY <3>1, <3>2, BoundKept
  <2> QED
    BY <2>1, <2>2
<1> QED
  BY <1>1 DEF Room

\* The hands of a thread as its call changes.
LEMMA CallHands ==
  ASSUME IndInv, NEW t \in Threads, NEW o \in Ops,
         UNCHANGED poolVars, op' = [op EXCEPT ![t] = o],
         Fits(t, o, pc[t], mine[t])
  PROVE  /\ Hands' = [Hands EXCEPT ![t] = HandOf(o, pc[t], mine[t])]
         /\ Hands[t] = HandOf(op[t], pc[t], mine[t])
         /\ op'[t] = o /\ \A u \in Threads : u # t => op'[u] = op[u]
         /\ launched' = launched
         /\ Hands \in [Threads -> Places]
<1>1. /\ pc[t] \in Labels /\ mine[t] \in Places /\ TypeOK /\ ThreadsFit
      /\ RestOK /\ pc \in [Threads -> Labels] /\ mine \in [Threads -> Places]
  BY ThreadFacts DEF IndInv
<1>2. Local(t, o, pc[t], mine[t]) /\ launched' = launched
  BY <1>1 DEF Local, poolVars
<1>3. /\ Hands' = [Hands EXCEPT ![t] = HandOf(o, pc[t], mine[t])]
      /\ op'[t] = o /\ \A u \in Threads : u # t => op'[u] = op[u]
  BY <1>1, <1>2, LocalStep
<1> QED
  BY <1>1, <1>2, <1>3, HandsType DEF Hands

\* A pop or a reorganization takes a job out of entry i.
LEMMA GrabKeeps ==
  ASSUME IndInv, NEW t \in Threads, NEW o \in Ops, NEW i \in Entries,
         UNCHANGED poolVars, op' = [op EXCEPT ![t] = o],
         op[t].pc \in {"scan", "take"}, o.pc \in {"popped", "taken"},
         ready_jobs_cache[i] # Null, o.job = ready_jobs_cache[i],
         Fits(t, o, pc[t], mine[t]), o.reorganizes \/ t \in Workers,
         ready_jobs_cache' = [ready_jobs_cache EXCEPT ![i] = Null],
         UNCHANGED <<job_count, peaked_job_count, reorganize_counter,
                     array_full>>
  PROVE  IndInv' /\ Moves
<1>0. /\ RestOK /\ Fits(t, op[t], pc[t], mine[t])
      /\ ready_jobs_cache \in [Entries -> Places] /\ Null \notin Jobs
      /\ job_count \in 0 .. CountMod - 1 /\ peaked_job_count \in 0 .. CountMod - 1
      /\ array_full = FALSE /\ Room /\ Counted
  BY ThreadFacts, ReadyCacheAssumption
     DEF IndInv, TypeOK, CacheTypeOK, Places
<1>1. /\ Hands' = [Hands EXCEPT ![t] = HandOf(o, pc[t], mine[t])]
      /\ Hands[t] = HandOf(op[t], pc[t], mine[t])
      /\ op'[t] = o /\ \A u \in Threads : u # t => op'[u] = op[u]
      /\ launched' = launched
  BY CallHands
<1>2. /\ HandOf(op[t], pc[t], mine[t]) = Null
      /\ HandOf(o, pc[t], mine[t]) = ready_jobs_cache[i]
  BY <1>0 DEF HandOf, Fits, Picking
<1>3. Grabs(t, i)
  BY <1>1, <1>2 DEF Grabs, Others
<1>4. Moves
  BY <1>3 DEF Moves
<1>5. /\ ready_jobs_cache'[i] = Null
      /\ \A k \in Entries : k # i => ready_jobs_cache'[k] = ready_jobs_cache[k]
      /\ ready_jobs_cache' \in [Entries -> Places]
  BY <1>0 DEF Places
<1>6. Present' = Present
  <2>1. Owed(op'[t]) = ready_jobs_cache[i] /\ Owed(op[t]) = Null
    BY <1>1 DEF Owed
  <2>2. \A u \in Threads : u # t => Owed(op'[u]) = Owed(op[u])
    BY <1>1
  <2>3. ASSUME NEW j \in Jobs
        PROVE  (\/ \E k \in Entries : ready_jobs_cache'[k] = j
                \/ \E u \in Threads : Owed(op'[u]) = j)
               <=>
               (\/ \E k \in Entries : ready_jobs_cache[k] = j
                \/ \E u \in Threads : Owed(op[u]) = j)
    BY <1>0, <1>5, <2>1, <2>2
  <2> QED
    BY <2>3 DEF Present
<1>7. Uncounted' = Uncounted
  BY <1>1 DEF Uncounted
<1>8. Counted'
  BY <1>0, <1>6, <1>7 DEF Counted, Surplus
<1>9. Room'
  <2>1. ASSUME NEW k \in Entries
        PROVE  Above(k)' \subseteq Above(k) /\ (PushAt(k)' => PushAt(k))
    <3>1. \A u \in Threads : op'[u].pc = "push" => op'[u] = op[u]
      BY <1>1
    <3>2. \A x \in Entries : ready_jobs_cache'[x] # Null =>
            ready_jobs_cache'[x] = ready_jobs_cache[x]
      BY <1>5
    <3> QED
      BY <1>0, <3>1, <3>2 DEF Above, PushAt
  <2>2. \A k \in Entries : ready_jobs_cache'[k] # Null => k < Cardinality(Jobs)
    BY <1>0, <1>5 DEF Room
  <2> QED
    BY <1>0, <2>1, <2>2, RoomShrinks
<1>10. reorganize_counter' \in 0 .. CacheCheck
  BY <1>0 DEF RestOK
<1>11. IndInv'
  BY <1>0, <1>4, <1>5, <1>8, <1>9, <1>10, CallKeeps
<1> QED
  BY <1>4, <1>11

\* A pop looks at one entry.
LEMMA PopScanKeeps ==
  ASSUME IndInv, NEW t \in Threads, PopScan(t), UNCHANGED poolVars
  PROVE  IndInv' /\ Moves
<1>1. /\ op[t] \in Ops /\ mine[t] \in Places /\ pc[t] \in Labels
      /\ op \in [Threads -> Ops]
      /\ Fits(t, op[t], pc[t], mine[t]) /\ RestOK
  BY ThreadFacts
<1>2. /\ reorganize_counter' \in 0 .. CacheCheck
      /\ UNCHANGED <<job_count, peaked_job_count, reorganize_counter, array_full>>
      /\ op[t].pc = "scan" /\ op[t].i \in Entries
  BY <1>1 DEF PopScan, RestOK, Ops
<1>3. t \in Workers /\ pc[t] \in Picking
  BY <1>1, <1>2, WorkerPoolAssumption DEF Fits, MainLabels, Picking
<1>4. CASE ready_jobs_cache[op[t].i] = Null
  <2>1. UNCHANGED ready_jobs_cache
    BY <1>4 DEF PopScan
  <2>2. CASE Return(t, Null)
    BY <1>2, <2>1, <2>2, ReturnKeeps
  <2>3. CASE op[t].i + 1 < CacheCheck /\ StepTo(t, "scan", op[t].i + 1)
    <3> DEFINE i == op[t].i + 1
    <3> DEFINE o == [op[t] EXCEPT !.pc = "scan", !.i = i]
    <3>1. i \in Entries /\ i < CacheCheck
      BY <1>2, <2>3, ReadyCacheAssumption DEF Entries
    <3>2. op' = [op EXCEPT ![t] = o]
      BY <1>1, <2>3 DEF StepTo
    <3> HIDE DEF i
    <3>3. /\ o \in Ops /\ o.pc = "scan" /\ o.i = i /\ o.job = op[t].job
          /\ o.reorganizes = op[t].reorganizes /\ o.at = op[t].at
      BY <1>1, <3>1 DEF Ops, Calls
    <3> HIDE DEF o
    <3>4. Local(t, o, pc[t], mine[t]) /\ RestOK' /\ launched' = launched
      BY <1>2, <3>2, InCall
    <3>5. QuietTo(t, o, pc[t], mine[t])
      BY <1>1, <1>2, <3>1, <3>3 DEF QuietTo, Fits, HandOf, Owed, Picking
    <3> QED
      BY <1>2, <2>1, <3>4, <3>5, Quiet
  <2> QED
    BY <1>4, <2>2, <2>3 DEF PopScan
<1>5. CASE ready_jobs_cache[op[t].i] # Null
  <2> DEFINE i == op[t].i  j == ready_jobs_cache[i]
  <2> DEFINE o == [op[t] EXCEPT !.pc = "popped", !.job = j]
  <2>1. i \in Entries /\ j \in Jobs /\ j \in Places
    BY <1>2, <1>5 DEF IndInv, TypeOK, CacheTypeOK, Places
  <2>2. /\ ready_jobs_cache' = [ready_jobs_cache EXCEPT ![i] = Null]
        /\ op' = [op EXCEPT ![t] = o]
    BY <1>1, <1>5 DEF PopScan
  <2>3. ready_jobs_cache[i] # Null /\ j = ready_jobs_cache[i]
    BY <1>5
  <2> HIDE DEF i, j
  <2>4. /\ o \in Ops /\ o.pc = "popped" /\ o.job = j
        /\ o.reorganizes = op[t].reorganizes /\ o.at = op[t].at
    BY <1>1, <2>1 DEF Ops, Calls
  <2> HIDE DEF o
  <2>5. Fits(t, o, pc[t], mine[t])
    BY <1>1, <1>2, <1>3, <2>1, <2>4 DEF Fits, Picking
  <2> QED
    BY <1>2, <1>3, <2>1, <2>2, <2>3, <2>4, <2>5, GrabKeeps
<1> QED
  BY <1>4, <1>5

\* A reorganization looks at one entry.
LEMMA ReorganizeTakeKeeps ==
  ASSUME IndInv, NEW t \in Threads, ReorganizeTake(t), UNCHANGED poolVars
  PROVE  IndInv' /\ Moves
<1>1. /\ op[t] \in Ops /\ mine[t] \in Places /\ pc[t] \in Labels
      /\ op \in [Threads -> Ops]
      /\ Fits(t, op[t], pc[t], mine[t]) /\ RestOK
  BY ThreadFacts
<1>2. /\ reorganize_counter' \in 0 .. CacheCheck
      /\ UNCHANGED <<job_count, peaked_job_count, reorganize_counter, array_full>>
      /\ op[t].pc = "take"
  BY <1>1 DEF ReorganizeTake, RestOK
<1>3. op[t].at \in Entries /\ op[t].reorganizes
  BY <1>1, <1>2 DEF Fits
<1>4. CASE ready_jobs_cache[op[t].at] = Null
  <2>1. UNCHANGED ready_jobs_cache /\ Descend(t)
    BY <1>4 DEF ReorganizeTake
  <2>2. CASE op[t].at = 0
    <3>1. Return(t, Null)
      BY <2>1, <2>2 DEF Descend
    <3> QED
      BY <1>2, <2>1, <3>1, ReturnKeeps
  <2>3. CASE op[t].at # 0
    <3> DEFINE a == op[t].at - 1  o == [op[t] EXCEPT !.pc = "take", !.at = a]
    <3>1. a \in Nat
      BY <1>3, <2>3 DEF Entries
    <3>2. op' = [op EXCEPT ![t] = o]
      BY <1>1, <2>1, <2>3 DEF Descend
    <3>3. a = op[t].at - 1
      OBVIOUS
    <3> HIDE DEF a
    <3>4. /\ o \in Ops /\ o.pc = "take" /\ o.at = a
          /\ o.reorganizes = op[t].reorganizes
      BY <1>1, <3>1 DEF Ops, Calls
    <3> HIDE DEF o
    <3> QED
      BY <1>2, <2>1, <2>3, <3>2, <3>3, <3>4, DescendKeeps
  <2> QED
    BY <2>2, <2>3
<1>5. CASE ready_jobs_cache[op[t].at] # Null
  <2> DEFINE i == op[t].at  j == ready_jobs_cache[i]
  <2> DEFINE o == [op[t] EXCEPT !.pc = "taken", !.job = j]
  <2>1. i \in Entries /\ j \in Jobs /\ j \in Places
    BY <1>3, <1>5 DEF IndInv, TypeOK, CacheTypeOK, Places
  <2>2. /\ ready_jobs_cache' = [ready_jobs_cache EXCEPT ![i] = Null]
        /\ op' = [op EXCEPT ![t] = o]
    BY <1>1, <1>5 DEF ReorganizeTake
  <2>3. ready_jobs_cache[i] # Null /\ j = ready_jobs_cache[i]
    BY <1>5
  <2> HIDE DEF i, j
  <2>4. /\ o \in Ops /\ o.pc = "taken" /\ o.job = j
        /\ o.reorganizes = op[t].reorganizes /\ o.at = op[t].at
    BY <1>1, <2>1 DEF Ops, Calls
  <2> HIDE DEF o
  <2>5. Fits(t, o, pc[t], mine[t])
    BY <1>1, <1>2, <1>3, <2>1, <2>4 DEF Fits, Picking
  <2> QED
    BY <1>2, <1>3, <2>1, <2>2, <2>3, <2>4, <2>5, GrabKeeps
<1> QED
  BY <1>4, <1>5

\* A push has come to an entry where it leaves its job ...
LEMMA PutKeeps ==
  ASSUME IndInv, NEW t \in Threads, NEW o \in Ops, NEW i \in Entries,
         UNCHANGED poolVars, op' = [op EXCEPT ![t] = o],
         op[t].pc = "push", op[t].i = i, o.pc = "pushed",
         ready_jobs_cache[i] = Null, Fits(t, o, pc[t], mine[t]),
         ready_jobs_cache' = [ready_jobs_cache EXCEPT ![i] = op[t].job],
         UNCHANGED <<job_count, peaked_job_count, reorganize_counter,
                     array_full>>
  PROVE  IndInv' /\ Moves
<1> DEFINE j == op[t].job
<1>0. /\ RestOK /\ Fits(t, op[t], pc[t], mine[t])
      /\ ready_jobs_cache \in [Entries -> Places] /\ Null \notin Jobs
      /\ job_count \in 0 .. CountMod - 1 /\ peaked_job_count \in 0 .. CountMod - 1
      /\ array_full = FALSE /\ Room /\ Counted /\ Exclusive
  BY ThreadFacts, ReadyCacheAssumption
     DEF IndInv, TypeOK, CacheTypeOK, Places
<1>1. /\ Hands' = [Hands EXCEPT ![t] = HandOf(o, pc[t], mine[t])]
      /\ Hands[t] = HandOf(op[t], pc[t], mine[t])
      /\ op'[t] = o /\ \A u \in Threads : u # t => op'[u] = op[u]
      /\ launched' = launched
  BY CallHands
<1>2. /\ HandOf(op[t], pc[t], mine[t]) = j /\ j \in Jobs
      /\ HandOf(o, pc[t], mine[t]) = Null
  BY <1>0 DEF HandOf, Fits, Picking
<1>3. /\ op[t].job = j
      /\ ready_jobs_cache' = [ready_jobs_cache EXCEPT ![i] = j]
  OBVIOUS
<1> HIDE DEF j
<1>4. Puts(t, i)
  BY <1>0, <1>1, <1>2, <1>3 DEF Puts, Others
<1>5. Moves
  BY <1>4 DEF Moves
<1>6. /\ ready_jobs_cache'[i] = j
      /\ \A k \in Entries : k # i => ready_jobs_cache'[k] = ready_jobs_cache[k]
      /\ ready_jobs_cache' \in [Entries -> Places]
  BY <1>0, <1>2, <1>3 DEF Places
<1>7. Present' = Present \cup {j} /\ j \notin Present
  <2>1. Owed(op'[t]) = Null /\ Owed(op[t]) = Null
    BY <1>1 DEF Owed
  <2>2. \A u \in Threads : Owed(op'[u]) = Owed(op[u])
    BY <1>1, <2>1
  <2>3. \A k \in Entries : ready_jobs_cache[k] # j
    BY <1>0, <1>1, <1>2 DEF Exclusive, ExclusiveIn
  <2>4. ASSUME NEW u \in Threads, Owed(op[u]) = j PROVE FALSE
    <3>1. u # t
      BY <1>0, <1>2, <2>1, <2>4
    <3>2. Hands[u] = j
      BY <1>0, <1>2, <2>4 DEF Hands, HandOf, Owed
    <3> QED
      BY <1>0, <1>1, <1>2, <3>1, <3>2 DEF Exclusive, ExclusiveIn
  <2>5. j \notin Present
    BY <2>3, <2>4 DEF Present
  <2>6. ASSUME NEW x \in Jobs
        PROVE  (\/ \E k \in Entries : ready_jobs_cache'[k] = x
                \/ \E u \in Threads : Owed(op'[u]) = x)
               <=>
               (\/ \E k \in Entries : ready_jobs_cache[k] = x
                \/ \E u \in Threads : Owed(op[u]) = x
                \/ x = j)
    BY <1>0, <1>6, <2>2
  <2> QED
    BY <1>2, <2>5, <2>6 DEF Present
<1>8. Uncounted' = Uncounted \cup {t} /\ t \notin Uncounted
  BY <1>1 DEF Uncounted
<1>9. Surplus' = Surplus
  <2>1. IsFiniteSet(Present) /\ IsFiniteSet(Uncounted)
    BY SurplusRange
  <2>2. Cardinality(Present \cup {j}) = Cardinality(Present) + 1
    BY <1>7, <2>1, FS_AddElement
  <2>3. Cardinality(Uncounted \cup {t}) = Cardinality(Uncounted) + 1
    BY <1>8, <2>1, FS_AddElement
  <2>4. Cardinality(Present) \in Nat /\ Cardinality(Uncounted) \in Nat
    BY SurplusRange
  <2>5. ASSUME NEW p \in Nat, NEW q \in Nat
        PROVE  (p + 1) - (q + 1) = p - q
    OBVIOUS
  <2> QED
    BY <1>7, <1>8, <2>2, <2>3, <2>4, <2>5 DEF Surplus
<1>10. Counted'
  BY <1>0, <1>9 DEF Counted
<1>11. Room'
  <2>1. ASSUME NEW k \in Entries
        PROVE  Above(k)' \subseteq Above(k) /\ (PushAt(k)' => PushAt(k))
    <3>1. \A u \in Threads : op'[u].pc = "push" => op'[u] = op[u]
      BY <1>1
    <3>2. \A x \in Entries : x # i => ready_jobs_cache'[x] = ready_jobs_cache[x]
      BY <1>6
    <3>3. i >= k => j \in Above(k)
      BY <1>2, <1>3 DEF Above
    <3>4. ASSUME NEW x \in Above(k)' PROVE x \in Above(k)
      <4>1. CASE \E e \in Entries : e >= k /\ ready_jobs_cache'[e] = x
        BY <3>2, <3>3, <4>1, <1>6 DEF Above
      <4>2. CASE \E u \in Threads : /\ op'[u].pc = "push" /\ op'[u].job = x
                                    /\ op'[u].i >= k
        BY <3>1, <4>2 DEF Above
      <4> QED
        BY <3>4, <4>1, <4>2 DEF Above
    <3>5. PushAt(k)' => PushAt(k)
      BY <3>1 DEF PushAt
    <3> QED
      BY <3>4, <3>5
  <2>2. i < Cardinality(Jobs)
    <3>1. PushAt(i)
      BY DEF PushAt
    <3>2. Cardinality(Above(i)) <= Cardinality(Jobs) - i
      BY <1>0, <3>1 DEF Room, Bound
    <3>3. j \in Above(i) /\ Above(i) \in SUBSET Jobs
      BY <1>2, <1>3 DEF Above, Entries
    <3>4. IsFiniteSet(Above(i)) /\ Cardinality(Above(i)) \in Nat
      BY <3>3, FS_Subset, FS_CardinalityType, CapacityAssumption
    <3>5. Cardinality(Above(i)) # 0
      BY <3>3, <3>4, FS_EmptySet
    <3>6. Cardinality(Jobs) \in Nat /\ i \in Nat
      BY FS_CardinalityType, CapacityAssumption DEF Entries
    <3>7. Cardinality(Above(i)) \in Nat
      BY <3>4
    <3> QED
      BY <3>2, <3>5, <3>6, <3>7
  <2>3. \A k \in Entries : ready_jobs_cache'[k] # Null => k < Cardinality(Jobs)
    BY <1>0, <1>6, <2>2 DEF Room
  <2> QED
    BY <1>0, <2>1, <2>3, RoomShrinks
<1>12. reorganize_counter' \in 0 .. CacheCheck
  BY <1>0 DEF RestOK
<1>13. IndInv'
  BY <1>0, <1>5, <1>6, <1>10, <1>11, <1>12, CallKeeps
<1> QED
  BY <1>5, <1>13

\* ... or to one with another job, which it leaves behind.
LEMMA LeftBehind ==
  ASSUME IndInv, NEW t \in Threads, op[t].pc = "push",
         NEW i \in Entries, op[t].i = i, ready_jobs_cache[i] # Null
  PROVE  /\ IsFiniteSet(Above(i)) /\ Cardinality(Above(i)) \in Nat
         /\ Cardinality(Above(i)) <= Cardinality(Jobs) - i
         /\ Cardinality(Jobs) \in Nat
         /\ ready_jobs_cache[i] \in Above(i) /\ op[t].job \in Above(i)
         /\ \A u \in Threads : op[u].pc = "push" =>
              op[u].job # ready_jobs_cache[i]
<1>1. Room /\ Exclusive /\ ready_jobs_cache[i] \in Jobs /\ Null \notin Jobs
  BY ReadyCacheAssumption DEF IndInv, TypeOK, CacheTypeOK
<1>2. PushAt(i)
  BY DEF PushAt
<1>3. Cardinality(Above(i)) <= Cardinality(Jobs) - i
  BY <1>1, <1>2 DEF Room, Bound
<1>4. Above(i) \in SUBSET Jobs
  BY DEF Above
<1>5. /\ IsFiniteSet(Above(i)) /\ Cardinality(Above(i)) \in Nat
      /\ Cardinality(Jobs) \in Nat
  BY <1>4, FS_Subset, FS_CardinalityType, CapacityAssumption
<1>6. ASSUME NEW u \in Threads, op[u].pc = "push"
      PROVE  op[u].job # ready_jobs_cache[i] /\ op[u].job \in Jobs
  <2>1. Hands[u] = op[u].job
    BY <1>6 DEF Hands, HandOf
  <2>2. op[u].job \in Jobs
    BY <1>6, ThreadFacts DEF Fits
  <2> QED
    BY <1>1, <2>1, <2>2 DEF Exclusive, ExclusiveIn
<1>7. ready_jobs_cache[i] \in Above(i) /\ op[t].job \in Above(i)
  BY <1>1, <1>6 DEF Above, Entries
<1> QED
  BY <1>3, <1>5, <1>6, <1>7

\* A push goes on to the next entry: the job it leaves behind is one less
\* of those ahead of it.
LEMMA AdvanceKeeps ==
  ASSUME IndInv, NEW t \in Threads, NEW o \in Ops, NEW i \in Entries,
         UNCHANGED poolVars, op' = [op EXCEPT ![t] = o],
         op[t].pc = "push", op[t].i = i, ready_jobs_cache[i] # Null,
         i + 1 \in Entries, o.pc = "push", o.i = i + 1, o.job = op[t].job,
         o.reorganizes = op[t].reorganizes, o.at = op[t].at,
         UNCHANGED <<ready_jobs_cache, job_count, peaked_job_count,
                     reorganize_counter, array_full>>
  PROVE  IndInv' /\ Moves
<1>0. /\ RestOK /\ Fits(t, op[t], pc[t], mine[t])
      /\ ready_jobs_cache \in [Entries -> Places] /\ Null \notin Jobs
      /\ job_count \in 0 .. CountMod - 1 /\ peaked_job_count \in 0 .. CountMod - 1
      /\ array_full = FALSE /\ Room /\ Counted /\ Exclusive
  BY ThreadFacts, ReadyCacheAssumption
     DEF IndInv, TypeOK, CacheTypeOK, Places
<1>1. Fits(t, o, pc[t], mine[t])
  BY <1>0 DEF Fits
<1>2. /\ Hands' = [Hands EXCEPT ![t] = HandOf(o, pc[t], mine[t])]
      /\ Hands[t] = HandOf(op[t], pc[t], mine[t])
      /\ op'[t] = o /\ \A u \in Threads : u # t => op'[u] = op[u]
      /\ launched' = launched /\ Hands \in [Threads -> Places]
  BY <1>1, CallHands
<1>3. HandOf(o, pc[t], mine[t]) = HandOf(op[t], pc[t], mine[t])
  BY DEF HandOf
<1>4. Hands' = Hands
  BY <1>2, <1>3
<1>5. Moves
  BY <1>2, <1>4 DEF Moves, Same
<1>6. Counted'
  <2>1. \A u \in Threads : Owed(op'[u]) = Owed(op[u])
    BY <1>2 DEF Owed
  <2>2. Present' = Present
    BY <2>1 DEF Present
  <2>3. Uncounted' = Uncounted
    BY <1>2 DEF Uncounted
  <2> QED
    BY <1>0, <2>2, <2>3 DEF Counted, Surplus
<1>7. Room'
  <2> DEFINE n == i + 1
  <2>0. n \in Entries /\ i \in Nat /\ n \in Nat /\ n = i + 1
    BY DEF Entries
  <2> HIDE DEF n
  <2>1. ASSUME NEW k \in Entries, k # n
        PROVE  Above(k)' \subseteq Above(k) /\ (PushAt(k)' => PushAt(k))
    <3>1. k \in Nat
      BY DEF Entries
    <3>2. op'[t].i >= k => op[t].i >= k
      BY <1>2, <2>0, <2>1, <3>1
    <3>3. \A u \in Threads :
            op'[u].pc = op[u].pc /\ op'[u].job = op[u].job /\
            (op'[u].i >= k => op[u].i >= k) /\ (u # t => op'[u] = op[u])
      BY <1>2, <3>2
    <3>4. Above(k)' \subseteq Above(k)
      BY <3>3 DEF Above
    <3>5. op'[t].i # k
      BY <1>2, <2>0, <2>1
    <3>6. PushAt(k)' => PushAt(k)
      BY <3>3, <3>5 DEF PushAt
    <3> QED
      BY <3>4, <3>6
  <2>2. Bound(n)'
    <3> DEFINE x == ready_jobs_cache[i]
    <3>1. /\ IsFiniteSet(Above(i)) /\ Cardinality(Above(i)) \in Nat
          /\ Cardinality(Above(i)) <= Cardinality(Jobs) - i
          /\ Cardinality(Jobs) \in Nat
          /\ x \in Above(i) /\ op[t].job \in Above(i)
          /\ \A u \in Threads : op[u].pc = "push" => op[u].job # x
      BY LeftBehind
    <3>2. \A k \in Entries : k >= n => ready_jobs_cache[k] # x /\ k >= i
      BY <1>0, <2>0 DEF Exclusive, ExclusiveIn, Entries
    <3>3. \A u \in Threads : op'[u].pc = "push" /\ op'[u].i >= n =>
            op'[u].job # x /\ op'[u].job \in Above(i)
      <4>1. ASSUME NEW u \in Threads, u # t, op[u].pc = "push", op[u].i >= n
            PROVE  op[u].job \in Above(i)
        <5>1. op[u].i \in Nat /\ op[u].job \in Jobs
          BY <4>1, ThreadFacts DEF Ops, Entries, Fits
        <5>2. op[u].i >= i
          BY <2>0, <4>1, <5>1
        <5> QED
          BY <4>1, <5>1, <5>2 DEF Above
      <4> QED
        BY <1>2, <3>1, <4>1
    <3> HIDE DEF x
    <3>4. Above(n)' \subseteq Above(i) \ {x}
      <4> SUFFICES ASSUME NEW y \in Above(n)' PROVE y \in Above(i) /\ y # x
        OBVIOUS
      <4>1. CASE \E k \in Entries : k >= n /\ ready_jobs_cache'[k] = y
        BY <3>2, <4>1 DEF Above
      <4>2. CASE \E u \in Threads : /\ op'[u].pc = "push" /\ op'[u].job = y
                                    /\ op'[u].i >= n
        BY <3>3, <4>2
      <4> QED
        BY <4>1, <4>2 DEF Above
    <3>5. /\ IsFiniteSet(Above(i) \ {x})
          /\ Cardinality(Above(i) \ {x}) = Cardinality(Above(i)) - 1
      BY <3>1, FS_RemoveElement
    <3>6. /\ Cardinality(Above(n)') <= Cardinality(Above(i) \ {x})
          /\ Cardinality(Above(n)') \in Nat
      BY <3>4, <3>5, FS_Subset, FS_CardinalityType
    <3>7. /\ Cardinality(Above(i)) \in Nat /\ Cardinality(Jobs) \in Nat
          /\ Cardinality(Above(i)) <= Cardinality(Jobs) - i
          /\ Cardinality(Above(n)') \in Nat
          /\ Cardinality(Above(n)') <= Cardinality(Above(i)) - 1
      BY <3>1, <3>5, <3>6
    <3>8. Cardinality(Above(n)') <= Cardinality(Jobs) - n
      BY <2>0, <3>7
    <3> QED
      BY <3>8 DEF Bound
  <2>3. ASSUME NEW k \in Entries, PushAt(k)' PROVE Bound(k)'
    <3>1. CASE k = n
      BY <2>2, <3>1
    <3>2. CASE k # n
      <4>1. Above(k)' \subseteq Above(k) /\ PushAt(k)
        BY <2>1, <2>3, <3>2
      <4>2. Bound(k)
        BY <1>0, <4>1 DEF Room
      <4> QED
        BY <4>1, <4>2, BoundKept
    <3> QED
      BY <3>1, <3>2
  <2> QED
    BY <1>0, <2>3 DEF Room
<1>8. reorganize_counter' \in 0 .. CacheCheck
  BY <1>0 DEF RestOK
<1>9. IndInv'
  BY <1>0, <1>1, <1>5, <1>6, <1>7, <1>8, CallKeeps
<1> QED
  BY <1>5, <1>9

\* A push does not come to the end: there would be more jobs than entries.
LEMMA PushKeeps ==
  ASSUME IndInv, NEW t \in Threads, Push(t), UNCHANGED poolVars
  PROVE  IndInv' /\ Moves
<1>1. /\ op[t] \in Ops /\ mine[t] \in Places /\ pc[t] \in Labels
      /\ op \in [Threads -> Ops]
      /\ Fits(t, op[t], pc[t], mine[t]) /\ RestOK
  BY ThreadFacts
<1> DEFINE i == op[t].i
<1>2. /\ UNCHANGED <<job_count, peaked_job_count, reorganize_counter>>
      /\ op[t].pc = "push" /\ i \in Entries /\ op[t].i = i
  BY <1>1 DEF Push, Ops
<1>3. CASE ready_jobs_cache[i] = Null
  <2> DEFINE o == [op[t] EXCEPT !.pc = "pushed"]
  <2>1. /\ ready_jobs_cache' = [ready_jobs_cache EXCEPT ![i] = op[t].job]
        /\ op' = [op EXCEPT ![t] = o] /\ UNCHANGED array_full
    BY <1>1, <1>3 DEF Push, Step
  <2>2. /\ o \in Ops /\ o.pc = "pushed" /\ o.job = op[t].job
        /\ o.reorganizes = op[t].reorganizes /\ o.at = op[t].at
    BY <1>1 DEF Ops, Calls
  <2> HIDE DEF o, i
  <2>3. Fits(t, o, pc[t], mine[t])
    BY <1>1, <1>2, <2>2 DEF Fits, Picking
  <2> QED
    BY <1>2, <1>3, <2>1, <2>2, <2>3, PutKeeps
<1>4. CASE ready_jobs_cache[i] # Null
  <2>1. i + 1 < CacheSize
    <3> SUFFICES ASSUME i + 1 >= CacheSize PROVE FALSE
      BY <1>2, ReadyCacheAssumption DEF Entries
    <3> DEFINE x == ready_jobs_cache[i]  j == op[t].job
    <3> HIDE DEF i
    <3>1. /\ IsFiniteSet(Above(i)) /\ Cardinality(Above(i)) \in Nat
          /\ Cardinality(Above(i)) <= Cardinality(Jobs) - i
          /\ Cardinality(Jobs) \in Nat
          /\ x \in Above(i) /\ j \in Above(i) /\ j # x
      BY <1>2, <1>4, LeftBehind
    <3> HIDE DEF x, j
    <3>2. /\ IsFiniteSet(Above(i) \ {x})
          /\ Cardinality(Above(i) \ {x}) = Cardinality(Above(i)) - 1
      BY <3>1, FS_RemoveElement
    <3>3. /\ Cardinality(Above(i) \ {x}) # 0
          /\ Cardinality(Above(i) \ {x}) \in Nat
      <4>1. Above(i) \ {x} # {}
        BY <3>1
      <4>2. Cardinality(Above(i) \ {x}) # 0
        BY <3>2, <4>1, FS_EmptySet
      <4> QED
        BY <3>2, <4>2, FS_CardinalityType
    <3>4. Cardinality(Jobs) <= CacheSize /\ CacheSize \in Nat /\ i \in Nat
      BY <1>2, CapacityAssumption, ReadyCacheAssumption DEF Entries
    <3>5. /\ Cardinality(Above(i)) \in Nat /\ Cardinality(Jobs) \in Nat
          /\ Cardinality(Above(i)) <= Cardinality(Jobs) - i
          /\ Cardinality(Above(i)) - 1 # 0 /\ Cardinality(Above(i)) - 1 >= 0
      BY <3>1, <3>2, <3>3
    <3> QED
      BY <3>4, <3>5
  <2> DEFINE n == i + 1  o == [op[t] EXCEPT !.pc = "push", !.i = n]
  <2>2. n \in Entries
    <3>1. ASSUME NEW k \in Entries, k + 1 < CacheSize PROVE k + 1 \in Entries
      BY <3>1, ReadyCacheAssumption DEF Entries
    <3> HIDE DEF i
    <3> QED
      BY <1>2, <2>1, <3>1
  <2>3. op' = [op EXCEPT ![t] = o] /\ UNCHANGED <<ready_jobs_cache, array_full>>
    BY <1>1, <1>4, <2>1 DEF Push, StepTo
  <2>4. n = i + 1
    OBVIOUS
  <2> HIDE DEF n, i
  <2>5. /\ o \in Ops /\ o.pc = "push" /\ o.job = op[t].job /\ o.i = n
        /\ o.reorganizes = op[t].reorganizes /\ o.at = op[t].at
    BY <1>1, <2>2 DEF Ops, Calls
  <2> HIDE DEF o
  <2> QED
    BY <1>2, <1>4, <2>2, <2>3, <2>4, <2>5, AdvanceKeeps
<1> QED
  BY <1>3, <1>4

\* The reorganize counter saturates.
LEMMA TickType ==
  ASSUME reorganize_counter \in 0 .. CacheCheck, Tick
  PROVE  reorganize_counter' \in 0 .. CacheCheck
BY ReadyCacheAssumption DEF Tick

\* A job taken out of the cache is taken off the count.
LEMMA SubCountKeeps ==
  ASSUME IndInv, NEW t \in Threads, NEW o \in Ops,
         UNCHANGED poolVars, op' = [op EXCEPT ![t] = o],
         op[t].pc \in {"popped", "taken"}, o.job = op[t].job,
         \/ o.pc = "ret" /\ pc[t] \in Picking
         \/ o.pc = "push" /\ o.i = 0,
         o.reorganizes = op[t].reorganizes,
         Fits(t, o, pc[t], mine[t]),
         SubJobCount, array_full' = FALSE, UNCHANGED ready_jobs_cache
  PROVE  IndInv' /\ Moves
<1> DEFINE j == op[t].job
<1>0. /\ RestOK /\ Fits(t, op[t], pc[t], mine[t])
      /\ ready_jobs_cache \in [Entries -> Places] /\ Null \notin Jobs
      /\ job_count \in 0 .. CountMod - 1 /\ peaked_job_count \in 0 .. CountMod - 1
      /\ Room /\ Counted /\ Exclusive
  BY ThreadFacts, ReadyCacheAssumption
     DEF IndInv, TypeOK, CacheTypeOK, Places
<1>1. /\ Hands' = [Hands EXCEPT ![t] = HandOf(o, pc[t], mine[t])]
      /\ Hands[t] = HandOf(op[t], pc[t], mine[t])
      /\ op'[t] = o /\ \A u \in Threads : u # t => op'[u] = op[u]
      /\ launched' = launched /\ Hands \in [Threads -> Places]
  BY CallHands
<1>2. /\ HandOf(op[t], pc[t], mine[t]) = j /\ j \in Jobs
      /\ HandOf(o, pc[t], mine[t]) = j
  BY <1>0 DEF HandOf, Fits
<1> HIDE DEF j
<1>3. Hands' = Hands
  BY <1>1, <1>2
<1>4. Moves
  BY <1>1, <1>3 DEF Moves, Same
<1>5. Present' = Present \ {j} /\ j \in Present
  <2>1. Owed(op'[t]) = Null /\ Owed(op[t]) = j
    BY <1>1 DEF Owed, j
  <2>2. \A u \in Threads : u # t => Owed(op'[u]) = Owed(op[u])
    BY <1>1
  <2>3. \A k \in Entries : ready_jobs_cache[k] # j
    BY <1>0, <1>1, <1>2 DEF Exclusive, ExclusiveIn
  <2>4. ASSUME NEW u \in Threads, u # t, Owed(op[u]) = j PROVE FALSE
    <3>1. Hands[u] = j
      BY <1>0, <1>2, <2>4 DEF Hands, HandOf, Owed
    <3> QED
      BY <1>0, <1>1, <1>2, <2>4, <3>1 DEF Exclusive, ExclusiveIn
  <2>5. ASSUME NEW x \in Jobs
        PROVE  (\/ \E k \in Entries : ready_jobs_cache'[k] = x
                \/ \E u \in Threads : Owed(op'[u]) = x)
               <=>
               /\ x # j
               /\ \/ \E k \in Entries : ready_jobs_cache[k] = x
                  \/ \E u \in Threads : Owed(op[u]) = x
    BY <1>0, <2>1, <2>2, <2>3, <2>4
  <2>6. j \in Present
    BY <1>2, <2>1 DEF Present
  <2> QED
    BY <2>5, <2>6 DEF Present
<1>6. Uncounted' = Uncounted
  BY <1>1 DEF Uncounted
<1>7. Surplus' = Surplus - 1 /\ 0 - Cardinality(Threads) <= Surplus - 1
  <2>1. /\ IsFiniteSet(Present) /\ Cardinality(Present) \in Nat
        /\ Cardinality(Uncounted) \in Nat
    BY SurplusRange
  <2>2. Cardinality(Present \ {j}) = Cardinality(Present) - 1
    BY <1>5, <2>1, FS_RemoveElement
  <2>3. Cardinality(Present) # 0
    BY <1>5, <2>1, FS_EmptySet
  <2>4. /\ Cardinality(Uncounted) <= Cardinality(Threads)
        /\ Cardinality(Threads) \in Nat
    BY FS_Subset, FS_CardinalityType, CapacityAssumption DEF Uncounted
  <2>5. ASSUME NEW p \in Nat, NEW q \in Nat, NEW T \in Nat, q <= T, p # 0
        PROVE  (p - 1) - q = (p - q) - 1 /\ 0 - T <= (p - q) - 1
    BY <2>5
  <2> QED
    BY <1>5, <1>6, <2>1, <2>2, <2>3, <2>4, <2>5 DEF Surplus
<1>8. Counted' /\ job_count' \in 0 .. CountMod - 1 /\ UNCHANGED peaked_job_count
  <2>1. /\ Surplus \in Int /\ 0 - Cardinality(Threads) <= Surplus
        /\ Surplus <= CacheSize
    BY SurplusRange
  <2>2. (Wrap(Surplus) - 1) % CountMod = Wrap(Surplus - 1)
    BY <1>7, <2>1, WrapStep
  <2>3. job_count' = Wrap(Surplus') /\ UNCHANGED peaked_job_count
    BY <1>0, <1>7, <2>2 DEF SubJobCount, Counted
  <2>4. Surplus - 1 \in Int /\ Surplus - 1 <= CacheSize
    BY <2>1, ReadyCacheAssumption
  <2>5. Wrap(Surplus - 1) \in 0 .. CountMod - 1
    BY <1>7, <2>4, WrapStep
  <2> QED
    BY <1>0, <1>7, <2>3, <2>5 DEF Counted, Wrap
<1>9. Room'
  <2>1. ASSUME NEW k \in Entries, k # 0
        PROVE  Above(k)' \subseteq Above(k) /\ (PushAt(k)' => PushAt(k))
    <3>0. k \in Nat /\ k > 0
      BY <2>1 DEF Entries
    <3>1. \A u \in Threads : op'[u].pc = "push" /\ op'[u].i >= k =>
            op'[u] = op[u]
      BY <1>1, <3>0
    <3>2. \A u \in Threads : op'[u].pc = "push" /\ op'[u].i = k =>
            op'[u] = op[u]
      BY <1>1, <3>0
    <3>3. Above(k)' \subseteq Above(k)
      BY <3>1 DEF Above
    <3>4. PushAt(k)' => PushAt(k)
      BY <3>2 DEF PushAt
    <3> QED
      BY <3>3, <3>4
  <2>2. \A k \in Entries : ready_jobs_cache'[k] # Null => k < Cardinality(Jobs)
    BY <1>0 DEF Room
  <2> QED
    BY <1>0, <2>1, <2>2, RoomShrinks
<1>10. reorganize_counter' \in 0 .. CacheCheck
  BY <1>0, TickType DEF RestOK, SubJobCount
<1>11. IndInv'
  BY <1>0, <1>4, <1>8, <1>9, <1>10, CallKeeps
<1> QED
  BY <1>4, <1>11

\* The count at the end of a pop.
LEMMA PopCountKeeps ==
  ASSUME IndInv, NEW t \in Threads, PopCount(t), UNCHANGED poolVars
  PROVE  IndInv' /\ Moves
<1>1. op[t] \in Ops /\ Fits(t, op[t], pc[t], mine[t])
  BY ThreadFacts
<1>2. /\ op[t].pc = "popped" /\ pc[t] \in Picking /\ op[t].job \in Places
      /\ ~op[t].reorganizes
  BY <1>1 DEF PopCount, Fits, Picking, Ops
<1> DEFINE o == Fresh("ret", op[t].job)
<1>3. o \in Ops /\ o.pc = "ret" /\ o.job = op[t].job /\ ~o.reorganizes
  BY <1>2, FreshFields DEF Calls
<1>4. op' = [op EXCEPT ![t] = o]
  BY <1>2, FreshReturn DEF PopCount, Return
<1> HIDE DEF o
<1>5. o.reorganizes = op[t].reorganizes
  BY <1>1, <1>2, <1>3 DEF Ops
<1>6. Fits(t, o, pc[t], mine[t])
  BY <1>1, <1>2, <1>3 DEF Fits, Picking
<1>7. SubJobCount /\ array_full' = FALSE /\ UNCHANGED ready_jobs_cache
  BY DEF PopCount
<1> QED
  BY <1>2, <1>3, <1>4, <1>5, <1>6, <1>7, SubCountKeeps

\* The count in a reorganization, which then pushes the job again.
LEMMA ReorganizeCountKeeps ==
  ASSUME IndInv, NEW t \in Threads, ReorganizeCount(t), UNCHANGED poolVars
  PROVE  IndInv' /\ Moves
<1>1. op[t] \in Ops /\ Fits(t, op[t], pc[t], mine[t]) /\ op \in [Threads -> Ops]
  BY ThreadFacts
<1>2. op[t].pc = "taken" /\ pc[t] = "ticked" /\ op[t].reorganizes
  BY <1>1 DEF ReorganizeCount, Fits
<1> DEFINE o == [op[t] EXCEPT !.pc = "push", !.i = 0]
<1>3. /\ o \in Ops /\ o.pc = "push" /\ o.job = op[t].job /\ o.i = 0
      /\ o.reorganizes = op[t].reorganizes /\ o.at = op[t].at
  <2>1. 0 \in Entries
    BY ReadyCacheAssumption DEF Entries
  <2> QED
    BY <1>1, <2>1 DEF Ops, Calls
<1>4. op' = [op EXCEPT ![t] = o]
  BY <1>1 DEF ReorganizeCount, StepTo
<1> HIDE DEF o
<1>5. Fits(t, o, pc[t], mine[t])
  BY <1>1, <1>2, <1>3 DEF Fits, Picking
<1>6. SubJobCount /\ array_full' = FALSE /\ UNCHANGED ready_jobs_cache
  <2>1. ~array_full /\ array_full \in BOOLEAN
    BY DEF IndInv, TypeOK, CacheTypeOK
  <2>2. array_full = FALSE
    BY <2>1
  <2> QED
    BY <2>2 DEF ReorganizeCount
<1> QED
  BY <1>2, <1>3, <1>4, <1>5, <1>6, SubCountKeeps

\* A job that was put in is counted.
LEMMA PushCountKeeps ==
  ASSUME IndInv, NEW t \in Threads, PushCount(t), UNCHANGED poolVars
  PROVE  IndInv' /\ Moves
<1>0. /\ RestOK /\ Fits(t, op[t], pc[t], mine[t])
      /\ op[t] \in Ops /\ op \in [Threads -> Ops]
      /\ ready_jobs_cache \in [Entries -> Places] /\ Null \notin Jobs
      /\ job_count \in 0 .. CountMod - 1 /\ peaked_job_count \in 0 .. CountMod - 1
      /\ Room /\ Counted /\ Exclusive /\ array_full = FALSE
  BY ThreadFacts, ReadyCacheAssumption
     DEF IndInv, TypeOK, CacheTypeOK, Places
<1>1. /\ op[t].pc = "pushed" /\ pc[t] \in {"cached", "ticked"}
      /\ op[t].reorganizes <=> pc[t] = "ticked"
      /\ UNCHANGED <<ready_jobs_cache, array_full>> /\ AddJobCount
  BY <1>0 DEF PushCount, Fits
<1>2. PICK o \in Ops : /\ op' = [op EXCEPT ![t] = o]
                       /\ o.pc \in {"moved", "ret"}
                       /\ o.pc = "ret" => o.job = Null /\ ~o.reorganizes
                       /\ o.pc = "moved" => /\ o.reorganizes /\ o.at = op[t].at
                                            /\ op[t].reorganizes
                       /\ op[t].reorganizes => o.pc = "moved"
  <2>1. CASE op[t].reorganizes
    <3> DEFINE o == [op[t] EXCEPT !.pc = "moved"]
    <3>1. /\ o \in Ops /\ o.pc = "moved" /\ o.at = op[t].at
          /\ o.reorganizes = op[t].reorganizes
      BY <1>0 DEF Ops, Calls
    <3>2. op' = [op EXCEPT ![t] = o]
      BY <1>0, <2>1 DEF PushCount, Step
    <3> HIDE DEF o
    <3> QED
      BY <2>1, <3>1, <3>2
  <2>2. CASE ~op[t].reorganizes
    <3> DEFINE o == Fresh("ret", Null)
    <3>1. o \in Ops /\ o.pc = "ret" /\ o.job = Null /\ ~o.reorganizes
      BY FreshFields DEF Calls, Places
    <3>2. op' = [op EXCEPT ![t] = o]
      BY <2>2, FreshReturn DEF PushCount, Return, Places
    <3> HIDE DEF o
    <3> QED
      BY <2>2, <3>1, <3>2
  <2> QED
    BY <2>1, <2>2
<1>3. Fits(t, o, pc[t], mine[t])
  BY <1>0, <1>1, <1>2 DEF Fits, Picking
<1>4. /\ Hands' = [Hands EXCEPT ![t] = HandOf(o, pc[t], mine[t])]
      /\ Hands[t] = HandOf(op[t], pc[t], mine[t])
      /\ op'[t] = o /\ \A u \in Threads : u # t => op'[u] = op[u]
      /\ launched' = launched /\ Hands \in [Threads -> Places]
  BY <1>2, <1>3, CallHands
<1>5. /\ HandOf(op[t], pc[t], mine[t]) = Null
      /\ HandOf(o, pc[t], mine[t]) = Null
  BY <1>1, <1>2 DEF HandOf, Picking
<1>6. Hands' = Hands
  BY <1>4, <1>5
<1>7. Moves
  BY <1>1, <1>4, <1>5, <1>6 DEF Moves, Same
<1>8. Present' = Present
  <2>1. \A u \in Threads : Owed(op'[u]) = Owed(op[u])
    BY <1>1, <1>2, <1>4 DEF Owed
  <2> QED
    BY <1>1, <2>1 DEF Present
<1>9. Uncounted' = Uncounted \ {t} /\ t \in Uncounted
  BY <1>1, <1>2, <1>4 DEF Uncounted
<1>10. Surplus' = Surplus + 1 /\ Surplus + 1 <= CacheSize
  <2>1. /\ IsFiniteSet(Uncounted) /\ Cardinality(Present) \in Nat
        /\ Cardinality(Uncounted) \in Nat
    BY SurplusRange
  <2>2. Cardinality(Uncounted \ {t}) = Cardinality(Uncounted) - 1
    BY <1>9, <2>1, FS_RemoveElement
  <2>3. Cardinality(Uncounted) # 0
    BY <1>9, <2>1, FS_EmptySet
  <2>4. Cardinality(Present) <= CacheSize /\ CacheSize \in Nat
    <3>1. Present \in SUBSET Jobs
      BY DEF Present
    <3>2. /\ Cardinality(Present) <= Cardinality(Jobs)
          /\ Cardinality(Jobs) \in Nat /\ Cardinality(Jobs) <= CacheSize
          /\ CacheSize \in Nat
      BY <3>1, FS_Subset, FS_CardinalityType, CapacityAssumption,
         ReadyCacheAssumption
    <3> QED
      BY <2>1, <3>2
  <2>5. ASSUME NEW p \in Nat, NEW q \in Nat, NEW C \in Nat, p <= C, q # 0
        PROVE  p - (q - 1) = (p - q) + 1 /\ (p - q) + 1 <= C
    BY <2>5
  <2> QED
    BY <1>8, <1>9, <2>1, <2>2, <2>3, <2>4, <2>5 DEF Surplus
<1>11. /\ Counted' /\ job_count' \in 0 .. CountMod - 1
       /\ peaked_job_count' \in 0 .. CountMod - 1
  <2>1. /\ Surplus \in Int /\ 0 - Cardinality(Threads) <= Surplus
        /\ Surplus <= CacheSize
    BY SurplusRange
  <2>2. (Wrap(Surplus) + 1) % CountMod = Wrap(Surplus + 1)
    BY <1>10, <2>1, WrapStep
  <2>3. job_count' = Wrap(Surplus')
    BY <1>0, <1>1, <1>10, <2>2 DEF AddJobCount, Counted
  <2>4. /\ peaked_job_count' = job_count' \/ peaked_job_count' = peaked_job_count
    BY <1>1 DEF AddJobCount
  <2>5. Surplus + 1 \in Int /\ 0 - Cardinality(Threads) <= Surplus + 1
    <3>1. Cardinality(Threads) \in Nat
      BY FS_CardinalityType, CapacityAssumption
    <3> QED
      BY <2>1, <3>1
  <2>6. /\ Wrap(Surplus + 1) \in 0 .. CountMod - 1
        /\ Wrap(Surplus + 1) <= CacheSize \/ 2 * Wrap(Surplus + 1) > CountMod
    BY <1>10, <2>5, WrapStep
  <2>7. /\ job_count' \in 0 .. CountMod - 1
        /\ job_count' <= CacheSize \/ 2 * job_count' > CountMod
    BY <1>10, <2>3, <2>6 DEF Wrap
  <2>8. /\ peaked_job_count' \in 0 .. CountMod - 1
        /\ peaked_job_count' <= CacheSize \/ 2 * peaked_job_count' > CountMod
    BY <1>0, <2>4, <2>7 DEF Counted
  <2> QED
    BY <2>3, <2>7, <2>8 DEF Counted
<1>12. Room'
  <2>1. ASSUME NEW k \in Entries
        PROVE  Above(k)' \subseteq Above(k) /\ (PushAt(k)' => PushAt(k))
    <3>1. \A u \in Threads : op'[u].pc = "push" => op'[u] = op[u]
      BY <1>2, <1>4
    <3> QED
      BY <1>1, <3>1 DEF Above, PushAt
  <2>2. \A k \in Entries : ready_jobs_cache'[k] # Null => k < Cardinality(Jobs)
    BY <1>0, <1>1 DEF Room
  <2> QED
    BY <1>0, <2>1, <2>2, RoomShrinks
<1>13. reorganize_counter' \in 0 .. CacheCheck
  BY <1>0, <1>1, TickType DEF RestOK, AddJobCount
<1>14. IndInv'
  BY <1>0, <1>1, <1>2, <1>3, <1>7, <1>11, <1>12, <1>13, CallKeeps
<1> QED
  BY <1>7, <1>14

-----------------------------------------------------------------------------
(* The invariant, and what it gives at once. *)

\* The invariant holds in the initial states.
LEMMA InitKeeps == Init => IndInv
<1> SUFFICES ASSUME Init PROVE IndInv
  OBVIOUS
<1>0. /\ CacheSize \in Nat \ {0} /\ CacheCheck \in Nat /\ CountMod \in Nat
      /\ CountMod > 0 /\ Runs \in Nat /\ 0 \in Entries /\ Main \in Threads
      /\ Null \notin Jobs
  BY ReadyCacheAssumption, WorkerPoolAssumption DEF Entries
<1>1. /\ op = [t \in Threads |-> NoCall] /\ op \in [Threads -> Ops]
      /\ pc = [t \in Threads |-> IF t = Main THEN "main" ELSE "new"]
      /\ mine = [t \in Threads |-> Null]
      /\ ready_jobs_cache = [i \in Entries |-> Null]
      /\ job_count = 0 /\ peaked_job_count = 0 /\ array_full = FALSE
  BY NoCallType DEF Init, CacheInit
<1>2. NoCall.pc = "ret" /\ NoCall.job = Null /\ ~NoCall.reorganizes
  BY DEF NoCall
<1>3. TypeOK
  <2>1. ready_jobs_cache \in [Entries -> Jobs \cup {Null}]
    BY <1>1
  <2>2. /\ job_count \in 0 .. CountMod - 1
        /\ peaked_job_count \in 0 .. CountMod - 1
    BY <1>0, <1>1
  <2>3. reorganize_counter \in 0 .. CacheCheck
    BY <1>0 DEF Init, CacheInit
  <2>4. CacheTypeOK
    BY <1>1, <2>1, <2>2, <2>3 DEF CacheTypeOK, Ops, Places
  <2>5. pc \in [Threads -> Labels]
    BY <1>1 DEF Labels
  <2>6. mine \in [Threads -> Jobs \cup {Null}]
    BY <1>1
  <2>7. left \in [Jobs -> 0 .. Runs]
    BY <1>0 DEF Init
  <2>8. shutdown \in BOOLEAN /\ mutex = Null /\ waiting = {} /\ launched = {}
    BY DEF Init
  <2> QED
    BY <2>4, <2>5, <2>6, <2>7, <2>8 DEF Init, TypeOK
<1>4. ThreadsFit
  BY <1>1, <1>2
     DEF ThreadsFit, Fits, MainLabels, WorkerLabels, Labels, Picking
<1>5. \A t \in Threads : Hands[t] = Null
  BY <1>1, <1>2 DEF Hands, HandOf, Picking
<1>6. Exclusive
  BY <1>1, <1>5 DEF Exclusive, ExclusiveIn
<1>7. Present = {} /\ Uncounted = {}
  BY <1>0, <1>1, <1>2 DEF Present, Uncounted, Owed
<1>8. Surplus = 0
  BY <1>7, FS_EmptySet DEF Surplus
<1>9. Counted
  BY <1>0, <1>1, <1>8 DEF Counted, Wrap
<1>10. Room
  BY <1>1, <1>2 DEF Room, PushAt
<1> QED
  BY <1>1, <1>3, <1>4, <1>6, <1>9, <1>10 DEF IndInv

\* A stuttering step keeps it.
LEMMA StutterKeeps ==
  ASSUME IndInv, UNCHANGED vars PROVE IndInv' /\ Moves
<1>0. Main \in Threads
  BY WorkerPoolAssumption
<1>1. /\ op[Main] \in Ops /\ mine[Main] \in Places /\ pc[Main] \in Labels
      /\ op \in [Threads -> Ops] /\ pc \in [Threads -> Labels]
      /\ mine \in [Threads -> Places]
      /\ Fits(Main, op[Main], pc[Main], mine[Main]) /\ RestOK
  BY <1>0, ThreadFacts
<1>2. RestOK' /\ UNCHANGED <<ready_jobs_cache, job_count, peaked_job_count,
                             array_full, launched>>
  BY <1>1 DEF vars, cacheVars, poolVars, RestOK
<1>3. Local(Main, op[Main], pc[Main], mine[Main])
  BY <1>0, <1>1 DEF vars, cacheVars, poolVars, Local
<1>4. QuietTo(Main, op[Main], pc[Main], mine[Main])
  BY <1>1 DEF QuietTo
<1> QED
  BY <1>0, <1>2, <1>3, <1>4, Quiet

\* So does every step of a call.
LEMMA CacheCallKeeps ==
  ASSUME IndInv, NEW t \in Threads, CacheCall(t)
  PROVE  IndInv' /\ Moves
<1>1. UNCHANGED poolVars
  BY DEF CacheCall
<1> QED
  BY <1>1, PopStartKeeps, PopScanKeeps, PopCountKeeps, PushKeeps,
     PushCountKeeps, ReorganizeTickKeeps, ReorganizeStartKeeps,
     ReorganizeTakeKeeps, ReorganizeCountKeeps, ReorganizeNextKeeps
     DEF CacheCall, CacheStep

\* Every step keeps the invariant and moves at most one job.
LEMMA NextKeeps ==
  ASSUME IndInv, [Next]_vars PROVE IndInv' /\ Moves
<1>0. Main \in Threads /\ \A w \in Workers : w \in Threads
  BY WorkerPoolAssumption
<1>1. CASE MainStep
  BY <1>0, <1>1, CreateWorkerKeeps, LaunchKeeps, SetReadyKeeps, CachedKeeps,
     CacheCallKeeps, StopKeeps DEF MainStep
<1>2. ASSUME NEW w \in Workers, WorkerStep(w) PROVE IndInv' /\ Moves
  BY <1>0, <1>2, LoopHeadKeeps, PickedKeeps, PickLockedKeeps, WakeKeeps,
     RunKeeps, WakeJobWaiterKeeps, SetReadyKeeps, CachedKeeps,
     CacheCallKeeps DEF WorkerStep
<1>3. ASSUME NEW w \in Workers, SpuriousWakeup(w) PROVE IndInv' /\ Moves
  BY <1>3, SpuriousKeeps
<1> QED
  BY <1>1, <1>2, <1>3, StutterKeeps DEF Next

\* The invariant holds in every reachable state.
THEOREM Invariance == Spec => []IndInv
<1>1. Init => IndInv
  BY InitKeeps
<1>2. IndInv /\ [Next]_vars => IndInv'
  BY NextKeeps
<1> QED
  BY <1>1, <1>2, PTL DEF Spec

\* Every reachable state is well typed: no index leaves the cache, and the
\* counts keep their width.
THEOREM TypeCorrect == Spec => []TypeOK
<1>1. IndInv => TypeOK
  BY DEF IndInv
<1> QED
  BY <1>1, Invariance, PTL

\* schedi_cache_job_ready always finds an empty entry, for any number of
\* threads that pop, push and reorganize at the same time.
THEOREM NeverFull == Spec => []CacheNeverFull
<1>1. IndInv => CacheNeverFull
  BY DEF IndInv, CacheNeverFull
<1> QED
  BY <1>1, Invariance, PTL

-----------------------------------------------------------------------------
(* The cache implements the bag of jobs. *)

InCache(j) == \E i \in Entries : ready_jobs_cache[i] = j
InMove(j)  == \E t \in Threads : op[t].reorganizes /\ Hands[t] = j
InWork(j)  == \E w \in Workers : ~op[w].reorganizes /\ Hands[w] = j

\* A worker holds the jobs in its hands unless it reorganizes.
BagHasShape ==
  /\ BagOfJobs = {j \in Jobs : InCache(j) \/ InMove(j)}
  /\ HeldJobs = {j \in Jobs : InWork(j)}

\* The bag and the held jobs of the refinement mapping, by hands.
LEMMA BagShape == IndInv => BagHasShape
<1> SUFFICES ASSUME IndInv PROVE BagHasShape
  OBVIOUS
<1>0. /\ Null \notin Jobs /\ ready_jobs_cache \in [Entries -> Places]
      /\ \A w \in Workers : w \in Threads /\ w # Main
  BY ReadyCacheAssumption, WorkerPoolAssumption
     DEF IndInv, TypeOK, CacheTypeOK, Places
<1>1. ASSUME NEW t \in Threads
      PROVE  /\ Hands[t] = HandOf(op[t], pc[t], mine[t])
             /\ Fits(t, op[t], pc[t], mine[t])
  BY ThreadFacts DEF Hands
<1>2. ASSUME NEW t \in Threads, NEW j \in Jobs
      PROVE  op[t].reorganizes /\ Hands[t] = j <=>
             /\ op[t].job = j /\ op[t].reorganizes
             /\ op[t].pc \in {"taken", "push"}
  BY <1>0, <1>1 DEF HandOf, Fits, Picking
<1>3. \A j \in Jobs : InMove(j) <=>
        \E t \in Threads : /\ op[t].job = j /\ op[t].reorganizes
                           /\ op[t].pc \in {"taken", "push"}
  BY <1>2 DEF InMove
<1>4. CachedJobs = {j \in Jobs : InCache(j)}
  BY <1>0 DEF CachedJobs, InCache, Places
<1>5. BagOfJobs = {j \in Jobs : InCache(j) \/ InMove(j)}
  BY <1>3, <1>4 DEF BagOfJobs
<1>6. ASSUME NEW w \in Workers, NEW j \in Jobs
      PROVE  ~op[w].reorganizes /\ Hands[w] = j <=>
             \/ op[w].job = j /\ pc[w] \in {"picked", "pickedlocked"}
             \/ mine[w] = j /\ pc[w] \in {"run", "setready"}
             \/ mine[w] = j /\ pc[w] = "cached" /\ op[w].pc = "push"
  <2>1. /\ Hands[w] = HandOf(op[w], pc[w], mine[w])
        /\ Fits(w, op[w], pc[w], mine[w]) /\ op[w].pc \in Calls
    BY <1>0, <1>1, ThreadFacts DEF Ops
  <2>2. CASE op[w].pc \in {"pop", "scan", "popped"}
    BY <1>0, <2>1, <2>2 DEF HandOf, Fits, Picking
  <2>3. CASE op[w].pc \in {"take", "taken", "moved", "next", "tick", "reorganize"}
    BY <1>0, <2>1, <2>3 DEF HandOf, Fits, Picking
  <2>4. CASE op[w].pc \in {"push", "pushed"}
    BY <1>0, <2>1, <2>4 DEF HandOf, Fits, Picking
  <2>5. CASE op[w].pc = "ret"
    BY <1>0, <2>1, <2>5 DEF HandOf, Fits, Picking
  <2> QED
    BY <2>1, <2>2, <2>3, <2>4, <2>5 DEF Calls
<1>7. \A j \in Jobs : InWork(j) <=>
        \E w \in Workers :
          \/ op[w].job = j /\ pc[w] \in {"picked", "pickedlocked"}
          \/ mine[w] = j /\ pc[w] \in {"run", "setready"}
          \/ mine[w] = j /\ pc[w] = "cached" /\ op[w].pc = "push"
  BY <1>6 DEF InWork
<1>8. HeldJobs = {j \in Jobs : InWork(j)}
  BY <1>7 DEF HeldJobs
<1> QED
  BY <1>5, <1>8 DEF BagHasShape

\* The same in the next state.
LEMMA BagShapeNext == IndInv' => BagHasShape'
BY BagShape, PTL

\* A move of a job is a step of the bag, or the job stays in it.
LEMMA MoveIsBagStep ==
  ASSUME IndInv, IndInv', Moves PROVE [Bag!Next]_(Bag!vars)
<1> DEFINE B == BagOfJobs  H == HeldJobs
<1>0. /\ Null \notin Jobs /\ ready_jobs_cache \in [Entries -> Places]
      /\ \A w \in Workers : w \in Threads /\ w # Main
      /\ Main \in Threads /\ Hands \in [Threads -> Places]
      /\ \A t \in Threads : t \in Workers \/ t = Main
  BY ReadyCacheAssumption, WorkerPoolAssumption, HandsType
     DEF IndInv, TypeOK, CacheTypeOK, Places
<1>1. B = {j \in Jobs : InCache(j) \/ InMove(j)} /\ H = {j \in Jobs : InWork(j)}
  BY BagShape DEF BagHasShape
<1>2. /\ B' = {j \in Jobs : InCache(j)' \/ InMove(j)'}
      /\ H' = {j \in Jobs : InWork(j)'}
  BY BagShapeNext DEF BagHasShape
<1>3. ExclusiveIn(ready_jobs_cache, Hands, launched)
  BY DEF IndInv, Exclusive
<1>4. [Bag!Next]_(Bag!vars) <=>
        \/ B' = B /\ H' = H
        \/ \E j \in Jobs :
             \/ j \notin B \cup H /\ B' = B \cup {j} /\ H' = H
             \/ j \in B /\ B' = B \ {j} /\ H' = H \cup {j}
             \/ j \in H /\ H' = H \ {j} /\ B' = B
             \/ j \in H /\ H' = H \ {j} /\ B' = B \cup {j}
  BY DEF Bag!Next, Bag!vars, Bag!Put, Bag!Take, Bag!Drop, Bag!Again
<1> HIDE DEF B, H
<1>5. CASE Same
  <2>1. ASSUME NEW j \in Jobs
        PROVE  /\ InCache(j)' <=> InCache(j)
               /\ InMove(j)' <=> InMove(j)
               /\ InWork(j)' <=> InWork(j)
    BY <1>0, <1>5 DEF Same, InCache, InMove, InWork
  <2> QED
    BY <1>1, <1>2, <1>4, <2>1
<1>6. ASSUME NEW t \in Threads, NEW i \in Entries, Grabs(t, i)
      PROVE  [Bag!Next]_(Bag!vars)
  <2> DEFINE x == ready_jobs_cache[i]
  <2>1. /\ x \in Jobs /\ Hands[t] = Null /\ ready_jobs_cache[i] = x
        /\ Hands'[t] = x /\ \A u \in Threads : u # t => Hands'[u] = Hands[u]
        /\ ready_jobs_cache'[i] = Null
        /\ \A k \in Entries : k # i => ready_jobs_cache'[k] = ready_jobs_cache[k]
        /\ op'[t].reorganizes \/ t \in Workers
        /\ Others(t)
    BY <1>0, <1>6 DEF Grabs, Places
  <2>2. /\ \A k \in Entries : k # i => ready_jobs_cache[k] # x
        /\ \A u \in Threads : Hands[u] # x
    BY <1>0, <1>3, <2>1 DEF ExclusiveIn
  <2> HIDE DEF x
  <2>3. ASSUME NEW j \in Jobs
        PROVE  /\ InCache(j)' <=> InCache(j) /\ j # x
               /\ InMove(j)' <=> InMove(j) \/ (j = x /\ op'[t].reorganizes)
               /\ InWork(j)' <=> InWork(j) \/ (j = x /\ ~op'[t].reorganizes)
    <3>1. InCache(j)' <=> InCache(j) /\ j # x
      BY <1>0, <2>1, <2>2 DEF InCache
    <3>2. InMove(j)' <=> InMove(j) \/ (j = x /\ op'[t].reorganizes)
      BY <1>0, <2>1, <2>2 DEF InMove, Others
    <3>3. InWork(j)' <=> InWork(j) \/ (j = x /\ ~op'[t].reorganizes)
      BY <1>0, <2>1, <2>2 DEF InWork, Others
    <3> QED
      BY <3>1, <3>2, <3>3
  <2>4. InCache(x) /\ ~InMove(x) /\ ~InWork(x)
    BY <1>0, <2>1, <2>2 DEF InCache, InMove, InWork
  <2>5. CASE op'[t].reorganizes
    BY <1>1, <1>2, <1>4, <2>3, <2>4, <2>5
  <2>6. CASE ~op'[t].reorganizes
    <3>1. x \in B /\ B' = B \ {x} /\ H' = H \cup {x}
      BY <1>1, <1>2, <2>1, <2>3, <2>4, <2>6
    <3> QED
      BY <1>4, <2>1, <3>1
  <2> QED
    BY <2>5, <2>6
<1>7. ASSUME NEW t \in Threads, NEW i \in Entries, Puts(t, i)
      PROVE  [Bag!Next]_(Bag!vars)
  <2> DEFINE x == Hands[t]
  <2>1. /\ x \in Jobs /\ Hands[t] = x /\ ready_jobs_cache[i] = Null
        /\ Hands'[t] = Null /\ \A u \in Threads : u # t => Hands'[u] = Hands[u]
        /\ ready_jobs_cache'[i] = x
        /\ \A k \in Entries : k # i => ready_jobs_cache'[k] = ready_jobs_cache[k]
        /\ Others(t)
    BY <1>0, <1>7 DEF Puts, Places
  <2>2. /\ \A k \in Entries : ready_jobs_cache[k] # x
        /\ \A u \in Threads : u # t => Hands[u] # x
    BY <1>0, <1>3, <2>1 DEF ExclusiveIn
  <2> HIDE DEF x
  <2>3. ASSUME NEW j \in Jobs
        PROVE  /\ InCache(j)' <=> InCache(j) \/ j = x
               /\ InMove(j)' <=> InMove(j) /\ j # x
               /\ InWork(j)' <=> InWork(j) /\ j # x
    <3>1. InCache(j)' <=> InCache(j) \/ j = x
      BY <1>0, <2>1, <2>2 DEF InCache
    <3>2. InMove(j)' <=> InMove(j) /\ j # x
      BY <1>0, <2>1, <2>2 DEF InMove, Others
    <3>3. InWork(j)' <=> InWork(j) /\ j # x
      BY <1>0, <2>1, <2>2 DEF InWork, Others
    <3> QED
      BY <3>1, <3>2, <3>3
  <2>4. /\ ~InCache(x)
        /\ InMove(x) <=> op[t].reorganizes
        /\ InWork(x) <=> ~op[t].reorganizes /\ t \in Workers
    BY <1>0, <2>1, <2>2 DEF InCache, InMove, InWork
  <2>5. CASE op[t].reorganizes
    BY <1>1, <1>2, <1>4, <2>3, <2>4, <2>5
  <2>6. CASE ~op[t].reorganizes /\ t \in Workers
    <3>1. x \in H /\ B' = B \cup {x} /\ H' = H \ {x}
      BY <1>1, <1>2, <2>1, <2>3, <2>4, <2>6
    <3> QED
      BY <1>4, <2>1, <3>1
  <2>7. CASE ~op[t].reorganizes /\ t \notin Workers
    <3>1. x \notin B \cup H /\ B' = B \cup {x} /\ H' = H
      BY <1>1, <1>2, <2>1, <2>3, <2>4, <2>7
    <3> QED
      BY <1>4, <2>1, <3>1
  <2> QED
    BY <2>5, <2>6, <2>7
<1>8. ASSUME NEW w \in Workers, Drops(w)
      PROVE  [Bag!Next]_(Bag!vars)
  <2> DEFINE x == Hands[w]
  <2>1. /\ x \in Jobs /\ Hands[w] = x /\ ~op[w].reorganizes
        /\ Hands'[w] = Null /\ \A u \in Threads : u # w => Hands'[u] = Hands[u]
        /\ ready_jobs_cache' = ready_jobs_cache
        /\ Others(w)
    BY <1>0, <1>8 DEF Drops, Places
  <2>2. /\ \A k \in Entries : ready_jobs_cache[k] # x
        /\ \A u \in Threads : u # w => Hands[u] # x
    BY <1>0, <1>3, <2>1 DEF ExclusiveIn
  <2> HIDE DEF x
  <2>3. ASSUME NEW j \in Jobs
        PROVE  /\ InCache(j)' <=> InCache(j)
               /\ InMove(j)' <=> InMove(j)
               /\ InWork(j)' <=> InWork(j) /\ j # x
    <3>1. InCache(j)' <=> InCache(j)
      BY <2>1 DEF InCache
    <3>2. InMove(j)' <=> InMove(j)
      BY <1>0, <2>1, <2>2 DEF InMove, Others
    <3>3. InWork(j)' <=> InWork(j) /\ j # x
      BY <1>0, <2>1, <2>2 DEF InWork, Others
    <3> QED
      BY <3>1, <3>2, <3>3
  <2>4. InWork(x)
    BY <2>1 DEF InWork
  <2>5. x \in H /\ B' = B /\ H' = H \ {x}
    BY <1>1, <1>2, <2>1, <2>3, <2>4
  <2> QED
    BY <1>4, <2>1, <2>5
<1>9. ASSUME NEW x \in Jobs, Launches(x)
      PROVE  [Bag!Next]_(Bag!vars)
  <2>1. /\ Hands[Main] = Null /\ ~op'[Main].reorganizes
        /\ Hands'[Main] = x /\ \A u \in Threads : u # Main => Hands'[u] = Hands[u]
        /\ ready_jobs_cache' = ready_jobs_cache
        /\ Others(Main)
    BY <1>0, <1>9 DEF Launches
  <2>2. ASSUME NEW j \in Jobs
        PROVE  /\ InCache(j)' <=> InCache(j)
               /\ InMove(j)' <=> InMove(j)
               /\ InWork(j)' <=> InWork(j)
    <3>1. InCache(j)' <=> InCache(j)
      BY <2>1 DEF InCache
    <3>2. InMove(j)' <=> InMove(j)
      BY <1>0, <2>1 DEF InMove, Others
    <3>3. InWork(j)' <=> InWork(j)
      BY <1>0, <2>1 DEF InWork, Others
    <3> QED
      BY <3>1, <3>2, <3>3
  <2> QED
    BY <1>1, <1>2, <1>4, <2>2
<1> QED
  BY <1>5, <1>6, <1>7, <1>8, <1>9 DEF Moves

\* At first the bag is empty.
LEMMA InitIsBagInit == Init => Bag!Init
<1> SUFFICES ASSUME Init PROVE BagOfJobs = {} /\ HeldJobs = {}
  BY DEF Bag!Init
<1>1. Null \notin Jobs /\ \A w \in Workers : w \in Threads /\ w # Main
  BY ReadyCacheAssumption, WorkerPoolAssumption
<1>2. /\ \A t \in Threads : op[t] = NoCall
      /\ \A w \in Workers : pc[w] = "new"
      /\ \A i \in Entries : ready_jobs_cache[i] = Null
  BY <1>1 DEF Init, CacheInit
<1>3. NoCall.pc = "ret"
  BY DEF NoCall
<1> QED
  BY <1>1, <1>2, <1>3 DEF BagOfJobs, CachedJobs, HeldJobs

\* The lock-free cache, with all workers, reorganizations and producers,
\* implements the bag of jobs: each job set ready goes to one worker, and
\* none is lost or doubled.
THEOREM ImplementsBag == Spec => BagSpec
<1>1. IndInv /\ IndInv' /\ [Next]_vars => [Bag!Next]_(Bag!vars)
  BY NextKeeps, MoveIsBagStep
<1> QED
  BY InitIsBagInit, Invariance, <1>1, PTL DEF Spec, BagSpec, Bag!Spec

-----------------------------------------------------------------------------
(* The sleep of the workers. *)

\* A step of thread t to label l that follows the rules of the mutex ...
LEMMA LockedStep ==
  ASSUME TypeOK, Locked, setup' = setup, NEW t \in Threads, NEW l,
         pc' = [pc EXCEPT ![t] = l],
         \/ Lockless
         \/ /\ mutex' = mutex
            /\ l \notin {"pickedlocked", "cached", "stop"} \/ l = pc[t]
         \/ /\ mutex = Null /\ mutex' = t
            /\ l = "stop" => t = Main
         \/ /\ mutex = t /\ mutex' = Null
            /\ l \notin {"pickedlocked", "cached", "stop"}
  PROVE  Locked'
<1>1. Lockless' = Lockless
  BY DEF Lockless
<1>2. pc'[t] = l /\ \A u \in Threads : u # t => pc'[u] = pc[u]
  BY DEF TypeOK
<1>3. Null \notin Threads /\ Main \in Threads
  BY WorkerPoolAssumption
<1> QED
  BY <1>1, <1>2, <1>3 DEF Locked

\* ... and of the sleep.
LEMMA AsleepStep ==
  ASSUME TypeOK, Asleep, setup' = setup, NEW t \in Threads, NEW l,
         pc' = [pc EXCEPT ![t] = l],
         \A u \in Threads : u # t => op'[u] = op[u],
         waiting' \subseteq waiting \cup {t},
         \/ t \notin waiting'
         \/ l = "sleep" /\ op'[t].pc = "ret" /\ ~Lockless /\ ~shutdown,
         Lockless => l \notin {"lock", "pickedlocked"},
         shutdown => shutdown',
         t = Main => /\ l \in {"stop", "join"} => shutdown'
                     /\ l = "join" => waiting' = {}
  PROVE  Asleep'
<1>1. Lockless' = Lockless
  BY DEF Lockless
<1>2. pc'[t] = l /\ \A u \in Threads : u # t => pc'[u] = pc[u]
  BY DEF TypeOK
<1>3. waiting \subseteq Threads /\ Main \in Threads
  BY WorkerPoolAssumption DEF TypeOK
<1>4. \A w \in waiting' : pc'[w] = "sleep" /\ op'[w].pc = "ret"
  BY <1>2, <1>3 DEF Asleep
<1>5. Lockless => /\ waiting' = {}
                  /\ \A u \in Threads : pc'[u] \notin {"lock", "pickedlocked"}
  BY <1>2 DEF Asleep
<1>6. pc'[Main] \in {"stop", "join"} => shutdown'
  BY <1>2, <1>3 DEF Asleep
<1>7. pc'[Main] = "join" => waiting' = {}
  BY <1>2, <1>3 DEF Asleep
<1> QED
  BY <1>1, <1>4, <1>5, <1>6, <1>7 DEF Asleep

\* A worker that neither sleeps nor looks for a job with the mutex makes
\* sure by itself that not all workers sleep.
LEMMA WorkerSleep ==
  ASSUME TypeOK, SleepInv, setup' = setup, NEW w \in Workers, NEW l,
         pc' = [pc EXCEPT ![w] = l],
         \A u \in Threads : u # w => op'[u] = op[u],
         waiting' \subseteq waiting, w \notin waiting',
         l \notin {"pickedlocked", "stop"}, Lockless => l # "lock",
         \/ Lockless
         \/ mutex' = mutex /\ (l # "cached" \/ l = pc[w])
         \/ mutex = Null /\ mutex' = w
         \/ mutex = w /\ mutex' = Null /\ l # "cached",
         shutdown' = shutdown
  PROVE  SleepInv'
<1>0. w \in Threads /\ w # Main
  BY WorkerPoolAssumption
<1>1. Locked'
  BY <1>0, LockedStep DEF SleepInv
<1>2. Asleep'
  BY <1>0, AsleepStep DEF SleepInv
<1>3. pc'[w] = l
  BY <1>0 DEF TypeOK
<1>4. LastAwake'
  BY <1>3 DEF LastAwake
<1>5. AllAsleep'
  BY DEF AllAsleep
<1> QED
  BY <1>1, <1>2, <1>4, <1>5 DEF SleepInv

\* main() puts a job in only while it has the mutex, and then wakes a worker.
LEMMA MainSleep ==
  ASSUME TypeOK, SleepInv, setup' = setup, NEW l,
         pc' = [pc EXCEPT ![Main] = l],
         \A u \in Threads : u # Main => op'[u] = op[u],
         waiting' \subseteq waiting,
         UNCHANGED ready_jobs_cache \/ (pc[Main] = "cached" /\ l = "cached"),
         l \in {"main", "setready"} =>
           pc[Main] \in {"main", "setready"} \/ waiting' # Workers,
         l \notin {"lock", "pickedlocked"},
         \/ Lockless
         \/ /\ mutex' = mutex
            /\ l \notin {"pickedlocked", "cached", "stop"} \/ l = pc[Main]
         \/ /\ mutex = Null /\ mutex' = Main
         \/ /\ mutex = Main /\ mutex' = Null
            /\ l \notin {"pickedlocked", "cached", "stop"},
         shutdown => shutdown',
         l \in {"stop", "join"} => shutdown', l = "join" => waiting' = {}
  PROVE  SleepInv'
<1>0. Main \in Threads /\ Main \notin Workers /\ Workers \subseteq Threads
  BY WorkerPoolAssumption
<1>1. Locked'
  BY <1>0, LockedStep DEF SleepInv
<1>2. Main \notin waiting'
  BY <1>0 DEF TypeOK
<1>3. Asleep'
  BY <1>0, <1>2, AsleepStep DEF SleepInv
<1>4. pc'[Main] = l /\ \A u \in Threads : u # Main => pc'[u] = pc[u]
  BY <1>0 DEF TypeOK
<1>5. LastAwake'
  <2> SUFFICES ASSUME NEW w \in Workers, pc'[w] = "pickedlocked",
                      Workers \ {w} \subseteq waiting'
               PROVE  /\ op'[w].pc = "scan" =>
                           \A i \in 0 .. op'[w].i - 1 :
                             ready_jobs_cache'[i] = Null
                      /\ op'[w].pc = "ret" /\ op'[w].job = Null => Empty'
    BY DEF LastAwake
  <2>1. pc[w] = "pickedlocked" /\ op'[w] = op[w] /\ w # Main /\ w \in Threads
    BY <1>0, <1>4
  <2>2. ~Lockless
    BY <2>1 DEF SleepInv, Asleep
  <2>3. pc[Main] # "cached"
    BY <1>0, <2>1, <2>2 DEF SleepInv, Locked
  <2>4. ready_jobs_cache' = ready_jobs_cache
    BY <2>3
  <2> QED
    BY <2>1, <2>4 DEF SleepInv, LastAwake, Empty
<1>6. AllAsleep'
  <2> SUFFICES ASSUME waiting' = Workers, l \in {"main", "setready"}
               PROVE  Empty'
    BY <1>4 DEF AllAsleep
  <2>1. waiting = Workers /\ pc[Main] \in {"main", "setready"}
    BY DEF TypeOK
  <2>2. ready_jobs_cache' = ready_jobs_cache
    OBVIOUS
  <2> QED
    BY <2>1, <2>2 DEF SleepInv, AllAsleep, Empty
<1> QED
  BY <1>1, <1>3, <1>5, <1>6 DEF SleepInv

\* A step of a call changes the call of one thread that is awake.
LEMMA CallFrame ==
  ASSUME IndInv, NEW t \in Threads, CacheCall(t)
  PROVE  /\ op[t].pc # "ret" /\ UNCHANGED poolVars
         /\ \A u \in Threads : u # t => op'[u] = op[u]
<1>1. op \in [Threads -> Ops]
  BY ThreadFacts
<1>2. UNCHANGED poolVars
  BY DEF CacheCall
<1>3. ASSUME NEW u \in Threads, u # t, NEW o, op' = [op EXCEPT ![t] = o]
      PROVE  op'[u] = op[u]
  BY <1>1, <1>3
<1>4. ASSUME NEW u \in Threads, u # t, NEW l,
             Step(t, l) \/ Return(t, l) \/ \E i : StepTo(t, l, i)
      PROVE  op'[u] = op[u]
  BY <1>1, <1>4 DEF Step, StepTo, Return
<1>5. ASSUME CacheStep(t), NEW u \in Threads, u # t
      PROVE  op[t].pc # "ret" /\ op'[u] = op[u]
  <2>1. CASE PopStart(t)
    BY <1>4, <1>5, <2>1 DEF PopStart
  <2>2. CASE PopScan(t)
    BY <1>1, <1>4, <1>5, <2>2 DEF PopScan
  <2>3. CASE PopCount(t)
    BY <1>4, <1>5, <2>3 DEF PopCount
  <2>4. CASE Push(t)
    BY <1>4, <1>5, <2>4 DEF Push
  <2>5. CASE PushCount(t)
    BY <1>4, <1>5, <2>5 DEF PushCount
  <2>6. CASE ReorganizeTick(t)
    BY <1>4, <1>5, <2>6 DEF ReorganizeTick
  <2>7. CASE ReorganizeStart(t)
    BY <1>1, <1>4, <1>5, <2>7 DEF ReorganizeStart
  <2>8. CASE ReorganizeTake(t)
    BY <1>1, <1>4, <1>5, <2>8 DEF ReorganizeTake, Descend
  <2>9. CASE ReorganizeCount(t)
    BY <1>4, <1>5, <2>9 DEF ReorganizeCount
  <2>10. CASE ReorganizeNext(t)
    BY <1>1, <1>4, <1>5, <2>10 DEF ReorganizeNext
  <2> QED
    BY <1>5, <2>1, <2>2, <2>3, <2>4, <2>5, <2>6, <2>7, <2>8, <2>9, <2>10
       DEF CacheStep
<1>6. CacheStep(t) => op[t].pc # "ret"
  BY DEF CacheStep, PopStart, PopScan, PopCount, Push, PushCount,
         ReorganizeTick, ReorganizeStart, ReorganizeTake, ReorganizeCount,
         ReorganizeNext
<1> QED
  BY <1>2, <1>5, <1>6 DEF CacheCall

\* The search for a job of the last worker awake.
LEMMA SearchSleep ==
  ASSUME IndInv, SleepInv, NEW w \in Workers, CacheCall(w),
         pc[w] = "pickedlocked", Cardinality(Jobs) <= CacheCheck
  PROVE  SleepInv'
<1>0. /\ w \in Threads /\ w # Main /\ Main \in Threads
      /\ Workers \subseteq Threads /\ Threads = Workers \cup {Main}
  BY WorkerPoolAssumption
<1>1. /\ op[w].pc # "ret" /\ UNCHANGED poolVars
      /\ \A u \in Threads : u # w => op'[u] = op[u]
  BY <1>0, CallFrame
<1>2. /\ op[w] \in Ops /\ op \in [Threads -> Ops] /\ pc \in [Threads -> Labels]
      /\ Fits(w, op[w], pc[w], mine[w]) /\ TypeOK
  BY <1>0, ThreadFacts DEF IndInv
<1>3. /\ pc' = [pc EXCEPT ![w] = pc[w]]
      /\ UNCHANGED <<pc, waiting, mutex, shutdown, setup>>
  BY <1>1, <1>2 DEF poolVars
<1>4. w \notin waiting /\ ~Lockless
  BY <1>0, <1>1 DEF SleepInv, Asleep
<1>5. Locked'
  BY <1>0, <1>2, <1>3, LockedStep DEF SleepInv
<1>6. Asleep'
  BY <1>0, <1>1, <1>2, <1>3, <1>4, AsleepStep DEF SleepInv
<1>7. AllAsleep'
  BY <1>3, <1>4 DEF AllAsleep
<1>8. LastAwake'
  <2> SUFFICES ASSUME Workers \ {w} \subseteq waiting
               PROVE  /\ op'[w].pc = "scan" =>
                           \A i \in 0 .. op'[w].i - 1 :
                             ready_jobs_cache'[i] = Null
                      /\ op'[w].pc = "ret" /\ op'[w].job = Null => Empty'
    BY <1>3, <1>4 DEF LastAwake
  <2>1. op[w].pc \in {"pop", "scan", "popped"}
    BY <1>1, <1>2 DEF Fits, Ops, Calls
  <2>2. CASE PopStart(w) /\ job_count = 0
    <3>1. Uncounted = {}
      <4>1. op[w].pc # "pushed"
        BY <2>1
      <4>2. \A u \in Workers : u # w => op[u].pc = "ret"
        BY DEF SleepInv, Asleep
      <4>3. pc[Main] # "cached"
        BY <1>0, <1>4 DEF SleepInv, Locked
      <4>4. op[Main].pc # "pushed"
        <5>1. Fits(Main, op[Main], pc[Main], mine[Main])
          BY <1>0, ThreadFacts
        <5> QED
          BY <4>3, <5>1 DEF Fits, MainLabels
      <4> QED
        BY <1>0, <4>1, <4>2, <4>4 DEF Uncounted
    <3>2. Cardinality(Present) \in Nat /\ IsFiniteSet(Present)
      BY SurplusRange
    <3>3. Surplus = Cardinality(Present)
      <4>1. Cardinality(Uncounted) = 0
        BY <3>1, FS_EmptySet
      <4>2. Surplus = Cardinality(Present) - 0
        BY <4>1 DEF Surplus
      <4> QED
        BY <3>2, <4>2
    <3>4. Cardinality(Present) = 0
      BY <2>2, <3>2, <3>3 DEF IndInv, Counted, Wrap
    <3>5. Present = {}
      BY <3>2, <3>4, FS_EmptySet
    <3>6. Empty
      BY <1>2, <3>5 DEF Empty, Present, TypeOK, CacheTypeOK
    <3>7. ready_jobs_cache' = ready_jobs_cache /\ op'[w] = [NoCall EXCEPT !.job = Null]
      BY <1>0, <1>2, <2>2 DEF PopStart, Return
    <3>8. [NoCall EXCEPT !.job = Null].pc = "ret"
      BY DEF NoCall
    <3> QED
      BY <3>6, <3>7, <3>8 DEF Empty
  <2>3. CASE PopStart(w) /\ job_count # 0
    <3>1. op'[w].pc = "scan" /\ op'[w].i = 0
      BY <1>0, <1>2, <2>3 DEF PopStart, StepTo, Ops
    <3> QED
      BY <3>1
  <2>4. CASE PopScan(w)
    <3> DEFINE k == op[w].i
    <3>1. /\ op[w].pc = "scan" /\ k \in Entries /\ k \in Nat
          /\ \A i \in 0 .. k - 1 : ready_jobs_cache[i] = Null
      BY <1>2, <2>4 DEF PopScan, Ops, Entries, SleepInv, LastAwake
    <3>2. CASE ready_jobs_cache[k] # Null
      <4>1. op'[w].pc = "popped"
        BY <1>0, <1>2, <2>4, <3>2 DEF PopScan, Ops
      <4> QED
        BY <4>1
    <3>3. CASE ready_jobs_cache[k] = Null /\ k + 1 < CacheCheck
      <4>1. /\ op'[w].pc = "scan" /\ op'[w].i = k + 1
            /\ ready_jobs_cache' = ready_jobs_cache
        BY <1>0, <1>2, <2>4, <3>3 DEF PopScan, StepTo, Ops
      <4> HIDE DEF k
      <4>2. \A i \in 0 .. (k + 1) - 1 : i = k \/ i \in 0 .. k - 1
        BY <3>1
      <4> QED
        BY <3>1, <3>3, <4>1, <4>2
    <3>4. CASE ready_jobs_cache[k] = Null /\ ~(k + 1 < CacheCheck)
      <4>1. /\ op'[w] = [NoCall EXCEPT !.job = Null]
            /\ ready_jobs_cache' = ready_jobs_cache
        BY <1>0, <1>2, <2>4, <3>4 DEF PopScan, Return
      <4>2. [NoCall EXCEPT !.job = Null].pc = "ret"
        BY DEF NoCall
      <4> HIDE DEF k
      <4>3. Empty
        <5> SUFFICES ASSUME NEW i \in Entries, ready_jobs_cache[i] # Null
                     PROVE  FALSE
          BY DEF Empty
        <5>1. i < Cardinality(Jobs) /\ Cardinality(Jobs) \in Nat
          BY FS_CardinalityType, CapacityAssumption DEF IndInv, Room
        <5>2. i \in Nat /\ CacheCheck \in Nat
          BY ReadyCacheAssumption DEF Entries
        <5>3. i < CacheCheck
          BY <5>1, <5>2
        <5>4. i = k \/ i \in 0 .. k - 1
          BY <3>1, <3>4, <5>2, <5>3
        <5> QED
          BY <3>1, <3>4, <5>4
      <4> QED
        BY <4>1, <4>2, <4>3 DEF Empty
    <3> QED
      BY <3>2, <3>3, <3>4
  <2>5. CASE PopCount(w)
    <3>1. op[w].job # Null
      BY <1>2, <2>5, ReadyCacheAssumption DEF PopCount, Fits
    <3>2. op'[w] = [NoCall EXCEPT !.job = op[w].job]
      BY <1>0, <1>2, <2>5 DEF PopCount, Return
    <3>3. /\ [NoCall EXCEPT !.job = op[w].job].pc = "ret"
          /\ [NoCall EXCEPT !.job = op[w].job].job = op[w].job
      BY DEF NoCall
    <3> QED
      BY <3>1, <3>2, <3>3
  <2>6. PopStart(w) \/ PopScan(w) \/ PopCount(w)
    BY <2>1 DEF CacheCall, CacheStep, Push, PushCount, ReorganizeTick,
                ReorganizeStart, ReorganizeTake, ReorganizeCount,
                ReorganizeNext
  <2> QED
    BY <2>2, <2>3, <2>4, <2>5, <2>6
<1> QED
  BY <1>5, <1>6, <1>7, <1>8 DEF SleepInv

\* The other steps of a worker.
LEMMA WorkerStepSleep ==
  ASSUME IndInv, SleepInv, NEW w \in Workers, Cardinality(Jobs) <= CacheCheck,
         WorkerStep(w)
  PROVE  SleepInv'
<1>0. w \in Threads /\ w # Main /\ Workers \subseteq Threads
  BY WorkerPoolAssumption
<1>1. /\ op \in [Threads -> Ops] /\ pc \in [Threads -> Labels] /\ TypeOK
      /\ Fits(w, op[w], pc[w], mine[w])
  BY <1>0, ThreadFacts DEF IndInv
<1>2. /\ w \in waiting => pc[w] = "sleep" /\ op[w].pc = "ret"
      /\ ~Lockless /\ pc[w] \in {"pickedlocked", "cached"} => mutex = w
      /\ Lockless => pc[w] \notin {"lock", "pickedlocked"}
  BY <1>0 DEF SleepInv, Asleep, Locked
<1>3. ASSUME NEW l, pc' = [pc EXCEPT ![w] = l], setup' = setup,
             \A u \in Threads : u # w => op'[u] = op[u],
             waiting' \subseteq waiting, w \notin waiting,
             l \notin {"pickedlocked", "stop"}, Lockless => l # "lock",
             \/ Lockless
             \/ mutex' = mutex /\ (l # "cached" \/ l = pc[w])
             \/ mutex = Null /\ mutex' = w
             \/ mutex = w /\ mutex' = Null /\ l # "cached",
             shutdown' = shutdown
      PROVE  SleepInv'
  BY <1>1, <1>3, WorkerSleep
<1>4. ASSUME NEW u \in Threads, u # w
      PROVE  /\ \A x, y : Call(w, x, y) => op'[u] = op[u]
             /\ \A y : Return(w, y) => op'[u] = op[u]
             /\ \A x : Step(w, x) => op'[u] = op[u]
  BY <1>1, <1>4 DEF Call, Return, Step
<1>5. CASE LoopHead(w)
  <2>1. PICK l \in {"exited", "picked"} : pc' = [pc EXCEPT ![w] = l]
    BY <1>5 DEF LoopHead, Go
  <2>2. /\ \A u \in Threads : u # w => op'[u] = op[u]
        /\ w \notin waiting
        /\ UNCHANGED <<waiting, mutex, shutdown, setup>>
    BY <1>2, <1>4, <1>5 DEF LoopHead, At, env
  <2> QED
    BY <1>3, <2>1, <2>2
<1>6. CASE Picked(w)
  <2>1. PICK l \in {"run", "tick", "lock"} :
          pc' = [pc EXCEPT ![w] = l] /\ (Lockless => l # "lock")
    BY <1>6 DEF Picked, Go
  <2>2. /\ \A u \in Threads : u # w => op'[u] = op[u]
        /\ w \notin waiting
        /\ UNCHANGED <<waiting, mutex, shutdown, setup>>
    BY <1>2, <1>4, <1>6 DEF Picked, At, env
  <2> QED
    BY <1>3, <2>1, <2>2
<1>7. CASE PickLocked(w)
  <2>1. /\ pc' = [pc EXCEPT ![w] = "pickedlocked"]
        /\ mutex = Null /\ mutex' = w /\ UNCHANGED <<waiting, shutdown, setup>>
        /\ pc[w] = "lock" /\ Call(w, "pop", Null)
    BY <1>7 DEF PickLocked, Go, At, env
  <2>2. /\ \A u \in Threads : u # w => op'[u] = op[u]
        /\ w \notin waiting /\ ~Lockless
    BY <1>2, <1>4, <2>1
  <2>3. Locked'
    BY <1>0, <1>1, <2>1, LockedStep DEF SleepInv
  <2>4. Asleep'
    BY <1>0, <1>1, <2>1, <2>2, AsleepStep DEF SleepInv
  <2>5. op'[w].pc = "pop"
    BY <1>0, <1>1, <2>1 DEF Call, NoCall
  <2>6. LastAwake' /\ AllAsleep'
    BY <2>1, <2>2, <2>5 DEF LastAwake, AllAsleep
  <2> QED
    BY <2>3, <2>4, <2>6 DEF SleepInv
<1>8. CASE PickedLocked(w)
  <2>1. /\ pc[w] = "pickedlocked" /\ op[w].pc = "ret" /\ mutex' = Null
        /\ UNCHANGED <<shutdown, setup, ready_jobs_cache>> /\ Return(w, Null)
    BY <1>8 DEF PickedLocked, At, env, arrayVars
  <2>2. /\ \A u \in Threads : u # w => op'[u] = op[u]
        /\ w \notin waiting /\ ~Lockless /\ mutex = w
    BY <1>2, <1>4, <2>1
  <2>3. CASE \E l \in {"run", "exited"} : Go(w, l) /\ UNCHANGED waiting
    BY <1>3, <2>1, <2>2, <2>3 DEF Go
  <2>4. CASE /\ op[w].job = Null /\ ~shutdown
             /\ Go(w, "sleep") /\ waiting' = waiting \cup {w}
    <3>1. pc' = [pc EXCEPT ![w] = "sleep"]
      BY <2>4 DEF Go
    <3>2. Locked'
      BY <1>0, <1>1, <2>1, <2>2, <3>1, LockedStep DEF SleepInv
    <3>3. op'[w].pc = "ret"
      BY <1>0, <1>1, <2>1 DEF Return, NoCall
    <3>4. Asleep'
      BY <1>0, <1>1, <2>1, <2>2, <2>4, <3>1, <3>3, AsleepStep DEF SleepInv
    <3>5. LastAwake'
      <4> SUFFICES ASSUME NEW v \in Workers, pc'[v] = "pickedlocked"
                   PROVE  FALSE
        BY DEF LastAwake
      <4>1. v # w /\ pc[v] = "pickedlocked"
        BY <1>0, <1>1, <3>1
      <4> QED
        BY <1>0, <2>2, <4>1 DEF SleepInv, Locked
    <3>6. AllAsleep'
      <4> SUFFICES ASSUME waiting' = Workers PROVE Empty'
        BY DEF AllAsleep
      <4>1. Workers \ {w} \subseteq waiting
        BY <2>4
      <4>2. Empty
        BY <2>1, <2>4, <4>1 DEF SleepInv, LastAwake
      <4> QED
        BY <2>1, <4>2 DEF Empty
    <3> QED
      BY <3>2, <3>4, <3>5, <3>6 DEF SleepInv
  <2> QED
    BY <1>8, <2>3, <2>4 DEF PickedLocked
<1>9. CASE Wake(w) \/ Ticked(w)
  <2>1. PICK l \in {"tick", "head"} : pc' = [pc EXCEPT ![w] = l]
    BY <1>9 DEF Wake, Ticked, Go
  <2>2. w \notin waiting /\ UNCHANGED <<waiting, mutex, shutdown, setup, op>>
    BY <1>2, <1>9 DEF Wake, Ticked, At, env, cacheVars
  <2> QED
    BY <1>3, <2>1, <2>2
<1>10. CASE Run(w)
  <2>1. PICK l \in {"setready", "tick"} : pc' = [pc EXCEPT ![w] = l]
    BY <1>10 DEF Run, Go
  <2>2. w \notin waiting /\ UNCHANGED <<waiting, mutex, shutdown, setup, op>>
    BY <1>2, <1>10 DEF Run, At, env, cacheVars
  <2> QED
    BY <1>3, <2>1, <2>2
<1>11. CASE CallTick(w)
  <2>1. PICK l \in {"ticked"} :
          pc' = [pc EXCEPT ![w] = l]
    BY <1>11 DEF CallTick, Go
  <2>2. /\ \A u \in Threads : u # w => op'[u] = op[u]
        /\ w \notin waiting
        /\ UNCHANGED <<waiting, mutex, shutdown, setup>>
    BY <1>2, <1>4, <1>11 DEF CallTick, At, env
  <2> QED
    BY <1>3, <2>1, <2>2
<1>12. CASE WakeJobWaiter(w)
  <2>1. /\ pc' = [pc EXCEPT ![w] = pc[w]] /\ op[w].pc = "moved"
        /\ pc[w] = "ticked"
    BY <1>0, <1>1, <1>12 DEF WakeJobWaiter, Fits
  <2>2. /\ \A u \in Threads : u # w => op'[u] = op[u]
        /\ w \notin waiting
        /\ UNCHANGED <<mutex, shutdown, setup>>
        /\ waiting' \subseteq waiting
    BY <1>2, <1>4, <1>12, <2>1 DEF WakeJobWaiter, Signal, env
  <2> QED
    BY <1>3, <2>1, <2>2
<1>13. CASE SetReady(w)
  <2>1. PICK l \in {"cached"} :
          pc' = [pc EXCEPT ![w] = l]
    BY <1>13 DEF SetReady, Go
  <2>2. /\ \A u \in Threads : u # w => op'[u] = op[u]
        /\ w \notin waiting
        /\ UNCHANGED <<waiting, shutdown, setup>>
        /\ Lockless \/ (mutex = Null /\ mutex' = w)
    BY <1>2, <1>4, <1>13 DEF SetReady, At, env
  <2> QED
    BY <1>3, <2>1, <2>2
<1>14. CASE Cached(w)
  <2>1. PICK l \in {"tick"} :
          pc' = [pc EXCEPT ![w] = l]
    BY <1>0, <1>14 DEF Cached, Go
  <2>2. /\ \A u \in Threads : u # w => op'[u] = op[u]
        /\ w \notin waiting /\ waiting' \subseteq waiting
        /\ UNCHANGED <<shutdown, setup>>
        /\ Lockless \/ (mutex = w /\ mutex' = Null)
    BY <1>2, <1>4, <1>14 DEF Cached, At, Signal, env
  <2> QED
    BY <1>3, <2>1, <2>2
<1>15. CASE CacheCall(w)
  <2>1. /\ op[w].pc # "ret" /\ UNCHANGED poolVars
        /\ \A u \in Threads : u # w => op'[u] = op[u]
    BY <1>0, <1>15, CallFrame
  <2>2. /\ pc' = [pc EXCEPT ![w] = pc[w]] /\ w \notin waiting
        /\ UNCHANGED <<waiting, mutex, shutdown, setup>>
        /\ pc[w] # "stop" /\ (Lockless => pc[w] # "lock")
    BY <1>0, <1>1, <1>2, <2>1 DEF poolVars, Fits, WorkerLabels
  <2>3. CASE pc[w] = "pickedlocked"
    BY <1>15, <2>3, SearchSleep
  <2>4. CASE pc[w] # "pickedlocked"
    BY <1>3, <2>1, <2>2, <2>4
  <2> QED
    BY <2>3, <2>4
<1> QED
  BY <1>5, <1>6, <1>7, <1>8, <1>9, <1>10, <1>11, <1>12, <1>13, <1>14, <1>15
     DEF WorkerStep

\* The steps of main().
LEMMA MainStepSleep ==
  ASSUME IndInv, SleepInv, Workers # {}, MainStep
  PROVE  SleepInv'
<1>0. Main \in Threads /\ Main \notin Workers /\ Workers \subseteq Threads
  BY WorkerPoolAssumption
<1>1. /\ op \in [Threads -> Ops] /\ pc \in [Threads -> Labels] /\ TypeOK
      /\ Fits(Main, op[Main], pc[Main], mine[Main])
  BY <1>0, ThreadFacts DEF IndInv
<1>2. /\ ~Lockless /\ pc[Main] \in {"stop", "cached"} => mutex = Main
      /\ Lockless => waiting = {}
      /\ pc[Main] \in {"stop", "join"} => shutdown
  BY <1>0 DEF SleepInv, Asleep, Locked
<1>3. ASSUME NEW w \in Workers, CreateWorker(w) PROVE SleepInv'
  <2>1. PICK l \in {"head"} :
          /\ pc' = [pc EXCEPT ![w] = l] /\ w \notin waiting
          /\ UNCHANGED <<waiting, mutex, shutdown, setup, op>>
    BY <1>0, <1>3 DEF CreateWorker, Go, env, cacheVars, SleepInv, Asleep
  <2> QED
    BY <1>1, <2>1, WorkerSleep
<1>4. CASE LaunchJob
  <2>1. PICK l \in {"setready"} :
          /\ pc' = [pc EXCEPT ![Main] = l] /\ pc[Main] = "main"
          /\ UNCHANGED <<waiting, mutex, shutdown, setup, op, ready_jobs_cache>>
    BY <1>4 DEF LaunchJob, Go, At, env, cacheVars
  <2> QED
    BY <1>1, <2>1, MainSleep
<1>5. CASE SetReady(Main)
  <2>1. PICK l \in {"cached"} :
          /\ pc' = [pc EXCEPT ![Main] = l]
          /\ UNCHANGED <<waiting, shutdown, setup, ready_jobs_cache>>
          /\ Lockless \/ (mutex = Null /\ mutex' = Main)
          /\ Call(Main, "push", mine[Main])
    BY <1>5 DEF SetReady, Go, At, env, arrayVars
  <2>2. \A u \in Threads : u # Main => op'[u] = op[u]
    BY <1>1, <2>1 DEF Call
  <2> QED
    BY <1>1, <2>1, <2>2, MainSleep
<1>6. CASE Cached(Main)
  <2>1. PICK l \in {"main"} :
          /\ pc' = [pc EXCEPT ![Main] = l] /\ pc[Main] = "cached"
          /\ op[Main].pc = "ret" /\ UNCHANGED <<shutdown, setup, ready_jobs_cache>>
          /\ Return(Main, Null)
    BY <1>6 DEF Cached, Go, At, env, arrayVars
  <2>2. \A u \in Threads : u # Main => op'[u] = op[u]
    BY <1>1, <2>1 DEF Return
  <2>3. op[Main].job = Null
    BY <1>1, <2>1 DEF Fits, Picking
  <2>4. /\ Lockless \/ (mutex = Main /\ mutex' = Null)
        /\ waiting' \subseteq waiting
    BY <1>2, <1>6, <2>1, <2>3 DEF Cached, Signal
  <2>5. waiting' # Workers
    BY <1>1, <1>2, <1>6, <2>3 DEF Cached, Signal, TypeOK
  <2> QED
    BY <1>1, <2>1, <2>2, <2>4, <2>5, MainSleep
<1>7. CASE CacheCall(Main)
  <2>1. /\ op[Main].pc # "ret" /\ UNCHANGED poolVars
        /\ \A u \in Threads : u # Main => op'[u] = op[u]
    BY <1>0, <1>7, CallFrame
  <2>2. op[Main].pc \in {"push", "pushed"} /\ pc[Main] = "cached"
    BY <1>0, <1>1, <2>1 DEF Fits, MainLabels, Picking, Ops, Calls
  <2>3. PICK l \in {"cached"} :
          /\ pc' = [pc EXCEPT ![Main] = l]
          /\ UNCHANGED <<waiting, mutex, shutdown, setup>>
    BY <1>1, <2>1, <2>2 DEF poolVars
  <2> QED
    BY <1>1, <2>1, <2>2, <2>3, MainSleep
<1>8. CASE StopWorkers
  <2>1. PICK l \in {"stop"} :
          /\ pc' = [pc EXCEPT ![Main] = l] /\ shutdown'
          /\ UNCHANGED <<waiting, setup, op, ready_jobs_cache>>
          /\ Lockless \/ (mutex = Null /\ mutex' = Main)
    BY <1>8 DEF StopWorkers, Go, env, cacheVars
  <2> QED
    BY <1>1, <2>1, MainSleep
<1>9. CASE WakeAllWorkers
  <2>1. PICK l \in {"join"} :
          /\ pc' = [pc EXCEPT ![Main] = l] /\ pc[Main] = "stop"
          /\ UNCHANGED <<shutdown, setup, op, ready_jobs_cache>>
          /\ waiting' = {}
          /\ Lockless \/ (mutex = Main /\ mutex' = Null)
    BY <1>2, <1>9 DEF WakeAllWorkers, Go, At, env, cacheVars
  <2> QED
    BY <1>1, <1>2, <2>1, MainSleep
<1>10. CASE Join
  <2>1. PICK l \in {"joined"} :
          /\ pc' = [pc EXCEPT ![Main] = l]
          /\ UNCHANGED <<waiting, mutex, shutdown, setup, op, ready_jobs_cache>>
    BY <1>10 DEF Join, Go, env, cacheVars
  <2> QED
    BY <1>1, <2>1, MainSleep
<1> QED
  BY <1>3, <1>4, <1>5, <1>6, <1>7, <1>8, <1>9, <1>10 DEF MainStep

\* Every step keeps the invariant of the sleep.
LEMMA NextSleep ==
  ASSUME IndInv, SleepInv, Workers # {}, Cardinality(Jobs) <= CacheCheck,
         [Next]_vars
  PROVE  SleepInv'
<1>1. CASE MainStep
  BY <1>1, MainStepSleep
<1>2. ASSUME NEW w \in Workers, WorkerStep(w) PROVE SleepInv'
  BY <1>2, WorkerStepSleep
<1>3. ASSUME NEW w \in Workers, SpuriousWakeup(w) PROVE SleepInv'
  <2>1. /\ pc \in [Threads -> Labels] /\ TypeOK /\ w \in Threads
    BY WorkerPoolAssumption DEF IndInv, TypeOK
  <2>2. /\ pc' = [pc EXCEPT ![w] = pc[w]] /\ pc[w] = "sleep"
        /\ waiting' \subseteq waiting /\ w \notin waiting'
        /\ UNCHANGED <<mutex, shutdown, setup, op>>
    BY <1>3, <2>1 DEF SpuriousWakeup, cacheVars, SleepInv, Asleep
  <2> QED
    BY <2>1, <2>2, WorkerSleep
<1>4. CASE UNCHANGED vars
  BY <1>4 DEF vars, cacheVars, poolVars, SleepInv, Locked, Asleep, LastAwake,
              AllAsleep, Empty, Lockless
<1> QED
  BY <1>1, <1>2, <1>3, <1>4 DEF Next

\* It holds in the initial states, where nobody sleeps.
LEMMA InitSleep == Init => SleepInv
<1> SUFFICES ASSUME Init PROVE SleepInv
  OBVIOUS
<1>1. /\ \A t \in Threads : pc[t] \in {"main", "new"}
      /\ waiting = {} /\ Empty /\ Main \in Threads /\ pc[Main] = "main"
      /\ Workers \subseteq Threads
  BY WorkerPoolAssumption DEF Init, CacheInit, Empty
<1> QED
  BY <1>1 DEF SleepInv, Locked, Asleep, LastAwake, AllAsleep

\* As long as there are no more jobs than a pop looks at, and there is a
\* worker, the workers never all sleep while there is a job in the cache and
\* nobody is about to wake one: the last worker looks at the cache once more
\* with the mutex, and every job comes into the cache with the mutex.
THEOREM JobsAreNotStranded ==
  Workers # {} /\ Cardinality(Jobs) <= CacheCheck => (Spec => []NoJobStranded)
<1> SUFFICES ASSUME Workers # {}, Cardinality(Jobs) <= CacheCheck
             PROVE  Spec => []NoJobStranded
  OBVIOUS
<1>1. Init => IndInv /\ SleepInv
  BY InitKeeps, InitSleep
<1>2. IndInv /\ SleepInv /\ [Next]_vars => IndInv' /\ SleepInv'
  BY NextKeeps, NextSleep
<1>3. SleepInv => NoJobStranded
  BY DEF SleepInv, AllAsleep, Asleep, Empty, NoJobStranded, CachedJobs
<1> QED
  BY <1>1, <1>2, <1>3, PTL DEF Spec
=============================================================================
