--------------------------- MODULE JobLifeProofs ---------------------------
(***************************************************************************)
(* For any number of workers, slots and leaves, and for every program in   *)
(* which main() uses each job once and a parent requires all its leaves    *)
(* before it sets one of them ready: no slot is torn down twice, no worker *)
(* runs a job that was destroyed, and a job from the ready cache is        *)
(* runnable.                                                               *)
(*                                                                         *)
(* IndInv says that a job is in one place: free, cached, queued for its    *)
(* destruction, suspended, or in the hands of one thread (Exclusive); that *)
(* its marks are those of the stage it is in there (Staged); and, for a    *)
(* parent, that the leaves it has been told about and those that have yet  *)
(* to tell are no more than it has created (Counts), so that the count     *)
(* reaches the threshold once, and a suspended parent is put into the      *)
(* ready cache once (Resumes).                                             *)
(* An action moves one job (MoveStep) or none (StayStep); there is one     *)
(* lemma per action.                                                       *)
(*                                                                         *)
(* The access count of a live job is the number of threads that access it  *)
(* as long as no slot is given to a new job while a leaf still accesses    *)
(* its destroyed parent there (ReusedWhileAccessed); AccessInv adds to     *)
(* this that a job which is UNSTABLE has no accesses (Untouched).          *)
(***************************************************************************)
EXTENDS JobLife, FiniteSetTheorems, TLAPS

-----------------------------------------------------------------------------
(* Types. *)

Sub == {"setready", "cache", "read", "cas"}
MaybeJob == Slots \cup {NoJob}
Infos == [kind : {"none", "leaf", "parent"}, phase : Nat, required : Nat,
          requested : MaybeJob, requested_gen : Nat, indicator : BOOLEAN]
ThreadStates ==
  [pc : Labels, job : MaybeJob, pop_gen : Nat, tgt : MaybeJob,
   back : {"", "script", "check", "told", "queue"}, req : Nat, delta : {0, 1},
   flag : {{}, {"READYBASIC"}}, k : Nat, made : Seq(Slots), n : Nat,
   script : MainScripts \cup {<<>>}]

Types ==
  /\ meta \in [Slots -> Word] /\ gen \in [Slots -> Nat]
  /\ info \in [Slots -> Infos] /\ free \subseteq Slots
  /\ cache \in [Slots -> Nat] /\ dq \in Seq(Slots)
  /\ th \in [Threads -> ThreadStates] /\ done \in [Slots -> Nat]

-----------------------------------------------------------------------------
(* Who has a job in its hands: as the job it works on, as the target of a  *)
(* call, or among those it created and has yet to use.                     *)

Running(x) == x.pc \in {"script", "publish"} \/ (x.pc \in Sub /\ x.back = "script")
AtJob(x) ==
  \/ x.pc \in {"access", "unready", "unbasic", "execute", "unaccess", "again",
               "finish", "tell", "compare", "told", "wlldestroy"}
  \/ Running(x)
  \/ x.pc \in Sub /\ x.back = "told"
AtTarget(x) ==
  \/ x.pc \in {"publish", "setready", "cache", "destroy", "teardown", "clear",
               "release"}
  \/ x.pc \in {"read", "cas"} /\ x.back = "check"

JobOf(t, x) ==
  IF (IF t = Main THEN x.pc = "wlldestroy" ELSE AtJob(x)) THEN x.job ELSE NoJob
TargetOf(x) == IF AtTarget(x) THEN x.tgt ELSE NoJob
Pending(t, x) ==
  IF t = Main
  THEN {i \in 1 .. Len(x.made) :
          \E k \in x.k .. Len(x.script) : Uses(x.script, k) /\ x.script[k].i = i}
  ELSE {i \in 1 .. Len(x.made) : Running(x) /\ x.k <= Leaves + 1 + i}

Fields == Int
Held(t, x, f) ==
  IF f = 0 THEN JobOf(t, x) ELSE IF f = -1 THEN TargetOf(x)
  ELSE IF f \in Pending(t, x) THEN x.made[f] ELSE NoJob

Cached == {s \in Slots : cache[s] > 0}
Queued == {s \in Slots : \E k \in 1 .. Len(dq) : dq[k] = s}
Suspended ==
  {s \in Slots : "READYBASIC" \in meta[s].flags /\ ~(Derived \subseteq meta[s].flags)}

\* A job is in one place.
HandsApart ==
  \A t, u \in Threads : \A f, g \in Fields :
    Held(t, th[t], f) # NoJob /\ Held(t, th[t], f) = Held(u, th[u], g)
      => t = u /\ f = g
HandsOutside ==
  \A t \in Threads : \A f \in Fields :
    Held(t, th[t], f) \notin free \cup Cached \cup Queued \cup Suspended
PlacesApart ==
  /\ free \cap (Cached \cup Queued \cup Suspended) = {}
  /\ Cached \cap (Queued \cup Suspended) = {}
  /\ Queued \cap Suspended = {}
OnePlace ==
  /\ \A s \in Slots : cache[s] <= 1
  /\ \A k, l \in 1 .. Len(dq) : dq[k] = dq[l] => k = l
Exclusive == HandsApart /\ HandsOutside /\ PlacesApart /\ OnePlace

-----------------------------------------------------------------------------
(* The marks of a job in each stage of its life. *)

Marks == Flag \ Derived
Marked(stage, F) ==
  CASE stage = "bare"    -> F \cap Marks = {"ALIVE"}
    [] stage = "ready"   -> \/ F \cap Marks = {"ALIVE", "READY"}
                            \/ F \cap Marks = {"ALIVE", "READY", "READYBASIC"}
    [] stage = "unready" -> \/ F \cap Marks = {"ALIVE"}
                            \/ F \cap Marks = {"ALIVE", "READYBASIC"}
    [] stage = "again"   -> F \cap Marks = {"ALIVE", "READYBASIC"}
    [] stage = "runs"    -> F \cap Marks = {"ALIVE", "EXECUTING"}
    [] stage = "doomed"  -> F \cap Marks = {"ALIVE", "WLLDESTROY"}
    [] stage = "queued"  -> F \cap Marks = {"ALIVE", "WLLDESTROY", "UNSTABLE"}
    [] stage = "down"    -> "WLLDESTROY" \in F
    [] OTHER             -> TRUE

JobStage(x) ==
  IF x.pc \in {"access", "unready"} THEN "ready"
  ELSE IF x.pc = "unbasic" THEN "unready"
  ELSE IF \/ x.pc \in {"execute", "tell", "compare", "told", "wlldestroy"}
          \/ x.pc \in Sub /\ x.back = "told" THEN "bare"
  ELSE "runs"
TargetStage(x) ==
  IF x.pc = "setready" THEN (IF x.back = "script" THEN "bare" ELSE "again")
  ELSE IF x.pc = "cache" THEN "ready"
  ELSE IF x.pc \in {"read", "cas"} THEN "bare"
  ELSE IF x.pc = "destroy" THEN (IF x.back = "queue" THEN "queued" ELSE "doomed")
  ELSE IF x.pc \in {"teardown", "clear"} THEN "down"
  ELSE "none"
Stage(x, f) ==
  IF f = 0 THEN JobStage(x) ELSE IF f = -1 THEN TargetStage(x) ELSE "bare"

Staged ==
  /\ \A t \in Threads : \A f \in Fields : Held(t, th[t], f) # NoJob =>
       Marked(Stage(th[t], f), meta[Held(t, th[t], f)].flags)
  /\ \A s \in Cached : Marked("ready", meta[s].flags)
  /\ \A s \in Queued : Marked("queued", meta[s].flags)
  /\ \A s \in Suspended : Marked("again", meta[s].flags)

\* The job that a worker popped is still in its slot.
SameLife ==
  \A w \in Workers :
    /\ JobOf(w, th[w]) # NoJob => gen[th[w].job] = th[w].pop_gen

-----------------------------------------------------------------------------
(* Locals of a thread. *)

MainFits(x) ==
  /\ x.pc \in {"script", "publish", "setready", "cache", "wlldestroy", "destroy",
               "teardown", "clear", "release", "ended"}
  /\ x.pc \in {"setready", "cache", "destroy", "teardown", "clear", "release"} =>
       x.back = "script"
  /\ x.pc = "wlldestroy" => x.job # NoJob
  /\ x.script \in MainScripts
  /\ x.k \in 1 .. Len(x.script) + 1
  /\ Len(x.made) = Created(x.script, x.k)
  /\ x.pc = "publish" => x.k <= Len(x.script) /\ x.script[x.k].op = "create"

Parent(s) == info[s].kind = "parent"

\* The worker comes back from the last run of a job, or from one of many.
Past(x) ==
  \/ x.pc \in {"again", "finish", "tell", "compare", "told", "wlldestroy"}
  \/ x.pc \in Sub /\ x.back = "told"
  \/ x.pc \in {"read", "cas"} /\ x.back = "check"

WorkerFits(x) ==
  /\ x.pc # "ended"
  /\ AtJob(x) => x.job # NoJob
  /\ x.pc \in Sub => x.back \in {"script", "check", "told"}
  /\ x.pc \in {"read", "cas"} =>
       CASE x.back = "script" -> x.tgt = x.job /\ x.delta = 0 /\ x.flag = {}
         [] x.back = "check" -> x.tgt = x.job /\ x.delta = 0 /\ x.flag = {"READYBASIC"}
         [] OTHER -> x.delta = 1 /\ x.flag = {}
  /\ x.pc \in {"destroy", "teardown", "clear", "release"} =>
       x.back \in {"check", "queue"}
  /\ x.pc \in {"access", "unready", "unbasic", "execute", "unaccess"} =>
       x.made = <<>> /\ x.k = 1
  /\ Past(x) /\ Parent(x.job) => info[x.job].phase = 1
  /\ Running(x) =>
       IF Parent(x.job) /\ info[x.job].phase = 0
       THEN /\ x.k \in 1 .. 2 * Leaves + 2
            /\ Len(x.made) = IF x.k <= Leaves THEN x.k - 1 ELSE Leaves
            /\ x.pc = "publish" => x.k <= Leaves
            /\ x.k >= Leaves + 2 => info[x.job].required = Required
       ELSE x.made = <<>> /\ x.k = 1 /\ x.pc = "script"
Fits ==
  /\ MainFits(th[Main]) /\ \A w \in Workers : WorkerFits(th[w])
  /\ \A t \in Threads : AtTarget(th[t]) => th[t].tgt # NoJob

-----------------------------------------------------------------------------
(* Parents and their leaves. *)

\* s is a leaf of the job in slot p that is not being destroyed.
LeafOf(s, p) ==
  /\ info[s].requested = p /\ info[s].requested_gen = gen[p]
  /\ "ALIVE" \in meta[s].flags /\ "WLLDESTROY" \notin meta[s].flags
\* Its worker is telling the parent, or through with that.
TellsNow(x) ==
  x.pc \in {"tell", "compare"} \/ (x.pc \in {"read", "cas"} /\ x.back = "told")
HasTold(x) ==
  \/ x.pc \in {"told", "wlldestroy"}
  \/ x.pc \in {"setready", "cache"} /\ x.back = "told"
Told(s) == \E t \in Threads : th[t].job = s /\ HasTold(th[t])
Untold(p) == {s \in Slots : LeafOf(s, p) /\ ~Told(s)}
Telling(p) ==
  {s \in Slots : LeafOf(s, p) /\ \E w \in Workers : th[w].job = s /\ TellsNow(th[w])}

\* Whose slot is between two jobs.
RestsAt(x) == x.pc \in {"clear", "release", "publish"}
Resting(p) == p \in free \/ \E t \in Threads : th[t].tgt = p /\ RestsAt(th[t])

LeavesFit ==
  \A s \in Slots : info[s].requested # NoJob =>
    LET p == info[s].requested IN
    /\ info[s].requested_gen <= gen[p]
    /\ LeafOf(s, p) =>
         /\ Parent(p) /\ ~Resting(p)
         /\ \/ info[p].required = Required
            \/ \E w \in Workers : /\ JobOf(w, th[w]) = p
                                  /\ \E i \in Pending(w, th[w]) : th[w].made[i] = s

TellerFits(x) ==
  LET p == info[x.job].requested IN
  /\ TellsNow(x) \/ (HasTold(x) /\ x.pc # "wlldestroy") => p # NoJob
  /\ x.pc = "told" \/ (x.pc \in Sub /\ x.back = "told") => x.tgt = p
  /\ x.pc \in {"read", "cas"} /\ x.back = "told" => LeafOf(x.job, p)
  /\ x.pc = "cas" /\ x.back = "told" => x.req = Required
  /\ x.pc = "cas" /\ x.back = "check" /\ Parent(x.job) => x.req = Required
TellersFit == \A w \in Workers : TellerFits(th[w])

Bound(p, n) == meta[p].avjobs + Cardinality(Untold(p)) <= n
\* Leaves told are leaves created.
CountsOf(p) ==
  /\ info[p].phase \in {0, 1}
  /\ Bound(p, Leaves)
  /\ info[p].phase = 0 =>
       /\ \A w \in Workers : JobOf(w, th[w]) = p => Bound(p, Len(th[w].made))
       /\ (\A w \in Workers : JobOf(w, th[w]) # p) => Bound(p, 0)
  /\ meta[p].avjobs + Cardinality(Telling(p)) <= done[p]
Counts == \A p \in Slots : Parent(p) => CountsOf(p)

\* A parent that has run once goes on only when all leaves have told it.
WaitsAt(x) ==
  x.pc = "again" \/ (x.pc \in {"read", "cas"} /\ x.back = "check")
Waits(p) ==
  p \in Suspended \/ \E w \in Workers : th[w].job = p /\ WaitsAt(th[w])
ResumesOf(p) ==
  /\ info[p].phase = 1 =>
       /\ Resting(p) \/ info[p].required = Required
       /\ Resting(p) \/ Waits(p) \/ meta[p].avjobs >= Leaves
  /\ {"READYBASIC", "READYJOB"} \subseteq meta[p].flags => meta[p].avjobs >= Leaves
Resumes == \A p \in Slots : Parent(p) => ResumesOf(p)

IndInv ==
  /\ Types /\ Exclusive /\ Staged /\ SameLife /\ Fits
  /\ LeavesFit /\ TellersFit /\ Counts /\ Resumes

-----------------------------------------------------------------------------
(* A step moves at most one job. *)

\* What thread t has in its hands as x: its job, its target or the jobs it
\* has created are the ones it has as y, in the same stage, except for job s.
KeepsHands(t, x, y, s) ==
  /\ \/ JobOf(t, y) \in {NoJob, s}
     \/ JobOf(t, y) = JobOf(t, x) /\ JobStage(y) = JobStage(x)
  /\ \/ TargetOf(y) \in {NoJob, s}
     \/ TargetOf(y) = TargetOf(x) /\ TargetStage(y) = TargetStage(x)
  /\ \A i \in Pending(t, y) :
       \/ y.made[i] = s
       \/ i \in Pending(t, x) /\ y.made[i] = x.made[i]

\* It has s in at most one place.
HasOnce(t, y, s) ==
  /\ JobOf(t, y) = s => TargetOf(y) # s /\ \A i \in Pending(t, y) : y.made[i] # s
  /\ TargetOf(y) = s => \A i \in Pending(t, y) : y.made[i] # s
  /\ \A i, k \in Pending(t, y) : y.made[i] = s /\ y.made[k] = s => i = k

\* It has s in no place.
HasNot(t, y, s) ==
  JobOf(t, y) # s /\ TargetOf(y) # s /\ \A i \in Pending(t, y) : y.made[i] # s
Has(t, x, s) ==
  JobOf(t, x) = s \/ TargetOf(x) = s \/ \E i \in Pending(t, x) : x.made[i] = s

\* The stages in which it has s.
HasStaged(t, y, s, F) ==
  /\ JobOf(t, y) = s => Marked(JobStage(y), F)
  /\ TargetOf(y) = s => Marked(TargetStage(y), F)
  /\ (\E i \in Pending(t, y) : y.made[i] = s) => Marked("bare", F)

\* The indices of the jobs a thread has created.
LEMMA PendingIndex ==
  ASSUME NEW t, NEW x, NEW i \in Pending(t, x)
  PROVE  i \in Int /\ i # 0 /\ i # -1 /\ i \in 1 .. Len(x.made)
BY DEF Pending

\* What a thread holds it has.
LEMMA HeldIs ==
  ASSUME NEW t, NEW x, NEW s, s # NoJob
  PROVE  /\ Has(t, x, s) <=> \E f \in Fields : Held(t, x, f) = s
         /\ HasNot(t, x, s) <=> \A f \in Fields : Held(t, x, f) # s
         /\ HasOnce(t, x, s) <=>
              \A f, g \in Fields : Held(t, x, f) = s /\ Held(t, x, g) = s => f = g
         /\ \A F : HasStaged(t, x, s, F) <=>
              \A f \in Fields : Held(t, x, f) = s => Marked(Stage(x, f), F)
<1>1. /\ 0 \in Fields /\ -1 \in Fields /\ 0 # -1
      /\ \A i \in Pending(t, x) : i \in Fields /\ i # 0 /\ i # -1
  BY PendingIndex DEF Fields
<1>2. /\ Held(t, x, 0) = JobOf(t, x) /\ Held(t, x, -1) = TargetOf(x)
      /\ \A i \in Pending(t, x) : Held(t, x, i) = x.made[i]
      /\ \A f \in Fields : f # 0 /\ f # -1 /\ f \notin Pending(t, x) =>
           Held(t, x, f) = NoJob
  BY <1>1 DEF Held
<1>3. /\ Stage(x, 0) = JobStage(x) /\ Stage(x, -1) = TargetStage(x)
      /\ \A i \in Pending(t, x) : Stage(x, i) = "bare"
  BY <1>1 DEF Stage
<1>4. Has(t, x, s) <=> \E f \in Fields : Held(t, x, f) = s
  BY <1>1, <1>2 DEF Has
<1>5. HasNot(t, x, s) <=> \A f \in Fields : Held(t, x, f) # s
  BY <1>1, <1>2 DEF HasNot
<1>6. HasOnce(t, x, s) <=>
        \A f, g \in Fields : Held(t, x, f) = s /\ Held(t, x, g) = s => f = g
  BY <1>1, <1>2 DEF HasOnce
<1>7. ASSUME NEW F
      PROVE  HasStaged(t, x, s, F) <=>
               \A f \in Fields : Held(t, x, f) = s => Marked(Stage(x, f), F)
  BY <1>1, <1>2, <1>3 DEF HasStaged
<1> QED
  BY <1>4, <1>5, <1>6, <1>7

\* Hands that keep everything but s.
LEMMA HeldKept ==
  ASSUME NEW t, NEW x, NEW y, NEW s, KeepsHands(t, x, y, s), NEW f \in Fields
  PROVE  \/ Held(t, y, f) \in {NoJob, s}
         \/ Held(t, y, f) = Held(t, x, f) /\ Stage(y, f) = Stage(x, f)
<1>1. CASE f = 0
  BY <1>1 DEF KeepsHands, Held, Stage
<1>2. CASE f = -1
  BY <1>2 DEF KeepsHands, Held, Stage
<1>3. CASE f # 0 /\ f # -1
  BY <1>3 DEF KeepsHands, Held, Stage
<1> QED
  BY <1>1, <1>2, <1>3

\* What a thread holds is a slot.
LEMMA HeldSlot ==
  ASSUME NEW t \in Threads, NEW x \in ThreadStates, NEW f \in Fields,
         Held(t, x, f) # NoJob
  PROVE  Held(t, x, f) \in Slots
<1>1. \A i \in 1 .. Len(x.made) : x.made[i] \in Slots
  <2>1. x.made \in Seq(Slots)
    BY DEF ThreadStates
  <2> QED
    BY <2>1
<1>2. f \in Pending(t, x) => x.made[f] \in Slots
  BY <1>1, PendingIndex
<1>3. x.job \in MaybeJob /\ x.tgt \in MaybeJob
  BY DEF ThreadStates
<1> QED
  BY <1>2, <1>3 DEF Held, JobOf, TargetOf, MaybeJob

\* Where a job is outside of the hands of threads.
Outside(s) == s \in free \/ s \in Cached \/ s \in Queued \/ s \in Suspended

\* Thread t moves job s and no other.
Moves(t, s) ==
  /\ \A u \in Threads \ {t} : th'[u] = th[u]
  /\ \A r \in Slots \ {s} :
       /\ meta'[r].flags = meta[r].flags /\ cache'[r] = cache[r]
       /\ r \in free' <=> r \in free
       /\ r \in Queued' <=> r \in Queued
  /\ KeepsHands(t, th[t], th'[t], s)

\* Job s, which thread t has or which is outside, goes to one place.
LEMMA MoveExclusive ==
  ASSUME NEW t \in Threads, NEW s \in Slots, Types, Types', Exclusive,
         Moves(t, s), Has(t, th[t], s) \/ Outside(s),
         HasOnce(t, th'[t], s), HasNot(t, th'[t], s) \/ ~Outside(s)',
         (s \in free') => ~(s \in Cached \/ s \in Queued \/ s \in Suspended)',
         (s \in Cached') => ~(s \in Queued \/ s \in Suspended)',
         ~(s \in Queued /\ s \in Suspended)', OnePlace',
         NoJob \notin Slots
  PROVE  Exclusive' /\ \A u \in Threads \ {t} : HasNot(u, th[u], s)
<1>1. \A u \in Threads \ {t} : \A f \in Fields : Held(u, th[u], f) # s
  <2> SUFFICES ASSUME NEW u \in Threads \ {t}, NEW f \in Fields, Held(u, th[u], f) = s
               PROVE  FALSE
    OBVIOUS
  <2>1. CASE Outside(s)
    BY <2>1 DEF Outside, Exclusive, HandsOutside
  <2>2. CASE Has(t, th[t], s)
    <3>1. PICK g \in Fields : Held(t, th[t], g) = s
      BY <2>2, HeldIs
    <3> QED
      BY <3>1 DEF Exclusive, HandsApart
  <2> QED
    BY <2>1, <2>2
<1>2. \A f, g \in Fields : Held(t, th'[t], f) = s /\ Held(t, th'[t], g) = s => f = g
  BY HeldIs
<1>3. ~Outside(s)' \/ \A f \in Fields : Held(t, th'[t], f) # s
  BY HeldIs
<1>4. \A f \in Fields : \/ Held(t, th'[t], f) \in {NoJob, s}
                        \/ Held(t, th'[t], f) = Held(t, th[t], f)
  BY HeldKept DEF Moves
<1>5. \A u \in Threads \ {t} : th'[u] = th[u]
  BY DEF Moves
<1>6. \A r \in Slots \ {s} : Outside(r)' <=> Outside(r)
  BY DEF Moves, Outside, Cached, Suspended, Types
<1>7. HandsApart'
  <2> SUFFICES ASSUME NEW u \in Threads, NEW v \in Threads,
                      NEW f \in Fields, NEW g \in Fields,
                      Held(u, th'[u], f) # NoJob,
                      Held(u, th'[u], f) = Held(v, th'[v], g)
               PROVE  u = v /\ f = g
    BY DEF HandsApart
  <2>1. \A p, q \in Threads : \A a, b \in Fields :
          Held(p, th[p], a) # NoJob /\ Held(p, th[p], a) = Held(q, th[q], b)
            => p = q /\ a = b
    BY DEF Exclusive, HandsApart
  <2>2. CASE u = t /\ v = t
    BY <1>2, <1>4, <2>1, <2>2
  <2>3. CASE u = t /\ v # t
    BY <1>1, <1>4, <1>5, <2>1, <2>3
  <2>4. CASE u # t /\ v = t
    BY <1>1, <1>4, <1>5, <2>1, <2>4
  <2>5. CASE u # t /\ v # t
    BY <1>5, <2>1, <2>5
  <2> QED
    BY <2>2, <2>3, <2>4, <2>5
<1>8. HandsOutside'
  <2> SUFFICES ASSUME NEW u \in Threads, NEW f \in Fields, NEW h \in Slots,
                      Outside(h)', h = Held(u, th'[u], f)
               PROVE  FALSE
    BY DEF HandsOutside, Outside, Types, Cached, Queued, Suspended
  <2>1. h \in Slots
    OBVIOUS
  <2>2. \A p \in Threads, a \in Fields : ~Outside(Held(p, th[p], a))
    BY DEF Exclusive, HandsOutside, Outside
  <2>3. h # s
    <3>1. CASE u = t
      BY <1>3, <3>1
    <3>2. CASE u # t
      BY <1>1, <1>5, <3>2
    <3> QED
      BY <3>1, <3>2
  <2>4. h = Held(u, th[u], f)
    <3>1. CASE u = t
      BY <1>4, <2>1, <2>3, <3>1
    <3>2. CASE u # t
      BY <1>5, <3>2
    <3> QED
      BY <3>1, <3>2
  <2>5. Outside(h)
    BY <1>6, <2>1, <2>3
  <2> QED
    BY <2>2, <2>4, <2>5
<1>9. PlacesApart'
  <2>1. /\ free' \subseteq Slots /\ Cached' \subseteq Slots
        /\ Queued' \subseteq Slots /\ Suspended' \subseteq Slots
    BY DEF Types, Cached, Queued, Suspended
  <2>2. \A r \in Slots \ {s} :
          /\ r \in free' <=> r \in free
          /\ r \in Cached' <=> r \in Cached
          /\ r \in Queued' <=> r \in Queued
          /\ r \in Suspended' <=> r \in Suspended
    BY DEF Moves, Cached, Suspended
  <2> QED
    BY <2>1, <2>2 DEF PlacesApart, Exclusive
<1>10. \A u \in Threads \ {t} : HasNot(u, th[u], s)
  BY <1>1, HeldIs
<1> QED
  BY <1>7, <1>8, <1>9, <1>10 DEF Exclusive

\* The marks of all jobs go with the stages after such a move.
LEMMA MoveStaged ==
  ASSUME NEW t \in Threads, NEW s \in Slots, Types, Types', Exclusive, Staged,
         Moves(t, s), \A u \in Threads \ {t} : HasNot(u, th[u], s),
         HasStaged(t, th'[t], s, meta'[s].flags),
         s \in Cached' => Marked("ready", meta'[s].flags),
         s \in Queued' => Marked("queued", meta'[s].flags),
         s \in Suspended' => Marked("again", meta'[s].flags),
         NoJob \notin Slots
  PROVE  Staged'
<1>1. \A u \in Threads \ {t} : \A f \in Fields : Held(u, th[u], f) # s
  BY HeldIs
<1>2. \A f \in Fields : Held(t, th'[t], f) = s =>
        Marked(Stage(th'[t], f), meta'[s].flags)
  <2>1. s # NoJob
    OBVIOUS
  <2>2. PICK y : y = th'[t]
    OBVIOUS
  <2>3. \A F : HasStaged(t, y, s, F) <=>
          \A f \in Fields : Held(t, y, f) = s => Marked(Stage(y, f), F)
    BY <2>1, HeldIs
  <2> QED
    BY <2>2, <2>3
<1>3. \A f \in Fields :
        \/ Held(t, th'[t], f) \in {NoJob, s}
        \/ /\ Held(t, th'[t], f) = Held(t, th[t], f)
           /\ Stage(th'[t], f) = Stage(th[t], f)
  BY HeldKept DEF Moves
<1>4. \A r \in Slots \ {s} :
        meta'[r].flags = meta[r].flags /\ (r \in Cached' <=> r \in Cached)
        /\ (r \in Queued' <=> r \in Queued) /\ (r \in Suspended' <=> r \in Suspended)
  BY DEF Moves, Cached, Suspended
<1>5. \A u \in Threads : \A f \in Fields : Held(u, th[u], f) # NoJob =>
        Marked(Stage(th[u], f), meta[Held(u, th[u], f)].flags)
  BY DEF Staged
<1>6. ASSUME NEW u \in Threads, NEW f \in Fields, Held(u, th'[u], f) # NoJob
      PROVE  Marked(Stage(th'[u], f), meta'[Held(u, th'[u], f)].flags)
  <2> DEFINE h == Held(u, th'[u], f)
  <2>1. h \in Slots
    BY <1>6, HeldSlot DEF Types
  <2>2. CASE h = s
    <3>1. u = t
      BY <1>1, <2>2 DEF Moves
    <3> QED
      BY <1>2, <2>2, <3>1
  <2>3. CASE h # s
    <3>1. h = Held(u, th[u], f) /\ Stage(th'[u], f) = Stage(th[u], f)
      BY <1>3, <1>6, <2>3 DEF Moves
    <3>2. meta'[h].flags = meta[h].flags
      BY <1>4, <2>1, <2>3
    <3> HIDE DEF h
    <3> QED
      BY <1>5, <1>6, <3>1, <3>2 DEF h
  <2> QED
    BY <2>2, <2>3
<1>7. /\ \A r \in Cached' : Marked("ready", meta'[r].flags)
      /\ \A r \in Queued' : Marked("queued", meta'[r].flags)
      /\ \A r \in Suspended' : Marked("again", meta'[r].flags)
  BY <1>4 DEF Staged, Cached, Queued, Suspended
<1> QED
  BY <1>6, <1>7 DEF Staged

\* A stage is told by the marks.
LEMMA MarkedBy ==
  ASSUME NEW F, NEW G, F \cap Marks = G \cap Marks, NEW stage, Marked(stage, F)
  PROVE  Marked(stage, G)
<1>1. "WLLDESTROY" \in F <=> "WLLDESTROY" \in G
  BY DEF Marks, Flag, Derived
<1> QED
  BY <1>1, Zenon DEF Marked

\* A step that moves no job, and changes no marks.
Stays(t) ==
  /\ \A u \in Threads \ {t} : th'[u] = th[u]
  /\ \A r \in Slots : meta'[r].flags \cap Marks = meta[r].flags \cap Marks
  /\ free' = free /\ cache' = cache /\ dq' = dq /\ Suspended' = Suspended
  /\ KeepsHands(t, th[t], th'[t], NoJob)

\* It keeps every job in its place and stage.
LEMMA StayKeeps ==
  ASSUME NEW t \in Threads, Types, Types', Exclusive, Staged, Stays(t)
  PROVE  Exclusive' /\ Staged'
<1>1. \A f \in Fields :
        \/ Held(t, th'[t], f) = NoJob
        \/ /\ Held(t, th'[t], f) = Held(t, th[t], f)
           /\ Stage(th'[t], f) = Stage(th[t], f)
  BY HeldKept DEF Stays
<1>2. \A u \in Threads, f \in Fields :
        \/ Held(u, th'[u], f) = NoJob
        \/ /\ Held(u, th'[u], f) = Held(u, th[u], f)
           /\ Stage(th'[u], f) = Stage(th[u], f)
  BY <1>1 DEF Stays
<1>3. Cached' = Cached /\ Queued' = Queued
  BY DEF Stays, Cached, Queued
<1>4. HandsApart'
  BY <1>2 DEF Exclusive, HandsApart
<1>5. HandsOutside'
  <2>1. \A u \in Threads, f \in Fields : 
          /\ Held(u, th[u], f) \notin free \cup Cached \cup Queued \cup Suspended
          /\ NoJob \notin free \cup Cached \cup Queued \cup Suspended
    BY JobLifeAssumption
    DEF Exclusive, HandsOutside, Types, Cached, Queued, Suspended
  <2> QED
    BY <1>2, <1>3, <2>1 DEF Stays, HandsOutside
<1>6. PlacesApart' /\ OnePlace'
  BY <1>3 DEF Stays, Exclusive, PlacesApart, OnePlace
<1>7. ASSUME NEW u \in Threads, NEW f \in Fields, Held(u, th'[u], f) # NoJob
      PROVE  Marked(Stage(th'[u], f), meta'[Held(u, th'[u], f)].flags)
  <2> DEFINE h == Held(u, th'[u], f)
  <2>1. h \in Slots
    BY <1>7, HeldSlot DEF Types
  <2>2. Held(u, th[u], f) = h /\ Stage(th'[u], f) = Stage(th[u], f)
    BY <1>2, <1>7
  <2>3. Marked(Stage(th'[u], f), meta[h].flags)
    BY <1>7, <2>2 DEF Staged
  <2>4. meta'[h].flags \cap Marks = meta[h].flags \cap Marks
    BY <2>1 DEF Stays
  <2> QED
    BY <2>3, <2>4, MarkedBy
<1>8. ASSUME NEW r \in Cached'
      PROVE  Marked("ready", meta'[r].flags)
  <2>1. Marked("ready", meta[r].flags) /\ r \in Slots
    BY <1>3, <1>8 DEF Staged, Cached
  <2> QED
    BY <2>1, MarkedBy DEF Stays
<1>9. ASSUME NEW r \in Queued'
      PROVE  Marked("queued", meta'[r].flags)
  <2>1. Marked("queued", meta[r].flags) /\ r \in Slots
    BY <1>3, <1>9 DEF Staged, Queued
  <2> QED
    BY <2>1, MarkedBy DEF Stays
<1>10. ASSUME NEW r \in Suspended'
       PROVE  Marked("again", meta'[r].flags)
  <2>1. Marked("again", meta[r].flags) /\ r \in Slots
    BY <1>10 DEF Stays, Staged, Suspended
  <2> QED
    BY <2>1, MarkedBy DEF Stays
<1> QED
  BY <1>4, <1>5, <1>6, <1>7, <1>8, <1>9, <1>10 DEF Exclusive, Staged

-----------------------------------------------------------------------------
(* Steps that change nothing in the counting of leaves. *)

\* The job of worker w, which creates leaves, before and after a step.
JobStep(w, x, y) ==
  \/ /\ JobOf(w, y) = JobOf(w, x) /\ Len(y.made) = Len(x.made)
     /\ \A i \in Pending(w, x) : \/ i \in Pending(w, y) /\ y.made[i] = x.made[i]
                                 \/ info[JobOf(w, x)].required = Required
  \/ /\ JobOf(w, y) = NoJob /\ Pending(w, x) = {}
     /\ JobOf(w, x) # NoJob /\ Parent(x.job) =>
          info[x.job].phase = 1 \/ Len(x.made) = 0
  \/ /\ JobOf(w, x) = NoJob /\ Len(y.made) = 0
     /\ \A v \in Workers : JobOf(v, th[v]) # JobOf(w, y)

\* What the step of a thread with locals x, then y, may do besides.
ThreadStep(t, x, y) ==
  /\ HasTold(x) => \/ HasTold(y) /\ y.job = x.job
                   \/ "WLLDESTROY" \in meta'[x.job].flags
  /\ t \in Workers /\ TellsNow(y) => TellsNow(x) /\ y.job = x.job
  /\ t \in Workers /\ WaitsAt(x) => WaitsAt(y) /\ y.job = x.job
  /\ t \in Workers => JobStep(t, x, y)

\* The word of a slot, as far as leaves go.
WordStep(s) ==
  /\ \/ meta'[s].avjobs = meta[s].avjobs
     \/ /\ meta'[s].avjobs = 0 /\ Resting(s)'
        /\ "READYBASIC" \notin meta'[s].flags
  /\ "ALIVE" \in meta'[s].flags /\ "WLLDESTROY" \notin meta'[s].flags =>
       "ALIVE" \in meta[s].flags /\ "WLLDESTROY" \notin meta[s].flags
  /\ {"READYBASIC", "READYJOB"} \subseteq meta'[s].flags =>
       {"READYBASIC", "READYJOB"} \subseteq meta[s].flags
  /\ s \in Suspended => s \in Suspended'

SameInfo(s) ==
  /\ info'[s].kind = info[s].kind /\ info'[s].phase = info[s].phase
  /\ info'[s].required \in {info[s].required, Required}
  /\ info'[s].requested = info[s].requested
  /\ info'[s].requested_gen = info[s].requested_gen

\* A step after which no job has more leaves than before.
LeafStep(t) ==
  /\ \A u \in Threads \ {t} : th'[u] = th[u]
  /\ gen' = gen
  /\ \A s \in Slots :
       /\ info'[s].kind = info[s].kind
       /\ info'[s].phase \in {info[s].phase, 1} \/ ~Parent(s)
       /\ info'[s].required \in {info[s].required, Required}
       /\ info'[s].requested = info[s].requested
       /\ info'[s].requested_gen = info[s].requested_gen
       /\ "ALIVE" \in meta'[s].flags /\ "WLLDESTROY" \notin meta'[s].flags =>
            "ALIVE" \in meta[s].flags /\ "WLLDESTROY" \notin meta[s].flags
       /\ Resting(s)' <=> Resting(s)
  /\ HasTold(th[t]) => \/ HasTold(th'[t]) /\ th'[t].job = th[t].job
                       \/ "WLLDESTROY" \in meta'[th[t].job].flags
  /\ t \in Workers => JobStep(t, th[t], th'[t])

\* One after which no job goes on, and nothing is told, either.
FamilyStep(t) ==
  /\ \A u \in Threads \ {t} : th'[u] = th[u]
  /\ gen' = gen /\ done' = done
  /\ \A s \in Slots : SameInfo(s) /\ WordStep(s) /\ (Resting(s)' <=> Resting(s))
  /\ ThreadStep(t, th[t], th'[t])

\* The second is a case of the first.
LEMMA FamilyLeaf ==
  ASSUME NEW t \in Threads, FamilyStep(t)
  PROVE  LeafStep(t)
BY DEF FamilyStep, LeafStep, SameInfo, WordStep, ThreadStep

\* Leaves do not get more.
LEMMA LeavesShrink ==
  ASSUME NEW t \in Threads, Types, Types', LeafStep(t)
  PROVE  \A p \in Slots :
           /\ \A s \in Slots : LeafOf(s, p)' => LeafOf(s, p)
           /\ Untold(p)' \subseteq Untold(p)
<1>1. ASSUME NEW p \in Slots, NEW s \in Slots, LeafOf(s, p)'
      PROVE  LeafOf(s, p)
  BY <1>1 DEF LeafStep, LeafOf
<1>2. ASSUME NEW p \in Slots, NEW s \in Slots, LeafOf(s, p)', Told(s)
      PROVE  Told(s)'
  <2>1. PICK u \in Threads : th[u].job = s /\ HasTold(th[u])
    BY <1>2 DEF Told
  <2>2. CASE u = t
    <3>1. HasTold(th'[t]) /\ th'[t].job = s
      BY <1>2, <2>1, <2>2 DEF LeafStep, LeafOf
    <3> QED
      BY <3>1 DEF Told
  <2>3. CASE u # t
    BY <2>1, <2>3 DEF LeafStep, Told
  <2> QED
    BY <2>2, <2>3
<1>3. ASSUME NEW p \in Slots PROVE Untold(p)' \subseteq Untold(p)
  BY <1>1, <1>2 DEF Untold
<1> QED
  BY <1>1, <1>3

\* Nor do those that tell, if no worker begins to tell.
LEMMA TellingShrinks ==
  ASSUME NEW t \in Threads, Types, Types', LeafStep(t), NEW p \in Slots,
         t \in Workers /\ TellsNow(th'[t]) => TellsNow(th[t]) /\ th'[t].job = th[t].job
  PROVE  Telling(p)' \subseteq Telling(p)
<1>1. ASSUME NEW s, NEW w \in Workers, th'[w].job = s, TellsNow(th'[w])
      PROVE  th[w].job = s /\ TellsNow(th[w])
  <2>1. w \in Threads
    BY DEF Threads
  <2> QED
    BY <1>1, <2>1 DEF LeafStep
<1>2. \A s \in Slots : LeafOf(s, p)' => LeafOf(s, p)
  BY LeavesShrink
<1> QED
  BY <1>1, <1>2 DEF Telling

\* The leaves of a parent are finite in number.
LEMMA FiniteLeaves ==
  ASSUME IsFiniteSet(Slots), NEW p
  PROVE  /\ IsFiniteSet(Untold(p)) /\ Cardinality(Untold(p)) \in Nat
         /\ IsFiniteSet(Telling(p)) /\ Cardinality(Telling(p)) \in Nat
<1>1. Untold(p) \subseteq Slots /\ Telling(p) \subseteq Slots
  BY DEF Untold, Telling
<1> QED
  BY <1>1, FS_Subset, FS_CardinalityType

\* A smaller set of leaves has a smaller number.
LEMMA FewerLeaves ==
  ASSUME IsFiniteSet(Slots), NEW S, NEW T, S \subseteq T, T \subseteq Slots
  PROVE  /\ Cardinality(S) \in Nat /\ Cardinality(T) \in Nat
         /\ Cardinality(S) <= Cardinality(T)
<1>1. IsFiniteSet(T) /\ IsFiniteSet(S)
  BY FS_Subset
<1> QED
  BY <1>1, FS_Subset, FS_CardinalityType

\* The leaves have a parent after such a step.
LEMMA LeavesFitKept ==
  ASSUME NEW t \in Threads, Types, Types', LeavesFit, LeafStep(t)
  PROVE  LeavesFit'
<1> SUFFICES ASSUME NEW s \in Slots, NEW p \in Slots, info'[s].requested = p
             PROVE  /\ info'[s].requested_gen <= gen'[p]
                    /\ LeafOf(s, p)' =>
                         /\ Parent(p)' /\ ~Resting(p)'
                         /\ \/ info'[p].required = Required
                            \/ \E w \in Workers :
                                 /\ JobOf(w, th'[w]) = p
                                 /\ \E i \in Pending(w, th'[w]) : th'[w].made[i] = s
  <2>1. \A s \in Slots : info'[s].requested \in MaybeJob
    BY DEF Types, Infos
  <2> QED
    BY <2>1 DEF LeavesFit, MaybeJob
<1>1. info[s].requested = p /\ info[s].requested_gen = info'[s].requested_gen
      /\ p # NoJob /\ gen' = gen
  BY JobLifeAssumption DEF LeafStep
<1>2. info[s].requested_gen <= gen[p]
  BY <1>1 DEF LeavesFit
<1>3. ASSUME LeafOf(s, p)'
      PROVE  /\ Parent(p)' /\ ~Resting(p)'
             /\ \/ info'[p].required = Required
                \/ \E w \in Workers :
                     /\ JobOf(w, th'[w]) = p
                     /\ \E i \in Pending(w, th'[w]) : th'[w].made[i] = s
  <2>1. LeafOf(s, p)
    BY <1>3, LeavesShrink
  <2>2. /\ Parent(p) /\ ~Resting(p)
        /\ \/ info[p].required = Required
           \/ \E w \in Workers : /\ JobOf(w, th[w]) = p
                                 /\ \E i \in Pending(w, th[w]) : th[w].made[i] = s
    BY <1>1, <2>1 DEF LeavesFit
  <2>3. Parent(p)' /\ ~Resting(p)'
    BY <2>2 DEF LeafStep, Parent
  <2>4. info[p].required = Required => info'[p].required = Required
    BY DEF LeafStep
  <2>5. ASSUME NEW w \in Workers, JobOf(w, th[w]) = p,
               NEW i \in Pending(w, th[w]), th[w].made[i] = s,
               info[p].required # Required
        PROVE  /\ JobOf(w, th'[w]) = p
               /\ i \in Pending(w, th'[w]) /\ th'[w].made[i] = s
    <3>1. w \in Threads
      BY DEF Threads
    <3>2. CASE w # t
      BY <2>5, <3>1, <3>2 DEF LeafStep
    <3>3. CASE w = t
      <4>1. JobStep(w, th[w], th'[w])
        BY <3>3 DEF LeafStep
      <4> QED
        BY <1>1, <2>5, <4>1 DEF JobStep
    <3> QED
      BY <3>2, <3>3
  <2> QED
    BY <2>2, <2>3, <2>4, <2>5
<1> QED
  BY <1>1, <1>2, <1>3

\* A sum that grows by less than its bound does.
LEMMA SumShift ==
  ASSUME NEW a \in Nat, NEW b \in Nat, NEW c \in Nat, NEW d \in Nat,
         NEW m \in Nat, NEW n \in Nat, (a + b) + m <= (c + d) + n, c + d <= m
  PROVE  a + b <= n
OBVIOUS

\* Nor do they get more than were created.
LEMMA CountKept ==
  ASSUME NEW t \in Threads, Types, Types', LeafStep(t), IsFiniteSet(Slots),
         NEW p \in Slots, Parent(p), CountsOf(p),
         meta'[p].avjobs + Cardinality(Untold(p)')
           <= meta[p].avjobs + Cardinality(Untold(p)),
         (meta'[p].avjobs + Cardinality(Telling(p)')) + done[p]
           <= (meta[p].avjobs + Cardinality(Telling(p))) + done'[p]
  PROVE  CountsOf(p)'
<1>0. \A a, b, c, d, n \in Nat : a + b <= c + d /\ c + d <= n => a + b <= n
  OBVIOUS
<1>1. info'[p].phase \in {info[p].phase, 1}
  BY DEF LeafStep
<1>2. meta'[p].avjobs \in Nat /\ meta[p].avjobs \in Nat
  BY MetaFlagAssumption DEF Types, Word
<1>3. /\ Cardinality(Untold(p)') \in Nat /\ Cardinality(Untold(p)) \in Nat
      /\ Cardinality(Telling(p)') \in Nat /\ Cardinality(Telling(p)) \in Nat
  <2>1. /\ Untold(p)' \subseteq Slots /\ Telling(p)' \subseteq Slots
        /\ Untold(p) \subseteq Slots /\ Telling(p) \subseteq Slots
    BY DEF Untold, Telling
  <2> QED
    BY <2>1, FewerLeaves
<1>4. ASSUME NEW n \in Nat, Bound(p, n) PROVE Bound(p, n)'
  BY <1>2, <1>3, <1>4 DEF Bound
<1>5. /\ info[p].phase \in {0, 1} /\ Bound(p, Leaves)
      /\ info[p].phase = 0 =>
           /\ \A w \in Workers : JobOf(w, th[w]) = p => Bound(p, Len(th[w].made))
           /\ (\A w \in Workers : JobOf(w, th[w]) # p) => Bound(p, 0)
      /\ meta[p].avjobs + Cardinality(Telling(p)) <= done[p]
  BY DEF CountsOf
<1>6. meta'[p].avjobs + Cardinality(Telling(p)') <= done'[p]
  <2>1. done[p] \in Nat /\ done'[p] \in Nat
    BY DEF Types
  <2> QED
    BY <1>2, <1>3, <1>5, <2>1, SumShift
<1>7. \A w \in Workers : Len(th[w].made) \in Nat /\ Len(th'[w].made) \in Nat
  <2>1. \A w \in Workers : th[w] \in ThreadStates /\ th'[w] \in ThreadStates
    BY DEF Types, Threads
  <2>2. \A x \in ThreadStates : x.made \in Seq(Slots)
    BY DEF ThreadStates
  <2> QED
    BY <2>1, <2>2
<1>8. ASSUME info[p].phase = 0, NEW w \in Workers, JobOf(w, th'[w]) = p
      PROVE  Bound(p, Len(th[w].made))'
  <2>1. CASE w # t
    BY <1>4, <1>5, <1>7, <1>8, <2>1 DEF LeafStep, Threads
  <2>2. CASE w = t
    <3>1. JobStep(w, th[w], th'[w]) /\ p # NoJob
      BY <2>2, JobLifeAssumption DEF LeafStep
    <3>2. CASE JobOf(w, th[w]) = p /\ Len(th'[w].made) = Len(th[w].made)
      <4>1. Bound(p, Len(th[w].made)) /\ Len(th[w].made) \in Nat
        BY <1>5, <1>7, <1>8, <3>2
      <4>2. meta'[p].avjobs + Cardinality(Untold(p)') <= Len(th'[w].made)
        BY <1>0, <1>2, <1>3, <3>2, <4>1 DEF Bound
      <4> QED
        BY <4>2 DEF Bound
    <3>3. CASE /\ Len(th'[w].made) = 0
               /\ \A v \in Workers : JobOf(v, th[v]) # JobOf(w, th'[w])
      <4>1. Bound(p, 0)
        BY <1>5, <1>8, <3>3
      <4>2. meta'[p].avjobs + Cardinality(Untold(p)') <= Len(th'[w].made)
        BY <1>2, <1>3, <3>3, <4>1 DEF Bound
      <4> QED
        BY <4>2 DEF Bound
    <3> QED
      BY <1>8, <3>1, <3>2, <3>3 DEF JobStep
  <2> QED
    BY <2>1, <2>2
<1>9. ASSUME info[p].phase = 0, \A w \in Workers : JobOf(w, th'[w]) # p
      PROVE  Bound(p, 0)'
  <2>1. CASE \A w \in Workers : JobOf(w, th[w]) # p
    BY <1>4, <1>5, <1>9, <2>1
  <2>2. CASE \E w \in Workers : JobOf(w, th[w]) = p
    <3>1. PICK w \in Workers : JobOf(w, th[w]) = p
      BY <2>2
    <3>2. w = t
      BY <1>9, <3>1 DEF LeafStep, Threads
    <3>3. JobStep(w, th[w], th'[w]) /\ p # NoJob
      BY <3>2, JobLifeAssumption DEF LeafStep
    <3>4. th[w].job = p
      BY <3>1, <3>3 DEF JobOf
    <3>5. Len(th[w].made) = 0
      BY <1>1, <1>9, <3>1, <3>3, <3>4 DEF JobStep
    <3>6. Bound(p, 0)
      BY <1>5, <1>9, <3>1, <3>5
    <3> QED
      BY <1>4, <3>6
  <2> QED
    BY <2>1, <2>2
<1> QED
  BY <1>1, <1>4, <1>5, <1>6, <1>8, <1>9, JobLifeAssumption DEF CountsOf

\* Such a step as the second one keeps the counts of all parents.
LEMMA CountsKept ==
  ASSUME NEW t \in Threads, Types, Types', Counts, LeafStep(t), IsFiniteSet(Slots),
         t \in Workers /\ TellsNow(th'[t]) => TellsNow(th[t]) /\ th'[t].job = th[t].job,
         done' = done, NEW p \in Slots, Parent(p)', meta'[p].avjobs <= meta[p].avjobs
  PROVE  CountsOf(p)'
<1>1. Parent(p) /\ CountsOf(p)
  BY DEF LeafStep, Parent, Counts
<1>2. /\ Cardinality(Untold(p)') <= Cardinality(Untold(p))
      /\ Cardinality(Telling(p)') <= Cardinality(Telling(p))
      /\ Cardinality(Untold(p)') \in Nat /\ Cardinality(Untold(p)) \in Nat
      /\ Cardinality(Telling(p)') \in Nat /\ Cardinality(Telling(p)) \in Nat
  <2>1. /\ Untold(p)' \subseteq Untold(p) /\ Telling(p)' \subseteq Telling(p)
    BY LeavesShrink, TellingShrinks
  <2>2. Untold(p) \subseteq Slots /\ Telling(p) \subseteq Slots
    BY DEF Untold, Telling
  <2> QED
    BY <2>1, <2>2, FewerLeaves
<1>3. meta'[p].avjobs \in Nat /\ meta[p].avjobs \in Nat /\ done[p] \in Nat
  BY MetaFlagAssumption DEF Types, Word
<1>4. /\ meta'[p].avjobs + Cardinality(Untold(p)')
           <= meta[p].avjobs + Cardinality(Untold(p))
      /\ (meta'[p].avjobs + Cardinality(Telling(p)')) + done[p]
           <= (meta[p].avjobs + Cardinality(Telling(p))) + done'[p]
  BY <1>2, <1>3
<1> QED
  BY <1>1, <1>4, CountKept

\* And a parent goes on for no other reason than before.
LEMMA ResumeKept ==
  ASSUME NEW p \in Slots, Parent(p)', Resumes, SameInfo(p), WordStep(p),
         Resting(p)' <=> Resting(p), Waits(p) => Waits(p)'
  PROVE  ResumesOf(p)'
<1>1. Parent(p) /\ ResumesOf(p)
  BY DEF SameInfo, Parent, Resumes
<1> QED
  BY <1>1 DEF ResumesOf, SameInfo, WordStep

\* A step of the second kind keeps what is known of families.
LEMMA FamilyKept ==
  ASSUME NEW t \in Threads, Types, Types', LeavesFit, Counts, Resumes, FamilyStep(t),
         IsFiniteSet(Slots)
  PROVE  LeavesFit' /\ Counts' /\ Resumes'
<1>1. LeafStep(t)
  BY FamilyLeaf
<1>2. LeavesFit'
  BY <1>1, LeavesFitKept
<1>3. ASSUME NEW p \in Slots, Parent(p)'
      PROVE  CountsOf(p)'
  <2>1. meta'[p].avjobs \in Nat /\ meta[p].avjobs \in Nat
    BY MetaFlagAssumption, SMTT(30) DEF Types, Word
  <2>2. meta'[p].avjobs <= meta[p].avjobs
    BY <2>1 DEF FamilyStep, WordStep
  <2>3. /\ t \in Workers /\ TellsNow(th'[t]) => TellsNow(th[t]) /\ th'[t].job = th[t].job
        /\ done' = done
    BY DEF FamilyStep, ThreadStep
  <2> QED
    BY <1>1, <1>3, <2>2, <2>3, CountsKept
<1>4. ASSUME NEW p \in Slots, Parent(p)'
      PROVE  ResumesOf(p)'
  <2>1. SameInfo(p) /\ WordStep(p) /\ (Resting(p)' <=> Resting(p))
    BY DEF FamilyStep
  <2>2. ASSUME NEW w \in Workers, th[w].job = p, WaitsAt(th[w])
        PROVE  th'[w].job = p /\ WaitsAt(th'[w])
    BY <2>2 DEF FamilyStep, ThreadStep, Threads
  <2>3. Waits(p) => Waits(p)'
    BY <2>1, <2>2 DEF Waits, WordStep
  <2> QED
    BY <1>4, <2>1, <2>3, ResumeKept
<1> QED
  BY <1>2, <1>3, <1>4 DEF Counts, Resumes

-----------------------------------------------------------------------------
(* What a step means for the other threads. *)

\* A worker that goes by what is known of its job has it in its hands.
LEMMA HasJob ==
  ASSUME NEW w \in Workers, NEW x \in ThreadStates, WorkerFits(x),
         AtTarget(x) => x.tgt # NoJob,
         Past(x) \/ Running(x) \/ TellsNow(x) \/ HasTold(x) \/ AtJob(x)
  PROVE  Has(w, x, x.job) /\ x.job \in Slots
<1>1. w # Main
  BY JobLifeAssumption
<1>2. CASE AtJob(x)
  <2>1. x.job # NoJob /\ x.job \in MaybeJob
    BY <1>2 DEF WorkerFits, ThreadStates
  <2> QED
    BY <1>1, <1>2, <2>1 DEF Has, JobOf, MaybeJob
<1>3. CASE x.pc \in {"read", "cas"} /\ x.back = "check"
  <2>1. AtTarget(x) /\ x.tgt = x.job
    BY <1>3 DEF WorkerFits, AtTarget
  <2>2. x.tgt \in Slots
    BY <2>1 DEF ThreadStates, MaybeJob
  <2> QED
    BY <2>1, <2>2 DEF Has, TargetOf
<1> QED
  BY <1>2, <1>3 DEF Past, AtJob, TellsNow, HasTold, Sub

\* The step of a thread leaves a slot alone, or no other thread has it.
OthersStep(t) ==
  /\ \A u \in Threads \ {t} : th'[u] = th[u]
  /\ \A s \in Slots :
       \/ /\ SameInfo(s)
          /\ "ALIVE" \in meta[s].flags /\ "WLLDESTROY" \notin meta[s].flags =>
               "ALIVE" \in meta'[s].flags /\ "WLLDESTROY" \notin meta'[s].flags
       \/ \A u \in Threads \ {t} : HasNot(u, th[u], s)
  /\ \A s \in Slots :
       \/ gen'[s] = gen[s]
       \/ /\ \A u \in Threads \ {t} : HasNot(u, th[u], s)
          /\ \A u \in Workers \ {t} :
               th[u].pc \in {"read", "cas"} /\ th[u].back = "told" => ~LeafOf(th[u].job, s)

OwnFits(t) ==
  /\ t = Main => MainFits(th[t])
  /\ t \in Workers => /\ WorkerFits(th[t]) /\ TellerFits(th[t])
                      /\ JobOf(t, th[t]) # NoJob => gen[th[t].job] = th[t].pop_gen
  /\ AtTarget(th[t]) => th[t].tgt # NoJob

\* What the other threads know stays true.
LEMMA OthersKept ==
  ASSUME NEW t \in Threads, Types, Types', Fits, TellersFit, SameLife,
         OthersStep(t), OwnFits(t)'
  PROVE  Fits' /\ TellersFit' /\ SameLife'
<1>1. \A u \in Threads \ {t} : th'[u] = th[u]
  BY DEF OthersStep
<1>2. Main \in Threads /\ Workers \subseteq Threads /\ Main \notin Workers
  BY JobLifeAssumption DEF Threads
<1>3. MainFits(th[Main])'
  <2>1. CASE t = Main
    BY <2>1 DEF OwnFits
  <2>2. CASE t # Main
    BY <1>1, <1>2, <2>2 DEF Fits, MainFits
  <2> QED
    BY <2>1, <2>2
<1>4. \A u \in Threads : AtTarget(th'[u]) => th'[u].tgt # NoJob
  BY <1>1 DEF OwnFits, Fits
<1>5. ASSUME NEW w \in Workers
      PROVE  /\ WorkerFits(th[w])' /\ TellerFits(th[w])'
             /\ JobOf(w, th'[w]) # NoJob => gen'[th'[w].job] = th'[w].pop_gen
  <2>1. CASE w = t
    BY <2>1 DEF OwnFits
  <2>2. CASE w # t
    <3>0. PICK x \in ThreadStates : x = th[w]
      BY <1>2 DEF Types
    <3>1. th'[w] = x /\ th[w] = x
      BY <1>1, <1>2, <2>2, <3>0
    <3>2. WorkerFits(x) /\ TellerFits(x) /\ (JobOf(w, x) # NoJob => gen[x.job] = x.pop_gen)
          /\ (AtTarget(x) => x.tgt # NoJob)
      BY <1>2, <3>1 DEF Fits, TellersFit, SameLife
    <3> DEFINE known == Past(x) \/ Running(x) \/ TellsNow(x) \/ HasTold(x) \/ AtJob(x)
    <3>3. ASSUME known
          PROVE  /\ SameInfo(x.job) /\ gen'[x.job] = gen[x.job] /\ x.job \in Slots
                 /\ "ALIVE" \in meta[x.job].flags /\ "WLLDESTROY" \notin meta[x.job].flags =>
                      "ALIVE" \in meta'[x.job].flags /\ "WLLDESTROY" \notin meta'[x.job].flags
      <4>1. Has(w, x, x.job) /\ x.job \in Slots
        BY <3>1, <3>2, <3>3, HasJob
      <4>2. ~HasNot(w, th[w], x.job) /\ w \in Threads \ {t}
        BY <1>2, <2>2, <3>1, <4>1 DEF Has, HasNot
      <4> QED
        BY <4>1, <4>2 DEF OthersStep
    <3>4. WorkerFits(x)'
      <4>1. CASE Past(x) \/ Running(x)
        <5>1. SameInfo(x.job)
          BY <3>3, <4>1
        <5> QED
          BY <3>2, <5>1 DEF WorkerFits, SameInfo, Parent
      <4>2. CASE ~Past(x) /\ ~Running(x)
        BY <3>2, <4>2 DEF WorkerFits
      <4> QED
        BY <4>1, <4>2
    <3>5. TellerFits(x)'
      <4>1. CASE known
        <5>0. PICK p \in MaybeJob : p = info[x.job].requested
          BY <3>3, <4>1 DEF Types, Infos
        <5>1. info'[x.job].requested = p /\ Parent(x.job)' = Parent(x.job)
              /\ info'[x.job].requested_gen = info[x.job].requested_gen
          BY <3>3, <4>1, <5>0 DEF SameInfo, Parent
        <5>2. ASSUME LeafOf(x.job, p), p # NoJob,
                     x.pc \in {"read", "cas"} /\ x.back = "told"
              PROVE  LeafOf(x.job, p)'
          <6>1. p \in Slots
            BY <5>2 DEF MaybeJob
          <6>2. gen'[p] = gen[p]
            BY <2>2, <3>1, <5>2, <6>1 DEF OthersStep
          <6> QED
            BY <3>3, <4>1, <5>1, <5>2, <6>2 DEF LeafOf
        <5> QED
          BY <3>2, <5>0, <5>1, <5>2 DEF TellerFits, TellsNow
      <4>2. CASE ~known
        BY <3>2, <4>2 DEF TellerFits, TellsNow, HasTold, Past, Sub
      <4> QED
        BY <4>1, <4>2
    <3>6. JobOf(w, x) # NoJob => gen'[x.job] = x.pop_gen
      <4>1. JobOf(w, x) # NoJob => AtJob(x)
        BY <1>2 DEF JobOf
      <4> QED
        BY <3>2, <3>3, <4>1
    <3> QED
      BY <3>1, <3>4, <3>5, <3>6 DEF WorkerFits, TellerFits
  <2> QED
    BY <2>1, <2>2
<1> QED
  BY <1>3, <1>4, <1>5 DEF Fits, TellersFit, SameLife

-----------------------------------------------------------------------------
(* The word of a job. *)

\* Setting flags whatever the accesses are.
LEMMA MarkWordsFree ==
  ASSUME NEW m \in Word, NEW F \in SUBSET Flag, NEW B
  PROVE  /\ mark_or(m, F, B, FALSE) \in Word
         /\ mark_or(m, F, B, FALSE).avjobs = m.avjobs
         /\ Ban(m, B, FALSE) = m.flags \cap B
         /\ m.flags \cap B = {} => mark_or(m, F, B, FALSE).flags = m.flags \cup F
<1>1. Ban(m, B, FALSE) = m.flags \cap B
  BY DEF Ban
<1>2. m.flags \cup F \in SUBSET Flag
  BY DEF Word
<1>3. /\ [m EXCEPT !.flags = @ \cup F] \in Word
      /\ [m EXCEPT !.flags = @ \cup F].avjobs = m.avjobs
      /\ [m EXCEPT !.flags = @ \cup F].flags = m.flags \cup F
  BY <1>2 DEF Word
<1> QED
  BY <1>1, <1>3 DEF mark_or

\* Clearing flags.
LEMMA UnmarkWords ==
  ASSUME NEW m \in Word, NEW F, NEW B
  PROVE  /\ unmark_or(m, F, B) \in Word
         /\ unmark_or(m, F, B).avjobs = m.avjobs
         /\ m.flags \cap B = {} => unmark_or(m, F, B).flags = m.flags \ F
<1>1. m.flags \ F \in SUBSET Flag
  BY DEF Word
<1>2. /\ [m EXCEPT !.flags = @ \ F] \in Word
      /\ [m EXCEPT !.flags = @ \ F].avjobs = m.avjobs
      /\ [m EXCEPT !.flags = @ \ F].flags = m.flags \ F
  BY <1>1 DEF Word
<1> QED
  BY <1>2 DEF unmark_or, Ban

\* Taking and giving back an access.
LEMMA AccessWords ==
  ASSUME NEW m \in Word
  PROVE  /\ mark_access(m) \in Word /\ mark_access(m).flags = m.flags
         /\ mark_access(m).avjobs = m.avjobs
         /\ unmark_access(m) \in Word /\ unmark_access(m).flags = m.flags
         /\ unmark_access(m).avjobs = m.avjobs
<1>1. MaxAccess \in Nat \ {0} /\ m.access \in 0 .. MaxAccess
  BY MetaFlagAssumption DEF Word
<1>2. mark_access(m) \in Word /\ mark_access(m).flags = m.flags
      /\ mark_access(m).avjobs = m.avjobs
  <2>1. CASE AccessBan(m) = {}
    <3>1. m.access + 1 \in 0 .. MaxAccess
      BY <1>1, <2>1 DEF AccessBan
    <3> QED
      BY <2>1, <3>1 DEF mark_access, Word
  <2> QED
    BY <2>1 DEF mark_access
<1>3. unmark_access(m) \in Word /\ unmark_access(m).flags = m.flags
      /\ unmark_access(m).avjobs = m.avjobs
  <2>1. ASSUME NEW M \in Nat, NEW x \in 0 .. M
        PROVE  (x - 1) % (M + 1) \in 0 .. M
    BY SMT
  <2>2. (m.access - 1) % (MaxAccess + 1) \in 0 .. MaxAccess
    BY <1>1, <2>1
  <2> QED
    BY <2>2 DEF unmark_access, Word
<1> QED
  BY <1>2, <1>3

\* The update of the available jobs: READYJOB says whether the threshold is
\* met, and the marks change by F.
LEMMA CasWords ==
  ASSUME NEW m \in Word, NEW d \in {0, 1}, NEW F \in SUBSET (Flag \ Derived),
         NEW q \in Nat, m.avjobs + d \in 0 .. MaxCount
  PROVE  LET w == cas_update(m, 0, 0, d, F, 0, q) IN
         /\ w \in Word /\ w.avjobs = m.avjobs + d
         /\ "READYJOB" \in w.flags <=> m.avjobs + d >= q
         /\ w.flags \cap Marks = (m.flags \cup F) \cap Marks
         /\ "READYBASIC" \in w.flags <=> "READYBASIC" \in m.flags \cup F
<1> DEFINE D == DerivedFlags(m.avsock + 0, m.wait + 0, m.avjobs + d, 0, q)
           G == ((m.flags \cup F) \ Derived) \cup D
<1>1. /\ MaxCount \in Nat /\ m.avsock \in 0 .. MaxCount /\ m.wait \in 0 .. MaxCount
      /\ m.flags \in SUBSET Flag
  BY MetaFlagAssumption DEF Word
<1>2. m.avsock + 0 = m.avsock /\ m.wait + 0 = m.wait
  BY <1>1
<1>3. /\ "READYJOB" \in D <=> m.avjobs + d >= q
      /\ D \in SUBSET Derived
  BY DEF DerivedFlags, Derived
<1> HIDE DEF D
<1>4. /\ G \in SUBSET Flag
      /\ "READYJOB" \in G <=> m.avjobs + d >= q
      /\ G \cap Marks = (m.flags \cup F) \cap Marks
      /\ "READYBASIC" \in G <=> "READYBASIC" \in m.flags \cup F
  BY <1>1, <1>3 DEF Flag, Derived, Marks
<1>5. cas_update(m, 0, 0, d, F, 0, q) =
        [m EXCEPT !.flags = G, !.avsock = m.avsock, !.wait = m.wait,
                  !.avjobs = m.avjobs + d]
  BY <1>2 DEF cas_update, D
<1> HIDE DEF G
<1> QED
  BY <1>1, <1>4, <1>5 DEF Word

\* A new word for one slot.
LEMMA OneWord ==
  ASSUME Types, NEW s \in Slots, NEW m \in Word, SetMeta(s, m)
  PROVE  /\ meta' \in [Slots -> Word] /\ meta'[s] = m
         /\ \A r \in Slots \ {s} : meta'[r] = meta[r]
BY DEF SetMeta, Types

\* A new label for one thread.
LEMMA Goes ==
  ASSUME Types, NEW t \in Threads, NEW l \in Labels, Goto(t, l)
  PROVE  /\ th' \in [Threads -> ThreadStates]
         /\ \A u \in Threads \ {t} : th'[u] = th[u]
         /\ th'[t].pc = l /\ th'[t].job = th[t].job /\ th'[t].tgt = th[t].tgt
         /\ th'[t].back = th[t].back /\ th'[t].k = th[t].k
         /\ th'[t].made = th[t].made /\ th'[t].script = th[t].script
         /\ th'[t].pop_gen = th[t].pop_gen /\ th'[t].req = th[t].req
         /\ th'[t].delta = th[t].delta /\ th'[t].flag = th[t].flag
         /\ th'[t] \in ThreadStates
<1>1. th[t] \in ThreadStates
  BY DEF Types
<1>2. [th[t] EXCEPT !.pc = l] \in ThreadStates
  BY <1>1 DEF ThreadStates
<1>3. th' = [th EXCEPT ![t] = [th[t] EXCEPT !.pc = l]]
  BY DEF Goto
<1> QED
  BY <1>1, <1>2, <1>3 DEF Types, ThreadStates

\* Slots rest as before when no thread begins or ends to work on one.
LEMMA RestingKept ==
  ASSUME NEW t \in Threads, \A u \in Threads \ {t} : th'[u] = th[u],
         free' = free, RestsAt(th[t]) <=> RestsAt(th'[t]),
         RestsAt(th[t]) => th'[t].tgt = th[t].tgt
  PROVE  \A s \in Slots : Resting(s)' <=> Resting(s)
<1>1. \A u \in Threads :
        /\ RestsAt(th'[u]) <=> RestsAt(th[u])
        /\ RestsAt(th[u]) => th'[u].tgt = th[u].tgt
  OBVIOUS
<1> QED
  BY <1>1 DEF Resting

-----------------------------------------------------------------------------
(* The steps of the threads, one by one. *)

\* A step that moves no job: all but families.
LEMMA StayAll ==
  ASSUME IndInv, NEW t \in Threads, Types', Stays(t), gen' = gen,
         \A r \in Slots : SameInfo(r), OwnFits(t)'
  PROVE  Exclusive' /\ Staged' /\ Fits' /\ TellersFit' /\ SameLife'
<1>1. Exclusive' /\ Staged'
  BY StayKeeps DEF IndInv
<1>2. \A s \in Slots : "ALIVE" \in meta[s].flags /\ "WLLDESTROY" \notin meta[s].flags =>
        "ALIVE" \in meta'[s].flags /\ "WLLDESTROY" \notin meta'[s].flags
  <2>1. "ALIVE" \in Marks /\ "WLLDESTROY" \in Marks
    BY DEF Marks, Flag, Derived
  <2> QED
    BY <2>1 DEF Stays
<1>3. OthersStep(t)
  BY <1>2 DEF OthersStep, Stays
<1>4. Fits' /\ TellersFit' /\ SameLife'
  BY <1>3, OthersKept DEF IndInv
<1> QED
  BY <1>1, <1>4

\* And with families.
LEMMA StayStep ==
  ASSUME IndInv, Families, NEW t \in Threads, Types', Stays(t), FamilyStep(t),
         OwnFits(t)'
  PROVE  IndInv'
<1>1. LeavesFit' /\ Counts' /\ Resumes'
  BY FamilyKept DEF IndInv, Families
<1>2. gen' = gen /\ \A r \in Slots : SameInfo(r)
  BY DEF FamilyStep
<1>3. Exclusive' /\ Staged' /\ Fits' /\ TellersFit' /\ SameLife'
  BY <1>2, StayAll
<1> QED
  BY <1>1, <1>3 DEF IndInv

\* A step that moves job s, which the thread has or which is outside: all
\* but families.
LEMMA MoveKeeps ==
  ASSUME IndInv, Families, NEW t \in Threads, NEW s \in Slots, Types',
         Moves(t, s), Has(t, th[t], s) \/ Outside(s),
         HasOnce(t, th'[t], s), HasNot(t, th'[t], s) \/ ~Outside(s)',
         (s \in free') => ~(s \in Cached \/ s \in Queued \/ s \in Suspended)',
         (s \in Cached') => ~(s \in Queued \/ s \in Suspended)',
         ~(s \in Queued /\ s \in Suspended)', OnePlace',
         HasStaged(t, th'[t], s, meta'[s].flags),
         s \in Cached' => Marked("ready", meta'[s].flags),
         s \in Queued' => Marked("queued", meta'[s].flags),
         s \in Suspended' => Marked("again", meta'[s].flags),
         \A r \in Slots \ {s} : SameInfo(r) /\ gen'[r] = gen[r],
         \/ gen'[s] = gen[s]
         \/ \A u \in Workers \ {t} :
              th[u].pc \in {"read", "cas"} /\ th[u].back = "told" => ~LeafOf(th[u].job, s),
         OwnFits(t)'
  PROVE  Exclusive' /\ Staged' /\ Fits' /\ TellersFit' /\ SameLife'
<1>1. NoJob \notin Slots
  BY JobLifeAssumption
<1>2. Exclusive' /\ \A u \in Threads \ {t} : HasNot(u, th[u], s)
  BY <1>1, MoveExclusive DEF IndInv
<1>3. Staged'
  BY <1>1, <1>2, MoveStaged DEF IndInv
<1>4. OthersStep(t)
  BY <1>2 DEF OthersStep, Moves
<1>5. Fits' /\ TellersFit' /\ SameLife'
  BY <1>4, OthersKept DEF IndInv
<1> QED
  BY <1>2, <1>3, <1>5

\* And with families.
LEMMA MoveStep ==
  ASSUME IndInv, Families, NEW t \in Threads, NEW s \in Slots, Types',
         Moves(t, s), Has(t, th[t], s) \/ Outside(s),
         HasOnce(t, th'[t], s), HasNot(t, th'[t], s) \/ ~Outside(s)',
         (s \in free') => ~(s \in Cached \/ s \in Queued \/ s \in Suspended)',
         (s \in Cached') => ~(s \in Queued \/ s \in Suspended)',
         ~(s \in Queued /\ s \in Suspended)', OnePlace',
         HasStaged(t, th'[t], s, meta'[s].flags),
         s \in Cached' => Marked("ready", meta'[s].flags),
         s \in Queued' => Marked("queued", meta'[s].flags),
         s \in Suspended' => Marked("again", meta'[s].flags),
         FamilyStep(t), OwnFits(t)'
  PROVE  IndInv'
<1>1. LeavesFit' /\ Counts' /\ Resumes'
  BY FamilyKept DEF IndInv, Families
<1>2. \A r \in Slots : SameInfo(r) /\ gen'[r] = gen[r]
  BY DEF FamilyStep
<1>3. Exclusive' /\ Staged' /\ Fits' /\ TellersFit' /\ SameLife'
  BY <1>2, MoveKeeps
<1> QED
  BY <1>1, <1>3 DEF IndInv

\* What is known of a job that a thread has.
LEMMA InHands ==
  ASSUME IndInv, NEW t \in Threads, NEW s \in Slots, Has(t, th[t], s)
  PROVE  ~Outside(s) /\ HasStaged(t, th[t], s, meta[s].flags)
         /\ HasOnce(t, th[t], s)
<1>1. s # NoJob
  BY JobLifeAssumption
<1>2. PICK f \in Fields : Held(t, th[t], f) = s
  BY <1>1, HeldIs
<1>3. ~Outside(s)
  BY <1>2 DEF IndInv, Exclusive, HandsOutside, Outside
<1>4. \A g \in Fields : Held(t, th[t], g) = s => Marked(Stage(th[t], g), meta[s].flags)
  BY <1>1 DEF IndInv, Staged
<1>5. \A f1, g \in Fields : Held(t, th[t], f1) = s /\ Held(t, th[t], g) = s => f1 = g
  BY <1>1 DEF IndInv, Exclusive, HandsApart
<1> QED
  BY <1>1, <1>3, <1>4, <1>5, HeldIs

\* A worker at its job, with nothing else in its hands.
AtJobOnly(w, x) == AtJob(x) /\ ~AtTarget(x) /\ Pending(w, x) = {}

\* What is known of the job a worker is at.
LEMMA JobOnly ==
  ASSUME IndInv, NEW w \in Workers, AtJob(th[w])
  PROVE  /\ th[w].job \in Slots /\ JobOf(w, th[w]) = th[w].job
         /\ Has(w, th[w], th[w].job) /\ ~Outside(th[w].job)
         /\ Marked(JobStage(th[w]), meta[th[w].job].flags)
         /\ gen[th[w].job] = th[w].pop_gen /\ w \in Threads /\ w # Main
<1>1. w \in Threads /\ w # Main /\ th[w] \in ThreadStates
  BY JobLifeAssumption DEF Threads, IndInv, Types
<1>2. th[w].job \in Slots /\ Has(w, th[w], th[w].job)
  BY <1>1, HasJob DEF IndInv, Fits
<1>3. JobOf(w, th[w]) = th[w].job /\ th[w].job # NoJob
  BY <1>1, <1>2, JobLifeAssumption DEF JobOf
<1>4. ~Outside(th[w].job) /\ Marked(JobStage(th[w]), meta[th[w].job].flags)
  BY <1>1, <1>2, <1>3, InHands DEF HasStaged
<1> QED
  BY <1>1, <1>2, <1>3, <1>4 DEF IndInv, SameLife

\* A worker changes the word of its job and goes on.
LEMMA JobWordStep ==
  ASSUME IndInv, Families, NEW w \in Workers, NEW l \in Labels, NEW m \in Word,
         Goto(w, l), SetMeta(th[w].job, m),
         UNCHANGED <<gen, info, free, cache, dq, done>>,
         AtJobOnly(w, th[w]), AtJobOnly(w, th'[w]),
         m.avjobs = meta[th[w].job].avjobs,
         "WLLDESTROY" \notin m.flags =>
           "ALIVE" \in meta[th[w].job].flags /\ "WLLDESTROY" \notin meta[th[w].job].flags,
         "READYBASIC" \in m.flags => "READYBASIC" \in meta[th[w].job].flags,
         m.flags \cap Derived = meta[th[w].job].flags \cap Derived,
         Marked(JobStage(th'[w]), m.flags),
         HasTold(th[w]) => HasTold(th'[w]),
         TellsNow(th'[w]) => TellsNow(th[w]),
         ~WaitsAt(th[w]), OwnFits(w)'
  PROVE  IndInv'
<1>0. PICK s \in Slots : s = th[w].job
  BY JobOnly DEF AtJobOnly
<1>1. /\ JobOf(w, th[w]) = s /\ Has(w, th[w], s) /\ ~Outside(s)
      /\ w \in Threads /\ w # Main /\ s # NoJob
  BY <1>0, JobOnly, JobLifeAssumption DEF AtJobOnly
<1>2. /\ meta' \in [Slots -> Word] /\ meta'[s] = m
      /\ \A r \in Slots \ {s} : meta'[r] = meta[r]
  BY <1>0, OneWord DEF IndInv
<1>3. /\ th' \in [Threads -> ThreadStates]
      /\ \A u \in Threads \ {w} : th'[u] = th[u]
      /\ th'[w].job = s /\ th'[w].made = th[w].made /\ th'[w].tgt = th[w].tgt
  BY <1>0, <1>1, Goes DEF IndInv
<1>4. Types'
  BY <1>2, <1>3 DEF IndInv, Types
<1>5. /\ JobOf(w, th'[w]) = s /\ TargetOf(th'[w]) = NoJob /\ TargetOf(th[w]) = NoJob
      /\ Pending(w, th'[w]) = {} /\ Pending(w, th[w]) = {}
  BY <1>1, <1>3 DEF AtJobOnly, JobOf, TargetOf
<1>6. Moves(w, s)
  <2>1. KeepsHands(w, th[w], th'[w], s)
    BY <1>5 DEF KeepsHands
  <2>2. Queued' = Queued
    BY DEF Queued
  <2> QED
    BY <1>2, <1>3, <2>1, <2>2 DEF Moves
<1>7. s \notin Suspended'
  <2>1. "READYBASIC" \in meta[s].flags => Derived \subseteq meta[s].flags
    BY <1>1 DEF Outside, Suspended
  <2> QED
    BY <1>0, <1>2, <2>1 DEF Suspended
<1>8. ~Outside(s)'
  BY <1>1, <1>7 DEF Outside, Cached, Queued
<1>9. HasOnce(w, th'[w], s) /\ HasStaged(w, th'[w], s, meta'[s].flags)
  BY <1>1, <1>2, <1>5 DEF HasOnce, HasStaged
<1>10. OnePlace'
  BY DEF IndInv, Exclusive, OnePlace
<1>11. FamilyStep(w)
  <2>1. ~RestsAt(th[w]) /\ ~RestsAt(th'[w])
    BY DEF AtJobOnly, AtTarget, RestsAt
  <2>2. \A r \in Slots : Resting(r)' <=> Resting(r)
    BY <1>1, <1>3, <2>1, RestingKept
  <2>3. \A r \in Slots : SameInfo(r)
    BY DEF SameInfo
  <2>4. ASSUME NEW r \in Slots PROVE WordStep(r)
    <3>1. CASE r = s
      <4>1. "READYJOB" \in m.flags <=> "READYJOB" \in meta[s].flags
        BY <1>0 DEF Derived
      <4> QED
        BY <1>0, <1>1, <1>2, <3>1, <4>1 DEF WordStep, Outside
    <3>2. CASE r # s
      BY <1>2, <3>2 DEF WordStep, Suspended
    <3> QED
      BY <3>1, <3>2
  <2>5. JobStep(w, th[w], th'[w])
    BY <1>1, <1>3, <1>5 DEF JobStep
  <2>6. ThreadStep(w, th[w], th'[w])
    BY <1>0, <1>3, <2>5 DEF ThreadStep
  <2> QED
    BY <1>3, <2>2, <2>3, <2>4, <2>6 DEF FamilyStep
<1> QED
  BY <1>1, <1>4, <1>6, <1>8, <1>9, <1>10, <1>11, MoveStep DEF Outside

\* A worker on its way from the cache to the run of a job.
LEMMA PickFits ==
  ASSUME IndInv, NEW w \in Workers, NEW l \in {"unready", "unbasic", "execute", "unaccess"},
         th[w].pc \in {"access", "unready", "unbasic", "execute", "unaccess"},
         Goto(w, l), gen' = gen
  PROVE  /\ AtJobOnly(w, th[w]) /\ AtJobOnly(w, th'[w]) /\ OwnFits(w)'
         /\ ~HasTold(th[w]) /\ ~TellsNow(th'[w]) /\ ~WaitsAt(th[w])
         /\ l \in Labels /\ th'[w].pc = l
<1>1. w \in Threads /\ w # Main /\ l \in Labels /\ Types
  BY JobLifeAssumption DEF Threads, Labels, IndInv
<1>2. AtJob(th[w]) /\ ~AtTarget(th[w]) /\ ~Running(th[w])
  BY DEF AtJob, AtTarget, Running, Sub
<1>3. /\ th'[w].pc = l /\ th'[w].job = th[w].job /\ th'[w].k = th[w].k
      /\ th'[w].made = th[w].made /\ th'[w].pop_gen = th[w].pop_gen
  BY <1>1, Goes
<1>4. /\ AtJob(th'[w]) /\ ~AtTarget(th'[w]) /\ ~Running(th'[w])
      /\ ~Past(th'[w]) /\ ~TellsNow(th'[w]) /\ ~HasTold(th'[w])
  BY <1>3 DEF AtJob, AtTarget, Running, Past, TellsNow, HasTold, Sub
<1>5. WorkerFits(th[w])
  BY DEF IndInv, Fits
<1>6. th[w].made = <<>> /\ th[w].k = 1 /\ th[w].job # NoJob
  BY <1>2, <1>5 DEF WorkerFits
<1>7. Pending(w, th[w]) = {} /\ Pending(w, th'[w]) = {}
  BY <1>1, <1>2, <1>4 DEF Pending
<1>8. WorkerFits(th[w])'
  BY <1>3, <1>4, <1>6 DEF WorkerFits, Sub
<1>9. TellerFits(th[w])'
  BY <1>3, <1>4 DEF TellerFits, Sub
<1>10. gen[th[w].job] = th[w].pop_gen
  BY <1>2, JobOnly
<1>11. ~HasTold(th[w]) /\ ~WaitsAt(th[w])
  BY DEF HasTold, WaitsAt
<1>12. OwnFits(w)'
  BY <1>1, <1>3, <1>4, <1>8, <1>9, <1>10 DEF OwnFits
<1> QED
  BY <1>1, <1>2, <1>3, <1>4, <1>7, <1>11, <1>12 DEF AtJobOnly

\* The flags in the words of the marks.
LEMMA FlagsApart ==
  /\ Marks = {"ALIVE", "UNSTABLE", "EXECUTING", "WLLDESTROY", "READY", "READYBASIC"}
  /\ Marks \in SUBSET Flag /\ Derived \in SUBSET Flag /\ Marks \cap Derived = {}
BY DEF Marks, Flag, Derived

\* unmark_ready takes the job out of READY.
LEMMA UnmarkReadyInv ==
  ASSUME IndInv, Families, NEW w \in Workers, UnmarkReady(w)
  PROVE  IndInv'
<1> DEFINE s == th[w].job
           m == unmark_or(meta[s], {"READY"}, {"UNSTABLE", "WLLDESTROY"})
<1>1. AtJob(th[w]) /\ th[w].pc = "unready"
  BY DEF UnmarkReady, At, AtJob
<1>2. s \in Slots /\ Marked("ready", meta[s].flags) /\ meta[s] \in Word
  BY <1>1, JobOnly DEF JobStage, IndInv, Types
<1>3. PICK l \in {"unbasic"} : Goto(w, l)
  BY DEF UnmarkReady
<1>4. /\ AtJobOnly(w, th[w]) /\ AtJobOnly(w, th'[w]) /\ OwnFits(w)'
      /\ ~HasTold(th[w]) /\ ~TellsNow(th'[w]) /\ ~WaitsAt(th[w])
      /\ l \in Labels /\ th'[w].pc = l
  BY <1>1, <1>3, PickFits DEF UnmarkReady
<1>5. meta[s].flags \cap {"UNSTABLE", "WLLDESTROY"} = {} /\ "ALIVE" \in meta[s].flags
  BY <1>2, FlagsApart DEF Marked
<1>6. m \in Word /\ m.avjobs = meta[s].avjobs /\ m.flags = meta[s].flags \ {"READY"}
  BY <1>2, <1>5, UnmarkWords
<1>7. JobStage(th'[w]) = "unready"
  BY <1>4 DEF JobStage
<1>8. Marked("unready", m.flags)
  BY <1>2, <1>6, FlagsApart DEF Marked
<1>9. SetMeta(s, m) /\ UNCHANGED <<gen, info, free, cache, dq, done>>
  BY DEF UnmarkReady
<1>10. /\ "READYBASIC" \in m.flags => "READYBASIC" \in meta[s].flags
       /\ m.flags \cap Derived = meta[s].flags \cap Derived
  BY <1>6 DEF Derived
<1>11. Marked(JobStage(th'[w]), m.flags)
  BY <1>7, <1>8
<1> HIDE DEF m
<1> QED
  BY <1>3, <1>4, <1>5, <1>6, <1>9, <1>10, <1>11, JobWordStep

\* unmark_readybasic leaves the job with no mark but ALIVE.
LEMMA UnmarkReadyBasicInv ==
  ASSUME IndInv, Families, NEW w \in Workers, UnmarkReadyBasic(w)
  PROVE  IndInv'
<1> DEFINE s == th[w].job
           m == unmark_or(meta[s], {"READYBASIC"}, {"UNSTABLE", "WLLDESTROY"})
<1>1. AtJob(th[w]) /\ th[w].pc = "unbasic"
  BY DEF UnmarkReadyBasic, At, AtJob
<1>2. s \in Slots /\ Marked("unready", meta[s].flags) /\ meta[s] \in Word
  BY <1>1, JobOnly DEF JobStage, IndInv, Types
<1>5. meta[s].flags \cap {"UNSTABLE", "WLLDESTROY"} = {} /\ "ALIVE" \in meta[s].flags
      /\ "WLLDESTROY" \notin meta[s].flags
  BY <1>2, FlagsApart DEF Marked
<1>6. m \in Word /\ m.avjobs = meta[s].avjobs /\ m.flags = meta[s].flags \ {"READYBASIC"}
  BY <1>2, <1>5, UnmarkWords
<1>3. PICK l \in {"execute"} : Goto(w, l)
  BY DEF UnmarkReadyBasic
<1>4. /\ AtJobOnly(w, th[w]) /\ AtJobOnly(w, th'[w]) /\ OwnFits(w)'
      /\ ~HasTold(th[w]) /\ ~TellsNow(th'[w]) /\ ~WaitsAt(th[w])
      /\ l \in Labels /\ th'[w].pc = l
  BY <1>1, <1>3, PickFits DEF UnmarkReadyBasic
<1>7. JobStage(th'[w]) = "bare"
  BY <1>4 DEF JobStage, Sub
<1>8. Marked("bare", m.flags)
  BY <1>2, <1>6, FlagsApart DEF Marked
<1>9. SetMeta(s, m) /\ UNCHANGED <<gen, info, free, cache, dq, done>>
  BY DEF UnmarkReadyBasic
<1>10. /\ "READYBASIC" \in m.flags => "READYBASIC" \in meta[s].flags
       /\ m.flags \cap Derived = meta[s].flags \cap Derived
  BY <1>6 DEF Derived
<1>11. Marked(JobStage(th'[w]), m.flags)
  BY <1>7, <1>8
<1> HIDE DEF m
<1> QED
  BY <1>3, <1>4, <1>5, <1>6, <1>9, <1>10, <1>11, JobWordStep

\* mark_executing succeeds.
LEMMA MarkExecutingInv ==
  ASSUME IndInv, Families, NEW w \in Workers, MarkExecuting(w)
  PROVE  IndInv'
<1> DEFINE s == th[w].job
           m == mark_or(meta[s], {"EXECUTING"}, {"UNSTABLE", "EXECUTING"}, FALSE)
<1>1. AtJob(th[w]) /\ th[w].pc = "execute"
  BY DEF MarkExecuting, At, AtJob
<1>2. s \in Slots /\ Marked("bare", meta[s].flags) /\ meta[s] \in Word
  BY <1>1, JobOnly DEF JobStage, IndInv, Types
<1>5. meta[s].flags \cap {"UNSTABLE", "EXECUTING"} = {} /\ "ALIVE" \in meta[s].flags
      /\ "WLLDESTROY" \notin meta[s].flags
  BY <1>2, FlagsApart DEF Marked
<1>6. m \in Word /\ m.avjobs = meta[s].avjobs /\ m.flags = meta[s].flags \cup {"EXECUTING"}
  <2>1. {"EXECUTING"} \in SUBSET Flag
    BY DEF Flag
  <2> QED
    BY <1>2, <1>5, <2>1, MarkWordsFree
<1>3. PICK l \in {"unaccess"} : Goto(w, l)
  <2>1. Ban(meta[s], {"UNSTABLE", "EXECUTING"}, FALSE) = {}
    BY <1>5 DEF Ban
  <2> QED
    BY <2>1 DEF MarkExecuting
<1>4. /\ AtJobOnly(w, th[w]) /\ AtJobOnly(w, th'[w]) /\ OwnFits(w)'
      /\ ~HasTold(th[w]) /\ ~TellsNow(th'[w]) /\ ~WaitsAt(th[w])
      /\ l \in Labels /\ th'[w].pc = l
  BY <1>1, <1>3, PickFits DEF MarkExecuting
<1>7. JobStage(th'[w]) = "runs"
  BY <1>4 DEF JobStage, Sub
<1>8. Marked("runs", m.flags)
  BY <1>2, <1>6, FlagsApart DEF Marked
<1>9. SetMeta(s, m) /\ UNCHANGED <<gen, info, free, cache, dq, done>>
  BY DEF MarkExecuting
<1>10. /\ "READYBASIC" \in m.flags => "READYBASIC" \in meta[s].flags
       /\ m.flags \cap Derived = meta[s].flags \cap Derived
  BY <1>6 DEF Derived
<1>11. Marked(JobStage(th'[w]), m.flags)
  BY <1>7, <1>8
<1> HIDE DEF m
<1> QED
  BY <1>3, <1>4, <1>5, <1>6, <1>9, <1>10, <1>11, JobWordStep

\* The access is given back and the run begins.
LEMMA UnmarkAccessInv ==
  ASSUME IndInv, Families, NEW w \in Workers, UnmarkAccess(w)
  PROVE  IndInv'
<1> DEFINE s == th[w].job
           m == unmark_access(meta[s])
<1>1. AtJob(th[w]) /\ th[w].pc = "unaccess" /\ ~Running(th[w]) /\ ~AtTarget(th[w])
  BY DEF UnmarkAccess, At, AtJob, Running, AtTarget, Sub
<1>2. /\ s \in Slots /\ Marked("runs", meta[s].flags) /\ meta[s] \in Word
      /\ w \in Threads /\ w # Main /\ s # NoJob /\ gen[s] = th[w].pop_gen /\ Types
  BY <1>1, JobOnly, JobLifeAssumption DEF JobStage, IndInv, Types, Sub
<1>3. PICK l \in {"script"} : Goto(w, l)
  BY DEF UnmarkAccess
<1>4. l \in Labels
  BY DEF Labels
<1>5. /\ th'[w].pc = "script" /\ th'[w].job = s /\ th'[w].k = th[w].k
      /\ th'[w].made = th[w].made /\ th'[w].pop_gen = th[w].pop_gen
  BY <1>2, <1>3, <1>4, Goes
<1>6. /\ AtJob(th'[w]) /\ ~AtTarget(th'[w]) /\ Running(th'[w])
      /\ ~Past(th'[w]) /\ ~TellsNow(th'[w]) /\ ~HasTold(th'[w])
  BY <1>5 DEF AtJob, AtTarget, Running, Past, TellsNow, HasTold, Sub
<1>7. th[w].made = <<>> /\ th[w].k = 1
  BY <1>1 DEF IndInv, Fits, WorkerFits
<1>8. AtJobOnly(w, th[w]) /\ AtJobOnly(w, th'[w])
  BY <1>1, <1>2, <1>5, <1>6, <1>7 DEF AtJobOnly, Pending
<1>9. WorkerFits(th[w])'
  BY <1>2, <1>5, <1>6, <1>7, JobLifeAssumption DEF WorkerFits, Sub
<1>10. TellerFits(th[w])'
  BY <1>5, <1>6 DEF TellerFits, Sub
<1>11. OwnFits(w)'
  BY <1>2, <1>5, <1>6, <1>9, <1>10 DEF OwnFits, UnmarkAccess
<1>12. ~HasTold(th[w]) /\ ~WaitsAt(th[w])
  BY <1>1 DEF HasTold, WaitsAt
<1>13. m \in Word /\ m.avjobs = meta[s].avjobs /\ m.flags = meta[s].flags
  BY <1>2, AccessWords
<1>14. Marked(JobStage(th'[w]), m.flags)
  BY <1>2, <1>5, <1>13 DEF JobStage, Sub
<1>15. "ALIVE" \in meta[s].flags /\ "WLLDESTROY" \notin meta[s].flags
  BY <1>2, FlagsApart DEF Marked
<1>16. SetMeta(s, m) /\ UNCHANGED <<gen, info, free, cache, dq, done>>
  BY DEF UnmarkAccess
<1> HIDE DEF m
<1> QED
  BY <1>3, <1>4, <1>6, <1>8, <1>11, <1>12, <1>13, <1>14, <1>15, <1>16, JobWordStep

\* The access that pickready takes is refused only because there are too
\* many.
LEMMA PickAccessBan ==
  ASSUME IndInv, NEW w \in Workers, PickAccess(w)
  PROVE  /\ AccessBan(meta[th[w].job]) \in {{}, {"ACCESS"}}
         /\ th[w].job \in Slots /\ meta[th[w].job] \in Word
         /\ Marked("ready", meta[th[w].job].flags)
<1>1. AtJob(th[w]) /\ th[w].pc = "access"
  BY DEF PickAccess, At, AtJob
<1>2. /\ th[w].job \in Slots /\ meta[th[w].job] \in Word
      /\ Marked("ready", meta[th[w].job].flags)
  BY <1>1, JobOnly DEF JobStage, IndInv, Types
<1>3. meta[th[w].job].flags \cap {"UNSTABLE", "WLLDESTROY"} = {}
  BY <1>2, FlagsApart DEF Marked
<1> QED
  BY <1>2, <1>3 DEF AccessBan

\* pickready has its access.
LEMMA PickedInv ==
  ASSUME IndInv, Families, NEW w \in Workers, PickAccess(w),
         AccessBan(meta[th[w].job]) = {}
  PROVE  IndInv'
<1> DEFINE s == th[w].job
           m == mark_access(meta[s])
<1>1. AtJob(th[w]) /\ th[w].pc = "access"
  BY DEF PickAccess, At, AtJob
<1>2. s \in Slots /\ Marked("ready", meta[s].flags) /\ meta[s] \in Word
  BY PickAccessBan
<1>3. PICK l \in {"unready"} : Goto(w, l)
  BY DEF PickAccess
<1>4. SetMeta(s, m) /\ UNCHANGED <<gen, info, free, cache, dq, done>>
  BY DEF PickAccess
<1>5. /\ AtJobOnly(w, th[w]) /\ AtJobOnly(w, th'[w]) /\ OwnFits(w)'
      /\ ~HasTold(th[w]) /\ ~TellsNow(th'[w]) /\ ~WaitsAt(th[w])
      /\ l \in Labels /\ th'[w].pc = l
  BY <1>1, <1>3, <1>4, PickFits
<1>6. m \in Word /\ m.avjobs = meta[s].avjobs /\ m.flags = meta[s].flags
  BY <1>2, AccessWords
<1>7. Marked(JobStage(th'[w]), m.flags)
  BY <1>2, <1>3, <1>5, <1>6 DEF JobStage
<1>8. "ALIVE" \in meta[s].flags /\ "WLLDESTROY" \notin meta[s].flags
  BY <1>2, FlagsApart DEF Marked
<1> HIDE DEF m
<1> QED
  BY <1>3, <1>4, <1>5, <1>6, <1>7, <1>8, JobWordStep

\* A thread that has no job to work on.
Free(t, x) == JobOf(t, x) = NoJob /\ TargetOf(x) = NoJob /\ Pending(t, x) = {}

\* A worker goes back to its loop.
LEMMA Loops ==
  ASSUME Types, NEW w \in Workers, Loop(w)
  PROVE  /\ th' \in [Threads -> ThreadStates] /\ th'[w] = Idle
         /\ \A u \in Threads \ {w} : th'[u] = th[u]
         /\ OwnFits(w)' /\ Free(w, th'[w]) /\ w \in Threads
         /\ ~RestsAt(Idle) /\ ~HasTold(Idle) /\ ~TellsNow(Idle) /\ ~WaitsAt(Idle)
<1>1. w \in Threads /\ w # Main
  BY JobLifeAssumption DEF Threads
<1>2. Idle \in ThreadStates
  <2>1. <<>> \in Seq(Slots)
    OBVIOUS
  <2> QED
    BY <2>1 DEF Idle, ThreadStates, Labels, MaybeJob
<1>3. th'[w] = Idle /\ th' \in [Threads -> ThreadStates]
      /\ \A u \in Threads \ {w} : th'[u] = th[u]
  BY <1>1, <1>2 DEF Loop, Types
<1>4. /\ Idle.pc = "loop" /\ ~AtJob(Idle) /\ ~AtTarget(Idle) /\ ~Running(Idle)
      /\ ~RestsAt(Idle) /\ ~HasTold(Idle) /\ ~TellsNow(Idle) /\ ~Past(Idle)
      /\ ~WaitsAt(Idle)
  BY DEF Idle, AtJob, AtTarget, Running, RestsAt, HasTold, TellsNow, Past, Sub, WaitsAt
<1>5. WorkerFits(th[w])' /\ TellerFits(th[w])'
  BY <1>3, <1>4 DEF WorkerFits, TellerFits, Sub
<1>6. Free(w, th'[w])
  BY <1>1, <1>3, <1>4 DEF Free, JobOf, TargetOf, Pending
<1>7. OwnFits(w)'
  BY <1>1, <1>3, <1>4, <1>5, <1>6 DEF OwnFits, Free
<1> QED
  BY <1>1, <1>3, <1>4, <1>6, <1>7

\* A step that changes the word of job s only, and no fields.
LEMMA OneFamily ==
  ASSUME NEW t \in Threads, NEW s \in Slots, \A u \in Threads \ {t} : th'[u] = th[u],
         gen' = gen, done' = done, info' = info,
         \A r \in Slots \ {s} : meta'[r] = meta[r],
         WordStep(s), \A r \in Slots : Resting(r)' <=> Resting(r),
         ThreadStep(t, th[t], th'[t])
  PROVE  FamilyStep(t)
<1>1. \A r \in Slots : SameInfo(r)
  BY DEF SameInfo
<1>2. \A r \in Slots \ {s} : WordStep(r)
  BY DEF WordStep, Suspended
<1> QED
  BY <1>1, <1>2 DEF FamilyStep

\* pickready finds too many accesses and puts the job back.
LEMMA PickRefusedInv ==
  ASSUME IndInv, Families, NEW w \in Workers, PickAccess(w),
         AccessBan(meta[th[w].job]) = {"ACCESS"}
  PROVE  IndInv'
<1>0. AtJob(th[w]) /\ th[w].pc = "access" /\ ~Running(th[w]) /\ ~AtTarget(th[w])
  BY DEF PickAccess, At, AtJob, Running, AtTarget, Sub
<1>1. PICK s \in Slots : s = th[w].job
  BY <1>0, JobOnly
<1>2. /\ Marked("ready", meta[s].flags) /\ ~Outside(s) /\ Has(w, th[w], s)
      /\ w \in Threads /\ w # Main /\ s # NoJob /\ Types
  BY <1>0, <1>1, JobOnly, JobLifeAssumption DEF JobStage, IndInv
<1>3. /\ meta' = meta /\ cache' = [cache EXCEPT ![s] = @ + 1] /\ Loop(w)
      /\ UNCHANGED <<gen, info, free, dq, done>>
  BY <1>1 DEF PickAccess, SetMeta, mark_access, IndInv, Types
<1>4. /\ th' \in [Threads -> ThreadStates] /\ th'[w] = Idle
      /\ \A u \in Threads \ {w} : th'[u] = th[u]
      /\ OwnFits(w)' /\ Free(w, th'[w])
      /\ ~RestsAt(Idle) /\ ~HasTold(Idle) /\ ~TellsNow(Idle) /\ ~WaitsAt(Idle)
  BY <1>2, <1>3, Loops
<1>5. cache' \in [Slots -> Nat] /\ \A r \in Slots \ {s} : cache'[r] = cache[r]
  BY <1>2, <1>3 DEF Types
<1>6. Types'
  BY <1>2, <1>3, <1>4, <1>5 DEF Types
<1>7. Queued' = Queued /\ Suspended' = Suspended
  BY <1>3 DEF Queued, Suspended
<1>8. Moves(w, s)
  BY <1>3, <1>4, <1>5, <1>7 DEF Moves, Free, KeepsHands
<1>9. cache[s] = 0 /\ cache'[s] = 1 /\ s \in Cached'
  BY <1>2, <1>3 DEF Outside, Cached, Types
<1>10. OnePlace'
  BY <1>3, <1>5, <1>9 DEF OnePlace, IndInv, Exclusive
<1>11. HasNot(w, th'[w], s) /\ HasOnce(w, th'[w], s) /\ HasStaged(w, th'[w], s, meta'[s].flags)
  BY <1>2, <1>4 DEF Free, HasNot, HasOnce, HasStaged
<1>12. FamilyStep(w)
  <2>1. \A r \in Slots : Resting(r)' <=> Resting(r)
    BY <1>0, <1>2, <1>3, <1>4, RestingKept DEF RestsAt
  <2>2. WordStep(s)
    BY <1>3, <1>7 DEF WordStep
  <2>3. ~HasTold(th[w]) /\ ~WaitsAt(th[w])
    BY <1>0 DEF HasTold, WaitsAt
  <2>4. Pending(w, th[w]) = {} /\ Len(th[w].made) = 0
    BY <1>0, <1>2 DEF IndInv, Fits, WorkerFits, Pending
  <2>5. ThreadStep(w, th[w], th'[w])
    BY <1>4, <2>3, <2>4 DEF ThreadStep, JobStep, Free
  <2> QED
    BY <1>2, <1>3, <1>4, <2>1, <2>2, <2>5, OneFamily
<1>13. /\ s \notin free' /\ s \notin Queued' /\ s \notin Suspended'
       /\ Marked("ready", meta'[s].flags)
  BY <1>2, <1>3, <1>7 DEF Outside
<1> QED
  BY <1>2, <1>4, <1>6, <1>8, <1>10, <1>11, <1>12, <1>13, MoveStep

\* A worker pops a job from the ready cache.
LEMMA PopInv ==
  ASSUME IndInv, Families, NEW w \in Workers, Pop(w)
  PROVE  IndInv'
<1>0. PICK s \in Slots :
        /\ cache[s] > 0 /\ cache' = [cache EXCEPT ![s] = @ - 1]
        /\ th' = [th EXCEPT ![w] =
             [Idle EXCEPT !.pc = "access", !.job = s, !.pop_gen = gen[s]]]
  BY DEF Pop
<1> DEFINE y == [Idle EXCEPT !.pc = "access", !.job = s, !.pop_gen = gen[s]]
<1>1. /\ w \in Threads /\ w # Main /\ Types /\ s # NoJob /\ th[w].pc = "loop"
      /\ UNCHANGED <<meta, gen, info, free, dq, done>>
  BY JobLifeAssumption DEF Threads, IndInv, Pop, At
<1>2. y \in ThreadStates
  <2>1. <<>> \in Seq(Slots) /\ gen[s] \in Nat
    BY <1>1 DEF Types
  <2> QED
    BY <2>1 DEF Idle, ThreadStates, Labels, MaybeJob
<1>3. /\ y.pc = "access" /\ y.job = s /\ y.pop_gen = gen[s] /\ y.made = <<>> /\ y.k = 1
  BY DEF Idle
<1> HIDE DEF y
<1>4. /\ th'[w] = y /\ th' \in [Threads -> ThreadStates]
      /\ \A u \in Threads \ {w} : th'[u] = th[u]
  BY <1>0, <1>1, <1>2 DEF Types, y
<1>5. /\ AtJob(y) /\ ~AtTarget(y) /\ ~Running(y) /\ ~RestsAt(y) /\ ~HasTold(y)
      /\ ~TellsNow(y) /\ ~Past(y) /\ ~WaitsAt(y) /\ JobStage(y) = "ready"
  BY <1>3 DEF AtJob, AtTarget, Running, RestsAt, HasTold, TellsNow, Past, Sub,
              WaitsAt, JobStage
<1>6. JobOf(w, y) = s /\ TargetOf(y) = NoJob /\ Pending(w, y) = {}
  BY <1>1, <1>3, <1>5 DEF JobOf, TargetOf, Pending
<1>7. OwnFits(w)'
  <2>1. WorkerFits(th[w])' /\ TellerFits(th[w])'
    BY <1>1, <1>3, <1>4, <1>5 DEF WorkerFits, TellerFits, Sub
  <2> QED
    BY <1>1, <1>3, <1>4, <1>5, <2>1 DEF OwnFits
<1>8. s \in Cached /\ cache[s] = 1
  BY <1>0, <1>1 DEF Cached, IndInv, Exclusive, OnePlace, Types
<1>9. cache'[s] = 0 /\ cache' \in [Slots -> Nat] /\ \A r \in Slots \ {s} : cache'[r] = cache[r]
  BY <1>0, <1>1, <1>8 DEF Types
<1>10. Types'
  BY <1>1, <1>4, <1>9 DEF Types
<1>11. Queued' = Queued /\ Suspended' = Suspended
  BY <1>1 DEF Queued, Suspended
<1>12. s \notin free /\ s \notin Queued /\ s \notin Suspended
  BY <1>8 DEF IndInv, Exclusive, PlacesApart
<1>13. ~Outside(s)'
  BY <1>1, <1>9, <1>11, <1>12 DEF Outside, Cached
<1>14. Moves(w, s)
  BY <1>1, <1>4, <1>6, <1>9, <1>11 DEF Moves, KeepsHands
<1>15. OnePlace'
  BY <1>1, <1>9 DEF OnePlace, IndInv, Exclusive
<1>16. HasOnce(w, th'[w], s) /\ HasStaged(w, th'[w], s, meta'[s].flags)
  <2>1. Marked("ready", meta'[s].flags)
    BY <1>1, <1>8 DEF IndInv, Staged
  <2> QED
    BY <1>1, <1>4, <1>5, <1>6, <2>1 DEF HasOnce, HasStaged
<1>17. FamilyStep(w)
  <2>1. \A r \in Slots : Resting(r)' <=> Resting(r)
    BY <1>1, <1>4, <1>5, RestingKept DEF RestsAt
  <2>2. WordStep(s)
    BY <1>1, <1>11 DEF WordStep
  <2>3. ~HasTold(th[w]) /\ ~WaitsAt(th[w]) /\ ~AtJob(th[w])
    BY <1>1 DEF HasTold, WaitsAt, AtJob, Running, Sub
  <2>4. JobOf(w, th[w]) = NoJob /\ Len(y.made) = 0
    BY <1>1, <1>3, <2>3 DEF JobOf
  <2>5. \A v \in Workers : JobOf(v, th[v]) # s
    <3>1. \A v \in Workers : v \in Threads /\ Held(v, th[v], 0) = JobOf(v, th[v])
                             /\ 0 \in Fields
      BY DEF Threads, Held, Fields
    <3> QED
      BY <1>8, <3>1 DEF IndInv, Exclusive, HandsOutside
  <2>6. ThreadStep(w, th[w], th'[w])
    BY <1>4, <1>5, <1>6, <2>3, <2>4, <2>5 DEF ThreadStep, JobStep
  <2> QED
    BY <1>1, <1>4, <2>1, <2>2, <2>6, OneFamily
<1>18. Outside(s) /\ s \notin free' /\ s \notin Cached' /\ s \notin Queued'
       /\ s \notin Suspended'
  BY <1>8, <1>13 DEF Outside
<1> QED
  BY <1>1, <1>7, <1>10, <1>13, <1>14, <1>15, <1>16, <1>17, <1>18, MoveStep

\* What is known of the target of a thread.
LEMMA TargetOnly ==
  ASSUME IndInv, NEW t \in Threads, AtTarget(th[t])
  PROVE  /\ th[t].tgt \in Slots /\ TargetOf(th[t]) = th[t].tgt
         /\ Has(t, th[t], th[t].tgt) /\ ~Outside(th[t].tgt)
         /\ Marked(TargetStage(th[t]), meta[th[t].tgt].flags)
         /\ JobOf(t, th[t]) # th[t].tgt
         /\ \A i \in Pending(t, th[t]) : th[t].made[i] # th[t].tgt
         /\ meta[th[t].tgt] \in Word
<1>1. th[t] \in ThreadStates /\ th[t].tgt # NoJob
  BY DEF IndInv, Types, Fits
<1>2. th[t].tgt \in Slots
  BY <1>1 DEF ThreadStates, MaybeJob
<1>3. TargetOf(th[t]) = th[t].tgt
  BY DEF TargetOf
<1>4. Has(t, th[t], th[t].tgt)
  BY <1>3 DEF Has
<1>5. /\ ~Outside(th[t].tgt) /\ HasStaged(t, th[t], th[t].tgt, meta[th[t].tgt].flags)
      /\ HasOnce(t, th[t], th[t].tgt)
  BY <1>2, <1>4, InHands
<1>6. Marked(TargetStage(th[t]), meta[th[t].tgt].flags)
  BY <1>3, <1>5 DEF HasStaged
<1>7. /\ JobOf(t, th[t]) # th[t].tgt
      /\ \A i \in Pending(t, th[t]) : th[t].made[i] # th[t].tgt
  BY <1>3, <1>5 DEF HasOnce
<1> QED
  BY <1>2, <1>3, <1>4, <1>5, <1>6, <1>7 DEF IndInv, Types

\* A thread works on its target, and on nothing else that it has.
SameHands(t, x, y) ==
  /\ y.tgt = x.tgt /\ y.made = x.made
  /\ JobOf(t, y) = JobOf(t, x) /\ Pending(t, y) = Pending(t, x)
  /\ JobOf(t, x) = NoJob \/ JobStage(y) = JobStage(x)

\* It has its target at most once.
LEMMA TargetHands ==
  ASSUME IndInv, NEW t \in Threads, AtTarget(th[t]), SameHands(t, th[t], th'[t])
  PROVE  /\ KeepsHands(t, th[t], th'[t], th[t].tgt) /\ HasOnce(t, th'[t], th[t].tgt)
         /\ ~AtTarget(th'[t]) => HasNot(t, th'[t], th[t].tgt)
         /\ \A F : AtTarget(th'[t]) /\ Marked(TargetStage(th'[t]), F) =>
              HasStaged(t, th'[t], th[t].tgt, F)
         /\ JobStep(t, th[t], th'[t])
<1>1. PICK s \in Slots : s = th[t].tgt
  BY TargetOnly
<1>2. s # NoJob /\ JobOf(t, th[t]) # s /\ \A i \in Pending(t, th[t]) : th[t].made[i] # s
  BY <1>1, TargetOnly, JobLifeAssumption
<1>3. TargetOf(th'[t]) \in {NoJob, s} /\ (~AtTarget(th'[t]) => TargetOf(th'[t]) = NoJob)
  BY <1>1 DEF TargetOf, SameHands
<1>4. JobOf(t, th'[t]) # s /\ \A i \in Pending(t, th'[t]) : th'[t].made[i] # s
  BY <1>2 DEF SameHands
<1>5. KeepsHands(t, th[t], th'[t], s)
  BY <1>3 DEF KeepsHands, SameHands
<1>6. HasOnce(t, th'[t], s) /\ (~AtTarget(th'[t]) => HasNot(t, th'[t], s))
  BY <1>2, <1>3, <1>4 DEF HasOnce, HasNot
<1>7. \A F : Marked(TargetStage(th'[t]), F) => HasStaged(t, th'[t], s, F)
  BY <1>4 DEF HasStaged
<1>8. JobStep(t, th[t], th'[t])
  BY DEF JobStep, SameHands
<1> QED
  BY <1>1, <1>5, <1>6, <1>7, <1>8

\* A thread changes the word of its target, which stays its target.
LEMMA TargetWordStep ==
  ASSUME IndInv, Families, NEW t \in Threads, NEW s \in Slots, NEW l \in Labels,
         NEW m \in Word, Goto(t, l), s = th[t].tgt, SetMeta(s, m),
         UNCHANGED <<gen, info, free, cache, dq, done>>,
         AtTarget(th[t]), AtTarget(th'[t]), SameHands(t, th[t], th'[t]),
         "READYBASIC" \in m.flags => Derived \subseteq m.flags,
         Marked(TargetStage(th'[t]), m.flags), WordStep(s),
         RestsAt(th[t]) <=> RestsAt(th'[t]),
         HasTold(th[t]) => HasTold(th'[t]),
         t \in Workers /\ TellsNow(th'[t]) => TellsNow(th[t]),
         t \in Workers => ~WaitsAt(th[t]), OwnFits(t)'
  PROVE  IndInv'
<1>1. /\ Types /\ Has(t, th[t], s) /\ ~Outside(s)
  BY TargetOnly DEF IndInv
<1>2. /\ KeepsHands(t, th[t], th'[t], s) /\ HasOnce(t, th'[t], s)
      /\ HasStaged(t, th'[t], s, m.flags) /\ JobStep(t, th[t], th'[t])
  BY TargetHands
<1>3. /\ meta' \in [Slots -> Word] /\ meta'[s] = m
      /\ \A r \in Slots \ {s} : meta'[r] = meta[r]
  BY <1>1, OneWord
<1>4. /\ th' \in [Threads -> ThreadStates]
      /\ \A u \in Threads \ {t} : th'[u] = th[u]
      /\ th'[t].job = th[t].job /\ th'[t].tgt = th[t].tgt
  BY <1>1, Goes
<1>5. Types'
  BY <1>1, <1>3, <1>4 DEF Types
<1>6. Queued' = Queued /\ Cached' = Cached
  BY DEF Queued, Cached
<1>7. Moves(t, s)
  BY <1>2, <1>3, <1>4, <1>6 DEF Moves
<1>8. ~Outside(s)' /\ s \notin free' /\ s \notin Cached' /\ s \notin Queued' /\ s \notin Suspended'
  BY <1>1, <1>3, <1>6 DEF Outside, Suspended
<1>9. OnePlace'
  BY DEF IndInv, Exclusive, OnePlace
<1>10. FamilyStep(t)
  <2>1. \A r \in Slots : Resting(r)' <=> Resting(r)
    BY <1>4, RestingKept
  <2>2. ThreadStep(t, th[t], th'[t])
    BY <1>2, <1>4 DEF ThreadStep
  <2> QED
    BY <1>3, <1>4, <2>1, <2>2, OneFamily
<1>11. HasStaged(t, th'[t], s, meta'[s].flags)
  BY <1>2, <1>3
<1> QED
  BY <1>1, <1>2, <1>5, <1>7, <1>8, <1>9, <1>10, <1>11, MoveStep

\* What a thread in schedi_job_setready knows after it.
LEMMA SetReadyFits ==
  ASSUME IndInv, NEW t \in Threads, NEW l \in {"cache"}, Goto(t, l),
         th[t].pc = "setready", gen' = gen, info' = info
  PROVE  /\ AtTarget(th[t]) /\ AtTarget(th'[t]) /\ SameHands(t, th[t], th'[t])
         /\ RestsAt(th[t]) <=> RestsAt(th'[t])
         /\ HasTold(th[t]) => HasTold(th'[t])
         /\ ~TellsNow(th'[t]) /\ ~WaitsAt(th[t]) /\ OwnFits(t)'
         /\ l \in Labels /\ th'[t].pc = l
<1>1. l \in Labels /\ Types
  BY DEF Labels, IndInv
<1>2. /\ th'[t].pc = "cache" /\ th'[t].job = th[t].job /\ th'[t].tgt = th[t].tgt
      /\ th'[t].back = th[t].back /\ th'[t].k = th[t].k
      /\ th'[t].made = th[t].made /\ th'[t].script = th[t].script
      /\ th'[t].pop_gen = th[t].pop_gen /\ th'[t].req = th[t].req
  BY <1>1, Goes
<1>3. /\ AtTarget(th[t]) /\ AtTarget(th'[t])
      /\ ~RestsAt(th[t]) /\ ~RestsAt(th'[t])
      /\ HasTold(th[t]) <=> HasTold(th'[t])
      /\ Past(th[t]) <=> Past(th'[t])
      /\ Running(th[t]) <=> Running(th'[t])
      /\ AtJob(th[t]) <=> AtJob(th'[t])
      /\ ~TellsNow(th'[t]) /\ ~WaitsAt(th[t])
      /\ JobStage(th[t]) = JobStage(th'[t])
  BY <1>2 DEF AtTarget, RestsAt, HasTold, Past, Running, AtJob, Sub, TellsNow, WaitsAt,
              JobStage
<1>4. JobOf(t, th'[t]) = JobOf(t, th[t]) /\ Pending(t, th'[t]) = Pending(t, th[t])
  BY <1>2, <1>3 DEF JobOf, Pending
<1>5. SameHands(t, th[t], th'[t])
  BY <1>2, <1>3, <1>4 DEF SameHands
<1>6. th'[t].tgt # NoJob
  BY <1>2, <1>3 DEF IndInv, Fits
<1>7. ASSUME t = Main PROVE MainFits(th[t])'
  <2>1. MainFits(th[t])
    BY <1>7 DEF IndInv, Fits
  <2> QED
    BY <1>2, <2>1 DEF MainFits
<1>8. ASSUME t \in Workers
      PROVE  /\ WorkerFits(th[t])' /\ TellerFits(th[t])'
             /\ JobOf(t, th'[t]) # NoJob => gen'[th'[t].job] = th'[t].pop_gen
  <2>1. /\ WorkerFits(th[t]) /\ TellerFits(th[t])
        /\ JobOf(t, th[t]) # NoJob => gen[th[t].job] = th[t].pop_gen
    BY <1>8 DEF IndInv, Fits, TellersFit, SameLife
  <2>2. WorkerFits(th[t])'
    BY <1>2, <1>3, <2>1 DEF WorkerFits, Sub, Parent
  <2>3. TellerFits(th[t])'
    BY <1>2, <1>3, <2>1 DEF TellerFits, Sub, Parent
  <2> QED
    BY <1>2, <1>4, <2>1, <2>2, <2>3
<1>9. OwnFits(t)'
  BY <1>6, <1>7, <1>8 DEF OwnFits
<1> QED
  BY <1>1, <1>2, <1>3, <1>5, <1>9

\* schedi_job_setready marks its job ready.
LEMMA SetReadyInv ==
  ASSUME IndInv, Families, NEW t \in Threads, SetReady(t)
  PROVE  IndInv'
<1>1. th[t].pc = "setready" /\ AtTarget(th[t])
  BY DEF SetReady, At, AtTarget
<1>2. PICK s \in Slots : s = th[t].tgt
  BY <1>1, TargetOnly
<1> DEFINE ban == {"UNSTABLE", "WLLDESTROY", "READY"}
           m == mark_or(meta[s], {"READY"}, ban, FALSE)
<1>3. /\ meta[s] \in Word /\ ~Outside(s)
      /\ Marked("bare", meta[s].flags) \/ Marked("again", meta[s].flags)
  BY <1>1, <1>2, TargetOnly DEF TargetStage
<1>4. meta[s].flags \cap ban = {} /\ {"READY"} \in SUBSET Flag
  BY <1>3, FlagsApart DEF Marked, Flag
<1>5. m \in Word /\ m.avjobs = meta[s].avjobs /\ m.flags = meta[s].flags \cup {"READY"}
      /\ Ban(meta[s], ban, FALSE) = {}
  BY <1>3, <1>4, MarkWordsFree
<1>6. SetMeta(s, m) /\ UNCHANGED <<gen, info, free, cache, dq, done>>
  BY <1>2 DEF SetReady
<1>7. PICK l \in {"cache"} : Goto(t, l)
  BY <1>2, <1>5 DEF SetReady
<1> HIDE DEF m, ban
<1>8. /\ AtTarget(th[t]) /\ AtTarget(th'[t]) /\ SameHands(t, th[t], th'[t])
      /\ RestsAt(th[t]) <=> RestsAt(th'[t])
      /\ HasTold(th[t]) => HasTold(th'[t])
      /\ ~TellsNow(th'[t]) /\ ~WaitsAt(th[t]) /\ OwnFits(t)'
      /\ l \in Labels /\ th'[t].pc = l
  BY <1>1, <1>6, <1>7, SetReadyFits
<1>9. "READYBASIC" \in m.flags => Derived \subseteq m.flags
  BY <1>3, <1>5 DEF Outside, Suspended
<1>10. Marked(TargetStage(th'[t]), m.flags)
  <2>1. TargetStage(th'[t]) = "ready"
    BY <1>8 DEF TargetStage
  <2>2. Marked("ready", m.flags)
    BY <1>3, <1>5, FlagsApart DEF Marked
  <2> QED
    BY <2>1, <2>2
<1>11. WordStep(s)
  <2>1. meta'[s] = m
    BY <1>5, <1>6, OneWord DEF IndInv
  <2> QED
    BY <1>3, <1>5, <2>1 DEF WordStep, Outside
<1> QED
  BY <1>2, <1>5, <1>6, <1>7, <1>8, <1>9, <1>10, <1>11, TargetWordStep

\* What a thread knows when it comes back from a call with its target gone.
LEMMA BackFits ==
  ASSUME IndInv, NEW t \in Threads, Goto(t, th[t].back),
         th[t].pc \in {"cache", "destroy", "release"}, gen' = gen, info' = info
  PROVE  /\ AtTarget(th[t]) /\ ~AtTarget(th'[t]) /\ SameHands(t, th[t], th'[t])
         /\ HasTold(th[t]) => HasTold(th'[t])
         /\ ~TellsNow(th'[t]) /\ ~WaitsAt(th[t]) /\ OwnFits(t)' /\ ~RestsAt(th'[t])
         /\ th[t].back \in Labels
<1>0. AtTarget(th[t]) /\ ~WaitsAt(th[t])
  BY DEF AtTarget, WaitsAt
<1>1. t = Main => MainFits(th[t]) /\ th[t].back = "script"
  BY DEF IndInv, Fits, MainFits
<1>2. t \in Workers =>
        /\ WorkerFits(th[t]) /\ TellerFits(th[t])
        /\ JobOf(t, th[t]) # NoJob => gen[th[t].job] = th[t].pop_gen
        /\ th[t].pc = "cache" => th[t].back \in {"script", "check", "told"}
        /\ th[t].pc # "cache" => th[t].back \in {"check", "queue"}
  BY DEF IndInv, Fits, TellersFit, SameLife, WorkerFits, Sub
<1>3. PICK l \in {"script", "check", "told", "queue"} : l = th[t].back
  BY <1>1, <1>2 DEF Threads
<1>4. l \in Labels /\ Types /\ Goto(t, l)
  BY <1>3 DEF Labels, IndInv
<1>5. /\ th'[t].pc = l /\ th'[t].job = th[t].job /\ th'[t].tgt = th[t].tgt
      /\ th'[t].back = th[t].back /\ th'[t].k = th[t].k
      /\ th'[t].made = th[t].made /\ th'[t].script = th[t].script
      /\ th'[t].pop_gen = th[t].pop_gen /\ th'[t].req = th[t].req
  BY <1>4, Goes
<1>6. ~AtTarget(th'[t]) /\ ~TellsNow(th'[t]) /\ ~RestsAt(th'[t])
  BY <1>5 DEF AtTarget, TellsNow, RestsAt
<1>7. CASE t = Main
  <2>1. JobOf(t, th[t]) = NoJob /\ JobOf(t, th'[t]) = NoJob
        /\ Pending(t, th'[t]) = Pending(t, th[t])
    BY <1>1, <1>3, <1>5, <1>7 DEF JobOf, Pending
  <2>2. SameHands(t, th[t], th'[t])
    BY <1>5, <2>1 DEF SameHands
  <2>3. ~HasTold(th[t])
    BY <1>1, <1>7 DEF HasTold
  <2>4. MainFits(th[t])'
    BY <1>1, <1>3, <1>5, <1>7 DEF MainFits
  <2>5. OwnFits(t)'
    BY <1>6, <1>7, <2>4, JobLifeAssumption DEF OwnFits
  <2> QED
    BY <1>0, <1>3, <1>4, <1>6, <2>2, <2>3, <2>5
<1>8. CASE t \in Workers
  <2>0. t # Main
    BY <1>8, JobLifeAssumption
  <2>1. /\ HasTold(th[t]) => HasTold(th'[t])
        /\ Past(th[t]) <=> Past(th'[t])
        /\ Running(th[t]) <=> Running(th'[t])
        /\ AtJob(th[t]) <=> AtJob(th'[t])
        /\ AtJob(th[t]) => JobStage(th[t]) = JobStage(th'[t])
    BY <1>2, <1>3, <1>5, <1>8 DEF HasTold, Past, Running, AtJob, Sub, JobStage
  <2>2. JobOf(t, th'[t]) = JobOf(t, th[t]) /\ Pending(t, th'[t]) = Pending(t, th[t])
    BY <1>5, <2>0, <2>1 DEF JobOf, Pending
  <2>3. SameHands(t, th[t], th'[t])
    BY <1>5, <2>0, <2>1, <2>2 DEF SameHands, JobOf
  <2>4. WorkerFits(th[t])'
    BY <1>2, <1>3, <1>5, <1>8, <2>1 DEF WorkerFits, Sub, Parent
  <2>5. TellerFits(th[t])'
    <3>1. th'[t].pc = "told" => th[t].pc = "cache" /\ th[t].back = "told"
      BY <1>2, <1>3, <1>5, <1>8
    <3>2. HasTold(th'[t]) => th'[t].pc = "told"
      BY <1>5 DEF HasTold
    <3>3. th'[t].pc \notin Sub
      BY <1>5 DEF Sub
    <3>4. th'[t].pc = "told" => HasTold(th[t]) /\ th[t].pc # "wlldestroy"
      BY <3>1 DEF HasTold
    <3>5. th'[t].pc = "told" => th[t].tgt = info[th[t].job].requested
                                /\ info[th[t].job].requested # NoJob
      BY <1>2, <1>8, <3>1, <3>4 DEF TellerFits, Sub
    <3> QED
      BY <1>5, <1>6, <3>2, <3>3, <3>5 DEF TellerFits, Sub
  <2>6. OwnFits(t)'
    BY <1>2, <1>5, <1>6, <1>8, <2>0, <2>2, <2>4, <2>5 DEF OwnFits
  <2> QED
    BY <1>0, <1>3, <1>4, <1>6, <2>1, <2>3, <2>6
<1> QED
  BY <1>7, <1>8 DEF Threads

\* A thread puts its target somewhere else and comes back.
LEMMA TargetOutStep ==
  ASSUME IndInv, Families, NEW t \in Threads, NEW s \in Slots, s = th[t].tgt,
         Goto(t, th[t].back), th[t].pc \in {"cache", "destroy", "release"},
         UNCHANGED <<gen, info, done>>,
         meta' \in [Slots -> Word], \A r \in Slots \ {s} : meta'[r] = meta[r],
         free' \subseteq Slots, cache' \in [Slots -> Nat], dq' \in Seq(Slots),
         \A r \in Slots \ {s} :
           /\ r \in free' <=> r \in free
           /\ cache'[r] = cache[r]
           /\ r \in Queued' <=> r \in Queued,
         (s \in free') => ~(s \in Cached \/ s \in Queued \/ s \in Suspended)',
         (s \in Cached') => ~(s \in Queued \/ s \in Suspended)',
         ~(s \in Queued /\ s \in Suspended)', OnePlace',
         s \in Cached' => Marked("ready", meta'[s].flags),
         s \in Queued' => Marked("queued", meta'[s].flags),
         s \in Suspended' => Marked("again", meta'[s].flags),
         WordStep(s), \A r \in Slots : Resting(r)' <=> Resting(r)
  PROVE  IndInv'
<1>1. /\ AtTarget(th[t]) /\ ~AtTarget(th'[t]) /\ SameHands(t, th[t], th'[t])
      /\ HasTold(th[t]) => HasTold(th'[t])
      /\ ~TellsNow(th'[t]) /\ ~WaitsAt(th[t]) /\ OwnFits(t)'
      /\ th[t].back \in Labels
  BY BackFits
<1>2. /\ Types /\ Has(t, th[t], s) /\ ~Outside(s) /\ s # NoJob
  BY <1>1, TargetOnly, JobLifeAssumption DEF IndInv
<1>3. /\ KeepsHands(t, th[t], th'[t], s) /\ HasOnce(t, th'[t], s)
      /\ HasNot(t, th'[t], s) /\ JobStep(t, th[t], th'[t])
  BY <1>1, TargetHands
<1>4. /\ th' \in [Threads -> ThreadStates]
      /\ \A u \in Threads \ {t} : th'[u] = th[u]
      /\ th'[t].job = th[t].job
  BY <1>1, <1>2, Goes
<1>5. Types'
  BY <1>2, <1>4 DEF Types
<1>6. Moves(t, s)
  BY <1>3, <1>4 DEF Moves
<1>7. HasStaged(t, th'[t], s, meta'[s].flags)
  BY <1>3 DEF HasStaged, HasNot
<1>8. FamilyStep(t)
  <2>1. ThreadStep(t, th[t], th'[t])
    BY <1>1, <1>3, <1>4 DEF ThreadStep
  <2> QED
    BY <1>4, <2>1, OneFamily
<1> QED
  BY <1>1, <1>2, <1>3, <1>5, <1>6, <1>7, <1>8, MoveStep

\* The job goes to the ready cache.
LEMMA CachePushInv ==
  ASSUME IndInv, Families, NEW t \in Threads, CachePush(t)
  PROVE  IndInv'
<1>1. th[t].pc = "cache" /\ AtTarget(th[t]) /\ Types
  BY DEF CachePush, At, AtTarget, IndInv
<1>2. PICK s \in Slots : s = th[t].tgt
  BY <1>1, TargetOnly
<1>3. Marked("ready", meta[s].flags) /\ ~Outside(s)
  BY <1>1, <1>2, TargetOnly DEF TargetStage
<1>4. /\ cache' = [cache EXCEPT ![s] = @ + 1] /\ Goto(t, th[t].back)
      /\ UNCHANGED <<meta, gen, info, free, dq, done>>
  BY <1>2 DEF CachePush
<1>5. cache[s] = 0 /\ cache'[s] = 1 /\ cache' \in [Slots -> Nat]
      /\ \A r \in Slots \ {s} : cache'[r] = cache[r]
  BY <1>1, <1>3, <1>4 DEF Types, Outside, Cached
<1>6. Queued' = Queued /\ Suspended' = Suspended
  BY <1>4 DEF Queued, Suspended
<1>7. OnePlace'
  BY <1>4, <1>5 DEF OnePlace, IndInv, Exclusive
<1>8. WordStep(s)
  BY <1>4, <1>6 DEF WordStep
<1>9. ~RestsAt(th[t]) /\ ~RestsAt(th'[t]) /\ \A u \in Threads \ {t} : th'[u] = th[u]
  <2>1. ~RestsAt(th'[t]) /\ th[t].back \in Labels
    BY <1>1, <1>4, BackFits
  <2> QED
    BY <1>1, <1>4, <2>1, Goes DEF RestsAt
<1>10. \A r \in Slots : Resting(r)' <=> Resting(r)
  BY <1>4, <1>9, RestingKept
<1>11. s \notin free' /\ s \notin Queued' /\ s \notin Suspended'
       /\ Marked("ready", meta'[s].flags)
  BY <1>3, <1>4, <1>6 DEF Outside
<1>12. /\ meta' \in [Slots -> Word] /\ free' \subseteq Slots /\ dq' \in Seq(Slots)
       /\ \A r \in Slots \ {s} : meta'[r] = meta[r] /\ (r \in free' <=> r \in free)
                                 /\ (r \in Queued' <=> r \in Queued)
  BY <1>1, <1>4, <1>6 DEF Types
<1> QED
  BY <1>1, <1>2, <1>4, <1>5, <1>7, <1>8, <1>10, <1>11, <1>12, TargetOutStep

\* What a thread in schedi_job_destroy_now knows as it goes on.
LEMMA DownFits ==
  ASSUME IndInv, NEW t \in Threads, NEW l \in {"teardown", "clear", "release"},
         Goto(t, l), th[t].pc \in {"destroy", "teardown", "clear"}, info' = info
  PROVE  /\ AtTarget(th[t]) /\ AtTarget(th'[t]) /\ SameHands(t, th[t], th'[t])
         /\ ~HasTold(th[t]) /\ ~TellsNow(th'[t]) /\ ~WaitsAt(th[t]) /\ OwnFits(t)'
         /\ l \in Labels /\ th'[t].pc = l /\ JobOf(t, th'[t]) = NoJob
<1>1. l \in Labels /\ Types
  BY DEF Labels, IndInv
<1>2. /\ th'[t].pc = l /\ th'[t].job = th[t].job /\ th'[t].tgt = th[t].tgt
      /\ th'[t].back = th[t].back /\ th'[t].k = th[t].k
      /\ th'[t].made = th[t].made /\ th'[t].script = th[t].script
  BY <1>1, Goes
<1>3. /\ AtTarget(th[t]) /\ AtTarget(th'[t]) /\ ~HasTold(th[t]) /\ ~HasTold(th'[t])
      /\ ~Past(th'[t]) /\ ~Running(th[t]) /\ ~Running(th'[t])
      /\ ~AtJob(th[t]) /\ ~AtJob(th'[t]) /\ ~TellsNow(th'[t]) /\ ~WaitsAt(th[t])
  BY <1>2 DEF AtTarget, HasTold, Past, Running, AtJob, Sub, TellsNow, WaitsAt
<1>4. JobOf(t, th'[t]) = NoJob /\ JobOf(t, th[t]) = NoJob
      /\ Pending(t, th'[t]) = Pending(t, th[t])
  BY <1>2, <1>3 DEF JobOf, Pending
<1>5. SameHands(t, th[t], th'[t])
  BY <1>2, <1>4 DEF SameHands
<1>6. th'[t].tgt # NoJob
  BY <1>2, <1>3 DEF IndInv, Fits
<1>7. ASSUME t = Main PROVE MainFits(th[t])'
  <2>1. MainFits(th[t])
    BY <1>7 DEF IndInv, Fits
  <2> QED
    BY <1>2, <2>1 DEF MainFits
<1>8. ASSUME t \in Workers PROVE WorkerFits(th[t])' /\ TellerFits(th[t])'
  <2>1. WorkerFits(th[t])
    BY <1>8 DEF IndInv, Fits
  <2>2. WorkerFits(th[t])'
    BY <1>2, <1>3, <2>1 DEF WorkerFits, Sub
  <2>3. TellerFits(th[t])'
    BY <1>2, <1>3 DEF TellerFits, Sub
  <2> QED
    BY <2>2, <2>3
<1>9. OwnFits(t)'
  BY <1>4, <1>6, <1>7, <1>8 DEF OwnFits
<1> QED
  BY <1>1, <1>2, <1>3, <1>4, <1>5, <1>9

\* Marking a job unstable.
LEMMA UnstableWords ==
  ASSUME NEW m \in Word
  PROVE  LET n == mark_or(m, {"UNSTABLE"}, {"UNSTABLE", "EXECUTING", "READY"}, TRUE) IN
         /\ n \in Word /\ n.avjobs = m.avjobs
         /\ UnstableBan(m) = {} => n.flags = m.flags \cup {"UNSTABLE"}
         /\ UnstableBan(m) # {} => n = m
<1>1. m.flags \cup {"UNSTABLE"} \in SUBSET Flag
  BY DEF Word, Flag
<1>2. /\ [m EXCEPT !.flags = @ \cup {"UNSTABLE"}] \in Word
      /\ [m EXCEPT !.flags = @ \cup {"UNSTABLE"}].avjobs = m.avjobs
      /\ [m EXCEPT !.flags = @ \cup {"UNSTABLE"}].flags = m.flags \cup {"UNSTABLE"}
  BY <1>1 DEF Word
<1> QED
  BY <1>2 DEF mark_or, UnstableBan

\* schedi_job_destroy_now could mark the job: it goes to the destroy queue.
LEMMA DestroyQueuesInv ==
  ASSUME IndInv, Families, NEW t \in Threads, DestroyNow(t),
         UnstableBan(meta[th[t].tgt]) = {}
  PROVE  IndInv'
<1>1. th[t].pc = "destroy" /\ AtTarget(th[t]) /\ Types
  BY DEF DestroyNow, At, AtTarget, IndInv
<1>2. PICK s \in Slots : s = th[t].tgt
  BY <1>1, TargetOnly
<1> DEFINE m == mark_or(meta[s], {"UNSTABLE"}, {"UNSTABLE", "EXECUTING", "READY"}, TRUE)
<1>3. /\ ~Outside(s) /\ meta[s] \in Word
      /\ Marked(IF th[t].back = "queue" THEN "queued" ELSE "doomed", meta[s].flags)
  BY <1>1, <1>2, TargetOnly DEF TargetStage
<1>4. m \in Word /\ m.avjobs = meta[s].avjobs /\ m.flags = meta[s].flags \cup {"UNSTABLE"}
  BY <1>2, <1>3, UnstableWords
<1>5. /\ SetMeta(s, m) /\ dq' = Append(dq, s) /\ Goto(t, th[t].back)
      /\ UNCHANGED <<gen, info, free, cache, done>>
  BY <1>2 DEF DestroyNow
<1> HIDE DEF m
<1>6. /\ meta' \in [Slots -> Word] /\ meta'[s] = m
      /\ \A r \in Slots \ {s} : meta'[r] = meta[r]
  BY <1>1, <1>4, <1>5, OneWord
<1>7. /\ Marked("queued", m.flags) /\ "READYBASIC" \notin m.flags
      /\ "WLLDESTROY" \in m.flags
  BY <1>3, <1>4, FlagsApart DEF Marked
<1>8. /\ dq' \in Seq(Slots) /\ s \in Queued'
      /\ \A r \in Slots \ {s} : r \in Queued' <=> r \in Queued
  <2>1. /\ dq \in Seq(Slots) /\ Len(dq') = Len(dq) + 1
        /\ \A k \in 1 .. Len(dq) : dq'[k] = dq[k]
        /\ dq'[Len(dq) + 1] = s
    BY <1>1, <1>5 DEF Types
  <2>2. dq' \in Seq(Slots)
    BY <1>5, <2>1
  <2> QED
    BY <2>1, <2>2 DEF Queued
<1>9. OnePlace'
  <2>1. \A k \in 1 .. Len(dq) : dq[k] # s
    BY <1>3 DEF Outside, Queued
  <2>2. /\ dq \in Seq(Slots) /\ Len(dq') = Len(dq) + 1
        /\ \A k \in 1 .. Len(dq) : dq'[k] = dq[k]
        /\ dq'[Len(dq) + 1] = s
    BY <1>1, <1>5 DEF Types
  <2>3. \A k, l \in 1 .. Len(dq) : dq[k] = dq[l] => k = l
    BY DEF IndInv, Exclusive, OnePlace
  <2>4. \A k, l \in 1 .. Len(dq') : dq'[k] = dq'[l] => k = l
    BY <2>1, <2>2, <2>3
  <2>5. \A r \in Slots : cache'[r] <= 1
    BY <1>5 DEF IndInv, Exclusive, OnePlace
  <2> QED
    BY <2>4, <2>5 DEF OnePlace
<1>10. WordStep(s)
  BY <1>3, <1>4, <1>6, <1>7 DEF WordStep, Outside
<1>11. ~RestsAt(th[t]) /\ ~RestsAt(th'[t]) /\ \A u \in Threads \ {t} : th'[u] = th[u]
  <2>1. ~RestsAt(th'[t]) /\ th[t].back \in Labels
    BY <1>1, <1>5, BackFits
  <2> QED
    BY <1>1, <1>5, <2>1, Goes DEF RestsAt
<1>12. \A r \in Slots : Resting(r)' <=> Resting(r)
  BY <1>5, <1>11, RestingKept
<1>13. s \notin free' /\ s \notin Cached' /\ s \notin Suspended'
       /\ Marked("queued", meta'[s].flags)
  BY <1>3, <1>5, <1>6, <1>7 DEF Outside, Suspended, Cached
<1>14. free' \subseteq Slots /\ cache' \in [Slots -> Nat]
  BY <1>1, <1>5 DEF Types
<1> QED
  BY <1>1, <1>2, <1>5, <1>6, <1>8, <1>9, <1>10, <1>12, <1>13, <1>14, TargetOutStep

\* It could not: the job is torn down.
LEMMA DestroyTearsInv ==
  ASSUME IndInv, Families, NEW t \in Threads, DestroyNow(t),
         UnstableBan(meta[th[t].tgt]) # {}
  PROVE  IndInv'
<1>1. th[t].pc = "destroy" /\ AtTarget(th[t]) /\ Types
  BY DEF DestroyNow, At, AtTarget, IndInv
<1>2. PICK s \in Slots : s = th[t].tgt
  BY <1>1, TargetOnly
<1>3. /\ ~Outside(s) /\ meta[s] \in Word
      /\ Marked(IF th[t].back = "queue" THEN "queued" ELSE "doomed", meta[s].flags)
  BY <1>1, <1>2, TargetOnly DEF TargetStage
<1>4. SetMeta(s, meta[s]) /\ UNCHANGED <<gen, info, free, cache, dq, done>>
  BY <1>2, <1>3, UnstableWords DEF DestroyNow
<1>5. PICK l \in {"teardown"} : Goto(t, l)
  BY DEF DestroyNow
<1>6. /\ AtTarget(th[t]) /\ AtTarget(th'[t]) /\ SameHands(t, th[t], th'[t])
      /\ ~HasTold(th[t]) /\ ~TellsNow(th'[t]) /\ ~WaitsAt(th[t]) /\ OwnFits(t)'
      /\ l \in Labels /\ th'[t].pc = l
  BY <1>1, <1>4, <1>5, DownFits
<1>7. "WLLDESTROY" \in meta[s].flags /\ "READYBASIC" \notin meta[s].flags
  BY <1>3, FlagsApart DEF Marked
<1>8. Marked(TargetStage(th'[t]), meta[s].flags)
  <2>1. TargetStage(th'[t]) = "down"
    BY <1>5, <1>6 DEF TargetStage
  <2>2. Marked("down", meta[s].flags)
    BY <1>7 DEF Marked
  <2> QED
    BY <2>1, <2>2
<1>9. WordStep(s)
  <2>1. meta' = meta
    BY <1>1, <1>4 DEF SetMeta, Types
  <2> QED
    BY <2>1 DEF WordStep, Suspended
<1>10. ~RestsAt(th[t]) /\ ~RestsAt(th'[t])
  BY <1>1, <1>5, <1>6 DEF RestsAt
<1> QED
  BY <1>2, <1>3, <1>4, <1>5, <1>6, <1>7, <1>8, <1>9, <1>10, TargetWordStep

\* The word is cleared.
LEMMA ClearMetaInv ==
  ASSUME IndInv, Families, NEW t \in Threads, ClearMeta(t)
  PROVE  IndInv'
<1>1. th[t].pc = "clear" /\ AtTarget(th[t]) /\ Types
  BY DEF ClearMeta, At, AtTarget, IndInv
<1>2. PICK s \in Slots : s = th[t].tgt
  BY <1>1, TargetOnly
<1>3. ~Outside(s)
  BY <1>1, <1>2, TargetOnly
<1> DEFINE m == WordOf({})
<1>4. m \in Word /\ m.flags = {} /\ m.avjobs = 0
  BY MetaFlagAssumption DEF WordOf, Word
<1>5. SetMeta(s, m) /\ UNCHANGED <<gen, info, free, cache, dq, done>>
  BY <1>2 DEF ClearMeta
<1>6. PICK l \in {"release"} : Goto(t, l)
  BY DEF ClearMeta
<1>7. /\ AtTarget(th[t]) /\ AtTarget(th'[t]) /\ SameHands(t, th[t], th'[t])
      /\ ~HasTold(th[t]) /\ ~TellsNow(th'[t]) /\ ~WaitsAt(th[t]) /\ OwnFits(t)'
      /\ l \in Labels /\ th'[t].pc = l
  BY <1>1, <1>5, <1>6, DownFits
<1> HIDE DEF m
<1>8. meta'[s] = m
  BY <1>1, <1>4, <1>5, OneWord
<1>9. RestsAt(th[t]) /\ RestsAt(th'[t])
  BY <1>1, <1>6, <1>7 DEF RestsAt
<1>10. Resting(s)'
  BY <1>2, <1>7, <1>9 DEF Resting, SameHands
<1>11. WordStep(s)
  BY <1>3, <1>4, <1>8, <1>10 DEF WordStep, Outside
<1>12. Marked(TargetStage(th'[t]), m.flags)
  <2>1. TargetStage(th'[t]) = "none"
    BY <1>6, <1>7 DEF TargetStage
  <2> QED
    BY <2>1 DEF Marked
<1> QED
  BY <1>2, <1>4, <1>5, <1>6, <1>7, <1>9, <1>11, <1>12, TargetWordStep

\* The slot goes back to the pool.
LEMMA ReleaseInv ==
  ASSUME IndInv, Families, NEW t \in Threads, Release(t)
  PROVE  IndInv'
<1>1. th[t].pc = "release" /\ AtTarget(th[t]) /\ Types
  BY DEF Release, At, AtTarget, IndInv
<1>2. PICK s \in Slots : s = th[t].tgt
  BY <1>1, TargetOnly
<1>3. ~Outside(s)
  BY <1>1, <1>2, TargetOnly
<1>4. /\ free' = free \cup {s} /\ Goto(t, th[t].back)
      /\ UNCHANGED <<meta, gen, info, cache, dq, done>>
  BY <1>2 DEF Release
<1>5. Queued' = Queued /\ Suspended' = Suspended /\ Cached' = Cached
  BY <1>4 DEF Queued, Suspended, Cached
<1>6. OnePlace'
  BY <1>4 DEF OnePlace, IndInv, Exclusive
<1>7. WordStep(s)
  BY <1>4, <1>5 DEF WordStep
<1>8. RestsAt(th[t]) /\ ~RestsAt(th'[t]) /\ \A u \in Threads \ {t} : th'[u] = th[u]
  <2>1. ~RestsAt(th'[t]) /\ th[t].back \in Labels
    BY <1>1, <1>4, BackFits
  <2> QED
    BY <1>1, <1>4, <2>1, Goes DEF RestsAt
<1>9. \A r \in Slots : Resting(r)' <=> Resting(r)
  BY <1>2, <1>4, <1>8 DEF Resting
<1>10. s \notin Cached' /\ s \notin Queued' /\ s \notin Suspended'
  BY <1>3, <1>5 DEF Outside
<1>11. /\ meta' \in [Slots -> Word] /\ free' \subseteq Slots /\ dq' \in Seq(Slots)
       /\ cache' \in [Slots -> Nat]
       /\ \A r \in Slots \ {s} : /\ meta'[r] = meta[r] /\ cache'[r] = cache[r]
                                 /\ r \in free' <=> r \in free
                                 /\ r \in Queued' <=> r \in Queued
  BY <1>1, <1>4, <1>5 DEF Types
<1> QED
  BY <1>1, <1>2, <1>4, <1>6, <1>7, <1>9, <1>10, <1>11, TargetOutStep

-----------------------------------------------------------------------------
(* Scripts. *)

\* What a parent calls.
LEMMA ParentCalls ==
  ASSUME Families
  PROVE  /\ Len(ParentScript) = 2 * Leaves + 1
         /\ \A k \in 1 .. Leaves : ParentScript[k] = Create("leaf")
         /\ ParentScript[Leaves + 1] = Require
         /\ \A k \in Leaves + 2 .. 2 * Leaves + 1 :
              ParentScript[k] = Launch(k - (Leaves + 1))
<1> DEFINE c == [i \in 1 .. Leaves |-> Create("leaf")]
           d == [i \in 1 .. Leaves |-> Launch(i)]
           Call == {Create("leaf"), Require} \cup {Launch(i) : i \in 1 .. Leaves}
<1>1. Leaves \in Nat /\ Leaves # 0 /\ RequireFirst
  BY JobLifeAssumption DEF Families
<1>2. c \in Seq(Call) /\ d \in Seq(Call) /\ Len(c) = Leaves /\ Len(d) = Leaves
  BY <1>1
<1>3. /\ \A k \in 1 .. Leaves : c[k] = Create("leaf")
      /\ \A k \in 1 .. Leaves : d[k] = Launch(k)
  OBVIOUS
<1>4. ParentScript = c \o (<<Require>> \o d)
  BY <1>1 DEF ParentScript
<1>5. <<Require>> \in Seq(Call) /\ Len(<<Require>>) = 1
  OBVIOUS
<1> HIDE DEF c, d, Call
<1>6. PICK e \in Seq(Call) :
        /\ ParentScript = c \o e /\ Len(e) = Leaves + 1 /\ e[1] = Require
        /\ \A k \in 2 .. Leaves + 1 : e[k] = Launch(k - 1)
  <2>1. /\ <<Require>> \o d \in Seq(Call) /\ Len(<<Require>> \o d) = Leaves + 1
        /\ (<<Require>> \o d)[1] = Require
        /\ \A k \in 2 .. Leaves + 1 : (<<Require>> \o d)[k] = Launch(k - 1)
    BY <1>1, <1>2, <1>3, <1>5
  <2> QED
    BY <1>4, <2>1
<1>7. Len(c \o e) = 2 * Leaves + 1
  <2>1. Len(c \o e) = Len(c) + Len(e)
    BY <1>2
  <2> QED
    BY <1>1, <1>2, <1>6, <2>1
<1>8. ASSUME NEW k \in 1 .. 2 * Leaves + 1
      PROVE  (c \o e)[k] = IF k <= Leaves THEN c[k] ELSE e[k - Leaves]
  BY <1>1, <1>2, <1>6, <1>7
<1>9. \A k \in 1 .. Leaves : ParentScript[k] = Create("leaf")
  BY <1>1, <1>3, <1>6, <1>8
<1>10. ParentScript[Leaves + 1] = Require
  <2>1. /\ Leaves + 1 \in 1 .. 2 * Leaves + 1 /\ (Leaves + 1) - Leaves = 1
        /\ ~(Leaves + 1 <= Leaves)
    BY <1>1
  <2>2. (c \o e)[Leaves + 1] = e[(Leaves + 1) - Leaves]
    BY <1>8, <2>1
  <2> QED
    BY <1>6, <2>1, <2>2
<1>11. ASSUME NEW k \in Leaves + 2 .. 2 * Leaves + 1
       PROVE  ParentScript[k] = Launch(k - (Leaves + 1))
  <2>1. /\ k \in 1 .. 2 * Leaves + 1 /\ ~(k <= Leaves)
        /\ k - Leaves \in 2 .. Leaves + 1 /\ (k - Leaves) - 1 = k - (Leaves + 1)
    BY <1>1
  <2>2. (c \o e)[k] = e[k - Leaves]
    BY <1>8, <2>1
  <2> QED
    BY <1>6, <2>1, <2>2
<1> QED
  BY <1>6, <1>7, <1>9, <1>10, <1>11

\* The calls of a worker are those of the first run of a parent.
LEMMA WorkerCalls ==
  ASSUME IndInv, Families, NEW w \in Workers, NEW op, HasCall(w, op)
  PROVE  /\ th[w].pc = "script" /\ Parent(th[w].job) /\ info[th[w].job].phase = 0
         /\ th[w].k \in 1 .. 2 * Leaves + 1
         /\ op = "create" => th[w].k <= Leaves /\ Arg(w) = Create("leaf")
         /\ op = "require" => th[w].k = Leaves + 1
         /\ op = "setready" => th[w].k >= Leaves + 2 /\ Arg(w).i = th[w].k - (Leaves + 1)
         /\ op # "destroy" /\ op # "indicator"
<1>1. w # Main /\ th[w].pc = "script" /\ Leaves \in Nat \ {0}
  BY JobLifeAssumption DEF HasCall, At
<1>2. Running(th[w]) /\ th[w] \in ThreadStates
  BY <1>1 DEF Running, IndInv, Types, Threads
<1>3. th[w].k \in Nat
  BY <1>2 DEF ThreadStates
<1>4. Parent(th[w].job) /\ info[th[w].job].phase = 0
  <2>1. ASSUME ~(Parent(th[w].job) /\ info[th[w].job].phase = 0) PROVE FALSE
    <3>1. Script(w) = <<>>
      BY <1>1, <2>1 DEF Script, Parent
    <3>2. th[w].k = 1
      BY <1>2, <2>1 DEF IndInv, Fits, WorkerFits
    <3> QED
      BY <3>1, <3>2 DEF HasCall
  <2> QED
    BY <2>1
<1>5. Script(w) = ParentScript
  BY <1>1, <1>4 DEF Script, Parent
<1>6. th[w].k \in 1 .. 2 * Leaves + 1
  <2>1. th[w].k \in 1 .. 2 * Leaves + 2
    BY <1>2, <1>4 DEF IndInv, Fits, WorkerFits
  <2> QED
    BY <1>1, <1>5, <2>1, ParentCalls DEF HasCall
<1>7. ParentScript[th[w].k].op = op /\ Arg(w) = ParentScript[th[w].k]
  BY <1>5 DEF HasCall, Arg
<1>8. CASE th[w].k <= Leaves
  BY <1>1, <1>4, <1>6, <1>7, <1>8, ParentCalls DEF Create
<1>9. CASE th[w].k = Leaves + 1
  <2>1. op = "require"
    <3>1. ParentScript[th[w].k] = Require
      BY <1>9, ParentCalls
    <3>2. Require.op = "require"
      BY DEF Require
    <3> QED
      BY <1>7, <3>1, <3>2
  <2> QED
    BY <1>1, <1>4, <1>6, <1>9, <2>1
<1>10. CASE th[w].k >= Leaves + 2
  <2>1. Arg(w) = Launch(th[w].k - (Leaves + 1)) /\ op = Arg(w).op
    <3>1. th[w].k \in Leaves + 2 .. 2 * Leaves + 1
      BY <1>1, <1>6, <1>10
    <3> QED
      BY <1>7, <3>1, ParentCalls
  <2>2. op = "setready" /\ Arg(w).i = th[w].k - (Leaves + 1)
    <3> DEFINE j == th[w].k - (Leaves + 1)
    <3>1. Arg(w) = Launch(j) /\ op = Arg(w).op
      BY <2>1
    <3> HIDE DEF j
    <3>2. Launch(j).op = "setready" /\ Launch(j).i = j
      BY DEF Launch
    <3> QED
      BY <3>1, <3>2 DEF j
  <2> QED
    BY <1>1, <1>4, <1>6, <1>10, <2>2
<1> QED
  BY <1>1, <1>6, <1>8, <1>9, <1>10

\* A script has created one job more after a call of schedi_job_create, and
\* no more after another.
LEMMA CreatedNext ==
  ASSUME NEW script, NEW k \in Nat \ {0}
  PROVE  /\ Created(script, k) \in Nat
         /\ Created(script, k + 1) =
              Created(script, k) + (IF script[k].op = "create" THEN 1 ELSE 0)
<1> DEFINE S(j) == {l \in 1 .. j - 1 : script[l].op = "create"}
<1>1. IsFiniteSet(1 .. k - 1)
  BY FS_Interval
<1>2. IsFiniteSet(S(k)) /\ Cardinality(S(k)) \in Nat
  BY <1>1, FS_Subset, FS_CardinalityType
<1>3. CASE script[k].op = "create"
  <2>1. S(k + 1) = S(k) \cup {k} /\ k \notin S(k)
    BY <1>3
  <2>2. Cardinality(S(k) \cup {k}) = Cardinality(S(k)) + 1
    BY <1>2, <2>1, FS_AddElement
  <2> QED
    BY <1>2, <1>3, <2>1, <2>2 DEF Created
<1>4. CASE script[k].op # "create"
  <2>1. S(k + 1) = S(k)
    BY <1>4
  <2> QED
    BY <1>2, <1>4, <2>1 DEF Created
<1> QED
  BY <1>3, <1>4

\* The calls of main() are those of a well-behaved script.
LEMMA MainCalls ==
  ASSUME IndInv, Families, NEW op, HasCall(Main, op)
  PROVE  /\ th[Main].pc = "script" /\ th[Main].script \in MainScripts
         /\ WellBehaved(th[Main].script) /\ MainFits(th[Main])
         /\ th[Main].k \in 1 .. Len(th[Main].script) /\ Len(th[Main].script) \in Int
         /\ th[Main].script[th[Main].k].op = op /\ Arg(Main) = th[Main].script[th[Main].k]
         /\ op \in {"create", "setready", "destroy", "indicator"}
         /\ op # "create" => Arg(Main).i \in 1 .. Len(th[Main].made)
         /\ Len(th[Main].made) = Created(th[Main].script, th[Main].k)
         /\ op \in {"setready", "destroy"} => Arg(Main).i \in Pending(Main, th[Main])
<1> DEFINE x == th[Main]
<1>1. x.pc = "script" /\ Script(Main) = x.script /\ MainFits(x)
  BY DEF HasCall, At, Script, IndInv, Fits
<1>2. x.script \in MainScripts /\ WellBehaved(x.script) /\ x.k \in 1 .. Len(x.script) + 1
      /\ Len(x.made) = Created(x.script, x.k) /\ x.k <= Len(x.script)
      /\ x.script[x.k].op = op /\ Arg(Main) = x.script[x.k]
  BY <1>1 DEF MainFits, Families, HasCall, Arg
<1>3. Len(x.script) \in Int /\ x.k \in 1 .. Len(x.script)
  BY <1>2
<1>4. op \in {"create", "setready", "destroy", "indicator"}
      /\ (op # "create" => Arg(Main).i \in 1 .. Len(x.made))
  BY <1>2, <1>3 DEF WellBehaved
<1>5. op \in {"setready", "destroy"} => Arg(Main).i \in Pending(Main, x)
  <2>1. op \in {"setready", "destroy"} => Uses(x.script, x.k)
    BY <1>2 DEF Uses
  <2>2. x.k \in x.k .. Len(x.script)
    BY <1>3
  <2> QED
    BY <1>2, <1>4, <2>1, <2>2 DEF Pending
<1> QED
  BY <1>1, <1>2, <1>3, <1>4, <1>5

\* A thread that sets ready or destroys a job it has created had it in its
\* hands, and has the others still.
LEMMA UseNext ==
  ASSUME IndInv, Families, NEW t \in Threads, NEW op \in {"setready", "destroy"},
         HasCall(t, op), NEW y, y.k = th[t].k + 1, y.made = th[t].made,
         y.script = th[t].script, t \in Workers => Running(y)
  PROVE  /\ Arg(t).i \in Pending(t, th[t])
         /\ Pending(t, y) = Pending(t, th[t]) \ {Arg(t).i}
<1> DEFINE x == th[t]
           i == Arg(t).i
<1>1. CASE t = Main
  <2>1. /\ x.script \in MainScripts /\ WellBehaved(x.script)
        /\ x.k \in 1 .. Len(x.script) /\ Len(x.script) \in Int
        /\ x.script[x.k].op = op /\ i = x.script[x.k].i /\ i \in Pending(t, x)
    BY <1>1, MainCalls
  <2>2. Uses(x.script, x.k)
    BY <2>1 DEF Uses
  <2>3. \A l \in x.k + 1 .. Len(x.script) : Uses(x.script, l) => x.script[l].i # i
    BY <2>1, <2>2 DEF WellBehaved
  <2>4. ASSUME NEW j \in 1 .. Len(x.made)
        PROVE  j \in Pending(t, y) <=> j \in Pending(t, x) /\ j # i
    <3> DEFINE U(l) == Uses(x.script, l) /\ x.script[l].i = j
               Later == \E l \in x.k + 1 .. Len(x.script) : U(l)
    <3>1. j \in Pending(t, y) <=> Later
      BY <1>1 DEF Pending
    <3>2. j \in Pending(t, x) <=> \E l \in x.k .. Len(x.script) : U(l)
      BY <1>1 DEF Pending
    <3>3. U(x.k) <=> j = i
      BY <2>1, <2>2
    <3>4. Later => j # i
      BY <2>3
    <3> HIDE DEF U
    <3>5. (\E l \in x.k .. Len(x.script) : U(l)) <=> U(x.k) \/ Later
      <4>1. x.k .. Len(x.script) = {x.k} \cup (x.k + 1 .. Len(x.script))
        BY <2>1
      <4> QED
        BY <4>1
    <3>6. j \in Pending(t, x) <=> j = i \/ Later
      BY <3>2, <3>3, <3>5
    <3> HIDE DEF Later
    <3> QED
      BY <3>1, <3>4, <3>6
  <2>5. Pending(t, y) \subseteq 1 .. Len(x.made) /\ Pending(t, x) \subseteq 1 .. Len(x.made)
    BY <1>1 DEF Pending
  <2> QED
    BY <2>1, <2>4, <2>5
<1>2. CASE t \in Workers
  <2>1. t # Main /\ Leaves \in Nat
    BY <1>2, JobLifeAssumption
  <2>2. /\ x.pc = "script" /\ Parent(x.job) /\ info[x.job].phase = 0
        /\ x.k \in Leaves + 2 .. 2 * Leaves + 1 /\ i = x.k - (Leaves + 1)
    <3>1. /\ x.pc = "script" /\ Parent(x.job) /\ info[x.job].phase = 0
          /\ x.k \in 1 .. 2 * Leaves + 1
          /\ op = "setready" => x.k >= Leaves + 2 /\ i = x.k - (Leaves + 1)
          /\ op # "destroy"
      BY <1>2, WorkerCalls
    <3> QED
      BY <2>1, <3>1
  <2>3. Running(x) /\ Len(x.made) = Leaves
    <3>1. Running(x)
      BY <2>2 DEF Running
    <3>2. WorkerFits(x)
      BY <1>2 DEF IndInv, Fits
    <3>3. Len(x.made) = IF x.k <= Leaves THEN x.k - 1 ELSE Leaves
      BY <2>2, <3>1, <3>2 DEF WorkerFits
    <3>4. ~(x.k <= Leaves)
      BY <2>1, <2>2
    <3> QED
      BY <3>1, <3>3, <3>4
  <2>4. Pending(t, x) = {j \in 1 .. Leaves : x.k <= Leaves + 1 + j}
    BY <2>1, <2>3 DEF Pending
  <2>5. Pending(t, y) = {j \in 1 .. Leaves : x.k + 1 <= Leaves + 1 + j}
    BY <1>2, <2>1, <2>3 DEF Pending
  <2> HIDE DEF x, i
  <2> QED
    BY <2>1, <2>2, <2>4, <2>5 DEF x, i
<1> QED
  BY <1>1, <1>2 DEF Threads

\* What is known of a job that a thread has created.
LEMMA MadeOnly ==
  ASSUME IndInv, NEW t \in Threads, NEW i \in Pending(t, th[t])
  PROVE  /\ th[t].made[i] \in Slots
         /\ Has(t, th[t], th[t].made[i]) /\ ~Outside(th[t].made[i])
         /\ Marked("bare", meta[th[t].made[i]].flags)
         /\ JobOf(t, th[t]) # th[t].made[i] /\ TargetOf(th[t]) # th[t].made[i]
         /\ \A k \in Pending(t, th[t]) : th[t].made[k] = th[t].made[i] => k = i
<1>1. th[t].made[i] \in Slots
  <2>1. th[t] \in ThreadStates
    BY DEF IndInv, Types
  <2>2. th[t].made \in Seq(Slots)
    BY <2>1 DEF ThreadStates
  <2>3. i \in 1 .. Len(th[t].made)
    BY PendingIndex
  <2> QED
    BY <2>2, <2>3
<1>2. Has(t, th[t], th[t].made[i])
  BY DEF Has
<1>3. /\ ~Outside(th[t].made[i])
      /\ HasStaged(t, th[t], th[t].made[i], meta[th[t].made[i]].flags)
      /\ HasOnce(t, th[t], th[t].made[i])
  BY <1>1, <1>2, InHands
<1> QED
  BY <1>1, <1>2, <1>3 DEF HasStaged, HasOnce

\* A thread calls schedi_job_setready for a job it has created.
LEMMA CallSetReadyInv ==
  ASSUME IndInv, Families, NEW t \in Threads, CallSetReady(t)
  PROVE  IndInv'
<1> DEFINE x == th[t]
<1>0. PICK op \in {"setready"} : HasCall(t, op)
  BY DEF CallSetReady
<1>1. PICK i : i = Arg(t).i
  OBVIOUS
<1> DEFINE y == [x EXCEPT !.pc = "setready", !.tgt = x.made[i], !.back = "script",
                          !.k = @ + 1]
<1>2. /\ Types /\ x \in ThreadStates /\ x.pc = "script"
      /\ UNCHANGED <<meta, gen, info, free, cache, dq, done>>
      /\ th' = [th EXCEPT ![t] = y]
  BY <1>1 DEF IndInv, Types, CallSetReady, HasCall, At
<1>3. /\ y.pc = "setready" /\ y.tgt = x.made[i] /\ y.back = "script" /\ y.k = x.k + 1
      /\ y.made = x.made /\ y.script = x.script /\ y.job = x.job
      /\ y.pop_gen = x.pop_gen
  BY <1>2 DEF ThreadStates
<1>4. /\ Running(y) /\ AtTarget(y) /\ ~RestsAt(y) /\ ~HasTold(y) /\ ~TellsNow(y)
      /\ ~Past(y) /\ ~WaitsAt(y) /\ AtJob(y) /\ JobStage(y) = "runs"
      /\ TargetStage(y) = "bare"
  BY <1>3 DEF Running, AtTarget, RestsAt, HasTold, TellsNow, Past, WaitsAt, AtJob, JobStage,
              TargetStage, Sub
<1>5. /\ Running(x) /\ ~AtTarget(x) /\ ~RestsAt(x) /\ ~HasTold(x) /\ ~WaitsAt(x)
      /\ AtJob(x) /\ JobStage(x) = "runs"
  BY <1>2 DEF Running, AtTarget, RestsAt, HasTold, WaitsAt, AtJob, JobStage, Sub
<1>6. i \in Pending(t, x) /\ Pending(t, y) = Pending(t, x) \ {i}
  <2>1. op \in {"setready", "destroy"}
    OBVIOUS
  <2> HIDE DEF y
  <2> QED
    BY <1>0, <1>1, <1>3, <1>4, <2>1, UseNext
<1>7. PICK s \in Slots : s = x.made[i]
  BY <1>6, MadeOnly
<1>8. /\ s # NoJob /\ Has(t, x, s) /\ ~Outside(s) /\ Marked("bare", meta[s].flags)
      /\ JobOf(t, x) # s /\ \A k \in Pending(t, x) : x.made[k] = s => k = i
  BY <1>6, <1>7, MadeOnly, JobLifeAssumption
<1>9. y \in ThreadStates
  <2>0. x.k \in Nat
    BY <1>2 DEF ThreadStates
  <2>1. /\ x.k + 1 \in Nat /\ x.made[i] \in MaybeJob /\ "setready" \in Labels
    BY <1>7, <2>0 DEF Labels, MaybeJob
  <2> QED
    BY <1>2, <2>1 DEF ThreadStates
<1> HIDE DEF y
<1>10. /\ th' \in [Threads -> ThreadStates] /\ th'[t] = y
       /\ \A u \in Threads \ {t} : th'[u] = th[u]
  BY <1>2, <1>9 DEF Types
<1>11. JobOf(t, y) = JobOf(t, x) /\ TargetOf(y) = s
  BY <1>2, <1>3, <1>4, <1>5, <1>7 DEF JobOf, TargetOf
<1>12. Types'
  BY <1>2, <1>10 DEF Types
<1>13. Queued' = Queued /\ Suspended' = Suspended /\ Cached' = Cached
  BY <1>2 DEF Queued, Suspended, Cached
<1>14. Moves(t, s)
  <2>1. KeepsHands(t, x, y, s)
    BY <1>3, <1>4, <1>5, <1>6, <1>11 DEF KeepsHands
  <2> QED
    BY <1>2, <1>10, <1>13, <2>1 DEF Moves
<1>15. HasOnce(t, y, s) /\ HasStaged(t, y, s, meta'[s].flags)
  BY <1>2, <1>3, <1>4, <1>6, <1>8, <1>11 DEF HasOnce, HasStaged
<1>16. /\ ~Outside(s)' /\ s \notin free' /\ s \notin Cached' /\ s \notin Queued'
       /\ s \notin Suspended'
  BY <1>2, <1>8, <1>13 DEF Outside
<1>17. OnePlace'
  BY <1>2 DEF IndInv, Exclusive, OnePlace
<1>18. ASSUME t \in Workers
       PROVE  /\ t # Main /\ WorkerFits(x) /\ Parent(x.job) /\ info[x.job].phase = 0
              /\ x.k \in Leaves + 2 .. 2 * Leaves + 1 /\ Len(x.made) = Leaves
              /\ info[x.job].required = Required
  <2>1. t # Main /\ Leaves \in Nat \ {0} /\ WorkerFits(x)
    BY <1>18, JobLifeAssumption DEF IndInv, Fits
  <2>2. /\ Parent(x.job) /\ info[x.job].phase = 0 /\ x.k \in 1 .. 2 * Leaves + 1
        /\ x.k >= Leaves + 2
    BY <1>0, <1>18, WorkerCalls
  <2> QED
    BY <1>5, <2>1, <2>2 DEF WorkerFits
<1>19. OwnFits(t)'
  <2>1. ASSUME t = Main PROVE MainFits(th[t])'
    <3>1. /\ MainFits(x) /\ x.k \in 1 .. Len(x.script) /\ Len(x.script) \in Int
          /\ x.script[x.k].op = "setready" /\ Len(x.made) = Created(x.script, x.k)
      BY <1>0, <2>1, MainCalls
    <3>2. Created(x.script, x.k + 1) = Created(x.script, x.k)
      <4>1. x.k \in Nat \ {0} /\ x.script[x.k].op # "create"
        BY <3>1
      <4> QED
        BY <4>1, CreatedNext
    <3>3. x.k + 1 \in 1 .. Len(x.script) + 1
      BY <3>1
    <3> QED
      BY <1>3, <1>10, <3>1, <3>2, <3>3 DEF MainFits
  <2>2. ASSUME t \in Workers
        PROVE  /\ WorkerFits(th[t])' /\ TellerFits(th[t])'
               /\ gen[x.job] = x.pop_gen
    <3>1. WorkerFits(th[t])'
      <4>0. /\ Leaves \in Nat /\ x.k \in Leaves + 2 .. 2 * Leaves + 1
            /\ Len(x.made) = Leaves
        BY <1>18, <2>2, JobLifeAssumption
      <4>1. y.k \in 1 .. 2 * Leaves + 2 /\ ~(y.k <= Leaves) /\ Len(y.made) = Leaves
        BY <1>3, <4>0
      <4>3. x.job # NoJob
        BY <1>5, <1>18, <2>2 DEF WorkerFits
      <4>2. /\ y.pc \notin {"read", "cas", "destroy", "teardown", "clear", "release",
                            "access", "unready", "unbasic", "execute", "unaccess",
                            "publish", "ended"}
        BY <1>3
      <4> QED
        BY <1>2, <1>3, <1>4, <1>10, <1>18, <2>2, <4>1, <4>2, <4>3 DEF WorkerFits, Parent
    <3>2. TellerFits(th[t])'
      BY <1>3, <1>4, <1>10 DEF TellerFits, Sub
    <3>3. gen[x.job] = x.pop_gen
      BY <1>5, <2>2, JobOnly
    <3> QED
      BY <3>1, <3>2, <3>3
  <2> QED
    BY <1>2, <1>3, <1>7, <1>8, <1>10, <2>1, <2>2 DEF OwnFits
<1>20. FamilyStep(t)
  <2>1. \A r \in Slots : Resting(r)' <=> Resting(r)
    BY <1>2, <1>4, <1>5, <1>10, RestingKept
  <2>2. WordStep(s)
    BY <1>2, <1>13 DEF WordStep
  <2>3. t \in Workers => JobStep(t, x, y)
    BY <1>3, <1>5, <1>6, <1>11, <1>18 DEF JobStep, JobOf
  <2>4. ThreadStep(t, x, y)
    BY <1>4, <1>5, <2>3 DEF ThreadStep
  <2> QED
    BY <1>2, <1>10, <2>1, <2>2, <2>4, OneFamily
<1> QED
  BY <1>8, <1>10, <1>12, <1>14, <1>15, <1>16, <1>17, <1>19, <1>20, MoveStep

\* main() destroys a job it has created.
LEMMA CallDestroyInv ==
  ASSUME IndInv, Families, NEW t \in Threads, CallDestroy(t)
  PROVE  IndInv'
<1> DEFINE x == th[t]
<1>0. PICK op \in {"destroy"} : HasCall(t, op)
  BY DEF CallDestroy
<1>1. PICK i : i = Arg(t).i
  OBVIOUS
<1> DEFINE y == [x EXCEPT !.pc = "wlldestroy", !.job = x.made[i], !.k = @ + 1]
<1>2. /\ Types /\ x \in ThreadStates /\ x.pc = "script"
      /\ UNCHANGED <<meta, gen, info, free, cache, dq, done>>
      /\ th' = [th EXCEPT ![t] = y]
  BY <1>1 DEF IndInv, Types, CallDestroy, HasCall, At
<1>3. /\ y.pc = "wlldestroy" /\ y.job = x.made[i] /\ y.k = x.k + 1
      /\ y.made = x.made /\ y.script = x.script
  BY <1>2 DEF ThreadStates
<1>4. t = Main /\ t \notin Workers
  BY <1>0, WorkerCalls, JobLifeAssumption DEF Threads
<1>5. /\ ~AtTarget(y) /\ ~RestsAt(y) /\ JobStage(y) = "bare"
  BY <1>3 DEF AtTarget, RestsAt, JobStage
<1>6. ~AtTarget(x) /\ ~RestsAt(x) /\ ~HasTold(x)
  BY <1>2 DEF AtTarget, RestsAt, HasTold
<1>7. i \in Pending(t, x) /\ Pending(t, y) = Pending(t, x) \ {i}
  <2>1. op \in {"setready", "destroy"}
    OBVIOUS
  <2> HIDE DEF y
  <2> QED
    BY <1>0, <1>1, <1>3, <1>4, <2>1, UseNext
<1>8. PICK s \in Slots : s = x.made[i]
  BY <1>7, MadeOnly
<1>9. /\ s # NoJob /\ Has(t, x, s) /\ ~Outside(s) /\ Marked("bare", meta[s].flags)
      /\ \A k \in Pending(t, x) : x.made[k] = s => k = i
  BY <1>7, <1>8, MadeOnly, JobLifeAssumption
<1>10. y \in ThreadStates
  <2>0. x.k \in Nat
    BY <1>2 DEF ThreadStates
  <2>1. /\ x.k + 1 \in Nat /\ x.made[i] \in MaybeJob /\ "wlldestroy" \in Labels
    BY <1>8, <2>0 DEF Labels, MaybeJob
  <2> QED
    BY <1>2, <2>1 DEF ThreadStates
<1> HIDE DEF y
<1>11. /\ th' \in [Threads -> ThreadStates] /\ th'[t] = y
       /\ \A u \in Threads \ {t} : th'[u] = th[u]
  BY <1>2, <1>10 DEF Types
<1>12. JobOf(t, y) = s /\ TargetOf(y) = NoJob
  BY <1>3, <1>4, <1>5, <1>8 DEF JobOf, TargetOf
<1>13. Types'
  BY <1>2, <1>11 DEF Types
<1>14. Queued' = Queued /\ Suspended' = Suspended /\ Cached' = Cached
  BY <1>2 DEF Queued, Suspended, Cached
<1>15. Moves(t, s)
  <2>1. KeepsHands(t, x, y, s)
    BY <1>3, <1>7, <1>12 DEF KeepsHands
  <2> QED
    BY <1>2, <1>11, <1>14, <2>1 DEF Moves
<1>16. HasOnce(t, y, s) /\ HasStaged(t, y, s, meta'[s].flags)
  BY <1>2, <1>3, <1>5, <1>7, <1>9, <1>12 DEF HasOnce, HasStaged
<1>17. /\ ~Outside(s)' /\ s \notin free' /\ s \notin Cached' /\ s \notin Queued'
       /\ s \notin Suspended'
  BY <1>2, <1>9, <1>14 DEF Outside
<1>18. OnePlace'
  BY <1>2 DEF IndInv, Exclusive, OnePlace
<1>19. OwnFits(t)'
  <2>1. /\ MainFits(x) /\ x.k \in 1 .. Len(x.script) /\ Len(x.script) \in Int
        /\ x.script[x.k].op = "destroy" /\ Len(x.made) = Created(x.script, x.k)
    BY <1>0, <1>4, MainCalls
  <2>2. Created(x.script, x.k + 1) = Created(x.script, x.k)
    <3>1. x.k \in Nat \ {0} /\ x.script[x.k].op # "create"
      BY <2>1
    <3> QED
      BY <3>1, CreatedNext
  <2>3. x.k + 1 \in 1 .. Len(x.script) + 1
    BY <2>1
  <2>4. MainFits(th[t])'
    BY <1>3, <1>8, <1>9, <1>11, <2>1, <2>2, <2>3 DEF MainFits
  <2> QED
    BY <1>4, <1>5, <1>11, <2>4 DEF OwnFits
<1>20. FamilyStep(t)
  <2>1. \A r \in Slots : Resting(r)' <=> Resting(r)
    BY <1>2, <1>5, <1>6, <1>11, RestingKept
  <2>2. WordStep(s)
    BY <1>2, <1>14 DEF WordStep
  <2>3. ThreadStep(t, x, y)
    BY <1>4, <1>6 DEF ThreadStep
  <2> QED
    BY <1>2, <1>11, <2>1, <2>2, <2>3, OneFamily
<1> QED
  BY <1>9, <1>11, <1>13, <1>15, <1>16, <1>17, <1>18, <1>19, <1>20, MoveStep

\* schedi_job_destroy marks its job.
LEMMA MarkWllDestroyInv ==
  ASSUME IndInv, Families, NEW t \in Threads, MarkWllDestroy(t)
  PROVE  IndInv'
<1> DEFINE x == th[t]
           y == [x EXCEPT !.pc = "destroy", !.tgt = x.job, !.back = AfterDestroy(t)]
<1>1. /\ Types /\ x \in ThreadStates /\ x.pc = "wlldestroy"
      /\ UNCHANGED <<gen, info, free, cache, dq, done>>
      /\ th' = [th EXCEPT ![t] = y]
  BY DEF IndInv, Types, MarkWllDestroy, At
<1>2. /\ y.pc = "destroy" /\ y.tgt = x.job /\ y.back = AfterDestroy(t) /\ y.k = x.k
      /\ y.made = x.made /\ y.script = x.script /\ y.job = x.job
  BY <1>1 DEF ThreadStates
<1>3. /\ t = Main => MainFits(x)
      /\ t \in Workers => WorkerFits(x) /\ t # Main
      /\ AtJob(x) /\ ~AtTarget(x) /\ ~Running(x) /\ ~RestsAt(x) /\ ~WaitsAt(x)
      /\ JobStage(x) = "bare" /\ Past(x)
  BY <1>1, JobLifeAssumption
  DEF IndInv, Fits, AtJob, AtTarget, Running, RestsAt, WaitsAt, JobStage, Sub, Past
<1>4. x.job # NoJob
  BY <1>1, <1>3 DEF MainFits, WorkerFits, Threads
<1>5. PICK s \in Slots : s = x.job
  BY <1>1, <1>4 DEF ThreadStates, MaybeJob
<1>6. JobOf(t, x) = s /\ s # NoJob
  BY <1>1, <1>3, <1>4, <1>5 DEF JobOf
<1>7. Has(t, x, s) /\ TargetOf(x) = NoJob
  BY <1>3, <1>6 DEF Has, TargetOf
<1>8. /\ ~Outside(s) /\ HasStaged(t, x, s, meta[s].flags) /\ HasOnce(t, x, s)
  BY <1>7, InHands
<1>9. Marked("bare", meta[s].flags) /\ \A i \in Pending(t, x) : x.made[i] # s
  BY <1>3, <1>6, <1>8 DEF HasStaged, HasOnce
<1>10. y \in ThreadStates
  <2>1. AfterDestroy(t) \in {"", "script", "check", "told", "queue"} /\ "destroy" \in Labels
    BY DEF AfterDestroy, Labels
  <2> QED
    BY <1>1, <2>1 DEF ThreadStates
<1> HIDE DEF y
<1>11. /\ th' \in [Threads -> ThreadStates] /\ th'[t] = y
       /\ \A u \in Threads \ {t} : th'[u] = th[u]
  BY <1>1, <1>10 DEF Types
<1>12. /\ ~AtJob(y) /\ AtTarget(y) /\ ~Running(y) /\ ~RestsAt(y) /\ ~HasTold(y)
       /\ ~TellsNow(y) /\ ~Past(y) /\ ~WaitsAt(y) /\ TargetStage(y) = "doomed"
  BY <1>2 DEF AtJob, AtTarget, Running, RestsAt, HasTold, TellsNow, Past, WaitsAt,
              TargetStage, Sub, AfterDestroy
<1>13. JobOf(t, y) = NoJob /\ TargetOf(y) = s /\ Pending(t, y) = Pending(t, x)
  BY <1>2, <1>3, <1>5, <1>12 DEF JobOf, TargetOf, Pending
<1> DEFINE m == mark_or(meta[s], {"WLLDESTROY"}, {"UNSTABLE"}, FALSE)
<1>14. /\ m \in Word /\ m.avjobs = meta[s].avjobs
       /\ m.flags = meta[s].flags \cup {"WLLDESTROY"}
  <2>1. meta[s].flags \cap {"UNSTABLE"} = {}
    BY <1>9, FlagsApart DEF Marked
  <2>2. {"WLLDESTROY"} \in SUBSET Flag /\ meta[s] \in Word
    BY <1>1 DEF Flag, Types
  <2> QED
    BY <2>1, <2>2, MarkWordsFree
<1>15. SetMeta(s, m)
  BY <1>5 DEF MarkWllDestroy
<1> HIDE DEF m
<1>16. /\ meta' \in [Slots -> Word] /\ meta'[s] = m
       /\ \A r \in Slots \ {s} : meta'[r] = meta[r]
  BY <1>1, <1>14, <1>15, OneWord
<1>17. Types'
  BY <1>1, <1>11, <1>16 DEF Types
<1>18. Queued' = Queued /\ Cached' = Cached
  BY <1>1 DEF Queued, Cached
<1>19. Moves(t, s)
  <2>1. KeepsHands(t, x, y, s)
    BY <1>2, <1>13 DEF KeepsHands
  <2> QED
    BY <1>1, <1>11, <1>16, <1>18, <2>1 DEF Moves
<1>20. Marked("doomed", m.flags) /\ "READYBASIC" \notin m.flags /\ "WLLDESTROY" \in m.flags
  BY <1>9, <1>14, FlagsApart DEF Marked
<1>21. HasOnce(t, y, s) /\ HasStaged(t, y, s, meta'[s].flags)
  BY <1>2, <1>6, <1>9, <1>12, <1>13, <1>16, <1>20 DEF HasOnce, HasStaged
<1>22. /\ ~Outside(s)' /\ s \notin free' /\ s \notin Cached' /\ s \notin Queued'
       /\ s \notin Suspended'
  BY <1>1, <1>8, <1>16, <1>18, <1>20 DEF Outside, Suspended
<1>23. OnePlace'
  BY <1>1 DEF IndInv, Exclusive, OnePlace
<1>24. OwnFits(t)'
  <2>1. ASSUME t = Main PROVE MainFits(th[t])'
    BY <1>1, <1>2, <1>3, <1>11, <2>1 DEF MainFits, AfterDestroy
  <2>2. ASSUME t \in Workers PROVE WorkerFits(th[t])' /\ TellerFits(th[t])'
    BY <1>2, <1>3, <1>11, <1>12, <2>2 DEF WorkerFits, TellerFits, AfterDestroy, Sub
  <2> QED
    BY <1>2, <1>4, <1>11, <1>13, <2>1, <2>2 DEF OwnFits
<1>25. FamilyStep(t)
  <2>1. \A r \in Slots : Resting(r)' <=> Resting(r)
    BY <1>1, <1>3, <1>11, <1>12, RestingKept
  <2>2. WordStep(s)
    BY <1>8, <1>14, <1>16, <1>20 DEF WordStep, Outside
  <2>3. ASSUME t \in Workers PROVE JobStep(t, x, y)
    <3>1. Pending(t, x) = {} /\ (Parent(x.job) => info[x.job].phase = 1)
      BY <1>3, <2>3 DEF Pending, WorkerFits
    <3> QED
      BY <1>13, <3>1 DEF JobStep
  <2>4. ThreadStep(t, x, y)
    BY <1>3, <1>5, <1>12, <1>16, <1>20, <2>3 DEF ThreadStep
  <2> QED
    BY <1>1, <1>11, <1>16, <2>1, <2>2, <2>4, OneFamily
<1> QED
  BY <1>7, <1>11, <1>17, <1>19, <1>21, <1>22, <1>23, <1>24, <1>25, MoveStep

\* schedi_job_create claims a slot.
LEMMA ClaimInv ==
  ASSUME IndInv, Families, NEW t \in Threads, Claim(t)
  PROVE  IndInv'
<1> DEFINE x == th[t]
<1>0. PICK op \in {"create"} : HasCall(t, op)
  BY DEF Claim
<1>1. PICK s \in free :
        /\ free' = free \ {s} /\ SetMeta(s, WordOf({"UNSTABLE"}))
        /\ th' = [th EXCEPT ![t].pc = "publish", ![t].tgt = s]
  BY DEF Claim
<1> DEFINE y == [x EXCEPT !.pc = "publish", !.tgt = s]
           m == WordOf({"UNSTABLE"})
<1>2. /\ Types /\ x \in ThreadStates /\ x.pc = "script" /\ s \in Slots /\ s # NoJob
      /\ UNCHANGED <<gen, info, cache, dq, done>>
  BY <1>0, JobLifeAssumption DEF IndInv, Types, Claim, HasCall, At
<1>3. /\ y.pc = "publish" /\ y.tgt = s /\ y.k = x.k /\ y.made = x.made
      /\ y.script = x.script /\ y.job = x.job /\ y.pop_gen = x.pop_gen
      /\ y.back = x.back
  BY <1>2 DEF ThreadStates
<1>4. y \in ThreadStates
  <2>1. s \in MaybeJob /\ "publish" \in Labels
    BY <1>2 DEF Labels, MaybeJob
  <2> QED
    BY <1>2, <2>1 DEF ThreadStates
<1>5. m \in Word /\ m.flags = {"UNSTABLE"} /\ m.avjobs = 0
  BY MetaFlagAssumption DEF WordOf, Word, Flag
<1>6. /\ th' \in [Threads -> ThreadStates] /\ th'[t] = y
      /\ \A u \in Threads \ {t} : th'[u] = th[u]
  <2>1. th' = [th EXCEPT ![t] = y]
    BY <1>1, <1>2 DEF Types
  <2> HIDE DEF y
  <2> QED
    BY <1>2, <1>4, <2>1 DEF Types
<1> HIDE DEF y
<1>7. /\ meta' \in [Slots -> Word] /\ meta'[s] = m
      /\ \A r \in Slots \ {s} : meta'[r] = meta[r]
  <2> HIDE DEF m
  <2> QED
    BY <1>1, <1>2, <1>5, OneWord DEF m
<1> HIDE DEF m
<1>8. /\ Running(y) /\ AtTarget(y) /\ RestsAt(y) /\ ~HasTold(y) /\ ~TellsNow(y)
      /\ ~Past(y) /\ ~WaitsAt(y) /\ AtJob(y) /\ JobStage(y) = "runs"
      /\ TargetStage(y) = "none"
  BY <1>3 DEF Running, AtTarget, RestsAt, HasTold, TellsNow, Past, WaitsAt, AtJob, JobStage,
              TargetStage, Sub
<1>9. /\ Running(x) /\ ~AtTarget(x) /\ ~RestsAt(x) /\ ~HasTold(x) /\ ~WaitsAt(x)
      /\ AtJob(x) /\ JobStage(x) = "runs"
  BY <1>2 DEF Running, AtTarget, RestsAt, HasTold, WaitsAt, AtJob, JobStage, Sub
<1>10. JobOf(t, y) = JobOf(t, x) /\ TargetOf(y) = s /\ Pending(t, y) = Pending(t, x)
  BY <1>2, <1>3, <1>8, <1>9 DEF JobOf, TargetOf, Pending
<1>11. Types'
  <2>1. free' \subseteq Slots
    BY <1>1, <1>2 DEF Types
  <2> QED
    BY <1>2, <1>6, <1>7, <2>1 DEF Types
<1>12. Queued' = Queued /\ Cached' = Cached
  BY <1>2 DEF Queued, Cached
<1>13. s \notin Cached /\ s \notin Queued /\ s \notin Suspended
  BY <1>1 DEF IndInv, Exclusive, PlacesApart
<1>14. Moves(t, s)
  <2>1. KeepsHands(t, x, y, s)
    BY <1>3, <1>8, <1>9, <1>10 DEF KeepsHands
  <2> QED
    BY <1>1, <1>2, <1>6, <1>7, <1>12, <2>1 DEF Moves
<1>15. /\ ~Outside(s)' /\ s \notin free' /\ s \notin Cached' /\ s \notin Queued'
       /\ s \notin Suspended'
  BY <1>1, <1>5, <1>7, <1>12, <1>13 DEF Outside, Suspended
<1>16. HasOnce(t, y, s) /\ HasStaged(t, y, s, meta'[s].flags)
  <2>1. \A f \in Fields : Held(t, x, f) # s
    BY <1>1 DEF IndInv, Exclusive, HandsOutside
  <2>2. HasNot(t, x, s)
    BY <1>2, <2>1, HeldIs
  <2>3. Marked("none", meta'[s].flags)
    BY DEF Marked
  <2> QED
    BY <1>3, <1>8, <1>10, <2>2, <2>3 DEF HasNot, HasOnce, HasStaged
<1>17. OnePlace'
  BY <1>2 DEF IndInv, Exclusive, OnePlace
<1>18. OwnFits(t)'
  <2>1. ASSUME t = Main PROVE MainFits(th[t])'
    <3>1. /\ MainFits(x) /\ x.k \in 1 .. Len(x.script) /\ Len(x.script) \in Int
          /\ x.script[x.k].op = "create"
      BY <1>0, <2>1, MainCalls
    <3>2. x.k <= Len(x.script)
      BY <3>1
    <3> QED
      BY <1>3, <1>6, <3>1, <3>2 DEF MainFits
  <2>2. ASSUME t \in Workers
        PROVE  /\ WorkerFits(th[t])' /\ TellerFits(th[t])' /\ gen[x.job] = x.pop_gen
    <3>1. /\ WorkerFits(x) /\ Parent(x.job) /\ info[x.job].phase = 0 /\ x.k <= Leaves
      BY <1>0, <2>2, WorkerCalls DEF IndInv, Fits
    <3>2. WorkerFits(th[t])'
      BY <1>2, <1>3, <1>6, <1>8, <1>9, <3>1 DEF WorkerFits, Parent, Sub
    <3>3. TellerFits(th[t])'
      BY <1>3, <1>6, <1>8 DEF TellerFits, Sub
    <3>4. gen[x.job] = x.pop_gen
      BY <1>9, <2>2, JobOnly
    <3> QED
      BY <3>2, <3>3, <3>4
  <2> QED
    BY <1>2, <1>3, <1>6, <2>1, <2>2 DEF OwnFits
<1>19. FamilyStep(t)
  <2>1. \A r \in Slots : Resting(r)' <=> Resting(r)
    BY <1>1, <1>3, <1>6, <1>8, <1>9 DEF Resting
  <2>2. WordStep(s)
    <3>1. Resting(s)'
      BY <1>3, <1>6, <1>8 DEF Resting
    <3> QED
      BY <1>5, <1>7, <1>13, <3>1 DEF WordStep
  <2>3. JobStep(t, x, y)
    BY <1>3, <1>10 DEF JobStep
  <2>4. ThreadStep(t, x, y)
    BY <1>8, <1>9, <2>3 DEF ThreadStep
  <2> QED
    BY <1>2, <1>6, <1>7, <2>1, <2>2, <2>4, OneFamily
<1>20. Outside(s)
  BY <1>1 DEF Outside
<1> QED
  BY <1>2, <1>6, <1>11, <1>14, <1>15, <1>16, <1>17, <1>18, <1>19, <1>20, MoveStep

\* A worker takes a job from the destroy queue.
LEMMA QueueTakeInv ==
  ASSUME IndInv, Families, NEW w \in Workers, QueuePop(w), th[w].n # 0, dq # <<>>
  PROVE  IndInv'
<1> DEFINE x == th[w]
<1>1. /\ w \in Threads /\ w # Main /\ Types /\ x \in ThreadStates /\ x.pc = "queue"
      /\ dq \in Seq(Slots) /\ dq' = Tail(dq)
      /\ UNCHANGED <<meta, gen, info, free, cache, done>>
  BY JobLifeAssumption DEF Threads, IndInv, Types, QueuePop, At
<1>2. PICK s \in Slots : s = Head(dq) /\ s = dq[1]
  BY <1>1
<1> DEFINE y == [x EXCEPT !.pc = "destroy", !.tgt = s, !.n = @ - 1, !.back = "queue"]
<1>3. th' = [th EXCEPT ![w] = y]
  BY <1>1, <1>2 DEF QueuePop, Types
<1>4. /\ y.pc = "destroy" /\ y.tgt = s /\ y.back = "queue" /\ y.made = x.made
      /\ y.k = x.k /\ y.job = x.job
  BY <1>1 DEF ThreadStates
<1>5. y \in ThreadStates
  <2>1. x.n \in Nat /\ x.n # 0
    BY <1>1 DEF ThreadStates
  <2>2. x.n - 1 \in Nat /\ s \in MaybeJob /\ "destroy" \in Labels
    BY <2>1 DEF Labels, MaybeJob
  <2> QED
    BY <1>1, <2>2 DEF ThreadStates
<1> HIDE DEF y
<1>6. /\ th' \in [Threads -> ThreadStates] /\ th'[w] = y
      /\ \A u \in Threads \ {w} : th'[u] = th[u]
  BY <1>1, <1>3, <1>5 DEF Types
<1>7. /\ ~AtJob(y) /\ AtTarget(y) /\ ~Running(y) /\ ~RestsAt(y) /\ ~HasTold(y)
      /\ ~TellsNow(y) /\ ~Past(y) /\ ~WaitsAt(y) /\ TargetStage(y) = "queued"
  BY <1>4 DEF AtJob, AtTarget, Running, RestsAt, HasTold, TellsNow, Past, WaitsAt,
              TargetStage, Sub
<1>8. /\ ~AtJob(x) /\ ~Running(x) /\ ~RestsAt(x) /\ ~HasTold(x) /\ ~WaitsAt(x)
  BY <1>1 DEF AtJob, Running, RestsAt, HasTold, WaitsAt, Sub
<1>9. /\ JobOf(w, y) = NoJob /\ JobOf(w, x) = NoJob /\ TargetOf(y) = s
      /\ Pending(w, y) = {} /\ Pending(w, x) = {} /\ s # NoJob
  BY <1>1, <1>4, <1>7, <1>8, JobLifeAssumption DEF JobOf, TargetOf, Pending
<1>10. /\ Len(dq) \in Nat \ {0} /\ Len(dq') = Len(dq) - 1 /\ dq' \in Seq(Slots)
       /\ \A k \in 1 .. Len(dq') : dq'[k] = dq[k + 1]
  BY <1>1
<1>11. \A k, l \in 1 .. Len(dq) : dq[k] = dq[l] => k = l
  BY DEF IndInv, Exclusive, OnePlace
<1>12. s \in Queued /\ s \notin Queued'
  <2>1. \A k \in 1 .. Len(dq') : dq'[k] # s
    BY <1>2, <1>10, <1>11
  <2> QED
    BY <1>2, <1>10, <2>1 DEF Queued
<1>13. \A r \in Slots \ {s} : r \in Queued' <=> r \in Queued
  <2> SUFFICES ASSUME NEW r \in Slots \ {s} PROVE r \in Queued' <=> r \in Queued
    OBVIOUS
  <2>1. ASSUME NEW k \in 1 .. Len(dq), dq[k] = r
        PROVE  k - 1 \in 1 .. Len(dq') /\ dq'[k - 1] = r
    BY <1>2, <1>10, <2>1
  <2>2. ASSUME NEW k \in 1 .. Len(dq'), dq'[k] = r
        PROVE  k + 1 \in 1 .. Len(dq) /\ dq[k + 1] = r
    BY <1>10, <2>2
  <2> QED
    BY <2>1, <2>2 DEF Queued
<1>14. OnePlace'
  <2>1. \A k, l \in 1 .. Len(dq') : dq'[k] = dq'[l] => k = l
    BY <1>10, <1>11
  <2> QED
    BY <1>1, <2>1 DEF IndInv, Exclusive, OnePlace
<1>15. Types'
  BY <1>1, <1>6, <1>10 DEF Types
<1>16. Suspended' = Suspended /\ Cached' = Cached
  BY <1>1 DEF Suspended, Cached
<1>17. s \notin free /\ s \notin Cached /\ s \notin Suspended
  BY <1>12 DEF IndInv, Exclusive, PlacesApart
<1>18. /\ ~Outside(s)' /\ s \notin free' /\ s \notin Cached' /\ s \notin Queued'
       /\ s \notin Suspended'
  BY <1>1, <1>12, <1>16, <1>17 DEF Outside
<1>19. Moves(w, s)
  BY <1>1, <1>6, <1>9, <1>13 DEF Moves, KeepsHands
<1>20. HasOnce(w, y, s) /\ HasStaged(w, y, s, meta'[s].flags)
  <2>1. Marked("queued", meta'[s].flags)
    BY <1>1, <1>12 DEF IndInv, Staged
  <2> QED
    BY <1>7, <1>9, <2>1 DEF HasOnce, HasStaged
<1>21. OwnFits(w)'
  <2>1. WorkerFits(th[w])' /\ TellerFits(th[w])'
    BY <1>4, <1>6, <1>7 DEF WorkerFits, TellerFits, Sub
  <2> QED
    BY <1>1, <1>4, <1>6, <1>9, <2>1 DEF OwnFits
<1>22. FamilyStep(w)
  <2>1. \A r \in Slots : Resting(r)' <=> Resting(r)
    BY <1>1, <1>6, <1>7, <1>8, RestingKept
  <2>2. WordStep(s)
    BY <1>1, <1>16 DEF WordStep
  <2>3. ThreadStep(w, x, y)
    BY <1>7, <1>8, <1>9 DEF ThreadStep, JobStep
  <2> QED
    BY <1>1, <1>6, <2>1, <2>2, <2>3, OneFamily
<1>23. Outside(s)
  BY <1>12 DEF Outside
<1> QED
  BY <1>1, <1>6, <1>14, <1>15, <1>18, <1>19, <1>20, <1>21, <1>22, <1>23, MoveStep

\* A job that is to be run again is not executing any more.
LEMMA RunAgainInv ==
  ASSUME IndInv, Families, NEW w \in Workers, RunAgain(w)
  PROVE  IndInv'
<1> DEFINE x == th[w]
           y == [x EXCEPT !.pc = "read", !.tgt = x.job, !.back = "check",
                          !.delta = 0, !.flag = {"READYBASIC"}]
<1>1. /\ Types /\ x \in ThreadStates /\ x.pc = "again" /\ w \in Threads /\ w # Main
      /\ UNCHANGED <<gen, info, free, cache, dq, done>>
      /\ th' = [th EXCEPT ![w] = y]
  BY JobLifeAssumption DEF IndInv, Types, RunAgain, At, Threads
<1>2. /\ y.pc = "read" /\ y.tgt = x.job /\ y.back = "check" /\ y.k = x.k /\ y.delta = 0
      /\ y.flag = {"READYBASIC"} /\ y.made = x.made /\ y.job = x.job
  BY <1>1 DEF ThreadStates
<1>3. /\ WorkerFits(x) /\ AtJob(x) /\ ~AtTarget(x) /\ ~Running(x) /\ ~RestsAt(x)
      /\ ~HasTold(x) /\ JobStage(x) = "runs" /\ Past(x)
  BY <1>1 DEF IndInv, Fits, AtJob, AtTarget, Running, RestsAt, HasTold, JobStage, Sub, Past
<1>4. PICK s \in Slots : s = x.job
  BY <1>3, JobOnly
<1>5. /\ JobOf(w, x) = s /\ Has(w, x, s) /\ ~Outside(s) /\ Marked("runs", meta[s].flags)
      /\ s # NoJob
  BY <1>3, <1>4, JobOnly, JobLifeAssumption
<1>6. y \in ThreadStates
  <2>1. "read" \in Labels
    BY DEF Labels
  <2> QED
    BY <1>1, <2>1 DEF ThreadStates
<1> HIDE DEF y
<1>7. /\ th' \in [Threads -> ThreadStates] /\ th'[w] = y
      /\ \A u \in Threads \ {w} : th'[u] = th[u]
  BY <1>1, <1>6 DEF Types
<1>8. /\ ~AtJob(y) /\ AtTarget(y) /\ ~Running(y) /\ ~RestsAt(y) /\ ~HasTold(y)
      /\ ~TellsNow(y) /\ WaitsAt(y) /\ TargetStage(y) = "bare"
  BY <1>2 DEF AtJob, AtTarget, Running, RestsAt, HasTold, TellsNow, WaitsAt,
              TargetStage, Sub
<1>9. /\ JobOf(w, y) = NoJob /\ TargetOf(y) = s /\ Pending(w, y) = {} /\ Pending(w, x) = {}
  BY <1>1, <1>2, <1>3, <1>4, <1>8 DEF JobOf, TargetOf, Pending
<1> DEFINE m == unmark_or(meta[s], {"EXECUTING"}, {"UNSTABLE"})
<1>10. /\ m \in Word /\ m.avjobs = meta[s].avjobs
       /\ m.flags = meta[s].flags \ {"EXECUTING"}
  <2>1. meta[s].flags \cap {"UNSTABLE"} = {}
    BY <1>5, FlagsApart DEF Marked
  <2>2. meta[s] \in Word
    BY <1>1 DEF Types
  <2> QED
    BY <2>1, <2>2, UnmarkWords
<1>11. SetMeta(s, m)
  BY <1>4 DEF RunAgain, UnmarkExecuting
<1> HIDE DEF m
<1>12. /\ meta' \in [Slots -> Word] /\ meta'[s] = m
       /\ \A r \in Slots \ {s} : meta'[r] = meta[r]
  BY <1>1, <1>10, <1>11, OneWord
<1>13. Types'
  BY <1>1, <1>7, <1>12 DEF Types
<1>14. Queued' = Queued /\ Cached' = Cached
  BY <1>1 DEF Queued, Cached
<1>15. Moves(w, s)
  <2>1. KeepsHands(w, x, y, s)
    BY <1>9 DEF KeepsHands
  <2> QED
    BY <1>1, <1>7, <1>12, <1>14, <2>1 DEF Moves
<1>16. Marked("bare", m.flags) /\ "READYBASIC" \notin m.flags /\ "WLLDESTROY" \notin m.flags
       /\ "ALIVE" \in meta[s].flags /\ "WLLDESTROY" \notin meta[s].flags
  BY <1>5, <1>10, FlagsApart DEF Marked
<1>17. HasOnce(w, y, s) /\ HasStaged(w, y, s, meta'[s].flags)
  BY <1>5, <1>8, <1>9, <1>12, <1>16 DEF HasOnce, HasStaged
<1>18. /\ ~Outside(s)' /\ s \notin free' /\ s \notin Cached' /\ s \notin Queued'
       /\ s \notin Suspended'
  BY <1>1, <1>5, <1>12, <1>14, <1>16 DEF Outside, Suspended
<1>19. OnePlace'
  BY <1>1 DEF IndInv, Exclusive, OnePlace
<1>20. OwnFits(w)'
  <2>1. WorkerFits(th[w])'
    BY <1>1, <1>2, <1>3, <1>7, <1>8 DEF WorkerFits, Sub, Parent
  <2>2. TellerFits(th[w])'
    BY <1>2, <1>7, <1>8 DEF TellerFits, Sub
  <2> QED
    BY <1>1, <1>2, <1>4, <1>5, <1>7, <1>9, <2>1, <2>2 DEF OwnFits
<1>21. FamilyStep(w)
  <2>1. \A r \in Slots : Resting(r)' <=> Resting(r)
    BY <1>1, <1>3, <1>7, <1>8, RestingKept
  <2>2. WordStep(s)
    BY <1>5, <1>10, <1>12, <1>16 DEF WordStep, Outside
  <2>3. Parent(x.job) => info[x.job].phase = 1
    BY <1>3 DEF WorkerFits
  <2>4. JobStep(w, x, y)
    BY <1>9, <2>3 DEF JobStep
  <2>5. ThreadStep(w, x, y)
    BY <1>2, <1>3, <1>8, <2>4 DEF ThreadStep
  <2> QED
    BY <1>1, <1>7, <1>12, <2>1, <2>2, <2>5, OneFamily
<1> QED
  BY <1>1, <1>5, <1>7, <1>13, <1>15, <1>17, <1>18, <1>19, <1>20, <1>21, MoveStep

-----------------------------------------------------------------------------
(* Steps that move no job. *)

\* Flags and available jobs stay as they are.
LEMMA QuietStep ==
  ASSUME IndInv, Families, NEW t \in Threads, Types',
         \A u \in Threads \ {t} : th'[u] = th[u],
         \A r \in Slots : /\ meta'[r].flags = meta[r].flags
                          /\ meta'[r].avjobs = meta[r].avjobs /\ SameInfo(r),
         UNCHANGED <<gen, free, cache, dq, done>>,
         KeepsHands(t, th[t], th'[t], NoJob), ~RestsAt(th[t]), ~RestsAt(th'[t]),
         ThreadStep(t, th[t], th'[t]), OwnFits(t)'
  PROVE  IndInv'
<1>1. Suspended' = Suspended
  BY DEF Suspended
<1>2. Stays(t)
  BY <1>1 DEF Stays
<1>3. \A r \in Slots : WordStep(r)
  BY <1>1 DEF WordStep
<1>4. \A r \in Slots : Resting(r)' <=> Resting(r)
  BY RestingKept
<1>5. FamilyStep(t)
  BY <1>3, <1>4 DEF FamilyStep
<1> QED
  BY <1>2, <1>5, StayStep

\* Nothing changes.
LEMMA StutterInv ==
  ASSUME IndInv, Families, UNCHANGED vars
  PROVE  IndInv'
<1>1. /\ meta' = meta /\ gen' = gen /\ info' = info /\ free' = free /\ cache' = cache
      /\ dq' = dq /\ th' = th /\ done' = done
  BY DEF vars
<1>2. Types' /\ Main \in Threads /\ Main \notin Workers
  BY <1>1, JobLifeAssumption DEF IndInv, Types, Threads
<1>5. OwnFits(Main)'
  BY <1>1, <1>2 DEF OwnFits, IndInv, Fits
<1>6. Suspended' = Suspended
  BY <1>1 DEF Suspended
<1>7. Stays(Main)
  BY <1>1, <1>6 DEF Stays, KeepsHands
<1>8. FamilyStep(Main)
  <2>1. \A r \in Slots : WordStep(r) /\ SameInfo(r)
    BY <1>1, <1>6 DEF WordStep, SameInfo
  <2>2. ThreadStep(Main, th[Main], th'[Main])
    BY <1>1, <1>2 DEF ThreadStep
  <2>3. \A r \in Slots : Resting(r)' <=> Resting(r)
    BY <1>1 DEF Resting
  <2> QED
    BY <1>1, <2>1, <2>2, <2>3 DEF FamilyStep
<1> QED
  BY <1>2, <1>5, <1>7, <1>8, StayStep

\* A worker begins to look at the destroy queue.
LEMMA EnterQueueInv ==
  ASSUME IndInv, Families, NEW w \in Workers, EnterQueueCheck(w),
         th[w].pc \in {"check", "loop"}
  PROVE  IndInv'
<1> DEFINE x == th[w]
           y == [x EXCEPT !.pc = "queue", !.n = Len(dq)]
<1>1. /\ Types /\ x \in ThreadStates /\ w \in Threads /\ w # Main
      /\ UNCHANGED <<meta, gen, info, free, cache, dq, done>>
      /\ th' = [th EXCEPT ![w] = y]
  BY JobLifeAssumption DEF IndInv, Types, EnterQueueCheck, Threads
<1>2. y.pc = "queue" /\ y.made = x.made /\ y.job = x.job
  BY <1>1 DEF ThreadStates
<1>3. y \in ThreadStates
  <2>1. "queue" \in Labels /\ Len(dq) \in Nat
    BY <1>1 DEF Labels, Types
  <2> QED
    BY <1>1, <2>1 DEF ThreadStates
<1> HIDE DEF y
<1>4. /\ th' \in [Threads -> ThreadStates] /\ th'[w] = y
      /\ \A u \in Threads \ {w} : th'[u] = th[u]
  BY <1>1, <1>3 DEF Types
<1>5. /\ ~AtJob(y) /\ ~AtTarget(y) /\ ~Running(y) /\ ~RestsAt(y) /\ ~HasTold(y)
      /\ ~TellsNow(y) /\ ~Past(y)
  BY <1>2 DEF AtJob, AtTarget, Running, RestsAt, HasTold, TellsNow, Past, Sub
<1>6. ~AtJob(x) /\ ~Running(x) /\ ~RestsAt(x) /\ ~HasTold(x) /\ ~WaitsAt(x)
  BY DEF AtJob, Running, RestsAt, HasTold, WaitsAt, Sub
<1>7. /\ JobOf(w, y) = NoJob /\ JobOf(w, x) = NoJob /\ TargetOf(y) = NoJob
      /\ Pending(w, y) = {} /\ Pending(w, x) = {}
  BY <1>1, <1>5, <1>6 DEF JobOf, TargetOf, Pending
<1>8. Types'
  BY <1>1, <1>4 DEF Types
<1>9. OwnFits(w)'
  <2>1. WorkerFits(th[w])' /\ TellerFits(th[w])'
    BY <1>2, <1>4, <1>5 DEF WorkerFits, TellerFits, Sub
  <2> QED
    BY <1>1, <1>4, <1>5, <1>7, <2>1 DEF OwnFits
<1>10. KeepsHands(w, x, y, NoJob)
  BY <1>7 DEF KeepsHands
<1>11. ThreadStep(w, x, y)
  BY <1>2, <1>5, <1>6, <1>7 DEF ThreadStep, JobStep
<1>12. \A r \in Slots : SameInfo(r)
  BY <1>1 DEF SameInfo
<1> QED
  BY <1>1, <1>4, <1>5, <1>6, <1>8, <1>9, <1>10, <1>11, <1>12, QuietStep

\* A worker is through with the destroy queue.
LEMMA QueueEmptyInv ==
  ASSUME IndInv, Families, NEW w \in Workers, QueuePop(w), th[w].n = 0 \/ dq = <<>>
  PROVE  IndInv'
<1> DEFINE x == th[w]
<1>1. /\ Types /\ w \in Threads /\ w # Main /\ x.pc = "queue" /\ Loop(w)
      /\ UNCHANGED <<meta, gen, info, free, cache, dq, done>>
  BY JobLifeAssumption DEF IndInv, QueuePop, Threads, At
<1>2. /\ th' \in [Threads -> ThreadStates] /\ th'[w] = Idle
      /\ \A u \in Threads \ {w} : th'[u] = th[u]
      /\ OwnFits(w)' /\ Free(w, th'[w])
      /\ ~RestsAt(Idle) /\ ~HasTold(Idle) /\ ~TellsNow(Idle) /\ ~WaitsAt(Idle)
  BY <1>1, Loops
<1>3. Types'
  BY <1>1, <1>2 DEF Types
<1>4. ~AtJob(x) /\ ~Running(x) /\ ~RestsAt(x) /\ ~HasTold(x) /\ ~WaitsAt(x)
  BY <1>1 DEF AtJob, Running, RestsAt, HasTold, WaitsAt, Sub
<1>5. JobOf(w, x) = NoJob /\ Pending(w, x) = {}
  BY <1>1, <1>4 DEF JobOf, Pending
<1>6. KeepsHands(w, x, th'[w], NoJob)
  BY <1>2 DEF KeepsHands, Free
<1>7. ThreadStep(w, x, th'[w])
  BY <1>2, <1>4, <1>5 DEF ThreadStep, JobStep, Free
<1>8. \A r \in Slots : SameInfo(r)
  BY <1>1 DEF SameInfo
<1> QED
  BY <1>1, <1>2, <1>3, <1>4, <1>6, <1>7, <1>8, QuietStep

\* main() ends.
LEMMA MainEndsInv ==
  ASSUME IndInv, Families, MainEnds
  PROVE  IndInv'
<1> DEFINE x == th[Main]
<1>0. PICK l \in {"ended"} : Goto(Main, l)
  BY DEF MainEnds
<1>1. /\ Types /\ Main \in Threads /\ Main \notin Workers /\ x.pc = "script"
      /\ UNCHANGED <<meta, gen, info, free, cache, dq, done>> /\ l \in Labels
      /\ MainFits(x)
  BY JobLifeAssumption DEF IndInv, Fits, MainEnds, ScriptEnds, At, Threads, Labels
<1>2. /\ th' \in [Threads -> ThreadStates]
      /\ \A u \in Threads \ {Main} : th'[u] = th[u]
      /\ th'[Main].pc = "ended" /\ th'[Main].k = x.k /\ th'[Main].made = x.made
      /\ th'[Main].script = x.script
  BY <1>0, <1>1, Goes
<1>3. Types'
  BY <1>1, <1>2 DEF Types
<1>4. /\ JobOf(Main, th'[Main]) = NoJob /\ TargetOf(th'[Main]) = NoJob
      /\ Pending(Main, th'[Main]) = Pending(Main, x)
      /\ ~RestsAt(x) /\ ~RestsAt(th'[Main]) /\ ~HasTold(x) /\ ~AtTarget(th'[Main])
  BY <1>1, <1>2 DEF JobOf, TargetOf, Pending, AtTarget, RestsAt, HasTold
<1>5. KeepsHands(Main, x, th'[Main], NoJob)
  BY <1>2, <1>4 DEF KeepsHands
<1>6. ThreadStep(Main, x, th'[Main])
  BY <1>1, <1>4 DEF ThreadStep
<1>7. OwnFits(Main)'
  BY <1>1, <1>2, <1>4 DEF OwnFits, MainFits
<1>8. \A r \in Slots : SameInfo(r)
  BY <1>1 DEF SameInfo
<1> QED
  BY <1>1, <1>2, <1>3, <1>4, <1>5, <1>6, <1>7, <1>8, QuietStep

\* main() sets the completion indicator of a job.
LEMMA SetIndicatorInv ==
  ASSUME IndInv, Families, NEW t \in Threads, SetIndicator(t)
  PROVE  IndInv'
<1> DEFINE x == th[t]
<1>0. PICK op \in {"indicator"} : HasCall(t, op)
  BY DEF SetIndicator
<1>1. t = Main /\ t \notin Workers
  BY <1>0, WorkerCalls, JobLifeAssumption DEF Threads
<1>2. /\ x.pc = "script" /\ MainFits(x) /\ x.k \in 1 .. Len(x.script) /\ Len(x.script) \in Int
      /\ x.script[x.k].op = "indicator" /\ Len(x.made) = Created(x.script, x.k)
      /\ Arg(t).i \in 1 .. Len(x.made)
  BY <1>0, <1>1, MainCalls
<1> DEFINE y == [x EXCEPT !.k = @ + 1]
<1>3. /\ Types /\ x \in ThreadStates /\ th' = [th EXCEPT ![t] = y]
      /\ UNCHANGED <<meta, gen, free, cache, dq, done>>
      /\ info' = [info EXCEPT ![x.made[Arg(t).i]].indicator = TRUE]
  BY DEF IndInv, Types, SetIndicator
<1>4. x.k \in Nat /\ x.made \in Seq(Slots)
  BY <1>3 DEF ThreadStates
<1>5. y.k = x.k + 1 /\ y.pc = "script" /\ y.made = x.made /\ y.script = x.script
      /\ y \in ThreadStates
  <2>1. x.k + 1 \in Nat
    BY <1>4
  <2> QED
    BY <1>2, <1>3, <2>1 DEF ThreadStates
<1> HIDE DEF y
<1>6. /\ th' \in [Threads -> ThreadStates] /\ th'[t] = y
      /\ \A u \in Threads \ {t} : th'[u] = th[u]
  BY <1>3, <1>5 DEF Types
<1>7. PICK s \in Slots : s = x.made[Arg(t).i]
  BY <1>2, <1>4
<1>8. /\ info' \in [Slots -> Infos]
      /\ \A r \in Slots : SameInfo(r)
  <2>1. info \in [Slots -> Infos] /\ info' = [info EXCEPT ![s].indicator = TRUE]
    BY <1>3, <1>7 DEF Types
  <2>2. [info[s] EXCEPT !.indicator = TRUE] \in Infos
    BY <2>1 DEF Infos
  <2>3. info' \in [Slots -> Infos]
    BY <2>1, <2>2
  <2>4. \A r \in Slots \ {s} : info'[r] = info[r]
    BY <2>1
  <2>5. SameInfo(s)
    BY <2>1 DEF SameInfo, Infos
  <2> QED
    BY <2>3, <2>4, <2>5 DEF SameInfo
<1>9. Types'
  BY <1>3, <1>6, <1>8 DEF Types
<1>10. Pending(t, y) = Pending(t, x)
  <2>1. ~Uses(x.script, x.k)
    BY <1>2 DEF Uses
  <2>2. ASSUME NEW i
        PROVE  (\E k \in x.k + 1 .. Len(x.script) : Uses(x.script, k) /\ x.script[k].i = i)
               <=> (\E k \in x.k .. Len(x.script) : Uses(x.script, k) /\ x.script[k].i = i)
    BY <1>2, <2>1
  <2>3. ASSUME NEW j PROVE j \in Pending(t, y) <=> j \in Pending(t, x)
    <3>1. j \in Pending(t, y) <=>
            /\ j \in 1 .. Len(x.made)
            /\ \E k \in x.k + 1 .. Len(x.script) : Uses(x.script, k) /\ x.script[k].i = j
      BY <1>1, <1>5 DEF Pending
    <3>2. j \in Pending(t, x) <=>
            /\ j \in 1 .. Len(x.made)
            /\ \E k \in x.k .. Len(x.script) : Uses(x.script, k) /\ x.script[k].i = j
      BY <1>1 DEF Pending
    <3> QED
      BY <2>2, <3>1, <3>2
  <2> QED
    BY <2>3
<1>11. /\ JobOf(t, y) = NoJob /\ TargetOf(y) = NoJob
       /\ ~RestsAt(x) /\ ~RestsAt(y) /\ ~HasTold(x) /\ ~AtTarget(y)
  BY <1>1, <1>2, <1>5 DEF JobOf, TargetOf, AtTarget, RestsAt, HasTold
<1>12. KeepsHands(t, x, y, NoJob)
  BY <1>5, <1>10, <1>11 DEF KeepsHands
<1>13. ThreadStep(t, x, y)
  BY <1>1, <1>11 DEF ThreadStep
<1>14. OwnFits(t)'
  <2>1. Created(x.script, x.k + 1) = Created(x.script, x.k)
    <3>1. x.k \in Nat \ {0} /\ x.script[x.k].op # "create"
      BY <1>2
    <3> QED
      BY <3>1, CreatedNext
  <2>2. x.k + 1 \in 1 .. Len(x.script) + 1
    BY <1>2
  <2>3. MainFits(th[t])'
    BY <1>2, <1>5, <1>6, <2>1, <2>2 DEF MainFits
  <2> QED
    BY <1>1, <1>6, <1>11, <2>3 DEF OwnFits
<1> QED
  BY <1>3, <1>6, <1>8, <1>9, <1>11, <1>12, <1>13, <1>14, QuietStep

\* A parent states how many leaves it waits for.
LEMMA CallRequireInv ==
  ASSUME IndInv, Families, NEW t \in Threads, CallRequire(t)
  PROVE  IndInv'
<1> DEFINE x == th[t]
<1>0. PICK op \in {"require"} : HasCall(t, op)
  BY DEF CallRequire
<1>1. t \in Workers /\ t # Main
  BY <1>0, MainCalls, JobLifeAssumption DEF Threads
<1>2. /\ x.pc = "script" /\ Parent(x.job) /\ info[x.job].phase = 0 /\ x.k = Leaves + 1
      /\ WorkerFits(x) /\ Leaves \in Nat \ {0} /\ Required \in Nat
  BY <1>0, <1>1, WorkerCalls, JobLifeAssumption DEF IndInv, Fits
<1> DEFINE y == [x EXCEPT !.pc = "read", !.tgt = x.job, !.back = "script", !.k = @ + 1,
                          !.delta = 0, !.flag = {}]
<1>3. /\ Types /\ x \in ThreadStates /\ th' = [th EXCEPT ![t] = y]
      /\ UNCHANGED <<meta, gen, free, cache, dq, done>>
      /\ info' = [info EXCEPT ![x.job].required = Required]
  BY DEF IndInv, Types, CallRequire
<1>4. /\ Running(x) /\ AtJob(x) /\ ~RestsAt(x) /\ ~HasTold(x) /\ ~WaitsAt(x)
      /\ JobStage(x) = "runs" /\ Len(x.made) = Leaves
  <2>1. /\ Running(x) /\ AtJob(x) /\ ~RestsAt(x) /\ ~HasTold(x) /\ ~WaitsAt(x)
        /\ JobStage(x) = "runs"
    BY <1>2 DEF Running, AtJob, RestsAt, HasTold, WaitsAt, JobStage, Sub
  <2> QED
    BY <1>2, <2>1 DEF WorkerFits
<1>5. /\ y.pc = "read" /\ y.tgt = x.job /\ y.back = "script" /\ y.k = x.k + 1
      /\ y.delta = 0 /\ y.flag = {} /\ y.made = x.made /\ y.job = x.job
      /\ y.pop_gen = x.pop_gen /\ y \in ThreadStates
  <2>1. x.k + 1 \in Nat /\ "read" \in Labels
    BY <1>2 DEF Labels
  <2> QED
    BY <1>3, <2>1 DEF ThreadStates
<1> HIDE DEF y
<1>6. /\ th' \in [Threads -> ThreadStates] /\ th'[t] = y
      /\ \A u \in Threads \ {t} : th'[u] = th[u]
  BY <1>3, <1>5 DEF Types
<1>7. PICK s \in Slots : s = x.job
  BY <1>1, <1>4, JobOnly
<1>8. /\ info' \in [Slots -> Infos] /\ info'[s].required = Required
      /\ \A r \in Slots : SameInfo(r)
  <2>1. info \in [Slots -> Infos] /\ info' = [info EXCEPT ![s].required = Required]
    BY <1>3, <1>7 DEF Types
  <2>2. [info[s] EXCEPT !.required = Required] \in Infos
    BY <1>2, <2>1 DEF Infos
  <2>3. info' \in [Slots -> Infos]
    BY <2>1, <2>2
  <2>4. \A r \in Slots \ {s} : info'[r] = info[r]
    BY <2>1
  <2>5. SameInfo(s) /\ info'[s].required = Required
    BY <2>1 DEF SameInfo, Infos
  <2> QED
    BY <2>3, <2>4, <2>5 DEF SameInfo
<1>9. Types'
  BY <1>3, <1>6, <1>8 DEF Types
<1>10. /\ Running(y) /\ ~AtTarget(y) /\ ~RestsAt(y) /\ ~HasTold(y) /\ ~TellsNow(y)
       /\ ~Past(y) /\ AtJob(y) /\ JobStage(y) = "runs"
  BY <1>5 DEF Running, AtTarget, RestsAt, HasTold, TellsNow, Past, AtJob, JobStage, Sub
<1>11. /\ JobOf(t, y) = s /\ JobOf(t, x) = s /\ TargetOf(y) = NoJob
       /\ Pending(t, y) = Pending(t, x)
  <2>1. JobOf(t, y) = s /\ JobOf(t, x) = s /\ TargetOf(y) = NoJob
    BY <1>1, <1>4, <1>5, <1>7, <1>10 DEF JobOf, TargetOf
  <2>2. \A i \in 1 .. Leaves : x.k <= Leaves + 1 + i /\ x.k + 1 <= Leaves + 1 + i
    BY <1>2
  <2>3. Pending(t, y) = 1 .. Leaves /\ Pending(t, x) = 1 .. Leaves
    BY <1>1, <1>4, <1>5, <1>10, <2>2 DEF Pending
  <2> QED
    BY <2>1, <2>3
<1>12. KeepsHands(t, x, y, NoJob)
  BY <1>4, <1>5, <1>10, <1>11 DEF KeepsHands
<1>13. ThreadStep(t, x, y)
  BY <1>4, <1>5, <1>10, <1>11 DEF ThreadStep, JobStep
<1>14. OwnFits(t)'
  <2>1. y.k \in 1 .. 2 * Leaves + 2 /\ ~(y.k <= Leaves) /\ x.job # NoJob
    <3>1. y.k \in 1 .. 2 * Leaves + 2 /\ ~(y.k <= Leaves)
      BY <1>2, <1>5
    <3> QED
      BY <1>2, <1>4, <3>1 DEF WorkerFits
  <2>2. Parent(s)' /\ info'[s].phase = 0 /\ info'[s].required = Required
    BY <1>2, <1>7, <1>8 DEF SameInfo, Parent
  <2>3. WorkerFits(th[t])'
    BY <1>4, <1>5, <1>6, <1>7, <1>10, <2>1, <2>2 DEF WorkerFits, Sub
  <2>4. TellerFits(th[t])'
    BY <1>5, <1>6, <1>10 DEF TellerFits, Sub
  <2>5. gen[x.job] = x.pop_gen
    BY <1>1, <1>4, JobOnly
  <2> QED
    BY <1>1, <1>3, <1>5, <1>6, <1>10, <2>3, <2>4, <2>5 DEF OwnFits
<1> QED
  BY <1>3, <1>4, <1>6, <1>8, <1>9, <1>10, <1>12, <1>13, <1>14, QuietStep

\* A job in the hands of a thread is not between two lives, unless this
\* thread sees to that.
LEMMA NotResting ==
  ASSUME IndInv, NEW t \in Threads, NEW s \in Slots, Has(t, th[t], s),
         ~(RestsAt(th[t]) /\ th[t].tgt = s)
  PROVE  ~Resting(s)
<1> SUFFICES ASSUME Resting(s) PROVE FALSE
  OBVIOUS
<1>1. s # NoJob /\ s \notin free
  BY InHands, JobLifeAssumption DEF Outside
<1>2. PICK u \in Threads : th[u].tgt = s /\ RestsAt(th[u])
  BY <1>1 DEF Resting
<1>3. TargetOf(th[u]) = s /\ -1 \in Fields
  BY <1>2 DEF TargetOf, AtTarget, RestsAt, Fields
<1>4. Held(u, th[u], -1) = s
  BY <1>3 DEF Held
<1>5. PICK f \in Fields : Held(t, th[t], f) = s
  BY <1>1, HeldIs
<1>6. u = t
  BY <1>1, <1>3, <1>4, <1>5 DEF IndInv, Exclusive, HandsApart
<1> QED
  BY <1>2, <1>6

\* A leaf that is told about knows a parent that asked for all its leaves.
LEMMA LeafOfReady ==
  ASSUME IndInv, NEW w \in Workers, NEW p \in Slots, AtJob(th[w]), LeafOf(th[w].job, p)
  PROVE  info[p].required = Required /\ Parent(p) /\ ~Resting(p)
<1>1. PICK s \in Slots : s = th[w].job
  BY JobOnly
<1>2. /\ info[s].requested = p /\ p # NoJob /\ w \in Threads /\ s # NoJob
      /\ JobOf(w, th[w]) = s
  BY <1>1, JobOnly, JobLifeAssumption DEF LeafOf
<1>3. /\ Parent(p) /\ ~Resting(p)
      /\ \/ info[p].required = Required
         \/ \E v \in Workers : /\ JobOf(v, th[v]) = p
                               /\ \E i \in Pending(v, th[v]) : th[v].made[i] = s
  BY <1>1, <1>2 DEF IndInv, LeavesFit
<1>4. ASSUME NEW v \in Workers, NEW i \in Pending(v, th[v]), th[v].made[i] = s
      PROVE  FALSE
  <2>1. i \in Fields /\ i # 0 /\ i # -1 /\ 0 \in Fields /\ v \in Threads
    BY PendingIndex DEF Fields, Threads
  <2>2. Held(v, th[v], i) = s /\ Held(w, th[w], 0) = s
    BY <1>2, <1>4, <2>1 DEF Held
  <2> QED
    BY <1>2, <2>1, <2>2 DEF IndInv, Exclusive, HandsApart
<1> QED
  BY <1>3, <1>4

\* required_available_jobs is read.
LEMMA CasReadInv ==
  ASSUME IndInv, Families, NEW t \in Threads, CasRead(t)
  PROVE  IndInv'
<1> DEFINE x == th[t]
<1>1. /\ Types /\ x \in ThreadStates /\ x.pc = "read"
      /\ UNCHANGED <<meta, gen, info, free, cache, dq, done>>
  BY DEF IndInv, Types, CasRead, At
<1>2. t \in Workers /\ t # Main /\ WorkerFits(x) /\ TellerFits(x)
  <2>1. t # Main
    BY <1>1 DEF IndInv, Fits, MainFits
  <2> QED
    BY <2>1 DEF Threads, IndInv, Fits, TellersFit
<1>3. x.back \in {"script", "check", "told"}
  BY <1>1, <1>2 DEF WorkerFits, Sub
<1>4. PICK p \in Slots : p = x.tgt
  <2>1. CASE x.back = "told"
    <3>1. info[x.job].requested = x.tgt /\ x.tgt # NoJob
      BY <1>1, <1>2, <2>1 DEF TellerFits, TellsNow, Sub
    <3> QED
      BY <1>1, <3>1 DEF ThreadStates, MaybeJob
  <2>2. CASE x.back # "told"
    <3>1. x.tgt = x.job
      BY <1>1, <1>2, <1>3, <2>2 DEF WorkerFits
    <3>2. Running(x) \/ Past(x)
      BY <1>1, <1>3, <2>2 DEF Running, Past, Sub
    <3>3. AtTarget(x) => x.tgt # NoJob
      BY DEF IndInv, Fits
    <3> QED
      BY <1>1, <1>2, <3>1, <3>2, <3>3, HasJob
  <2> QED
    BY <2>1, <2>2
<1> DEFINE y == [x EXCEPT !.pc = "cas", !.req = info[p].required]
<1>5. th' = [th EXCEPT ![t] = y]
  BY <1>1, <1>4 DEF CasRead, Types
<1>6. /\ y.pc = "cas" /\ y.tgt = p /\ y.back = x.back /\ y.k = x.k
      /\ y.delta = x.delta /\ y.flag = x.flag /\ y.made = x.made /\ y.job = x.job
      /\ y.pop_gen = x.pop_gen /\ y.req = info[p].required /\ y \in ThreadStates
  <2>1. "cas" \in Labels /\ info[p].required \in Nat
    BY <1>1 DEF Labels, Types, Infos
  <2> QED
    BY <1>1, <1>4, <2>1 DEF ThreadStates
<1> HIDE DEF y
<1>7. /\ th' \in [Threads -> ThreadStates] /\ th'[t] = y
      /\ \A u \in Threads \ {t} : th'[u] = th[u]
  BY <1>1, <1>5, <1>6 DEF Types
<1>8. Types'
  BY <1>1, <1>7 DEF Types
<1>9. /\ Running(y) <=> Running(x)
      /\ AtTarget(y) <=> AtTarget(x)
      /\ AtJob(y) <=> AtJob(x)
      /\ Past(y) <=> Past(x)
      /\ TellsNow(y) <=> TellsNow(x)
      /\ WaitsAt(y) <=> WaitsAt(x)
      /\ ~HasTold(x) /\ ~HasTold(y) /\ ~RestsAt(x) /\ ~RestsAt(y)
      /\ JobStage(y) = JobStage(x) /\ TargetStage(y) = TargetStage(x)
  BY <1>1, <1>6 DEF Running, AtTarget, AtJob, Past, TellsNow, WaitsAt, HasTold, RestsAt,
                    JobStage, TargetStage, Sub
<1>10. /\ JobOf(t, y) = JobOf(t, x) /\ TargetOf(y) = TargetOf(x)
       /\ Pending(t, y) = Pending(t, x)
  BY <1>2, <1>4, <1>6, <1>9 DEF JobOf, TargetOf, Pending
<1>11. KeepsHands(t, x, y, NoJob)
  BY <1>6, <1>9, <1>10 DEF KeepsHands
<1>12. ThreadStep(t, x, y)
  BY <1>6, <1>9, <1>10 DEF ThreadStep, JobStep
<1>13. WorkerFits(th[t])'
  BY <1>1, <1>2, <1>4, <1>6, <1>7, <1>9 DEF WorkerFits, Sub, Parent
<1>14. ASSUME x.back = "told" PROVE info[p].required = Required
  <2>1. /\ AtJob(x) /\ x.tgt = info[x.job].requested /\ LeafOf(x.job, info[x.job].requested)
    BY <1>1, <1>2, <1>14 DEF AtJob, Sub, TellerFits
  <2> QED
    BY <1>2, <1>4, <2>1, LeafOfReady
<1>15. ASSUME x.back = "check", Parent(x.job) PROVE info[p].required = Required
  <2>1. Past(x) /\ x.tgt = x.job /\ AtTarget(x) /\ ~RestsAt(x)
    BY <1>1, <1>2, <1>9, <1>15 DEF Past, WorkerFits, AtTarget
  <2>2. info[p].phase = 1 /\ Parent(p) /\ Has(t, x, p)
    BY <1>2, <1>4, <1>15, <2>1 DEF WorkerFits, Has, TargetOf
  <2>3. ~Resting(p)
    BY <2>1, <2>2, NotResting
  <2> QED
    BY <2>2, <2>3 DEF IndInv, Resumes, ResumesOf
<1>16. TellerFits(th[t])'
  <2>1. y.back = "told" => LeafOf(x.job, info[x.job].requested)'
    <3>1. x.back = "told" => LeafOf(x.job, info[x.job].requested)
      BY <1>1, <1>2 DEF TellerFits
    <3> QED
      BY <1>1, <1>6, <1>7, <3>1 DEF LeafOf
  <2> QED
    BY <1>1, <1>2, <1>4, <1>6, <1>7, <1>9, <1>14, <1>15, <2>1
    DEF TellerFits, Sub, Parent
<1>17. OwnFits(t)'
  <2>1. JobOf(t, x) # NoJob => gen[x.job] = x.pop_gen
    BY <1>2 DEF IndInv, SameLife
  <2>2. p # NoJob
    BY JobLifeAssumption
  <2> QED
    BY <1>1, <1>2, <1>6, <1>7, <1>10, <1>13, <1>16, <2>1, <2>2 DEF OwnFits
<1>18. \A r \in Slots : SameInfo(r)
  BY <1>1 DEF SameInfo
<1> QED
  BY <1>1, <1>7, <1>8, <1>9, <1>11, <1>12, <1>17, <1>18, QuietStep

\* A worker that tells a parent about its job has this job in its hands.
LEMMA TellHands ==
  ASSUME IndInv, NEW w \in Workers, NEW y, th'[w] = y, y.job = th[w].job,
         y.pop_gen = th[w].pop_gen, y.made = th[w].made,
         \/ th[w].pc \in {"tell", "compare", "told"}
         \/ th[w].pc \in {"read", "cas"} /\ th[w].back = "told",
         \/ y.pc \in {"compare", "told", "wlldestroy"}
         \/ y.pc = "read" /\ y.back = "told" /\ y.delta = 1 /\ y.flag = {},
         gen' = gen, info' = info, TellerFits(th[w])'
  PROVE  /\ KeepsHands(w, th[w], y, NoJob) /\ JobStep(w, th[w], y) /\ OwnFits(w)'
         /\ ~RestsAt(th[w]) /\ ~RestsAt(y) /\ ~WaitsAt(th[w])
<1> DEFINE x == th[w]
<1>1. w # Main /\ WorkerFits(x)
  BY JobLifeAssumption DEF IndInv, Fits
<1>2. /\ AtJob(x) /\ ~AtTarget(x) /\ ~Running(x) /\ ~RestsAt(x) /\ ~WaitsAt(x) /\ Past(x)
      /\ JobStage(x) = "bare"
  BY DEF AtJob, AtTarget, Running, RestsAt, WaitsAt, Past, JobStage, Sub
<1>3. /\ AtJob(y) /\ ~AtTarget(y) /\ ~Running(y) /\ ~RestsAt(y) /\ Past(y)
      /\ JobStage(y) = "bare"
  BY DEF AtJob, AtTarget, Running, RestsAt, Past, JobStage, Sub
<1>4. JobOf(w, y) = x.job /\ JobOf(w, x) = x.job /\ TargetOf(y) = NoJob
      /\ Pending(w, y) = {} /\ Pending(w, x) = {}
  BY <1>1, <1>2, <1>3 DEF JobOf, TargetOf, Pending
<1>5. KeepsHands(w, x, y, NoJob) /\ JobStep(w, x, y)
  BY <1>2, <1>3, <1>4 DEF KeepsHands, JobStep
<1>6. WorkerFits(th[w])'
  <2>1. x.job # NoJob /\ (Parent(x.job) => info[x.job].phase = 1)
    BY <1>1, <1>2 DEF WorkerFits
  <2> QED
    BY <1>3, <2>1 DEF WorkerFits, Sub, Parent
<1>7. gen[x.job] = x.pop_gen
  BY <1>2, JobOnly
<1> QED
  BY <1>1, <1>2, <1>3, <1>5, <1>6, <1>7 DEF OwnFits

\* The worker of a leaf takes an access of the parent, or cannot.
LEMMA TellAccessInv ==
  ASSUME IndInv, Families, NEW w \in Workers, TellAccess(w)
  PROVE  IndInv'
<1> DEFINE x == th[w]
<1>1. /\ Types /\ w \in Threads /\ x.pc = "tell" /\ TellerFits(x)
      /\ UNCHANGED <<gen, info, free, cache, dq, done>>
  BY DEF IndInv, TellersFit, TellAccess, At, Threads
<1>2. /\ AtJob(x) /\ x.job \in Slots
  <2>1. AtJob(x)
    BY <1>1 DEF AtJob
  <2> QED
    BY <2>1, JobOnly
<1>3. PICK p \in Slots : p = info[x.job].requested
  <2>1. info[x.job].requested # NoJob
    BY <1>1 DEF TellerFits, TellsNow
  <2>2. info[x.job].requested \in MaybeJob
    BY <1>1, <1>2 DEF Types, Infos
  <2> QED
    BY <2>1, <2>2 DEF MaybeJob
<1> DEFINE m == mark_access(meta[p])
<1>4. m \in Word /\ m.flags = meta[p].flags /\ m.avjobs = meta[p].avjobs
  BY <1>1, AccessWords DEF Types
<1>5. SetMeta(p, m)
  BY <1>3 DEF TellAccess
<1> HIDE DEF m
<1>6. /\ meta' \in [Slots -> Word]
      /\ \A r \in Slots : meta'[r].flags = meta[r].flags /\ meta'[r].avjobs = meta[r].avjobs
  BY <1>1, <1>4, <1>5, OneWord
<1>7. PICK l \in {"compare", "wlldestroy"} : Goto(w, l)
  BY DEF TellAccess
<1>8. l \in Labels
  BY DEF Labels
<1>9. /\ th' \in [Threads -> ThreadStates]
      /\ \A u \in Threads \ {w} : th'[u] = th[u]
      /\ th'[w].pc = l /\ th'[w].job = x.job
      /\ th'[w].made = x.made /\ th'[w].pop_gen = x.pop_gen
  BY <1>1, <1>7, <1>8, Goes
<1>10. Types'
  BY <1>1, <1>6, <1>9 DEF Types
<1>11. TellerFits(th[w])'
  BY <1>1, <1>3, <1>9, JobLifeAssumption DEF TellerFits, Sub, TellsNow, HasTold
<1>12. PICK y : y = th'[w]
  OBVIOUS
<1>13. /\ KeepsHands(w, x, y, NoJob) /\ JobStep(w, x, y) /\ OwnFits(w)'
       /\ ~RestsAt(x) /\ ~RestsAt(y) /\ ~WaitsAt(x)
  BY <1>1, <1>9, <1>11, <1>12, TellHands
<1>14. ThreadStep(w, x, th'[w])
  BY <1>1, <1>9, <1>12, <1>13 DEF ThreadStep, TellsNow, HasTold
<1>15. \A r \in Slots : SameInfo(r)
  BY <1>1 DEF SameInfo
<1> QED
  BY <1>1, <1>6, <1>9, <1>10, <1>12, <1>13, <1>14, <1>15, QuietStep

\* It compares the generation of the parent.
LEMMA TellCompareInv ==
  ASSUME IndInv, Families, NEW w \in Workers, TellCompare(w)
  PROVE  IndInv'
<1> DEFINE x == th[w]
<1>1. /\ Types /\ w \in Threads /\ x.pc = "compare" /\ TellerFits(x) /\ x \in ThreadStates
      /\ UNCHANGED <<meta, gen, info, free, cache, dq, done>>
  BY DEF IndInv, Types, TellersFit, TellCompare, At, Threads
<1>2. /\ AtJob(x) /\ x.job \in Slots /\ Marked("bare", meta[x.job].flags)
  <2>1. AtJob(x) /\ JobStage(x) = "bare"
    BY <1>1 DEF AtJob, JobStage
  <2> QED
    BY <2>1, JobOnly
<1>3. PICK p \in Slots : p = info[x.job].requested
  <2>1. info[x.job].requested # NoJob
    BY <1>1 DEF TellerFits, TellsNow
  <2>2. info[x.job].requested \in MaybeJob
    BY <1>1, <1>2 DEF Types, Infos
  <2> QED
    BY <2>1, <2>2 DEF MaybeJob
<1>4. PICK l \in {"read", "told"} :
        l = IF gen[p] = info[x.job].requested_gen THEN "read" ELSE "told"
  OBVIOUS
<1> DEFINE y == [x EXCEPT !.pc = l, !.tgt = p, !.back = "told", !.delta = 1, !.flag = {}]
<1>5. th' = [th EXCEPT ![w] = y]
  BY <1>1, <1>3, <1>4 DEF TellCompare, Types
<1>6. /\ y.pc = l /\ y.tgt = p /\ y.back = "told" /\ y.delta = 1 /\ y.flag = {}
      /\ y.job = x.job /\ y.made = x.made /\ y.pop_gen = x.pop_gen
      /\ y \in ThreadStates
  <2>1. l \in Labels /\ p \in MaybeJob
    BY DEF Labels, MaybeJob
  <2> QED
    BY <1>1, <2>1 DEF ThreadStates
<1> HIDE DEF y
<1>7. /\ th' \in [Threads -> ThreadStates] /\ th'[w] = y
      /\ \A u \in Threads \ {w} : th'[u] = th[u]
  BY <1>1, <1>5, <1>6 DEF Types
<1>8. Types'
  BY <1>1, <1>7 DEF Types
<1>9. TellerFits(th[w])'
  <2>1. l = "read" => LeafOf(x.job, p)
    <3>1. "ALIVE" \in meta[x.job].flags /\ "WLLDESTROY" \notin meta[x.job].flags
      BY <1>2, FlagsApart DEF Marked
    <3> QED
      BY <1>3, <1>4, <3>1 DEF LeafOf
  <2>2. p # NoJob
    BY JobLifeAssumption
  <2> QED
    BY <1>1, <1>3, <1>6, <1>7, <2>1, <2>2 DEF TellerFits, Sub, TellsNow, HasTold, LeafOf
<1>10. /\ KeepsHands(w, x, y, NoJob) /\ JobStep(w, x, y) /\ OwnFits(w)'
       /\ ~RestsAt(x) /\ ~RestsAt(y) /\ ~WaitsAt(x)
  BY <1>1, <1>6, <1>7, <1>9, TellHands
<1>11. ThreadStep(w, x, th'[w])
  BY <1>1, <1>6, <1>7, <1>10 DEF ThreadStep, TellsNow, HasTold
<1>12. \A r \in Slots : SameInfo(r)
  BY <1>1 DEF SameInfo
<1> QED
  BY <1>1, <1>7, <1>8, <1>10, <1>11, <1>12, QuietStep

\* It gives its access back.
LEMMA TellDoneInv ==
  ASSUME IndInv, Families, NEW w \in Workers, TellDone(w)
  PROVE  IndInv'
<1> DEFINE x == th[w]
<1>1. /\ Types /\ w \in Threads /\ x.pc = "told" /\ TellerFits(x) /\ x \in ThreadStates
      /\ UNCHANGED <<gen, info, free, cache, dq, done>>
  BY DEF IndInv, Types, TellersFit, TellDone, At, Threads
<1>2. PICK p \in Slots : p = x.tgt
  <2>1. x.tgt # NoJob
    BY <1>1 DEF TellerFits, HasTold
  <2> QED
    BY <1>1, <2>1 DEF ThreadStates, MaybeJob
<1> DEFINE m == unmark_access(meta[p])
<1>3. m \in Word /\ m.flags = meta[p].flags /\ m.avjobs = meta[p].avjobs
  BY <1>1, AccessWords DEF Types
<1>4. SetMeta(p, m)
  BY <1>2 DEF TellDone
<1> HIDE DEF m
<1>5. /\ meta' \in [Slots -> Word]
      /\ \A r \in Slots : meta'[r].flags = meta[r].flags /\ meta'[r].avjobs = meta[r].avjobs
  BY <1>1, <1>3, <1>4, OneWord
<1>6. PICK l \in {"wlldestroy"} : Goto(w, l)
  BY DEF TellDone
<1>7. l \in Labels
  BY DEF Labels
<1>8. /\ th' \in [Threads -> ThreadStates]
      /\ \A u \in Threads \ {w} : th'[u] = th[u]
      /\ th'[w].pc = l /\ th'[w].job = x.job
      /\ th'[w].made = x.made /\ th'[w].pop_gen = x.pop_gen
  BY <1>1, <1>6, <1>7, Goes
<1>9. Types'
  BY <1>1, <1>5, <1>8 DEF Types
<1>10. TellerFits(th[w])'
  BY <1>6, <1>8 DEF TellerFits, Sub, TellsNow, HasTold
<1>11. PICK y : y = th'[w]
  OBVIOUS
<1>12. /\ KeepsHands(w, x, y, NoJob) /\ JobStep(w, x, y) /\ OwnFits(w)'
       /\ ~RestsAt(x) /\ ~RestsAt(y) /\ ~WaitsAt(x)
  BY <1>1, <1>8, <1>10, <1>11, TellHands
<1>13. ThreadStep(w, x, th'[w])
  BY <1>1, <1>6, <1>8, <1>11, <1>12 DEF ThreadStep, TellsNow, HasTold
<1>14. \A r \in Slots : SameInfo(r)
  BY <1>1 DEF SameInfo
<1> QED
  BY <1>1, <1>5, <1>8, <1>9, <1>11, <1>12, <1>13, <1>14, QuietStep

-----------------------------------------------------------------------------
(* The update of the available jobs. *)

\* It is made by workers only.
LEMMA CasShape ==
  ASSUME IndInv, NEW t \in Threads, Cas(t)
  PROVE  /\ t \in Workers /\ t # Main /\ th[t].pc = "cas" /\ th[t] \in ThreadStates
         /\ WorkerFits(th[t]) /\ TellerFits(th[t]) /\ Types /\ th[t].req \in Nat
         /\ th[t].back \in {"script", "check", "told"}
         /\ UNCHANGED <<gen, info, free, cache, dq, done>>
<1>1. th[t].pc = "cas" /\ UNCHANGED <<gen, info, free, cache, dq, done>>
  BY DEF Cas, At
<1>2. t \in Workers /\ t # Main
  <2>1. t # Main
    BY <1>1 DEF IndInv, Fits, MainFits
  <2> QED
    BY <2>1 DEF Threads
<1>3. Types /\ th[t] \in ThreadStates /\ WorkerFits(th[t]) /\ TellerFits(th[t])
  BY <1>2 DEF IndInv, Types, Fits, TellersFit
<1>4. th[t].back \in {"script", "check", "told"}
  BY <1>1, <1>3 DEF WorkerFits, Sub
<1>5. th[t].req \in Nat
  BY <1>3 DEF ThreadStates
<1> QED
  BY <1>1, <1>2, <1>3, <1>4, <1>5

\* What it may find, and what it tells.
LEMMA CasOutcome ==
  ASSUME NEW m \in Word
  PROVE  /\ InRange(m, 0, 0, 0) /\ m.avjobs + 0 \in 0 .. MaxCount /\ m.avjobs + 0 = m.avjobs
         /\ InRange(m, 0, 0, 1) <=> m.avjobs + 1 \in 0 .. MaxCount
         /\ \A B : Ban(m, B, FALSE) = m.flags \cap B
         /\ m.avjobs \in Nat
         /\ \A n : BecomesReady(m, n) <=>
              /\ ~({"READYBASIC"} \cup Derived \subseteq m.flags)
              /\ "READYBASIC" \in n.flags /\ Derived \subseteq n.flags
<1>1. /\ MaxCount \in Nat /\ m.avsock \in 0 .. MaxCount /\ m.wait \in 0 .. MaxCount
      /\ m.avjobs \in 0 .. MaxCount
  BY MetaFlagAssumption DEF Word
<1>2. /\ m.avsock + 0 = m.avsock /\ m.wait + 0 = m.wait /\ m.avjobs + 0 = m.avjobs
      /\ m.avjobs \in Nat
  BY <1>1
<1>3. \A B : Ban(m, B, FALSE) = m.flags \cap B
  BY DEF Ban
<1>4. \A n : BecomesReady(m, n) <=>
        /\ ~({"READYBASIC"} \cup Derived \subseteq m.flags)
        /\ "READYBASIC" \in n.flags /\ Derived \subseteq n.flags
  BY DEF BecomesReady, check_allready
<1> QED
  BY <1>1, <1>2, <1>3, <1>4 DEF InRange

\* After schedi_job_required_available_jobs the run of the parent goes on.
LEMMA CasScriptInv ==
  ASSUME IndInv, Families, NEW t \in Threads, Cas(t), th[t].back = "script"
  PROVE  IndInv'
<1> DEFINE x == th[t]
<1>1. /\ t \in Workers /\ t # Main /\ x.pc = "cas" /\ x \in ThreadStates
      /\ WorkerFits(x) /\ Types /\ x.req \in Nat
      /\ UNCHANGED <<gen, info, free, cache, dq, done>>
  BY CasShape
<1>2. x.tgt = x.job /\ x.delta = 0 /\ x.flag = {}
  BY <1>1 DEF WorkerFits
<1>3. /\ AtJob(x) /\ Running(x) /\ ~AtTarget(x) /\ ~RestsAt(x) /\ ~HasTold(x)
      /\ ~WaitsAt(x) /\ JobStage(x) = "runs"
  BY <1>1 DEF AtJob, Running, AtTarget, RestsAt, HasTold, WaitsAt, JobStage, Sub
<1>4. PICK s \in Slots : s = x.job
  BY <1>1, <1>3, JobOnly
<1>5. /\ Marked("runs", meta[s].flags) /\ meta[s] \in Word /\ s # NoJob
      /\ gen[s] = x.pop_gen /\ JobOf(t, x) = s
  BY <1>1, <1>3, <1>4, JobOnly, JobLifeAssumption DEF Types
<1> DEFINE m == cas_update(meta[s], 0, 0, 0, {}, 0, x.req)
<1>6. /\ m \in Word /\ m.avjobs = meta[s].avjobs /\ m.flags \cap Marks = meta[s].flags \cap Marks
      /\ "READYBASIC" \notin m.flags /\ "READYBASIC" \notin meta[s].flags
  <2>1. meta[s].avjobs + 0 \in 0 .. MaxCount /\ meta[s].avjobs + 0 = meta[s].avjobs
    BY <1>5, CasOutcome
  <2>2. /\ m \in Word /\ m.avjobs = meta[s].avjobs + 0
        /\ m.flags \cap Marks = (meta[s].flags \cup {}) \cap Marks
        /\ "READYBASIC" \in m.flags <=> "READYBASIC" \in meta[s].flags \cup {}
    BY <1>1, <1>5, <2>1, CasWords, ZenonT(60)
  <2>3. "READYBASIC" \notin meta[s].flags
    BY <1>5, FlagsApart DEF Marked
  <2> QED
    BY <2>1, <2>2, <2>3
<1>7. SetMeta(s, m) /\ Goto(t, "script")
  <2> HIDE DEF m
  <2>1. InRange(meta[s], 0, 0, 0) /\ ~BecomesReady(meta[s], m)
    BY <1>5, <1>6, CasOutcome
  <2>2. Ban(meta[s], {}, FALSE) = {}
    BY DEF Ban
  <2> QED
    BY <1>2, <1>4, <2>1, <2>2 DEF Cas, m
<1> HIDE DEF m
<1>8. /\ meta' \in [Slots -> Word] /\ meta'[s] = m
      /\ \A r \in Slots \ {s} : meta'[r] = meta[r]
  BY <1>1, <1>5, <1>6, <1>7, OneWord
<1>9. PICK l \in {"script"} : Goto(t, l)
  BY <1>7
<1>10. l \in Labels
  BY DEF Labels
<1>11. /\ th' \in [Threads -> ThreadStates]
       /\ \A u \in Threads \ {t} : th'[u] = th[u]
       /\ th'[t].pc = l /\ th'[t].job = x.job /\ th'[t].k = x.k
       /\ th'[t].made = x.made /\ th'[t].pop_gen = x.pop_gen
  BY <1>1, <1>9, <1>10, Goes
<1>12. PICK y : y = th'[t]
  OBVIOUS
<1>13. Types'
  BY <1>1, <1>8, <1>11 DEF Types
<1>14. /\ AtJob(y) /\ Running(y) /\ ~AtTarget(y) /\ ~RestsAt(y) /\ ~TellsNow(y)
       /\ JobStage(y) = "runs" /\ ~Past(y)
  BY <1>9, <1>11, <1>12 DEF AtJob, Running, AtTarget, RestsAt, TellsNow, JobStage, Sub, Past
<1>15. /\ JobOf(t, y) = s /\ TargetOf(y) = NoJob /\ Pending(t, y) = Pending(t, x)
  BY <1>1, <1>3, <1>4, <1>11, <1>12, <1>14 DEF JobOf, TargetOf, Pending
<1>16. KeepsHands(t, x, y, NoJob)
  BY <1>3, <1>5, <1>11, <1>12, <1>14, <1>15 DEF KeepsHands
<1>17. \A r \in Slots : meta'[r].flags \cap Marks = meta[r].flags \cap Marks
  BY <1>6, <1>8
<1>18. Suspended' = Suspended
  BY <1>6, <1>8 DEF Suspended
<1>19. Stays(t)
  BY <1>1, <1>11, <1>12, <1>16, <1>17, <1>18 DEF Stays
<1>20. FamilyStep(t)
  <2>1. \A r \in Slots : Resting(r)' <=> Resting(r)
    BY <1>1, <1>3, <1>11, <1>12, <1>14, RestingKept
  <2>2. WordStep(s)
    <3>1. "ALIVE" \in Marks /\ "WLLDESTROY" \in Marks
      BY FlagsApart
    <3> QED
      BY <1>6, <1>8, <1>18, <3>1 DEF WordStep
  <2>3. JobStep(t, x, y)
    BY <1>5, <1>11, <1>12, <1>15 DEF JobStep
  <2>4. ThreadStep(t, x, y)
    BY <1>3, <1>14, <2>3 DEF ThreadStep
  <2>5. ThreadStep(t, th[t], th'[t])
    BY <1>12, <2>4
  <2> QED
    BY <1>1, <1>8, <1>11, <1>12, <2>1, <2>2, <2>5, OneFamily
<1>21. OwnFits(t)'
  <2>1. WorkerFits(th[t])'
    <3>1. /\ Parent(x.job) /\ info[x.job].phase = 0 /\ x.k \in 1 .. 2 * Leaves + 2
          /\ Len(x.made) = IF x.k <= Leaves THEN x.k - 1 ELSE Leaves
          /\ x.k >= Leaves + 2 => info[x.job].required = Required
      BY <1>1, <1>3 DEF WorkerFits
    <3> QED
      BY <1>1, <1>4, <1>5, <1>9, <1>11, <1>12, <1>14, <3>1 DEF WorkerFits, Sub, Parent
  <2>2. TellerFits(th[t])'
    BY <1>9, <1>11, <1>12, <1>14 DEF TellerFits, TellsNow, HasTold, Sub
  <2> QED
    BY <1>1, <1>4, <1>5, <1>11, <1>12, <1>14, <2>1, <2>2 DEF OwnFits
<1> QED
  BY <1>1, <1>13, <1>19, <1>20, <1>21, StayStep

\* The end of schedi_job_mark_readybasic: the job is to be set ready, or waits.
LEMMA CasCheckInv ==
  ASSUME IndInv, Families, NEW t \in Threads, Cas(t), th[t].back = "check"
  PROVE  IndInv'
<1> DEFINE x == th[t]
<1>1. /\ t \in Workers /\ t # Main /\ x.pc = "cas" /\ x \in ThreadStates
      /\ WorkerFits(x) /\ TellerFits(x) /\ Types /\ x.req \in Nat
      /\ UNCHANGED <<gen, info, free, cache, dq, done>>
  BY CasShape
<1>2. x.tgt = x.job /\ x.delta = 0 /\ x.flag = {"READYBASIC"}
  BY <1>1 DEF WorkerFits
<1>3. /\ ~AtJob(x) /\ ~Running(x) /\ AtTarget(x) /\ ~RestsAt(x) /\ ~HasTold(x)
      /\ WaitsAt(x) /\ TargetStage(x) = "bare"
  BY <1>1 DEF AtJob, Running, AtTarget, RestsAt, HasTold, WaitsAt, TargetStage, Sub
<1>4. PICK s \in Slots : s = x.tgt
  BY <1>3, TargetOnly
<1>5. /\ Marked("bare", meta[s].flags) /\ meta[s] \in Word /\ s # NoJob
      /\ Has(t, x, s) /\ ~Outside(s) /\ meta[s].avjobs \in Nat
  BY <1>3, <1>4, TargetOnly, JobLifeAssumption, CasOutcome, ZenonT(60)
<1> DEFINE m == cas_update(meta[s], 0, 0, 0, {"READYBASIC"}, 0, x.req)
<1>6. /\ m \in Word /\ m.avjobs = meta[s].avjobs
      /\ m.flags \cap Marks = {"ALIVE", "READYBASIC"}
      /\ "READYBASIC" \in m.flags /\ "READYBASIC" \notin meta[s].flags
      /\ "READYJOB" \in m.flags <=> meta[s].avjobs >= x.req
  <2>1. meta[s].avjobs + 0 \in 0 .. MaxCount /\ meta[s].avjobs + 0 = meta[s].avjobs
    BY <1>5, CasOutcome
  <2>2. {"READYBASIC"} \in SUBSET (Flag \ Derived)
    BY DEF Flag, Derived
  <2>3. /\ m \in Word /\ m.avjobs = meta[s].avjobs + 0
        /\ "READYJOB" \in m.flags <=> meta[s].avjobs + 0 >= x.req
        /\ m.flags \cap Marks = (meta[s].flags \cup {"READYBASIC"}) \cap Marks
        /\ "READYBASIC" \in m.flags <=> "READYBASIC" \in meta[s].flags \cup {"READYBASIC"}
    BY <1>1, <1>5, <2>1, <2>2, CasWords
  <2> HIDE DEF m
  <2>4. meta[s].flags \cap Marks = {"ALIVE"} /\ "READYBASIC" \in Marks
    BY <1>5, FlagsApart DEF Marked
  <2> QED
    BY <2>1, <2>3, <2>4
<1>7. /\ SetMeta(s, m)
      /\ Goto(t, IF Derived \subseteq m.flags THEN "setready" ELSE "check")
  <2> HIDE DEF m
  <2>1. /\ InRange(meta[s], 0, 0, 0)
        /\ BecomesReady(meta[s], m) <=> Derived \subseteq m.flags
    BY <1>5, <1>6, CasOutcome
  <2>2. Ban(meta[s], {"UNSTABLE", "WLLDESTROY"}, FALSE) = {}
    BY <1>5, FlagsApart DEF Ban, Marked
  <2> QED
    BY <1>2, <1>4, <2>1, <2>2 DEF Cas, m
<1> HIDE DEF m
<1>8. /\ meta' \in [Slots -> Word] /\ meta'[s] = m
      /\ \A r \in Slots \ {s} : meta'[r] = meta[r]
  BY <1>1, <1>5, <1>6, <1>7, OneWord
<1>9. PICK l \in {"setready", "check"} :
        Goto(t, l) /\ (l = "setready" <=> Derived \subseteq m.flags)
  BY <1>7
<1>10. l \in Labels
  BY DEF Labels
<1>11. /\ th' \in [Threads -> ThreadStates]
       /\ \A u \in Threads \ {t} : th'[u] = th[u]
       /\ th'[t].pc = l /\ th'[t].job = x.job /\ th'[t].tgt = x.tgt
       /\ th'[t].back = x.back /\ th'[t].made = x.made
  BY <1>1, <1>9, <1>10, Goes
<1>12. PICK y : y = th'[t]
  OBVIOUS
<1>13. Types'
  BY <1>1, <1>8, <1>11 DEF Types
<1>14. /\ ~AtJob(y) /\ ~Running(y) /\ ~RestsAt(y) /\ ~TellsNow(y) /\ ~Past(y)
       /\ AtTarget(y) <=> l = "setready"
       /\ l = "setready" => TargetStage(y) = "again"
  BY <1>9, <1>11, <1>12
     DEF AtJob, Running, AtTarget, RestsAt, TellsNow, TargetStage, Sub, Past
<1>15. /\ JobOf(t, y) = NoJob /\ JobOf(t, x) = NoJob
       /\ Pending(t, y) = {} /\ Pending(t, x) = {}
       /\ TargetOf(y) = IF l = "setready" THEN s ELSE NoJob
  BY <1>1, <1>3, <1>4, <1>11, <1>12, <1>14 DEF JobOf, TargetOf, Pending
<1>16. Moves(t, s)
  <2>1. KeepsHands(t, x, y, s)
    BY <1>15 DEF KeepsHands
  <2>2. Queued' = Queued
    BY <1>1 DEF Queued
  <2> QED
    BY <1>1, <1>8, <1>11, <1>12, <2>1, <2>2 DEF Moves
<1>17. /\ HasOnce(t, y, s) /\ HasStaged(t, y, s, meta'[s].flags)
       /\ Marked("again", meta'[s].flags)
  <2>1. Marked("again", m.flags)
    BY <1>6 DEF Marked
  <2> QED
    BY <1>5, <1>8, <1>14, <1>15, <2>1 DEF HasOnce, HasStaged
<1>18. /\ s \notin free' /\ s \notin Cached' /\ s \notin Queued'
       /\ s \in Suspended' <=> l = "check"
  <2>1. s \notin free' /\ s \notin Cached' /\ s \notin Queued'
    BY <1>1, <1>5 DEF Outside, Cached, Queued
  <2>2. s \in Suspended' <=> l = "check"
    BY <1>6, <1>8, <1>9 DEF Suspended
  <2> QED
    BY <2>1, <2>2
<1>19. HasNot(t, y, s) \/ ~Outside(s)'
  BY <1>5, <1>9, <1>15, <1>18 DEF HasNot, Outside
<1>20. OnePlace'
  BY <1>1 DEF IndInv, Exclusive, OnePlace
<1>21. OwnFits(t)'
  <2>1. WorkerFits(th[t])'
    BY <1>9, <1>11, <1>12, <1>14 DEF WorkerFits, Sub
  <2>2. TellerFits(th[t])'
    BY <1>9, <1>11, <1>12, <1>14 DEF TellerFits, TellsNow, HasTold, Sub
  <2> QED
    BY <1>1, <1>4, <1>5, <1>11, <1>12, <1>15, <2>1, <2>2 DEF OwnFits
<1>22. \A r \in Slots : SameInfo(r) /\ gen'[r] = gen[r]
  BY <1>1 DEF SameInfo
<1>23. Exclusive' /\ Staged' /\ Fits' /\ TellersFit' /\ SameLife'
  BY <1>5, <1>12, <1>13, <1>16, <1>17, <1>18, <1>19, <1>20, <1>21, <1>22, MoveKeeps
<1>24. \A r \in Slots : Resting(r)' <=> Resting(r)
  BY <1>1, <1>3, <1>11, <1>12, <1>14, RestingKept
<1>25. LeafStep(t)
  <2>1. JobStep(t, x, th'[t])
    BY <1>11, <1>12, <1>15 DEF JobStep
  <2>2. "ALIVE" \in meta[s].flags /\ "WLLDESTROY" \notin meta[s].flags
    BY <1>5, FlagsApart DEF Marked
  <2> QED
    BY <1>1, <1>3, <1>8, <1>11, <1>24, <2>1, <2>2 DEF LeafStep
<1>26. LeavesFit'
  BY <1>13, <1>25, LeavesFitKept DEF IndInv
<1>27. Counts'
  <2>1. \A r \in Slots : meta'[r].avjobs <= meta[r].avjobs
    <3>1. \A r \in Slots : meta'[r].avjobs = meta[r].avjobs
      BY <1>6, <1>8
    <3>2. \A r \in Slots : meta[r].avjobs \in Nat
      BY <1>1, CasOutcome DEF Types
    <3> QED
      BY <3>1, <3>2
  <2>2. \A p \in Slots : Parent(p)' => CountsOf(p)'
    BY <1>1, <1>12, <1>13, <1>14, <1>25, <2>1, CountsKept DEF IndInv, Families
  <2> QED
    BY <2>2 DEF Counts
<1>28. ASSUME NEW p \in Slots, Parent(p)', p # s
       PROVE  ResumesOf(p)'
  <2>1. WordStep(p)
    BY <1>8, <1>28 DEF WordStep, Suspended
  <2>2. \A w \in Workers : th[w].job = p /\ WaitsAt(th[w]) => th'[w] = th[w]
    BY <1>2, <1>4, <1>11, <1>28 DEF Threads
  <2>3. Waits(p) => Waits(p)'
    BY <2>1, <2>2 DEF Waits, WordStep
  <2> QED
    BY <1>22, <1>24, <1>28, <2>1, <2>3, ResumeKept DEF IndInv
<1>29. ASSUME Parent(s)'
       PROVE  ResumesOf(s)'
  <2>1. Parent(s) /\ ResumesOf(s) /\ info'[s] = info[s]
    BY <1>1, <1>29 DEF Parent, IndInv, Resumes
  <2>2. x.req = Leaves /\ Leaves \in Nat
    BY <1>1, <1>2, <1>4, <2>1, JobLifeAssumption DEF TellerFits, Families
  <2>3. "READYJOB" \in m.flags => meta'[s].avjobs >= Leaves
    BY <1>6, <1>8, <2>2
  <2>4. Waits(s)' \/ meta'[s].avjobs >= Leaves
    <3>1. CASE l = "check"
      BY <1>18, <3>1 DEF Waits
    <3>2. CASE l = "setready"
      BY <1>9, <2>3, <3>2 DEF Derived
    <3> QED
      BY <3>1, <3>2
  <2> QED
    BY <1>8, <1>24, <2>1, <2>3, <2>4 DEF ResumesOf
<1>30. Resumes'
  BY <1>28, <1>29 DEF Resumes
<1> QED
  BY <1>13, <1>23, <1>26, <1>27, <1>30 DEF IndInv

-----------------------------------------------------------------------------
(* A leaf tells its parent. *)

\* Two threads do not have the same job.
LEMMA OneHolder ==
  ASSUME IndInv, NEW t \in Threads, NEW u \in Threads, NEW s \in Slots,
         Has(t, th[t], s), Has(u, th[u], s)
  PROVE  u = t
<1>1. s # NoJob
  BY JobLifeAssumption
<1>2. PICK f \in Fields, g \in Fields : Held(t, th[t], f) = s /\ Held(u, th[u], g) = s
  BY <1>1, HeldIs
<1> QED
  BY <1>1, <1>2 DEF IndInv, Exclusive, HandsApart

\* Nor does one tell about a job that another has.
LEMMA TellerHas ==
  ASSUME IndInv, NEW t \in Threads, NEW u \in Threads, NEW s \in Slots,
         Has(t, th[t], s), th[u].job = s,
         HasTold(th[u]) \/ (u \in Workers /\ TellsNow(th[u]))
  PROVE  u = t
<1>1. CASE u \in Workers
  <2>1. /\ WorkerFits(th[u]) /\ th[u] \in ThreadStates
        /\ AtTarget(th[u]) => th[u].tgt # NoJob
    BY <1>1 DEF IndInv, Fits, Types
  <2>2. Has(u, th[u], th[u].job)
    BY <1>1, <2>1, HasJob
  <2> QED
    BY <2>2, OneHolder
<1>2. CASE u = Main
  <2>1. MainFits(th[u]) /\ HasTold(th[u])
    BY <1>2, JobLifeAssumption DEF IndInv, Fits
  <2>2. th[u].pc = "wlldestroy"
    BY <2>1 DEF MainFits, HasTold
  <2>3. Has(u, th[u], s)
    BY <1>2, <2>2 DEF Has, JobOf
  <2> QED
    BY <2>3, OneHolder
<1> QED
  BY <1>1, <1>2 DEF Threads

\* What a leaf that is about to tell its parent knows of it.
LEMMA AboutToTell ==
  ASSUME IndInv, Families, NEW t \in Threads, Cas(t), th[t].back = "told"
  PROVE  /\ th[t].job \in Slots /\ th[t].tgt \in Slots /\ t \in Workers
         /\ info[th[t].job].requested = th[t].tgt
         /\ Parent(th[t].tgt) /\ ~Resting(th[t].tgt)
         /\ info[th[t].tgt].required = Required
         /\ th[t].job \in Untold(th[t].tgt) /\ th[t].job \in Telling(th[t].tgt)
         /\ meta[th[t].tgt].avjobs < Leaves
         /\ ~({"READYBASIC", "READYJOB"} \subseteq meta[th[t].tgt].flags)
         /\ th[t].delta = 1 /\ th[t].flag = {} /\ th[t].req = Leaves
         /\ JobOf(t, th[t]) = th[t].job /\ Has(t, th[t], th[t].job)
<1> DEFINE x == th[t]
<1>1. /\ t \in Workers /\ t # Main /\ x.pc = "cas" /\ x \in ThreadStates
      /\ WorkerFits(x) /\ TellerFits(x) /\ Types
  BY CasShape
<1>2. /\ AtJob(x) /\ TellsNow(x) /\ ~HasTold(x)
  BY <1>1 DEF AtJob, TellsNow, HasTold, Sub
<1>3. x.delta = 1 /\ x.flag = {}
  BY <1>1 DEF WorkerFits
<1>4. /\ x.tgt = info[x.job].requested /\ x.tgt # NoJob /\ LeafOf(x.job, x.tgt)
      /\ x.req = Required
  BY <1>1, <1>2 DEF TellerFits, Sub
<1>5. PICK s \in Slots : s = x.job /\ JobOf(t, x) = s /\ Has(t, x, s)
  BY <1>1, <1>2, JobOnly
<1>6. PICK p \in Slots : p = x.tgt
  BY <1>1, <1>4 DEF ThreadStates, MaybeJob
<1>7. LeafOf(s, p) /\ Parent(p) /\ ~Resting(p) /\ info[p].required = Required
  <2>1. LeafOf(x.job, p)
    BY <1>4, <1>6
  <2> QED
    BY <1>1, <1>2, <1>5, <2>1, LeafOfReady
<1>8. ~Told(s)
  BY <1>2, <1>5, TellerHas DEF Told
<1>9. s \in Untold(p) /\ s \in Telling(p)
  BY <1>1, <1>2, <1>5, <1>7, <1>8 DEF Untold, Telling
<1>10. meta[p].avjobs < Leaves
  <2>1. Bound(p, Leaves)
    BY <1>7 DEF IndInv, Counts, CountsOf
  <2>2. IsFiniteSet(Untold(p)) /\ Cardinality(Untold(p)) \in Nat
    BY FiniteLeaves DEF Families
  <2>3. Cardinality(Untold(p)) # 0
    BY <1>9, <2>2, FS_EmptySet
  <2>4. meta[p].avjobs \in Nat
    BY <1>1, CasOutcome DEF Types
  <2> QED
    BY <2>1, <2>2, <2>3, <2>4, JobLifeAssumption DEF Bound
<1>11. ~({"READYBASIC", "READYJOB"} \subseteq meta[p].flags)
  <2>1. ResumesOf(p)
    BY <1>7 DEF IndInv, Resumes
  <2>2. meta[p].avjobs \in Nat
    BY <1>1, CasOutcome DEF Types
  <2>3. ~(meta[p].avjobs >= Leaves)
    BY <1>10, <2>2, JobLifeAssumption
  <2> QED
    BY <2>1, <2>3 DEF ResumesOf
<1> QED
  BY <1>1, <1>3, <1>4, <1>5, <1>6, <1>7, <1>9, <1>10, <1>11 DEF Families

\* The available jobs are as many as they can be: nothing is told.
LEMMA CasTellFailsInv ==
  ASSUME IndInv, Families, NEW t \in Threads, Cas(t), th[t].back = "told",
         ~(meta[th[t].tgt].avjobs + 1 \in 0 .. MaxCount)
  PROVE  IndInv'
<1> DEFINE x == th[t]
<1>1. /\ t \in Workers /\ t # Main /\ x.pc = "cas" /\ x \in ThreadStates
      /\ TellerFits(x) /\ Types /\ UNCHANGED <<gen, info, free, cache, dq, done>>
  BY CasShape
<1>2. /\ x.job \in Slots /\ x.tgt \in Slots /\ info[x.job].requested = x.tgt /\ x.delta = 1
  BY AboutToTell
<1>3. meta' = meta /\ Goto(t, "told")
  <2>1. ~InRange(meta[x.tgt], 0, 0, x.delta)
    BY <1>1, <1>2, CasOutcome DEF Types
  <2> QED
    BY <2>1 DEF Cas
<1>4. PICK l \in {"told"} : Goto(t, l)
  BY <1>3
<1>5. l \in Labels
  BY DEF Labels
<1>6. /\ th' \in [Threads -> ThreadStates]
      /\ \A u \in Threads \ {t} : th'[u] = th[u]
      /\ th'[t].pc = l /\ th'[t].job = x.job /\ th'[t].tgt = x.tgt
      /\ th'[t].made = x.made /\ th'[t].pop_gen = x.pop_gen
  BY <1>1, <1>4, <1>5, Goes
<1>7. Types'
  BY <1>1, <1>3, <1>6 DEF Types
<1>8. TellerFits(th[t])'
  BY <1>1, <1>2, <1>4, <1>6, JobLifeAssumption DEF TellerFits, Sub, TellsNow, HasTold
<1>9. PICK y : y = th'[t]
  OBVIOUS
<1>10. /\ KeepsHands(t, x, y, NoJob) /\ JobStep(t, x, y) /\ OwnFits(t)'
       /\ ~RestsAt(x) /\ ~RestsAt(y) /\ ~WaitsAt(x)
  BY <1>1, <1>4, <1>6, <1>8, <1>9, TellHands
<1>11. ThreadStep(t, x, th'[t])
  BY <1>1, <1>4, <1>6, <1>9, <1>10 DEF ThreadStep, TellsNow, HasTold
<1>12. \A r \in Slots : SameInfo(r)
  BY <1>1 DEF SameInfo
<1> QED
  BY <1>1, <1>3, <1>6, <1>7, <1>9, <1>10, <1>11, <1>12, QuietStep

\* One leaf less is to tell its parent, which counts one more.
LEMMA TellFamily ==
  ASSUME IndInv, Families, NEW t \in Threads, Cas(t), th[t].back = "told", Types',
         LeafStep(t), HasTold(th'[t]), th'[t].job = th[t].job, ~TellsNow(th'[t]),
         \A r \in Slots \ {th[t].tgt} : meta'[r] = meta[r],
         meta'[th[t].tgt].avjobs = meta[th[t].tgt].avjobs + 1,
         "READYJOB" \in meta'[th[t].tgt].flags <=> meta'[th[t].tgt].avjobs >= Leaves,
         "READYBASIC" \in meta'[th[t].tgt].flags <=> "READYBASIC" \in meta[th[t].tgt].flags
  PROVE  LeavesFit' /\ Counts' /\ Resumes'
<1> DEFINE x == th[t]
<1>1. /\ t \in Workers /\ x.pc = "cas" /\ Types /\ IsFiniteSet(Slots)
      /\ UNCHANGED <<gen, info, free, cache, dq, done>> /\ x.back = "told"
  BY CasShape DEF Families
<1>2. PICK s \in Slots, p \in Slots : s = x.job /\ p = x.tgt
  BY AboutToTell
<1>3. /\ Parent(p) /\ ~Resting(p) /\ info[p].required = Required
      /\ s \in Untold(p) /\ s \in Telling(p) /\ meta[p].avjobs < Leaves
      /\ Has(t, x, s)
  BY <1>2, AboutToTell
<1>4. LeavesFit'
  BY <1>1, LeavesFitKept DEF IndInv
<1>5. s \notin Untold(p)'
  BY <1>2 DEF Untold, Told
<1>6. s \notin Telling(p)'
  <2>1. ASSUME NEW w \in Workers, th'[w].job = s, TellsNow(th'[w])
        PROVE  FALSE
    <3>1. w # t /\ w \in Threads
      BY <2>1 DEF Threads
    <3>2. th[w].job = s /\ TellsNow(th[w])
      BY <2>1, <3>1 DEF LeafStep
    <3> QED
      BY <1>3, <3>1, <3>2, TellerHas
  <2> QED
    BY <2>1 DEF Telling
<1>7. /\ Cardinality(Untold(p)') <= Cardinality(Untold(p)) - 1
      /\ Cardinality(Telling(p)') <= Cardinality(Telling(p)) - 1
      /\ Cardinality(Untold(p)') \in Nat /\ Cardinality(Untold(p)) \in Nat
      /\ Cardinality(Telling(p)') \in Nat /\ Cardinality(Telling(p)) \in Nat
  <2>1. Untold(p)' \subseteq Untold(p) \ {s} /\ Telling(p)' \subseteq Telling(p) \ {s}
    BY <1>1, <1>5, <1>6, LeavesShrink, TellingShrinks
  <2>2. /\ Untold(p) \ {s} \subseteq Slots /\ Telling(p) \ {s} \subseteq Slots
    BY DEF Untold, Telling
  <2>3. /\ IsFiniteSet(Untold(p)) /\ IsFiniteSet(Telling(p))
        /\ Cardinality(Untold(p)) \in Nat /\ Cardinality(Telling(p)) \in Nat
    BY <1>1, FiniteLeaves
  <2>4. /\ Cardinality(Untold(p) \ {s}) = Cardinality(Untold(p)) - 1
        /\ Cardinality(Telling(p) \ {s}) = Cardinality(Telling(p)) - 1
    BY <1>3, <2>3, FS_RemoveElement
  <2>5. /\ Cardinality(Untold(p)') <= Cardinality(Untold(p) \ {s})
        /\ Cardinality(Telling(p)') <= Cardinality(Telling(p) \ {s})
        /\ Cardinality(Untold(p)') \in Nat /\ Cardinality(Telling(p)') \in Nat
    BY <1>1, <2>1, <2>2, FewerLeaves
  <2> QED
    BY <2>3, <2>4, <2>5
<1>8. meta'[p].avjobs = meta[p].avjobs + 1 /\ meta[p].avjobs \in Nat /\ done[p] \in Nat
  <2>1. meta[p] \in Word /\ done[p] \in Nat
    BY <1>1 DEF Types
  <2>2. meta[p].avjobs \in Nat
    BY <2>1, CasOutcome
  <2> QED
    BY <1>2, <2>1, <2>2
<1>9. Counts'
  <2>1. CountsOf(p)'
    <3>1. /\ meta'[p].avjobs + Cardinality(Untold(p)')
               <= meta[p].avjobs + Cardinality(Untold(p))
          /\ (meta'[p].avjobs + Cardinality(Telling(p)')) + done[p]
               <= (meta[p].avjobs + Cardinality(Telling(p))) + done'[p]
      BY <1>1, <1>7, <1>8
    <3>2. CountsOf(p)
      BY <1>3 DEF IndInv, Counts
    <3> QED
      BY <1>1, <1>3, <3>1, <3>2, CountKept
  <2>2. ASSUME NEW q \in Slots, Parent(q)', q # p
        PROVE  CountsOf(q)'
    <3>1. meta'[q].avjobs <= meta[q].avjobs
      <4>1. meta'[q].avjobs = meta[q].avjobs /\ meta[q].avjobs \in Nat
        BY <1>1, <1>2, <2>2, CasOutcome DEF Types
      <4> QED
        BY <4>1
    <3> QED
      BY <1>1, <2>2, <3>1, CountsKept DEF IndInv
  <2> QED
    BY <2>1, <2>2 DEF Counts
<1>10. \A r \in Slots : SameInfo(r) /\ (Resting(r)' <=> Resting(r))
  BY <1>1 DEF SameInfo, LeafStep
<1>11. ASSUME NEW q \in Slots, NEW w \in Workers, th[w].job = q, WaitsAt(th[w])
       PROVE  th'[w] = th[w]
  <2>1. w # t
    BY <1>1, <1>11 DEF WaitsAt
  <2> QED
    BY <2>1 DEF LeafStep, Threads
<1>12. ASSUME NEW q \in Slots, Parent(q)', q # p
       PROVE  ResumesOf(q)'
  <2>1. WordStep(q)
    BY <1>2, <1>12 DEF WordStep, Suspended
  <2>2. Waits(q) => Waits(q)'
    BY <1>11, <2>1 DEF Waits, WordStep
  <2> QED
    BY <1>10, <1>12, <2>1, <2>2, ResumeKept DEF IndInv
<1>13. ResumesOf(p)'
  <2>1. ResumesOf(p) /\ info'[p] = info[p]
    BY <1>1, <1>3 DEF IndInv, Resumes
  <2>2. ~(meta[p].avjobs >= Leaves)
    BY <1>3, <1>8, JobLifeAssumption
  <2>3. info[p].phase = 1 => Waits(p)
    BY <1>3, <2>1, <2>2 DEF ResumesOf
  <2>4. ASSUME p \in Suspended PROVE p \in Suspended' \/ meta'[p].avjobs >= Leaves
    BY <1>2, <2>4 DEF Suspended, Derived
  <2>5. Waits(p) => Waits(p)' \/ meta'[p].avjobs >= Leaves
    BY <1>11, <2>4 DEF Waits
  <2>6. {"READYBASIC", "READYJOB"} \subseteq meta'[p].flags => meta'[p].avjobs >= Leaves
    BY <1>2
  <2> QED
    BY <1>3, <2>1, <2>3, <2>5, <2>6 DEF ResumesOf
<1>14. Resumes'
  BY <1>12, <1>13 DEF Resumes
<1> QED
  BY <1>4, <1>9, <1>14

\* The word of the parent when a leaf has told it.
LEMMA ToldWord ==
  ASSUME IndInv, Families, NEW t \in Threads, Cas(t), th[t].back = "told",
         meta[th[t].tgt].avjobs + 1 \in 0 .. MaxCount
  PROVE  \E m \in Word :
           /\ SetMeta(th[t].tgt, m) /\ m.avjobs = meta[th[t].tgt].avjobs + 1
           /\ "READYJOB" \in m.flags <=> m.avjobs >= Leaves
           /\ "READYBASIC" \in m.flags <=> "READYBASIC" \in meta[th[t].tgt].flags
           /\ m.flags \cap Marks = meta[th[t].tgt].flags \cap Marks
           /\ Goto(t, IF "READYBASIC" \in m.flags /\ Derived \subseteq m.flags
                      THEN "setready" ELSE "told")
<1>1. PICK x : x = th[t]
  OBVIOUS
<1>2. PICK p \in Slots : p = x.tgt
  BY <1>1, AboutToTell
<1>3. /\ x.delta = 1 /\ x.flag = {} /\ x.req = Leaves /\ meta[p] \in Word
      /\ ~({"READYBASIC", "READYJOB"} \subseteq meta[p].flags)
  BY <1>1, <1>2, AboutToTell, CasShape DEF Types
<1> DEFINE m == cas_update(meta[p], 0, 0, 1, {}, 0, Leaves)
<1>4. /\ m \in Word /\ m.avjobs = meta[p].avjobs + 1
      /\ "READYJOB" \in m.flags <=> meta[p].avjobs + 1 >= Leaves
      /\ m.flags \cap Marks = (meta[p].flags \cup {}) \cap Marks
      /\ "READYBASIC" \in m.flags <=> "READYBASIC" \in meta[p].flags \cup {}
  <2>1. Leaves \in Nat /\ meta[p].avjobs + 1 \in 0 .. MaxCount
    BY <1>1, <1>2, JobLifeAssumption
  <2>2. PICK d \in {0, 1}, q \in Nat : d = 1 /\ q = Leaves
    BY <2>1
  <2>3. meta[p] \in Word /\ meta[p].avjobs + d \in 0 .. MaxCount
    BY <1>3, <2>1, <2>2
  <2>4. {} \in SUBSET (Flag \ Derived)
    OBVIOUS
  <2> DEFINE n == cas_update(meta[p], 0, 0, d, {}, 0, q)
  <2>5. /\ n \in Word /\ n.avjobs = meta[p].avjobs + d
        /\ "READYJOB" \in n.flags <=> meta[p].avjobs + d >= q
        /\ n.flags \cap Marks = (meta[p].flags \cup {}) \cap Marks
        /\ "READYBASIC" \in n.flags <=> "READYBASIC" \in meta[p].flags \cup {}
    BY <2>3, <2>4, CasWords
  <2>6. m = n
    BY <2>2
  <2> HIDE DEF m, n
  <2> QED
    BY <2>2, <2>5, <2>6
<1>5. InRange(meta[p], 0, 0, 1) /\ Ban(meta[p], {}, FALSE) = {}
  <2>1. InRange(meta[p], 0, 0, 1)
    BY <1>1, <1>2, <1>3, CasOutcome
  <2>2. Ban(meta[p], {}, FALSE) = {}
    BY DEF Ban
  <2> QED
    BY <2>1, <2>2
<1>6. SetMeta(p, m) /\ Goto(t, IF BecomesReady(meta[p], m) THEN "setready" ELSE "told")
  BY <1>1, <1>2, <1>3, <1>5 DEF Cas
<1> HIDE DEF m
<1>7. BecomesReady(meta[p], m) <=> "READYBASIC" \in m.flags /\ Derived \subseteq m.flags
  <2>1. ~({"READYBASIC"} \cup Derived \subseteq meta[p].flags)
    BY <1>3 DEF Derived
  <2> QED
    BY <1>3, <2>1, CasOutcome
<1> QED
  BY <1>1, <1>2, <1>4, <1>6, <1>7

\* The parent is not to go on yet.
LEMMA CasTellsInv ==
  ASSUME IndInv, Families, NEW t \in Threads, Cas(t), th[t].back = "told",
         meta[th[t].tgt].avjobs + 1 \in 0 .. MaxCount,
         NEW m \in Word, SetMeta(th[t].tgt, m), m.avjobs = meta[th[t].tgt].avjobs + 1,
         "READYJOB" \in m.flags <=> m.avjobs >= Leaves,
         "READYBASIC" \in m.flags <=> "READYBASIC" \in meta[th[t].tgt].flags,
         m.flags \cap Marks = meta[th[t].tgt].flags \cap Marks,
         NEW l \in {"told"}, Goto(t, l),
         ~("READYBASIC" \in m.flags /\ Derived \subseteq m.flags)
  PROVE  IndInv'
<1> DEFINE x == th[t]
<1>1. /\ t \in Workers /\ t # Main /\ x.pc = "cas" /\ x \in ThreadStates
      /\ TellerFits(x) /\ Types /\ UNCHANGED <<gen, info, free, cache, dq, done>>
  BY CasShape
<1>2. PICK p \in Slots : p = x.tgt
  BY AboutToTell
<1>3. /\ x.job \in Slots /\ info[x.job].requested = p
      /\ ~({"READYBASIC", "READYJOB"} \subseteq meta[p].flags)
  BY <1>2, AboutToTell
<1>4. /\ meta' \in [Slots -> Word] /\ meta'[p] = m
      /\ \A r \in Slots \ {p} : meta'[r] = meta[r]
  BY <1>1, <1>2, OneWord
<1>5. l \in Labels
  BY DEF Labels
<1>6. /\ th' \in [Threads -> ThreadStates]
      /\ \A u \in Threads \ {t} : th'[u] = th[u]
      /\ th'[t].pc = l /\ th'[t].job = x.job /\ th'[t].tgt = x.tgt
      /\ th'[t].made = x.made /\ th'[t].pop_gen = x.pop_gen
  BY <1>1, <1>5, Goes
<1>7. Types'
  BY <1>1, <1>4, <1>6 DEF Types
<1>8. TellerFits(th[t])'
  BY <1>1, <1>2, <1>3, <1>6, JobLifeAssumption DEF TellerFits, Sub, TellsNow, HasTold
<1>9. PICK y : y = th'[t]
  OBVIOUS
<1>10. /\ KeepsHands(t, x, y, NoJob) /\ JobStep(t, x, y) /\ OwnFits(t)'
       /\ ~RestsAt(x) /\ ~RestsAt(y) /\ ~WaitsAt(x)
  BY <1>1, <1>6, <1>8, <1>9, TellHands
<1>11. \A r \in Slots : meta'[r].flags \cap Marks = meta[r].flags \cap Marks
  BY <1>2, <1>4
<1>12. Suspended' = Suspended
  <2>1. p \in Suspended' <=> p \in Suspended
    BY <1>2, <1>3, <1>4 DEF Suspended, Derived
  <2> QED
    BY <1>4, <2>1 DEF Suspended
<1>13. Stays(t)
  BY <1>1, <1>6, <1>9, <1>10, <1>11, <1>12 DEF Stays
<1>14. \A r \in Slots : SameInfo(r)
  BY <1>1 DEF SameInfo
<1>15. Exclusive' /\ Staged' /\ Fits' /\ TellersFit' /\ SameLife'
  BY <1>1, <1>7, <1>10, <1>13, <1>14, StayAll
<1>16. \A r \in Slots : Resting(r)' <=> Resting(r)
  BY <1>1, <1>6, <1>9, <1>10, RestingKept
<1>17. HasTold(th'[t]) /\ ~TellsNow(th'[t]) /\ ~HasTold(x)
  BY <1>1, <1>6 DEF HasTold, TellsNow
<1>18. LeafStep(t)
  <2>1. "ALIVE" \in Marks /\ "WLLDESTROY" \in Marks
    BY FlagsApart
  <2>2. JobStep(t, th[t], th'[t])
    BY <1>9, <1>10
  <2> QED
    BY <1>1, <1>6, <1>11, <1>16, <1>17, <2>1, <2>2 DEF LeafStep
<1>19. LeavesFit' /\ Counts' /\ Resumes'
  BY <1>2, <1>4, <1>6, <1>7, <1>17, <1>18, TellFamily
<1> QED
  BY <1>7, <1>15, <1>19 DEF IndInv

\* The parent was waiting for this leaf, and is to be set ready.
LEMMA CasWakesInv ==
  ASSUME IndInv, Families, NEW t \in Threads, Cas(t), th[t].back = "told",
         meta[th[t].tgt].avjobs + 1 \in 0 .. MaxCount,
         NEW m \in Word, SetMeta(th[t].tgt, m), m.avjobs = meta[th[t].tgt].avjobs + 1,
         "READYJOB" \in m.flags <=> m.avjobs >= Leaves,
         "READYBASIC" \in m.flags <=> "READYBASIC" \in meta[th[t].tgt].flags,
         m.flags \cap Marks = meta[th[t].tgt].flags \cap Marks,
         NEW l \in {"setready"}, Goto(t, l),
         "READYBASIC" \in m.flags /\ Derived \subseteq m.flags
  PROVE  IndInv'
<1> DEFINE x == th[t]
<1>1. /\ t \in Workers /\ t # Main /\ x.pc = "cas" /\ x \in ThreadStates
      /\ TellerFits(x) /\ Types /\ UNCHANGED <<gen, info, free, cache, dq, done>>
      /\ WorkerFits(x) /\ x.back = "told"
  BY CasShape
<1>2. PICK p \in Slots, s \in Slots : p = x.tgt /\ s = x.job
  BY AboutToTell
<1>3. /\ info[s].requested = p /\ JobOf(t, x) = s /\ Has(t, x, s)
      /\ ~({"READYBASIC", "READYJOB"} \subseteq meta[p].flags)
      /\ p # NoJob /\ s # NoJob
  BY <1>2, AboutToTell, JobLifeAssumption
<1>4. /\ meta' \in [Slots -> Word] /\ meta'[p] = m
      /\ \A r \in Slots \ {p} : meta'[r] = meta[r]
  BY <1>1, <1>2, OneWord
<1>5. l \in Labels
  BY DEF Labels
<1>6. /\ th' \in [Threads -> ThreadStates]
      /\ \A u \in Threads \ {t} : th'[u] = th[u]
      /\ th'[t].pc = l /\ th'[t].job = x.job /\ th'[t].tgt = x.tgt
      /\ th'[t].made = x.made /\ th'[t].pop_gen = x.pop_gen /\ th'[t].back = x.back
  BY <1>1, <1>5, Goes
<1>7. Types'
  BY <1>1, <1>4, <1>6 DEF Types
<1>8. PICK y : y = th'[t]
  OBVIOUS
<1>9. /\ AtJob(x) /\ ~AtTarget(x) /\ ~Running(x) /\ ~RestsAt(x) /\ Past(x)
      /\ ~HasTold(x) /\ JobStage(x) = "bare"
  BY <1>1 DEF AtJob, AtTarget, Running, RestsAt, Past, HasTold, JobStage, Sub
<1>10. /\ AtJob(y) /\ AtTarget(y) /\ ~Running(y) /\ ~RestsAt(y) /\ Past(y)
       /\ HasTold(y) /\ ~TellsNow(y) /\ JobStage(y) = "bare" /\ TargetStage(y) = "again"
  BY <1>1, <1>6, <1>8
     DEF AtJob, AtTarget, Running, RestsAt, Past, HasTold, TellsNow, JobStage,
         TargetStage, Sub
<1>11. /\ JobOf(t, y) = s /\ TargetOf(y) = p /\ Pending(t, y) = {} /\ Pending(t, x) = {}
  BY <1>1, <1>2, <1>6, <1>8, <1>9, <1>10 DEF JobOf, TargetOf, Pending
<1>12. p \in Suspended /\ Outside(p) /\ Marked("again", meta[p].flags)
  <2>1. p \in Suspended
    BY <1>2, <1>3 DEF Suspended, Derived
  <2> QED
    BY <2>1 DEF IndInv, Staged, Outside
<1>13. s # p
  <2>1. ~Outside(s)
    BY <1>3, InHands
  <2> QED
    BY <1>12, <2>1
<1>14. Moves(t, p)
  <2>1. KeepsHands(t, x, y, p)
    BY <1>3, <1>9, <1>10, <1>11 DEF KeepsHands
  <2>2. Queued' = Queued
    BY <1>1 DEF Queued
  <2> QED
    BY <1>1, <1>4, <1>6, <1>8, <2>1, <2>2 DEF Moves
<1>15. HasOnce(t, y, p) /\ HasStaged(t, y, p, meta'[p].flags)
  <2>1. Marked("again", m.flags)
    BY <1>2, <1>12, MarkedBy
  <2> QED
    BY <1>4, <1>10, <1>11, <1>13, <2>1 DEF HasOnce, HasStaged
<1>16. /\ ~Outside(p)' /\ p \notin free' /\ p \notin Cached' /\ p \notin Queued'
       /\ p \notin Suspended'
  <2>1. p \notin free /\ p \notin Cached /\ p \notin Queued
    BY <1>12 DEF IndInv, Exclusive, PlacesApart
  <2>2. p \notin free' /\ p \notin Cached' /\ p \notin Queued'
    BY <1>1, <2>1 DEF Cached, Queued
  <2>3. p \notin Suspended'
    BY <1>4 DEF Suspended
  <2> QED
    BY <2>2, <2>3 DEF Outside
<1>17. OnePlace'
  BY <1>1 DEF IndInv, Exclusive, OnePlace
<1>18. OwnFits(t)'
  <2>1. WorkerFits(th[t])'
    <3>1. Parent(s) => info[s].phase = 1
      BY <1>1, <1>2, <1>9 DEF WorkerFits
    <3> QED
      BY <1>1, <1>2, <1>3, <1>6, <1>8, <1>10, <3>1 DEF WorkerFits, Sub, Parent
  <2>2. TellerFits(th[t])'
    BY <1>1, <1>2, <1>3, <1>6, <1>8, <1>10 DEF TellerFits, Sub
  <2>3. gen[s] = x.pop_gen
    BY <1>1, <1>2, <1>9, JobOnly
  <2> QED
    BY <1>1, <1>2, <1>3, <1>6, <1>8, <2>1, <2>2, <2>3 DEF OwnFits
<1>19. \A r \in Slots : SameInfo(r) /\ gen'[r] = gen[r]
  BY <1>1 DEF SameInfo
<1>20. Exclusive' /\ Staged' /\ Fits' /\ TellersFit' /\ SameLife'
  BY <1>7, <1>8, <1>12, <1>14, <1>15, <1>16, <1>17, <1>18, <1>19, MoveKeeps
<1>21. \A r \in Slots : Resting(r)' <=> Resting(r)
  BY <1>1, <1>6, <1>8, <1>9, <1>10, RestingKept
<1>22. LeafStep(t)
  <2>1. "ALIVE" \in Marks /\ "WLLDESTROY" \in Marks
    BY FlagsApart
  <2>2. \A r \in Slots : meta'[r].flags \cap Marks = meta[r].flags \cap Marks
    BY <1>2, <1>4
  <2>3. JobStep(t, th[t], th'[t])
    BY <1>3, <1>6, <1>8, <1>11 DEF JobStep
  <2> QED
    BY <1>1, <1>6, <1>9, <1>21, <2>1, <2>2, <2>3 DEF LeafStep
<1>23. LeavesFit' /\ Counts' /\ Resumes'
  BY <1>1, <1>2, <1>4, <1>6, <1>7, <1>8, <1>10, <1>22, TellFamily
<1> QED
  BY <1>7, <1>20, <1>23 DEF IndInv

\* schedi_job_meta_flag_cas_update, whoever called it.
LEMMA CasInv ==
  ASSUME IndInv, Families, NEW t \in Threads, Cas(t)
  PROVE  IndInv'
<1>1. CASE th[t].back = "script"
  BY <1>1, CasScriptInv
<1>2. CASE th[t].back = "check"
  BY <1>2, CasCheckInv
<1>3. CASE th[t].back = "told" /\ ~(meta[th[t].tgt].avjobs + 1 \in 0 .. MaxCount)
  BY <1>3, CasTellFailsInv
<1>4. CASE th[t].back = "told" /\ meta[th[t].tgt].avjobs + 1 \in 0 .. MaxCount
  <2>1. PICK m \in Word :
          /\ SetMeta(th[t].tgt, m) /\ m.avjobs = meta[th[t].tgt].avjobs + 1
          /\ "READYJOB" \in m.flags <=> m.avjobs >= Leaves
          /\ "READYBASIC" \in m.flags <=> "READYBASIC" \in meta[th[t].tgt].flags
          /\ m.flags \cap Marks = meta[th[t].tgt].flags \cap Marks
          /\ Goto(t, IF "READYBASIC" \in m.flags /\ Derived \subseteq m.flags
                     THEN "setready" ELSE "told")
    BY <1>4, ToldWord
  <2>2. CASE "READYBASIC" \in m.flags /\ Derived \subseteq m.flags
    <3>1. PICK l \in {"setready"} : Goto(t, l)
      BY <2>1, <2>2
    <3> QED
      BY <1>4, <2>1, <2>2, <3>1, CasWakesInv
  <2>3. CASE ~("READYBASIC" \in m.flags /\ Derived \subseteq m.flags)
    <3>1. PICK l \in {"told"} : Goto(t, l)
      BY <2>1, <2>3
    <3> QED
      BY <1>4, <2>1, <2>3, <3>1, CasTellsInv
  <2> QED
    BY <2>2, <2>3
<1> QED
  BY <1>1, <1>2, <1>3, <1>4, CasShape

-----------------------------------------------------------------------------
(* Steps that end a run, and with it what is known of families. *)

\* A run ends.
LEMMA ReturnInv ==
  ASSUME IndInv, Families, NEW w \in Workers, Return(w)
  PROVE  IndInv'
<1> DEFINE x == th[w]
<1>1. /\ x.pc = "script" /\ w \in Threads /\ w # Main /\ WorkerFits(x) /\ Types
      /\ UNCHANGED <<meta, gen, free, cache, dq, done>> /\ x \in ThreadStates
      /\ x.k > Len(Script(w))
  BY JobLifeAssumption DEF Return, ScriptEnds, At, Threads, IndInv, Fits, Types
<1>2. /\ AtJob(x) /\ Running(x) /\ ~AtTarget(x) /\ ~RestsAt(x) /\ ~HasTold(x)
      /\ ~WaitsAt(x) /\ JobStage(x) = "runs"
  BY <1>1 DEF AtJob, Running, AtTarget, RestsAt, HasTold, WaitsAt, JobStage, Sub
<1>3. PICK s \in Slots : s = x.job
  BY <1>1, <1>2, JobOnly
<1>4. /\ JobOf(w, x) = s /\ Has(w, x, s) /\ ~Outside(s) /\ gen[s] = x.pop_gen /\ s # NoJob
      /\ Marked("runs", meta[s].flags)
  BY <1>2, <1>3, JobOnly, JobLifeAssumption
<1>5. PICK l \in {"finish", "again"} : l = IF LastPhase(s) THEN "finish" ELSE "again"
  OBVIOUS
<1>6. l \in Labels /\ Goto(w, l)
  BY <1>3, <1>5 DEF Labels, Return, Goto
<1>7. /\ th' \in [Threads -> ThreadStates]
      /\ \A u \in Threads \ {w} : th'[u] = th[u]
      /\ th'[w].pc = l /\ th'[w].job = x.job /\ th'[w].k = x.k
      /\ th'[w].made = x.made /\ th'[w].pop_gen = x.pop_gen
  BY <1>1, <1>6, Goes
<1>8. PICK y : y = th'[w]
  OBVIOUS
\* A parent has made all its calls in its first run.
<1>9. Parent(s) /\ info[s].phase = 0 => x.k = 2 * Leaves + 2 /\ info[s].required = Required
  <2> SUFFICES ASSUME Parent(s), info[s].phase = 0
               PROVE  x.k = 2 * Leaves + 2 /\ info[s].required = Required
    OBVIOUS
  <2>1. Script(w) = ParentScript
    BY <1>1, <1>3 DEF Script, Parent
  <2>2. Len(Script(w)) = 2 * Leaves + 1 /\ Leaves \in Nat \ {0}
    BY <2>1, ParentCalls, JobLifeAssumption
  <2>3. /\ x.k \in 1 .. 2 * Leaves + 2
        /\ x.k >= Leaves + 2 => info[s].required = Required
    BY <1>1, <1>2, <1>3 DEF WorkerFits
  <2>4. x.k = 2 * Leaves + 2 /\ x.k >= Leaves + 2
    BY <1>1, <2>2, <2>3
  <2> QED
    BY <2>3, <2>4
<1>10. Pending(w, x) = {}
  <2>1. CASE Parent(s) /\ info[s].phase = 0
    <3>1. Len(x.made) = Leaves
      BY <1>1, <1>2, <1>3, <1>9, <2>1, JobLifeAssumption DEF WorkerFits
    <3>2. \A i \in 1 .. Leaves : ~(x.k <= Leaves + 1 + i)
      BY <1>9, <2>1, JobLifeAssumption
    <3> QED
      BY <1>1, <3>1, <3>2 DEF Pending
  <2>2. CASE ~(Parent(s) /\ info[s].phase = 0)
    <3>1. x.made = <<>>
      BY <1>1, <1>2, <1>3, <2>2 DEF WorkerFits
    <3> QED
      BY <1>1, <3>1 DEF Pending
  <2> QED
    BY <2>1, <2>2
<1>11. /\ AtJob(y) /\ ~Running(y) /\ ~AtTarget(y) /\ ~RestsAt(y) /\ ~HasTold(y)
       /\ ~TellsNow(y) /\ JobStage(y) = "runs" /\ Past(y)
       /\ WaitsAt(y) <=> l = "again"
  BY <1>5, <1>7, <1>8 DEF AtJob, Running, AtTarget, RestsAt, HasTold, TellsNow, WaitsAt,
                          JobStage, Past, Sub
<1>12. JobOf(w, y) = s /\ TargetOf(y) = NoJob /\ Pending(w, y) = {}
  BY <1>1, <1>3, <1>7, <1>8, <1>11 DEF JobOf, TargetOf, Pending
<1>13. /\ info' \in [Slots -> Infos] /\ \A r \in Slots \ {s} : info'[r] = info[r]
       /\ info'[s].kind = info[s].kind /\ info'[s].required = info[s].required
       /\ info'[s].requested = info[s].requested
       /\ info'[s].requested_gen = info[s].requested_gen
       /\ info'[s].phase = IF l = "finish" THEN info[s].phase ELSE info[s].phase + 1
  <2>1. info \in [Slots -> Infos] /\ info[s] \in Infos /\ info[s].phase \in Nat
    BY <1>1 DEF Types, Infos
  <2>2. PICK n \in Nat : n = IF l = "finish" THEN info[s].phase ELSE info[s].phase + 1
    BY <2>1
  <2>3. info' = [info EXCEPT ![s].phase = n]
    BY <1>3, <1>5, <2>1, <2>2 DEF Return
  <2>4. [info[s] EXCEPT !.phase = n] \in Infos
    BY <2>1 DEF Infos
  <2>5. info' \in [Slots -> Infos] /\ info'[s] = [info[s] EXCEPT !.phase = n]
        /\ \A r \in Slots \ {s} : info'[r] = info[r]
    BY <2>1, <2>3, <2>4
  <2> QED
    BY <2>1, <2>2, <2>5 DEF Infos
<1>14. Types'
  BY <1>1, <1>7, <1>13 DEF Types
<1>15. Parent(s) => /\ info'[s].phase = 1 /\ info[s].phase \in {0, 1}
                    /\ l = "again" <=> info[s].phase = 0
  <2> SUFFICES ASSUME Parent(s)
               PROVE  /\ info'[s].phase = 1 /\ info[s].phase \in {0, 1}
                      /\ l = "again" <=> info[s].phase = 0
    OBVIOUS
  <2>1. info[s].phase \in {0, 1}
    BY DEF IndInv, Counts, CountsOf
  <2>2. LastPhase(s) <=> info[s].phase = 1
    BY DEF LastPhase, Parent
  <2> QED
    BY <1>5, <1>13, <2>1, <2>2
<1>16. KeepsHands(w, x, y, NoJob) /\ Queued' = Queued /\ Suspended' = Suspended
       /\ Cached' = Cached
  BY <1>1, <1>2, <1>4, <1>11, <1>12 DEF KeepsHands, Queued, Suspended, Cached
<1>17. OwnFits(w)'
  <2>1. WorkerFits(th[w])'
    BY <1>3, <1>4, <1>5, <1>7, <1>8, <1>11, <1>13, <1>15 DEF WorkerFits, Sub, Parent
  <2>2. TellerFits(th[w])'
    BY <1>5, <1>7, <1>8, <1>11 DEF TellerFits, Sub
  <2> QED
    BY <1>1, <1>3, <1>4, <1>7, <1>8, <1>11, <2>1, <2>2 DEF OwnFits
<1>18. Exclusive' /\ Staged' /\ Fits' /\ TellersFit' /\ SameLife'
  <2>1. Stays(w)
    BY <1>1, <1>7, <1>8, <1>16 DEF Stays
  <2>2. Exclusive' /\ Staged'
    BY <1>1, <1>14, <2>1, StayKeeps DEF IndInv
  <2>3. \A u \in Threads \ {w} : HasNot(u, th[u], s)
    BY <1>1, <1>4, OneHolder DEF HasNot, Has
  <2>4. \A r \in Slots \ {s} : SameInfo(r)
    BY <1>13 DEF SameInfo
  <2>5. OthersStep(w)
    BY <1>1, <1>7, <2>3, <2>4 DEF OthersStep
  <2>6. Fits' /\ TellersFit' /\ SameLife'
    BY <1>1, <1>14, <1>17, <2>5, OthersKept DEF IndInv
  <2> QED
    BY <2>2, <2>6
<1>19. \A r \in Slots : Resting(r)' <=> Resting(r)
  BY <1>1, <1>2, <1>7, <1>8, <1>11, RestingKept
<1>20. LeafStep(w)
  <2>1. JobStep(w, th[w], th'[w])
    BY <1>4, <1>7, <1>8, <1>10, <1>12 DEF JobStep
  <2>2. \A r \in Slots : info'[r].phase \in {info[r].phase, 1} \/ ~Parent(r)
    BY <1>13, <1>15
  <2> QED
    BY <1>1, <1>2, <1>7, <1>13, <1>19, <2>1, <2>2 DEF LeafStep
<1>21. LeavesFit'
  BY <1>1, <1>14, <1>20, LeavesFitKept DEF IndInv
<1>22. Counts'
  <2>1. \A r \in Slots : meta'[r].avjobs <= meta[r].avjobs
    <3>1. \A r \in Slots : meta'[r].avjobs = meta[r].avjobs /\ meta[r].avjobs \in Nat
      BY <1>1, CasOutcome DEF Types
    <3> QED
      BY <3>1
  <2>2. \A p \in Slots : Parent(p)' => CountsOf(p)'
    BY <1>1, <1>8, <1>11, <1>14, <1>20, <2>1, CountsKept DEF IndInv, Families
  <2> QED
    BY <2>2 DEF Counts
<1>23. ASSUME NEW p \in Slots, Parent(p)', p # s
       PROVE  ResumesOf(p)'
  <2>1. WordStep(p)
    BY <1>1, <1>16 DEF WordStep
  <2>2. \A v \in Workers : th[v].job = p /\ WaitsAt(th[v]) => th'[v] = th[v]
    BY <1>2, <1>7 DEF Threads
  <2>3. Waits(p) => Waits(p)'
    BY <1>16, <2>2 DEF Waits
  <2>4. SameInfo(p)
    BY <1>13, <1>23 DEF SameInfo
  <2> QED
    BY <1>19, <1>23, <2>1, <2>3, <2>4, ResumeKept DEF IndInv
<1>24. ASSUME Parent(s)'
       PROVE  ResumesOf(s)'
  <2>1. Parent(s) /\ ResumesOf(s)
    BY <1>13, <1>24 DEF Parent, IndInv, Resumes
  <2>2. CASE l = "again"
    <3>1. Waits(s)' /\ info'[s].required = Required
      BY <1>3, <1>7, <1>8, <1>9, <1>11, <1>13, <1>15, <2>1, <2>2 DEF Waits
    <3> QED
      BY <1>1, <2>1, <3>1 DEF ResumesOf
  <2>3. CASE l = "finish"
    <3>1. \A v \in Workers : th[v].job = s /\ WaitsAt(th[v]) => th'[v] = th[v]
      BY <1>2, <1>7 DEF Threads
    <3>2. Waits(s) => Waits(s)'
      BY <1>16, <3>1 DEF Waits
    <3> QED
      BY <1>1, <1>5, <1>13, <1>15, <1>19, <2>1, <2>3, <3>2 DEF ResumesOf
  <2> QED
    BY <1>5, <2>2, <2>3
<1>25. Resumes'
  BY <1>23, <1>24 DEF Resumes
<1> QED
  BY <1>14, <1>18, <1>21, <1>22, <1>25 DEF IndInv

\* A leaf that has finished begins to tell, and its parent has one more that
\* is done.
LEMMA FinishCounts ==
  ASSUME IndInv, Families, NEW t \in Threads, Types', LeafStep(t), NEW s \in Slots,
         th'[t].job = s, meta' \in [Slots -> Word],
         \A r \in Slots : meta'[r].avjobs = meta[r].avjobs,
         \A r \in Slots : IF r = info[s].requested /\ gen[r] = info[s].requested_gen
                          THEN done'[r] = done[r] + 1 ELSE done'[r] = done[r]
  PROVE  Counts'
<1>1. Types /\ IsFiniteSet(Slots)
  BY DEF IndInv, Families
<1>2. ASSUME NEW p \in Slots, NEW r \in Telling(p)', r \notin Telling(p)
      PROVE  r = s /\ p = info[s].requested /\ gen[p] = info[s].requested_gen
  <2>1. LeafOf(r, p)
    BY <1>1, <1>2, LeavesShrink DEF Telling
  <2>2. PICK w \in Workers : th'[w].job = r /\ TellsNow(th'[w])
    BY <1>2 DEF Telling
  <2>3. w = t
    BY <1>2, <2>1, <2>2 DEF Telling, LeafStep, Threads
  <2> QED
    BY <2>1, <2>2, <2>3 DEF LeafOf
<1>3. ASSUME NEW p \in Slots, Parent(p)'
      PROVE  CountsOf(p)'
  <2>1. Parent(p) /\ CountsOf(p)
    BY <1>3 DEF LeafStep, Parent, IndInv, Counts
  <2>2. /\ meta[p].avjobs \in Nat /\ meta'[p].avjobs = meta[p].avjobs /\ done[p] \in Nat
    <3>1. meta[p] \in Word /\ done[p] \in Nat
      BY <1>1 DEF Types
    <3> QED
      BY <3>1, CasOutcome
  <2>3. /\ Untold(p)' \subseteq Untold(p) /\ Untold(p) \subseteq Slots
    BY <1>1, LeavesShrink DEF Untold
  <2>4. /\ Cardinality(Untold(p)') <= Cardinality(Untold(p))
        /\ Cardinality(Untold(p)') \in Nat /\ Cardinality(Untold(p)) \in Nat
    BY <1>1, <2>3, FewerLeaves
  <2>5. /\ IsFiniteSet(Telling(p)) /\ Cardinality(Telling(p)) \in Nat
        /\ Telling(p) \subseteq Slots
    BY <1>1, FiniteLeaves DEF Telling
  <2>6. /\ Cardinality(Telling(p)') + done[p] <= Cardinality(Telling(p)) + done'[p]
        /\ Cardinality(Telling(p)') \in Nat /\ done'[p] \in Nat
    <3>1. CASE p = info[s].requested /\ gen[p] = info[s].requested_gen
      <4>1. Telling(p)' \subseteq Telling(p) \cup {s} /\ Telling(p) \cup {s} \subseteq Slots
        BY <1>2, <2>5
      <4>2. /\ Cardinality(Telling(p)') \in Nat /\ Cardinality(Telling(p) \cup {s}) \in Nat
            /\ Cardinality(Telling(p)') <= Cardinality(Telling(p) \cup {s})
        BY <1>1, <4>1, FewerLeaves
      <4>3. Cardinality(Telling(p) \cup {s}) <= Cardinality(Telling(p)) + 1
        <5>1. Cardinality(Telling(p) \cup {s}) \in
                {Cardinality(Telling(p)), Cardinality(Telling(p)) + 1}
          BY <2>5, FS_AddElement
        <5> QED
          BY <2>5, <5>1
      <4>4. done'[p] = done[p] + 1
        BY <3>1
      <4> QED
        BY <2>2, <2>5, <4>2, <4>3, <4>4
    <3>2. CASE ~(p = info[s].requested /\ gen[p] = info[s].requested_gen)
      <4>1. Telling(p)' \subseteq Telling(p)
        BY <1>2, <3>2
      <4>2. /\ Cardinality(Telling(p)') \in Nat
            /\ Cardinality(Telling(p)') <= Cardinality(Telling(p))
        BY <1>1, <2>5, <4>1, FewerLeaves
      <4>3. done'[p] = done[p]
        BY <3>2
      <4> QED
        BY <2>2, <2>5, <4>2, <4>3
    <3> QED
      BY <3>1, <3>2
  <2>7. /\ meta'[p].avjobs + Cardinality(Untold(p)')
             <= meta[p].avjobs + Cardinality(Untold(p))
        /\ (meta'[p].avjobs + Cardinality(Telling(p)')) + done[p]
             <= (meta[p].avjobs + Cardinality(Telling(p))) + done'[p]
    BY <2>2, <2>4, <2>5, <2>6
  <2> QED
    BY <1>1, <2>1, <2>7, CountKept
<1> QED
  BY <1>3 DEF Counts

\* The last run of a job has ended.
LEMMA FinishInv ==
  ASSUME IndInv, Families, NEW w \in Workers, Finish(w)
  PROVE  IndInv'
<1> DEFINE x == th[w]
<1>1. /\ x.pc = "finish" /\ w \in Threads /\ w # Main /\ WorkerFits(x) /\ Types
      /\ UNCHANGED <<gen, info, free, cache, dq>> /\ x \in ThreadStates
  BY JobLifeAssumption DEF Finish, At, Threads, IndInv, Fits, Types
<1>2. /\ AtJob(x) /\ ~Running(x) /\ ~AtTarget(x) /\ ~RestsAt(x) /\ ~HasTold(x)
      /\ ~WaitsAt(x) /\ JobStage(x) = "runs" /\ Past(x)
  BY <1>1 DEF AtJob, Running, AtTarget, RestsAt, HasTold, WaitsAt, JobStage, Sub, Past
<1>3. PICK s \in Slots : s = x.job
  BY <1>1, <1>2, JobOnly
<1>4. /\ JobOf(w, x) = s /\ Has(w, x, s) /\ ~Outside(s) /\ gen[s] = x.pop_gen /\ s # NoJob
      /\ Marked("runs", meta[s].flags)
  BY <1>2, <1>3, JobOnly, JobLifeAssumption
<1>5. PICK r \in MaybeJob : r = info[s].requested
  BY <1>1 DEF Types, Infos
<1>6. PICK l \in {"wlldestroy", "tell"} : l = IF r = NoJob THEN "wlldestroy" ELSE "tell"
  OBVIOUS
<1>7. l \in Labels /\ Goto(w, l)
  BY <1>3, <1>5, <1>6 DEF Labels, Finish
<1>8. /\ th' \in [Threads -> ThreadStates]
      /\ \A u \in Threads \ {w} : th'[u] = th[u]
      /\ th'[w].pc = l /\ th'[w].job = x.job
      /\ th'[w].made = x.made /\ th'[w].pop_gen = x.pop_gen
  BY <1>1, <1>7, Goes
<1>9. PICK y : y = th'[w]
  OBVIOUS
<1> DEFINE m == unmark_or(meta[s], {"EXECUTING"}, {"UNSTABLE"})
<1>10. /\ m \in Word /\ m.avjobs = meta[s].avjobs
       /\ m.flags = meta[s].flags \ {"EXECUTING"}
  <2>1. meta[s].flags \cap {"UNSTABLE"} = {}
    BY <1>4, FlagsApart DEF Marked
  <2>2. meta[s] \in Word
    BY <1>1 DEF Types
  <2> QED
    BY <2>1, <2>2, UnmarkWords
<1>11. SetMeta(s, m)
  BY <1>3 DEF Finish, UnmarkExecuting
<1> HIDE DEF m
<1>12. /\ meta' \in [Slots -> Word] /\ meta'[s] = m
       /\ \A q \in Slots \ {s} : meta'[q] = meta[q]
  BY <1>1, <1>10, <1>11, OneWord
<1>13. /\ done' \in [Slots -> Nat]
       /\ \A q \in Slots : IF q = info[s].requested /\ gen[q] = info[s].requested_gen
                           THEN done'[q] = done[q] + 1 ELSE done'[q] = done[q]
  <2>1. done' = IF r # NoJob /\ gen[r] = info[s].requested_gen
                THEN [done EXCEPT ![r] = @ + 1] ELSE done
    BY <1>3, <1>5 DEF Finish
  <2>2. done \in [Slots -> Nat] /\ (r # NoJob => r \in Slots /\ done[r] + 1 \in Nat)
    <3>1. done \in [Slots -> Nat]
      BY <1>1 DEF Types
    <3>2. r # NoJob => r \in Slots
      BY DEF MaybeJob
    <3> QED
      BY <3>1, <3>2
  <2>3. \A q \in Slots : q # NoJob
    BY JobLifeAssumption
  <2> QED
    BY <1>5, <2>1, <2>2, <2>3
<1>14. Types'
  BY <1>1, <1>8, <1>12, <1>13 DEF Types
<1>15. /\ AtJob(y) /\ ~Running(y) /\ ~AtTarget(y) /\ ~RestsAt(y) /\ Past(y)
       /\ JobStage(y) = "bare"
  BY <1>6, <1>8, <1>9 DEF AtJob, Running, AtTarget, RestsAt, Past, JobStage, Sub
<1>16. /\ JobOf(w, y) = s /\ TargetOf(y) = NoJob /\ Pending(w, y) = {} /\ Pending(w, x) = {}
  BY <1>1, <1>2, <1>3, <1>8, <1>9, <1>15 DEF JobOf, TargetOf, Pending
<1>17. Queued' = Queued /\ Cached' = Cached
  BY <1>1 DEF Queued, Cached
<1>18. Moves(w, s)
  <2>1. KeepsHands(w, x, y, s)
    BY <1>16 DEF KeepsHands
  <2> QED
    BY <1>1, <1>8, <1>9, <1>12, <1>17, <2>1 DEF Moves
<1>19. /\ Marked("bare", m.flags) /\ "READYBASIC" \notin m.flags
       /\ "ALIVE" \in meta[s].flags /\ "WLLDESTROY" \notin meta[s].flags
  BY <1>4, <1>10, FlagsApart DEF Marked
<1>20. HasOnce(w, y, s) /\ HasStaged(w, y, s, meta'[s].flags)
  BY <1>4, <1>12, <1>15, <1>16, <1>19 DEF HasOnce, HasStaged
<1>21. /\ ~Outside(s)' /\ s \notin free' /\ s \notin Cached' /\ s \notin Queued'
       /\ s \notin Suspended'
  BY <1>1, <1>4, <1>12, <1>17, <1>19 DEF Outside, Suspended
<1>22. OnePlace'
  BY <1>1 DEF IndInv, Exclusive, OnePlace
<1>23. OwnFits(w)'
  <2>1. WorkerFits(th[w])'
    <3>1. Parent(s) => info[s].phase = 1
      BY <1>1, <1>2, <1>3 DEF WorkerFits
    <3> QED
      BY <1>1, <1>3, <1>4, <1>6, <1>8, <1>9, <1>15, <3>1 DEF WorkerFits, Sub, Parent
  <2>2. TellerFits(th[w])'
    BY <1>1, <1>3, <1>5, <1>6, <1>8, <1>9 DEF TellerFits, TellsNow, HasTold, Sub
  <2> QED
    BY <1>1, <1>3, <1>4, <1>8, <1>9, <1>15, <2>1, <2>2 DEF OwnFits
<1>24. \A q \in Slots : SameInfo(q) /\ gen'[q] = gen[q]
  BY <1>1 DEF SameInfo
<1>25. Exclusive' /\ Staged' /\ Fits' /\ TellersFit' /\ SameLife'
  BY <1>1, <1>4, <1>9, <1>14, <1>18, <1>20, <1>21, <1>22, <1>23, <1>24, MoveKeeps
<1>26. \A q \in Slots : Resting(q)' <=> Resting(q)
  BY <1>1, <1>2, <1>8, <1>9, <1>15, RestingKept
<1>27. \A q \in Slots : WordStep(q)
  <2>1. WordStep(s)
    BY <1>4, <1>10, <1>12, <1>19 DEF WordStep, Outside
  <2> QED
    BY <1>12, <2>1 DEF WordStep, Suspended
<1>28. LeafStep(w)
  <2>1. JobStep(w, th[w], th'[w])
    BY <1>4, <1>8, <1>9, <1>16 DEF JobStep
  <2> QED
    BY <1>1, <1>2, <1>8, <1>24, <1>26, <1>27, <2>1 DEF LeafStep, WordStep, SameInfo
<1>29. LeavesFit'
  BY <1>1, <1>14, <1>28, LeavesFitKept DEF IndInv
<1>30. Counts'
  <2>1. \A q \in Slots : meta'[q].avjobs = meta[q].avjobs
    BY <1>10, <1>12
  <2> QED
    BY <1>1, <1>3, <1>8, <1>12, <1>13, <1>14, <1>28, <2>1, FinishCounts
<1>31. Resumes'
  <2>1. ASSUME NEW p \in Slots, Parent(p)'
        PROVE  ResumesOf(p)'
    <3>1. \A v \in Workers : th[v].job = p /\ WaitsAt(th[v]) => th'[v] = th[v]
      BY <1>2, <1>8 DEF Threads
    <3>2. Waits(p) => Waits(p)'
      BY <1>27, <3>1 DEF Waits, WordStep
    <3> QED
      BY <1>24, <1>26, <1>27, <2>1, <3>2, ResumeKept DEF IndInv
  <2> QED
    BY <2>1 DEF Resumes
<1> QED
  BY <1>14, <1>25, <1>29, <1>30, <1>31 DEF IndInv

\* All leaves of a job that is torn down have told.
LEMMA NoneUntold ==
  ASSUME IndInv, Families, NEW t \in Threads, th[t].pc = "teardown"
  PROVE  Untold(th[t].tgt) = {}
<1> DEFINE x == th[t]
<1>1. /\ AtTarget(x) /\ ~RestsAt(x) /\ ~WaitsAt(x) /\ Types
  BY DEF AtTarget, RestsAt, WaitsAt, IndInv
<1>2. PICK s \in Slots : s = x.tgt /\ Has(t, x, s) /\ ~Outside(s) /\ JobOf(t, x) # s
  BY <1>1, TargetOnly
<1> SUFFICES Untold(s) = {}
  BY <1>2
<1>3. IsFiniteSet(Untold(s)) /\ Cardinality(Untold(s)) \in Nat
  BY FiniteLeaves DEF Families
<1>4. meta[s].avjobs \in Nat
  <2>1. meta[s] \in Word
    BY <1>1 DEF Types
  <2> QED
    BY <2>1, CasOutcome
<1>5. CASE ~Parent(s)
  <2>1. ASSUME NEW r \in Slots, LeafOf(r, s) PROVE FALSE
    <3>1. info[r].requested = s /\ s # NoJob
      BY <2>1, JobLifeAssumption DEF LeafOf
    <3>2. LeafOf(r, info[r].requested) => Parent(info[r].requested)
      BY <3>1 DEF IndInv, LeavesFit
    <3> QED
      BY <1>5, <2>1, <3>1, <3>2
  <2> QED
    BY <2>1 DEF Untold
<1>6. CASE Parent(s) /\ info[s].phase = 0
  <2>1. ASSUME NEW v \in Workers, JobOf(v, th[v]) = s PROVE FALSE
    <3>1. Has(v, th[v], s) /\ v \in Threads
      BY <2>1 DEF Has, Threads
    <3>2. v = t
      BY <1>2, <3>1, OneHolder
    <3> QED
      BY <1>2, <2>1, <3>2
  <2>2. Bound(s, 0)
    BY <1>6, <2>1 DEF IndInv, Counts, CountsOf
  <2>3. meta[s].avjobs + Cardinality(Untold(s)) <= 0
    BY <2>2 DEF Bound
  <2>4. Cardinality(Untold(s)) = 0
    BY <1>3, <1>4, <2>3
  <2> QED
    BY <1>3, <2>4, FS_EmptySet
<1>7. CASE Parent(s) /\ info[s].phase = 1
  <2>1. ~Resting(s)
    BY <1>1, <1>2, NotResting
  <2>2. ASSUME NEW v \in Workers, th[v].job = s, WaitsAt(th[v]) PROVE FALSE
    <3>1. Past(th[v]) /\ v \in Threads
      BY <2>2 DEF WaitsAt, Past, Threads
    <3>2. /\ WorkerFits(th[v]) /\ th[v] \in ThreadStates
          /\ AtTarget(th[v]) => th[v].tgt # NoJob
      BY <1>1, <3>1 DEF IndInv, Fits, Types
    <3>3. Has(v, th[v], s)
      BY <2>2, <3>1, <3>2, HasJob
    <3>4. v = t
      BY <1>2, <3>1, <3>3, OneHolder
    <3> QED
      BY <1>1, <2>2, <3>4
  <2>3. ~Waits(s)
    BY <1>2, <2>2 DEF Waits, Outside
  <2>4. meta[s].avjobs >= Leaves /\ Bound(s, Leaves) /\ Leaves \in Nat
    BY <1>7, <2>1, <2>3, JobLifeAssumption DEF IndInv, Resumes, ResumesOf, Counts, CountsOf
  <2>5. meta[s].avjobs + Cardinality(Untold(s)) <= Leaves
    BY <2>4 DEF Bound
  <2>6. Cardinality(Untold(s)) = 0
    BY <1>3, <1>4, <2>4, <2>5
  <2> QED
    BY <1>3, <2>6, FS_EmptySet
<1>8. Parent(s) => info[s].phase \in {0, 1}
  BY DEF IndInv, Counts, CountsOf
<1> QED
  BY <1>5, <1>6, <1>7, <1>8

\* A job is torn down.
LEMMA TeardownInv ==
  ASSUME IndInv, Families, NEW t \in Threads, Teardown(t)
  PROVE  IndInv'
<1> DEFINE x == th[t]
<1>1. /\ x.pc = "teardown" /\ Types /\ UNCHANGED <<meta, info, free, cache, dq, done>>
      /\ IsFiniteSet(Slots)
  BY DEF Teardown, At, IndInv, Families
<1>2. PICK l \in {"teardown", "clear", "release"} : l = "clear" /\ Goto(t, l)
  BY DEF Teardown
<1>3. /\ AtTarget(x) /\ AtTarget(th'[t]) /\ SameHands(t, x, th'[t])
      /\ ~HasTold(x) /\ ~TellsNow(th'[t]) /\ ~WaitsAt(x) /\ OwnFits(t)'
      /\ l \in Labels /\ th'[t].pc = l
  BY <1>1, <1>2, DownFits
<1>4. PICK s \in Slots : s = x.tgt /\ Has(t, x, s) /\ ~Outside(s)
  BY <1>3, TargetOnly
<1>5. /\ th' \in [Threads -> ThreadStates] /\ \A u \in Threads \ {t} : th'[u] = th[u]
  BY <1>1, <1>2, <1>3, Goes
<1>6. /\ gen' \in [Slots -> Nat] /\ gen'[s] = gen[s] + 1 /\ gen[s] \in Nat
      /\ \A r \in Slots \ {s} : gen'[r] = gen[r]
  <2>1. gen \in [Slots -> Nat] /\ gen[s] \in Nat /\ gen' = [gen EXCEPT ![s] = @ + 1]
    BY <1>1, <1>4 DEF Types, Teardown
  <2> QED
    BY <2>1
<1>7. Types'
  BY <1>1, <1>5, <1>6 DEF Types
<1>8. PICK y : y = th'[t]
  OBVIOUS
<1>9. /\ ~HasTold(y) /\ RestsAt(y) /\ ~RestsAt(x) /\ y.tgt = s /\ y.made = x.made
      /\ TargetStage(y) = TargetStage(x) /\ ~WaitsAt(y) /\ ~TellsNow(x)
  BY <1>1, <1>2, <1>3, <1>4, <1>8
     DEF HasTold, RestsAt, SameHands, TargetStage, WaitsAt, TellsNow
<1>10. Exclusive' /\ Staged'
  <2>1. KeepsHands(t, x, y, NoJob)
    BY <1>3, <1>8, <1>9 DEF KeepsHands, SameHands, TargetOf
  <2>2. Suspended' = Suspended
    BY <1>1 DEF Suspended
  <2>3. Stays(t)
    BY <1>1, <1>5, <1>8, <2>1, <2>2 DEF Stays
  <2> QED
    BY <1>7, <2>3, StayKeeps DEF IndInv
<1>11. Untold(s) = {}
  BY <1>1, <1>4, NoneUntold
<1>12. Fits' /\ TellersFit' /\ SameLife'
  <2>1. \A u \in Threads \ {t} : HasNot(u, th[u], s)
    BY <1>4, OneHolder DEF HasNot, Has
  <2>2. ASSUME NEW u \in Workers \ {t}, th[u].pc \in {"read", "cas"}, th[u].back = "told",
               LeafOf(th[u].job, s)
        PROVE  FALSE
    <3>1. AtJob(th[u]) /\ ~HasTold(th[u]) /\ u \in Threads
      BY <2>2 DEF AtJob, HasTold, Sub, Threads
    <3>2. PICK r \in Slots : r = th[u].job /\ Has(u, th[u], r)
      BY <3>1, JobOnly
    <3>3. ~Told(r)
      BY <3>1, <3>2, TellerHas DEF Told
    <3> QED
      BY <1>11, <2>2, <3>2, <3>3 DEF Untold
  <2>3. \A r \in Slots : SameInfo(r)
    BY <1>1 DEF SameInfo
  <2>4. OthersStep(t)
    BY <1>1, <1>5, <1>6, <2>1, <2>2, <2>3 DEF OthersStep
  <2> QED
    BY <1>3, <1>7, <2>4, OthersKept DEF IndInv
<1>13. \A p \in Slots \ {s} : Resting(p)' <=> Resting(p)
  BY <1>1, <1>5, <1>8, <1>9 DEF Resting
<1>14. Resting(s)' /\ ~Resting(s)
  BY <1>4, <1>8, <1>9, NotResting DEF Resting
<1>15. ASSUME NEW r \in Slots, info[r].requested = s
       PROVE  ~LeafOf(r, s)' /\ info[r].requested_gen <= gen'[s]
  <2>1. info[r].requested_gen <= gen[s] /\ info[r].requested_gen \in Nat
    BY <1>1, <1>15, JobLifeAssumption DEF IndInv, LeavesFit, Types, Infos
  <2> QED
    BY <1>1, <1>6, <2>1 DEF LeafOf
<1>16. ASSUME NEW p \in Slots, NEW r \in Slots, LeafOf(r, p)'
       PROVE  LeafOf(r, p) /\ p # s
  <2>1. p # s
    BY <1>1, <1>15, <1>16 DEF LeafOf
  <2> QED
    BY <1>1, <1>6, <1>16, <2>1 DEF LeafOf
<1>17. \A u \in Threads : /\ JobOf(u, th'[u]) = JobOf(u, th[u]) /\ th'[u].made = th[u].made
                          /\ Pending(u, th'[u]) = Pending(u, th[u])
  BY <1>3, <1>5 DEF SameHands
<1>18. LeavesFit'
  <2> SUFFICES ASSUME NEW r \in Slots, NEW p \in Slots, info'[r].requested = p
               PROVE  /\ info'[r].requested_gen <= gen'[p]
                      /\ LeafOf(r, p)' =>
                           /\ Parent(p)' /\ ~Resting(p)'
                           /\ \/ info'[p].required = Required
                              \/ \E w \in Workers :
                                   /\ JobOf(w, th'[w]) = p
                                   /\ \E i \in Pending(w, th'[w]) : th'[w].made[i] = r
    <3>1. \A r \in Slots : info'[r].requested \in MaybeJob
      BY <1>7 DEF Types, Infos
    <3> QED
      BY <3>1 DEF LeavesFit, MaybeJob
  <2>1. p = info[r].requested /\ info' = info /\ p # NoJob
    BY <1>1, JobLifeAssumption
  <2>2. /\ info[r].requested_gen <= gen[p]
        /\ LeafOf(r, p) =>
             /\ Parent(p) /\ ~Resting(p)
             /\ \/ info[p].required = Required
                \/ \E w \in Workers : /\ JobOf(w, th[w]) = p
                                      /\ \E i \in Pending(w, th[w]) : th[w].made[i] = r
    BY <2>1 DEF IndInv, LeavesFit
  <2>3. info[r].requested_gen <= gen'[p]
    BY <1>6, <1>15, <2>1, <2>2
  <2>4. ASSUME LeafOf(r, p)'
        PROVE  /\ Parent(p)' /\ ~Resting(p)'
               /\ \/ info[p].required = Required
                  \/ \E w \in Workers : /\ JobOf(w, th'[w]) = p
                                        /\ \E i \in Pending(w, th'[w]) : th'[w].made[i] = r
    <3>1. LeafOf(r, p) /\ p # s
      BY <1>16, <2>4
    <3>2. \A w \in Workers : w \in Threads
      BY DEF Threads
    <3> QED
      BY <1>13, <1>17, <2>1, <2>2, <3>1, <3>2 DEF Parent
  <2> QED
    BY <2>1, <2>3, <2>4
<1>19. \A r \in Slots : Told(r)' <=> Told(r)
  BY <1>3, <1>5, <1>8, <1>9 DEF Told
<1>20. \A p \in Slots : Untold(p)' \subseteq Untold(p) /\ Telling(p)' \subseteq Telling(p)
  <2>1. \A w \in Workers : TellsNow(th'[w]) => th'[w] = th[w]
    BY <1>3, <1>5 DEF Threads
  <2> QED
    BY <1>16, <1>19, <2>1 DEF Untold, Telling
<1>21. Counts'
  <2> SUFFICES ASSUME NEW p \in Slots, Parent(p) PROVE CountsOf(p)'
    BY <1>1 DEF Counts, Parent
  <2>1. CountsOf(p)
    BY DEF IndInv, Counts
  <2>2. Untold(p) \subseteq Slots /\ Telling(p) \subseteq Slots
    BY DEF Untold, Telling
  <2>3. /\ Cardinality(Untold(p)') <= Cardinality(Untold(p))
        /\ Cardinality(Telling(p)') <= Cardinality(Telling(p))
        /\ Cardinality(Untold(p)') \in Nat /\ Cardinality(Untold(p)) \in Nat
        /\ Cardinality(Telling(p)') \in Nat /\ Cardinality(Telling(p)) \in Nat
    BY <1>1, <1>20, <2>2, FewerLeaves
  <2>4. meta[p].avjobs \in Nat /\ done[p] \in Nat
    <3>1. meta[p] \in Word /\ done[p] \in Nat
      BY <1>1 DEF Types
    <3> QED
      BY <3>1, CasOutcome
  <2>5. ASSUME NEW n \in Nat, Bound(p, n)
        PROVE  meta'[p].avjobs + Cardinality(Untold(p)') <= n
    BY <1>1, <2>3, <2>4, <2>5 DEF Bound
  <2>6. \A w \in Workers : /\ JobOf(w, th'[w]) = JobOf(w, th[w])
                           /\ th'[w].made = th[w].made /\ Len(th[w].made) \in Nat
    <3>1. \A w \in Workers : w \in Threads /\ th[w] \in ThreadStates
      BY <1>1 DEF Types, Threads
    <3>2. \A z \in ThreadStates : z.made \in Seq(Slots)
      BY DEF ThreadStates
    <3> QED
      BY <1>17, <3>1, <3>2
  <2>7. meta'[p].avjobs + Cardinality(Telling(p)') <= done'[p]
    BY <1>1, <2>1, <2>3, <2>4 DEF CountsOf
  <2>8. meta'[p].avjobs + Cardinality(Untold(p)') <= Leaves
    BY <2>1, <2>5, JobLifeAssumption DEF CountsOf
  <2>9. info[p].phase = 0 =>
          /\ \A w \in Workers : JobOf(w, th'[w]) = p =>
               meta'[p].avjobs + Cardinality(Untold(p)') <= Len(th'[w].made)
          /\ (\A w \in Workers : JobOf(w, th'[w]) # p) =>
               meta'[p].avjobs + Cardinality(Untold(p)') <= 0
    BY <2>1, <2>5, <2>6 DEF CountsOf
  <2> QED
    BY <1>1, <2>1, <2>7, <2>8, <2>9 DEF CountsOf, Bound
<1>22. Resumes'
  <2> SUFFICES ASSUME NEW p \in Slots, Parent(p) PROVE ResumesOf(p)'
    BY <1>1 DEF Resumes, Parent
  <2>1. ResumesOf(p)
    BY DEF IndInv, Resumes
  <2>2. \A w \in Workers : WaitsAt(th[w]) => th'[w] = th[w]
    BY <1>3, <1>5 DEF Threads
  <2>3. Waits(p) => Waits(p)'
    BY <1>1, <2>2 DEF Waits, Suspended
  <2> QED
    BY <1>1, <1>13, <1>14, <2>1, <2>3 DEF ResumesOf
<1> QED
  BY <1>7, <1>10, <1>12, <1>18, <1>21, <1>22 DEF IndInv

\* What a thread is about to publish.
LEMMA PublishCall ==
  ASSUME IndInv, Families, NEW t \in Threads, th[t].pc = "publish"
  PROVE  /\ Arg(t).kind \in {"leaf", "parent"}
         /\ t = Main =>
              /\ th[t].script \in MainScripts /\ MainFits(th[t])
              /\ th[t].k \in 1 .. Len(th[t].script) /\ Len(th[t].script) \in Int
              /\ th[t].script[th[t].k].op = "create"
         /\ t \in Workers =>
              /\ WorkerFits(th[t]) /\ JobOf(t, th[t]) = th[t].job /\ th[t].job \in Slots
              /\ Parent(th[t].job) /\ info[th[t].job].phase = 0 /\ t # Main
              /\ th[t].k \in 1 .. Leaves /\ Len(th[t].made) = th[t].k - 1
              /\ ~Resting(th[t].job) /\ gen[th[t].job] = th[t].pop_gen
<1> DEFINE x == th[t]
<1>1. Running(x) /\ AtJob(x) /\ AtTarget(x)
  BY DEF Running, AtJob, AtTarget
<1>2. CASE t = Main
  <2>1. /\ MainFits(x) /\ x.script \in MainScripts /\ WellBehaved(x.script)
    BY <1>2 DEF IndInv, Fits, MainFits, Families
  <2>2. /\ x.k \in 1 .. Len(x.script) + 1 /\ x.k <= Len(x.script)
        /\ x.script[x.k].op = "create"
    BY <2>1 DEF MainFits
  <2>3. Len(x.script) \in Int /\ x.k \in 1 .. Len(x.script)
    BY <2>2
  <2>4. Arg(t) = x.script[x.k]
    BY <1>2 DEF Arg, Script
  <2>5. x.script[x.k].kind \in {"leaf", "parent"}
    BY <2>1, <2>2, <2>3 DEF WellBehaved
  <2> QED
    BY <1>2, <2>1, <2>2, <2>3, <2>4, <2>5, JobLifeAssumption
<1>3. CASE t \in Workers
  <2>1. t # Main /\ WorkerFits(x) /\ Leaves \in Nat
    BY <1>3, JobLifeAssumption DEF IndInv, Fits
  <2>2. /\ Parent(x.job) /\ info[x.job].phase = 0
        /\ x.k \in 1 .. 2 * Leaves + 2 /\ x.k <= Leaves
        /\ Len(x.made) = x.k - 1
    BY <1>1, <2>1 DEF WorkerFits
  <2>3. x.k \in 1 .. Leaves
    BY <2>1, <2>2
  <2>4. Arg(t).kind = "leaf"
    <3>1. Arg(t) = ParentScript[x.k]
      BY <2>1, <2>2 DEF Arg, Script, Parent
    <3>2. Arg(t) = Create("leaf")
      BY <2>3, <3>1, ParentCalls
    <3> QED
      BY <3>2 DEF Create
  <2>5. /\ x.job \in Slots /\ JobOf(t, x) = x.job /\ Has(t, x, x.job)
        /\ gen[x.job] = x.pop_gen
    BY <1>1, <1>3, JobOnly
  <2>6. ~Resting(x.job)
    <3>1. x.job # x.tgt
      BY <1>1, <2>5, TargetOnly
    <3> QED
      BY <2>5, <3>1, NotResting
  <2> QED
    BY <1>3, <2>1, <2>2, <2>3, <2>4, <2>5, <2>6
<1> QED
  BY <1>2, <1>3 DEF Threads

\* Thread t has published job s.
Published(t, s) ==
  /\ \A u \in Threads \ {t} : th'[u] = th[u]
  /\ th'[t].pc = "script" /\ th'[t].job = th[t].job /\ th'[t].pop_gen = th[t].pop_gen
  /\ th'[t].k = th[t].k + 1 /\ th'[t].script = th[t].script
  /\ th[t].made \in Seq(Slots) /\ th'[t].made = Append(th[t].made, s)
  /\ meta'[s].flags = {"ALIVE"} \cup Derived /\ meta'[s].avjobs = 0
  /\ info'[s].phase = 0 /\ info'[s].requested = User(t)
  /\ info'[s].requested_gen = (IF User(t) = NoJob THEN 0 ELSE gen[User(t)])
  /\ done'[s] = 0
  /\ \A r \in Slots \ {s} :
       meta'[r] = meta[r] /\ info'[r] = info[r] /\ done'[r] = done[r]
  /\ UNCHANGED <<gen, free, cache, dq>>

\* What schedi_job_create does.
LEMMA PublishShape ==
  ASSUME IndInv, Families, NEW t \in Threads, Publish(t), NEW s \in Slots, s = th[t].tgt
  PROVE  Types' /\ Published(t, s)
<1> DEFINE x == th[t]
           y == [x EXCEPT !.pc = "script", !.k = @ + 1, !.made = Append(@, s)]
           m == WordOf({"ALIVE"} \cup Derived)
           g == IF User(t) = NoJob THEN 0 ELSE gen[User(t)]
           i == [kind |-> Arg(t).kind, phase |-> 0, required |-> 0,
                 requested |-> User(t), requested_gen |-> g,
                 indicator |-> info[s].indicator]
<1>1. /\ Types /\ x \in ThreadStates /\ x.pc = "publish" /\ x.tgt = s
      /\ UNCHANGED <<gen, free, cache, dq>> /\ x.made \in Seq(Slots) /\ x.k \in Nat
  BY DEF IndInv, Types, Publish, At, ThreadStates
<1>2. /\ th' = [th EXCEPT ![t] = y] /\ info' = [info EXCEPT ![s] = i] /\ SetMeta(s, m)
      /\ done' = [done EXCEPT ![s] = 0]
  BY <1>1 DEF Publish, Types
<1>3. /\ y.pc = "script" /\ y.job = x.job /\ y.pop_gen = x.pop_gen /\ y.k = x.k + 1
      /\ y.script = x.script /\ y.made = Append(x.made, s)
  BY <1>1 DEF ThreadStates
<1>4. y \in ThreadStates
  <2>1. Append(x.made, s) \in Seq(Slots) /\ x.k + 1 \in Nat /\ "script" \in Labels
    BY <1>1 DEF Labels
  <2> QED
    BY <1>1, <2>1 DEF ThreadStates
<1>5. i \in Infos
  <2>1. User(t) \in MaybeJob
    BY <1>1 DEF User, ThreadStates, MaybeJob
  <2>2. g \in Nat
    BY <1>1, <2>1 DEF MaybeJob, Types
  <2>3. info[s].indicator \in BOOLEAN
    BY <1>1 DEF Types, Infos
  <2>4. Arg(t).kind \in {"none", "leaf", "parent"}
    BY <1>1, PublishCall
  <2> HIDE DEF g
  <2> QED
    BY <2>1, <2>2, <2>3, <2>4 DEF Infos
<1>6. m \in Word /\ m.flags = {"ALIVE"} \cup Derived /\ m.avjobs = 0
  BY MetaFlagAssumption DEF WordOf, Word, Flag, Derived
<1>7. i.phase = 0 /\ i.requested = User(t) /\ i.requested_gen = g
  OBVIOUS
<1> HIDE DEF y, m, i
<1>8. /\ th' \in [Threads -> ThreadStates] /\ th'[t] = y
      /\ \A u \in Threads \ {t} : th'[u] = th[u]
  BY <1>1, <1>2, <1>4 DEF Types
<1>9. /\ info' \in [Slots -> Infos] /\ info'[s] = i
      /\ \A r \in Slots \ {s} : info'[r] = info[r]
  BY <1>1, <1>2, <1>5 DEF Types
<1>10. /\ done' \in [Slots -> Nat] /\ done'[s] = 0
       /\ \A r \in Slots \ {s} : done'[r] = done[r]
  BY <1>1, <1>2 DEF Types
<1>11. /\ meta' \in [Slots -> Word] /\ meta'[s] = m
       /\ \A r \in Slots \ {s} : meta'[r] = meta[r]
  BY <1>1, <1>2, <1>6, OneWord
<1>12. Types'
  BY <1>1, <1>8, <1>9, <1>10, <1>11 DEF Types
<1> QED
  BY <1>1, <1>3, <1>6, <1>7, <1>8, <1>9, <1>10, <1>11, <1>12 DEF Published

\* The jobs its script has yet to use: those of before, and the new one at
\* the end of the list.
LEMMA PublishPending ==
  ASSUME IndInv, Families, NEW t \in Threads, th[t].pc = "publish", NEW s \in Slots,
         Published(t, s)
  PROVE  /\ Len(th'[t].made) = Len(th[t].made) + 1 /\ Len(th[t].made) \in Nat
         /\ th'[t].made[Len(th[t].made) + 1] = s
         /\ \A i \in 1 .. Len(th[t].made) : th'[t].made[i] = th[t].made[i]
         /\ Pending(t, th'[t]) \subseteq Pending(t, th[t]) \cup {Len(th[t].made) + 1}
         /\ t \in Workers =>
              Pending(t, th'[t]) = Pending(t, th[t]) \cup {Len(th[t].made) + 1}
<1> DEFINE x == th[t]
           y == th'[t]
<1>1. /\ x.made \in Seq(Slots) /\ y.made = Append(x.made, s) /\ y.k = x.k + 1
      /\ y.script = x.script /\ y.pc = "script"
  BY DEF Published
<1> HIDE DEF x, y
<1>2. /\ Len(y.made) = Len(x.made) + 1 /\ Len(x.made) \in Nat
      /\ y.made[Len(x.made) + 1] = s
      /\ \A i \in 1 .. Len(x.made) : y.made[i] = x.made[i]
  BY <1>1
<1>3. CASE t = Main
  <2>1. x.k \in 1 .. Len(x.script) /\ Len(x.script) \in Int
    BY <1>3, PublishCall DEF x
  <2>2. ASSUME NEW i \in Pending(t, y), i # Len(x.made) + 1
        PROVE  i \in Pending(t, x)
    <3>1. PICK k \in x.k + 1 .. Len(x.script) : Uses(x.script, k) /\ x.script[k].i = i
      BY <1>1, <1>3, <2>2 DEF Pending
    <3>2. k \in x.k .. Len(x.script)
      BY <2>1
    <3>3. i \in 1 .. Len(x.made)
      BY <1>2, <2>2, PendingIndex
    <3> QED
      BY <1>3, <3>1, <3>2, <3>3 DEF Pending
  <2> QED
    BY <1>2, <1>3, <2>2, JobLifeAssumption DEF x, y
<1>4. CASE t \in Workers
  <2>1. t # Main /\ x.k \in 1 .. Leaves /\ Len(x.made) = x.k - 1 /\ Leaves \in Nat
    BY <1>4, PublishCall, JobLifeAssumption DEF x
  <2>2. Running(x) /\ Running(y)
    BY <1>1 DEF Running, x
  <2>3. Pending(t, x) = 1 .. Len(x.made)
    BY <2>1, <2>2 DEF Pending
  <2>4. Pending(t, y) = 1 .. Len(x.made) + 1
    BY <1>1, <1>2, <2>1, <2>2 DEF Pending
  <2> QED
    BY <1>2, <2>3, <2>4 DEF x, y
<1> QED
  BY <1>3, <1>4 DEF Threads

\* The new job is in the hands of its creator.
LEMMA PublishHands ==
  ASSUME IndInv, Families, NEW t \in Threads, th[t].pc = "publish", NEW s \in Slots,
         s = th[t].tgt, Published(t, s), Types'
  PROVE  /\ Exclusive' /\ Staged' /\ Fits' /\ TellersFit' /\ SameLife'
         /\ JobOf(t, th'[t]) = JobOf(t, th[t])
<1> DEFINE x == th[t]
<1>1. PICK y : y = th'[t]
  OBVIOUS
<1>2. /\ Running(x) /\ AtJob(x) /\ AtTarget(x) /\ JobStage(x) = "runs"
  BY DEF Running, AtJob, AtTarget, JobStage, Sub
<1>3. /\ y.pc = "script" /\ y.job = x.job /\ y.pop_gen = x.pop_gen /\ y.k = x.k + 1
      /\ y.script = x.script /\ meta'[s].flags = {"ALIVE"} \cup Derived
      /\ \A r \in Slots \ {s} : /\ meta'[r] = meta[r] /\ info'[r] = info[r]
      /\ UNCHANGED <<gen, free, cache, dq>>
      /\ \A u \in Threads \ {t} : th'[u] = th[u]
  BY <1>1 DEF Published
<1>4. /\ Running(y) /\ AtJob(y) /\ ~AtTarget(y) /\ JobStage(y) = "runs" /\ ~Past(y)
      /\ ~TellsNow(y) /\ ~HasTold(y)
  BY <1>3 DEF Running, AtJob, AtTarget, JobStage, Sub, Past, TellsNow, HasTold
<1>5. JobOf(t, y) = JobOf(t, x) /\ TargetOf(y) = NoJob /\ s # NoJob
  BY <1>2, <1>3, <1>4, JobLifeAssumption DEF JobOf, TargetOf
<1>6. /\ Has(t, x, s) /\ ~Outside(s) /\ JobOf(t, x) # s
      /\ \A i \in Pending(t, x) : x.made[i] # s
  BY <1>2, TargetOnly
<1>7. /\ Len(y.made) = Len(x.made) + 1 /\ Len(x.made) \in Nat /\ y.made[Len(x.made) + 1] = s
      /\ \A i \in 1 .. Len(x.made) : y.made[i] = x.made[i]
      /\ Pending(t, y) \subseteq Pending(t, x) \cup {Len(x.made) + 1}
  BY <1>1, PublishPending
<1>8. \A i \in Pending(t, x) : y.made[i] = x.made[i]
  BY <1>7, PendingIndex
<1>9. KeepsHands(t, x, y, s)
  BY <1>2, <1>4, <1>5, <1>7, <1>8 DEF KeepsHands
<1>10. HasOnce(t, y, s)
  BY <1>5, <1>6, <1>7, <1>8 DEF HasOnce
<1>11. "ALIVE" \notin Derived /\ "READYBASIC" \notin Derived /\ Derived \subseteq Flag
       /\ "ALIVE" \in Flag
  BY DEF Derived, Flag
<1>12. HasStaged(t, y, s, meta'[s].flags)
  <2>1. meta'[s].flags \cap Marks = {"ALIVE"}
    BY <1>3, <1>11 DEF Marks
  <2>2. Marked("bare", meta'[s].flags)
    BY <2>1 DEF Marked
  <2> QED
    BY <1>5, <1>6, <2>2 DEF HasStaged
<1>13. Queued' = Queued /\ Cached' = Cached
  BY <1>3 DEF Queued, Cached
<1>14. Moves(t, s)
  BY <1>1, <1>3, <1>9, <1>13 DEF Moves
<1>15. /\ ~Outside(s)' /\ s \notin free' /\ s \notin Cached' /\ s \notin Queued'
       /\ s \notin Suspended'
  BY <1>3, <1>6, <1>11, <1>13 DEF Outside, Suspended
<1>16. OnePlace'
  BY <1>3 DEF IndInv, Exclusive, OnePlace
<1>17. \A r \in Slots \ {s} : SameInfo(r) /\ gen'[r] = gen[r]
  BY <1>3 DEF SameInfo
<1>18. OwnFits(t)'
  <2>1. ASSUME t = Main PROVE MainFits(th[t])'
    <3>1. /\ MainFits(x) /\ x.k \in 1 .. Len(x.script) /\ Len(x.script) \in Int
          /\ x.script[x.k].op = "create"
      BY <2>1, PublishCall
    <3>2. x.k \in Nat \ {0} /\ x.k + 1 \in 1 .. Len(x.script) + 1
      BY <3>1
    <3>3. /\ Created(x.script, x.k) \in Nat
          /\ Created(x.script, x.k + 1) = Created(x.script, x.k) + 1
      BY <3>1, <3>2, CreatedNext
    <3>4. Len(x.made) = Created(x.script, x.k) /\ x.script \in MainScripts
      BY <3>1 DEF MainFits
    <3>5. Len(y.made) = Created(y.script, y.k)
      BY <1>3, <1>7, <3>3, <3>4
    <3>6. MainFits(y)
      BY <1>3, <3>2, <3>4, <3>5 DEF MainFits
    <3> QED
      BY <1>1, <3>6 DEF MainFits
  <2>2. ASSUME t \in Workers
        PROVE  /\ WorkerFits(th[t])' /\ TellerFits(th[t])' /\ gen[x.job] = x.pop_gen
    <3>1. /\ WorkerFits(x) /\ Parent(x.job) /\ info[x.job].phase = 0 /\ x.k \in 1 .. Leaves
          /\ Len(x.made) = x.k - 1 /\ JobOf(t, x) = x.job /\ x.job \in Slots
          /\ gen[x.job] = x.pop_gen /\ Leaves \in Nat
      BY <2>2, PublishCall, JobLifeAssumption
    <3>2. info'[x.job] = info[x.job]
      BY <1>3, <1>6, <3>1
    <3>3. /\ y.k \in 1 .. 2 * Leaves + 2
          /\ Len(y.made) = IF y.k <= Leaves THEN y.k - 1 ELSE Leaves
          /\ ~(y.k >= Leaves + 2)
      <4>1. PICK k \in 1 .. Leaves : k = x.k
        BY <3>1
      <4>2. y.k = k + 1
        BY <1>3, <4>1
      <4>3. Len(y.made) = k
        <5>1. Len(x.made) = k - 1 /\ k \in Int
          BY <3>1, <4>1
        <5> QED
          BY <1>7, <5>1
      <4>4. Leaves \in Nat
        BY <3>1
      <4> QED
        BY <4>2, <4>3, <4>4
    <3>4. x.job # NoJob
      BY <3>1, JobLifeAssumption
    <3>5. WorkerFits(th[t])'
      BY <1>1, <1>3, <1>4, <3>1, <3>2, <3>3, <3>4 DEF WorkerFits, Parent, Sub
    <3>6. TellerFits(th[t])'
      BY <1>1, <1>3, <1>4 DEF TellerFits, Sub
    <3> QED
      BY <3>1, <3>5, <3>6
  <2> QED
    BY <1>1, <1>3, <1>4, <2>1, <2>2 DEF OwnFits
<1>19. gen'[s] = gen[s]
  BY <1>3
<1>20. Exclusive' /\ Staged' /\ Fits' /\ TellersFit' /\ SameLife'
  BY <1>1, <1>6, <1>10, <1>12, <1>14, <1>15, <1>16, <1>17, <1>18, <1>19, MoveKeeps
<1> QED
  BY <1>1, <1>5, <1>20

\* It has no leaves, and is a new leaf of its creator, if that is a job.
LEMMA PublishLeaves ==
  ASSUME IndInv, Families, NEW t \in Threads, th[t].pc = "publish", NEW s \in Slots,
         s = th[t].tgt, Published(t, s), Types'
  PROVE  /\ \A r \in Slots : ~LeafOf(r, s)'
         /\ \A r, p \in Slots : LeafOf(r, p)' => LeafOf(r, p) \/ (r = s /\ p = User(t))
         /\ \A p \in Slots : /\ Telling(p)' \subseteq Telling(p)
                             /\ Untold(p)' \subseteq Untold(p) \cup {s}
                             /\ p # User(t) => Untold(p)' \subseteq Untold(p)
         /\ Untold(s)' = {} /\ Telling(s)' = {}
         /\ \A p \in Slots \ {s} : Resting(p)' <=> Resting(p)
         /\ User(t) # s
<1> DEFINE x == th[t]
<1>1. PICK y : y = th'[t]
  OBVIOUS
<1>2. /\ y.pc = "script" /\ y.job = x.job /\ info'[s].requested = User(t)
      /\ \A r \in Slots \ {s} : /\ meta'[r] = meta[r] /\ info'[r] = info[r]
      /\ gen' = gen /\ free' = free
      /\ \A u \in Threads \ {t} : th'[u] = th[u]
  BY <1>1 DEF Published
<1>3. /\ AtTarget(x) /\ RestsAt(x) /\ ~HasTold(x) /\ ~TellsNow(y) /\ ~RestsAt(y)
  BY <1>2 DEF AtTarget, RestsAt, HasTold, TellsNow
<1>4. Has(t, x, s) /\ JobOf(t, x) # s /\ s # NoJob
  BY <1>3, TargetOnly, JobLifeAssumption
<1>5. User(t) # s
  <2>1. t \in Workers => JobOf(t, x) = x.job
    BY PublishCall
  <2> QED
    BY <1>4, <2>1 DEF User, Threads
<1>6. Resting(s)
  BY <1>3 DEF Resting
<1>7. ASSUME NEW r \in Slots \ {s}, NEW p \in Slots, LeafOf(r, p)'
      PROVE  LeafOf(r, p)
  BY <1>2, <1>7 DEF LeafOf
<1>8. ASSUME NEW r \in Slots, LeafOf(r, s)' PROVE FALSE
  <2>1. r # s
    BY <1>2, <1>5, <1>8 DEF LeafOf
  <2>2. LeafOf(r, s)
    BY <1>7, <1>8, <2>1
  <2>3. info[r].requested = s
    BY <2>2 DEF LeafOf
  <2>4. LeafOf(r, info[r].requested) => ~Resting(info[r].requested)
    BY <1>4, <2>3 DEF IndInv, LeavesFit
  <2> QED
    BY <1>6, <2>2, <2>3, <2>4
<1>9. ASSUME NEW r \in Slots, NEW p \in Slots, LeafOf(r, p)'
      PROVE  LeafOf(r, p) \/ (r = s /\ p = User(t))
  <2>1. r = s => p = User(t)
    BY <1>2, <1>9 DEF LeafOf
  <2> QED
    BY <1>7, <1>9, <2>1
<1>10. ASSUME NEW r \in Slots, Told(r) PROVE Told(r)'
  <2>1. PICK u \in Threads : th[u].job = r /\ HasTold(th[u])
    BY <1>10 DEF Told
  <2>2. th'[u] = th[u]
    BY <1>2, <1>3, <2>1
  <2> QED
    BY <2>1, <2>2 DEF Told
<1>11. ASSUME NEW p \in Slots
       PROVE  /\ Untold(p)' \subseteq Untold(p) \cup {s}
              /\ p # User(t) => Untold(p)' \subseteq Untold(p)
  <2>1. ASSUME NEW r \in Untold(p)', r # s \/ p # User(t) PROVE r \in Untold(p)
    <3>1. r \in Slots /\ LeafOf(r, p)' /\ ~Told(r)'
      BY <2>1 DEF Untold
    <3>2. LeafOf(r, p) /\ ~Told(r)
      BY <1>9, <1>10, <2>1, <3>1
    <3> QED
      BY <3>1, <3>2 DEF Untold
  <2> QED
    BY <2>1
<1>12. ASSUME NEW p \in Slots PROVE Telling(p)' \subseteq Telling(p)
  <2> SUFFICES ASSUME NEW r \in Telling(p)' PROVE r \in Telling(p)
    OBVIOUS
  <2>1. r \in Slots /\ LeafOf(r, p)'
    BY DEF Telling
  <2>2. PICK w \in Workers : th'[w].job = r /\ TellsNow(th'[w])
    BY DEF Telling
  <2>3. w # t /\ w \in Threads
    BY <1>1, <1>3, <2>2 DEF Threads
  <2>4. th[w].job = r /\ TellsNow(th[w])
    BY <1>2, <2>2, <2>3
  <2>5. r # s
    BY <1>4, <2>3, <2>4, TellerHas
  <2>6. LeafOf(r, p)
    BY <1>7, <2>1, <2>5
  <2> QED
    BY <2>1, <2>4, <2>6 DEF Telling
<1>13. Untold(s)' = {} /\ Telling(s)' = {}
  BY <1>8 DEF Untold, Telling
<1>14. ASSUME NEW p \in Slots \ {s} PROVE Resting(p)' <=> Resting(p)
  BY <1>1, <1>2, <1>3 DEF Resting
<1> QED
  BY <1>5, <1>8, <1>9, <1>11, <1>12, <1>13, <1>14

\* The counts of a parent that a thread has added a leaf to, or none.
LEMMA PublishCounts ==
  ASSUME IndInv, Families, NEW t \in Threads, th[t].pc = "publish", NEW s \in Slots,
         s = th[t].tgt, Published(t, s), Types', NEW p \in Slots, p # s, Parent(p),
         JobOf(t, th'[t]) = JobOf(t, th[t])
  PROVE  CountsOf(p)'
<1> DEFINE x == th[t]
           a == meta[p].avjobs
           U == Cardinality(Untold(p))
           UU == Cardinality(Untold(p)')
           T == Cardinality(Telling(p))
           TT == Cardinality(Telling(p)')
<1>1. /\ meta'[p] = meta[p] /\ info'[p] = info[p] /\ done'[p] = done[p]
      /\ \A u \in Threads \ {t} : th'[u] = th[u]
  BY DEF Published
<1>2. /\ Telling(p)' \subseteq Telling(p) /\ Untold(p)' \subseteq Untold(p) \cup {s}
      /\ p # User(t) => Untold(p)' \subseteq Untold(p)
  BY PublishLeaves
<1>3. /\ IsFiniteSet(Untold(p)) /\ U \in Nat /\ IsFiniteSet(Telling(p)) /\ T \in Nat
      /\ IsFiniteSet(Slots)
  BY FiniteLeaves DEF Families
<1>4. UU \in Nat /\ TT \in Nat /\ TT <= T /\ (p # User(t) => UU <= U)
  <2>1. Untold(p) \subseteq Slots /\ Telling(p) \subseteq Slots
        /\ Untold(p)' \subseteq Slots
    BY DEF Untold, Telling
  <2> QED
    BY <1>2, <1>3, <2>1, FewerLeaves
<1>5. UU <= U + 1
  <2>1. Untold(p) \cup {s} \subseteq Slots
    BY DEF Untold
  <2>2. /\ UU <= Cardinality(Untold(p) \cup {s}) /\ Cardinality(Untold(p) \cup {s}) \in Nat
    BY <1>2, <1>3, <2>1, FewerLeaves
  <2>3. Cardinality(Untold(p) \cup {s}) \in {U, U + 1}
    BY <1>3, FS_AddElement
  <2> QED
    BY <1>3, <1>4, <2>2, <2>3
<1>6. a \in Nat /\ done[p] \in Nat /\ Leaves \in Nat
  <2>1. meta[p] \in Word /\ done[p] \in Nat
    BY DEF IndInv, Types
  <2> QED
    BY <2>1, CasOutcome, JobLifeAssumption
<1>7. /\ info[p].phase \in {0, 1} /\ a + U <= Leaves /\ a + T <= done[p]
      /\ info[p].phase = 0 =>
           /\ \A w \in Workers : JobOf(w, th[w]) = p => a + U <= Len(th[w].made)
           /\ (\A w \in Workers : JobOf(w, th[w]) # p) => a + U <= 0
  BY DEF IndInv, Counts, CountsOf, Bound
<1>8. \A w \in Workers : JobOf(w, th'[w]) = JobOf(w, th[w])
  BY <1>1 DEF Threads
<1> HIDE DEF a, U, UU, T, TT
<1>9. a + TT <= done[p]
  BY <1>3, <1>4, <1>6, <1>7
<1>10. CASE p = User(t)
  <2>1. /\ t \in Workers /\ JobOf(t, x) = p /\ x.k \in 1 .. Leaves
        /\ Len(x.made) = x.k - 1 /\ info[p].phase = 0
    <3>1. t \in Workers
      BY <1>10, JobLifeAssumption DEF User, Threads
    <3> QED
      BY <1>10, <3>1, PublishCall DEF User
  <2>2. a + U <= Len(x.made)
    BY <1>7, <2>1
  <2>3. Len(th'[t].made) = Len(x.made) + 1 /\ Len(x.made) \in Nat
    BY PublishPending
  <2>4. a + UU <= Len(th'[t].made) /\ a + UU <= Leaves
    BY <1>3, <1>4, <1>5, <1>6, <2>1, <2>2, <2>3, SMTT(30)
  <2>5. \A w \in Workers : JobOf(w, th[w]) = p => w = t
    <3>1. \A w \in Workers : JobOf(w, th[w]) = p => Has(w, th[w], p) /\ w \in Threads
      BY DEF Has, Threads
    <3> QED
      BY <2>1, <3>1, OneHolder
  <2>6. /\ \A w \in Workers : JobOf(w, th'[w]) = p => a + UU <= Len(th'[w].made)
        /\ ~(\A w \in Workers : JobOf(w, th'[w]) # p)
    BY <1>8, <2>1, <2>4, <2>5
  <2> QED
    BY <1>1, <1>7, <1>9, <2>4, <2>6 DEF CountsOf, Bound, a, UU, TT
<1>11. CASE p # User(t)
  <2>1. \A n \in Nat : a + U <= n => a + UU <= n
    BY <1>3, <1>4, <1>6, <1>11
  <2>2. ASSUME info[p].phase = 0, NEW w \in Workers, JobOf(w, th'[w]) = p
        PROVE  a + UU <= Len(th'[w].made)
    <3>1. w # t
      <4>1. t \in Workers => JobOf(t, x) = User(t)
        BY PublishCall DEF User
      <4> QED
        BY <1>8, <1>11, <2>2, <4>1
    <3>2. w \in Threads /\ th'[w] = th[w]
      BY <1>1, <3>1 DEF Threads
    <3>3. Len(th[w].made) \in Nat
      <4>1. th[w] \in ThreadStates
        BY <3>2 DEF IndInv, Types
      <4>2. th[w].made \in Seq(Slots)
        BY <4>1 DEF ThreadStates
      <4> QED
        BY <4>2
    <3> QED
      BY <1>7, <2>1, <2>2, <3>2, <3>3
  <2>3. info[p].phase = 0 /\ (\A w \in Workers : JobOf(w, th'[w]) # p) => a + UU <= 0
    BY <1>7, <1>8, <2>1
  <2>4. a + UU <= Leaves
    BY <1>6, <1>7, <2>1
  <2> QED
    BY <1>1, <1>7, <1>9, <2>2, <2>3, <2>4 DEF CountsOf, Bound, a, UU, TT
<1> QED
  BY <1>10, <1>11

\* schedi_job_create publishes the new job.
LEMMA PublishInv ==
  ASSUME IndInv, Families, NEW t \in Threads, Publish(t)
  PROVE  IndInv'
<1> DEFINE x == th[t]
<1>1. x.pc = "publish" /\ AtTarget(x)
  BY DEF Publish, At, AtTarget
<1>2. PICK s \in Slots : s = x.tgt
  BY <1>1, TargetOnly
<1>3. Types' /\ Published(t, s)
  BY <1>2, PublishShape
<1>4. /\ Exclusive' /\ Staged' /\ Fits' /\ TellersFit' /\ SameLife'
      /\ JobOf(t, th'[t]) = JobOf(t, x)
  BY <1>1, <1>2, <1>3, PublishHands
<1>5. /\ \A r \in Slots : ~LeafOf(r, s)'
      /\ \A r, p \in Slots : LeafOf(r, p)' => LeafOf(r, p) \/ (r = s /\ p = User(t))
      /\ Untold(s)' = {} /\ Telling(s)' = {} /\ User(t) # s
      /\ \A p \in Slots \ {s} : Resting(p)' <=> Resting(p)
  BY <1>1, <1>2, <1>3, PublishLeaves
<1>6. /\ meta'[s].flags = {"ALIVE"} \cup Derived /\ meta'[s].avjobs = 0
      /\ info'[s].phase = 0 /\ info'[s].requested = User(t) /\ done'[s] = 0
      /\ info'[s].requested_gen = (IF User(t) = NoJob THEN 0 ELSE gen[User(t)])
      /\ \A r \in Slots \ {s} : meta'[r] = meta[r] /\ info'[r] = info[r]
      /\ gen' = gen /\ \A u \in Threads \ {t} : th'[u] = th[u]
      /\ th'[t].pc = "script"
  BY <1>3 DEF Published
<1>7. /\ Len(th'[t].made) = Len(x.made) + 1 /\ Len(x.made) \in Nat
      /\ th'[t].made[Len(x.made) + 1] = s
      /\ \A i \in 1 .. Len(x.made) : th'[t].made[i] = x.made[i]
      /\ t \in Workers => Pending(t, th'[t]) = Pending(t, x) \cup {Len(x.made) + 1}
  BY <1>1, <1>3, PublishPending
<1>8. LeavesFit'
  <2> SUFFICES ASSUME NEW r \in Slots, NEW p \in Slots, info'[r].requested = p
               PROVE  /\ info'[r].requested_gen <= gen'[p]
                      /\ LeafOf(r, p)' =>
                           /\ Parent(p)' /\ ~Resting(p)'
                           /\ \/ info'[p].required = Required
                              \/ \E w \in Workers :
                                   /\ JobOf(w, th'[w]) = p
                                   /\ \E i \in Pending(w, th'[w]) : th'[w].made[i] = r
    <3>1. \A r \in Slots : info'[r].requested \in MaybeJob
      BY <1>3 DEF Types, Infos
    <3> QED
      BY <3>1 DEF LeavesFit, MaybeJob
  <2>1. p # NoJob /\ gen[p] \in Nat
    BY JobLifeAssumption DEF IndInv, Types
  <2>2. CASE r = s
    <3>1. p = User(t) /\ t \in Workers /\ p = x.job /\ p # s
      BY <1>5, <1>6, <2>1, <2>2 DEF User, Threads
    <3>2. /\ JobOf(t, x) = p /\ Parent(p) /\ ~Resting(p)
      BY <1>1, <3>1, PublishCall
    <3>3. Parent(p)' /\ ~Resting(p)'
      BY <1>5, <1>6, <3>1, <3>2 DEF Parent
    <3>4. JobOf(t, th'[t]) = p /\ \E i \in Pending(t, th'[t]) : th'[t].made[i] = r
      BY <1>4, <1>7, <2>2, <3>1, <3>2
    <3>5. info'[r].requested_gen <= gen'[p]
      BY <1>6, <2>1, <2>2, <3>1
    <3> QED
      BY <3>1, <3>3, <3>4, <3>5
  <2>3. CASE r # s
    <3>1. info'[r] = info[r] /\ p = info[r].requested
      BY <1>6, <2>3
    <3>2. /\ info[r].requested_gen <= gen[p]
          /\ LeafOf(r, p) =>
               /\ Parent(p) /\ ~Resting(p)
               /\ \/ info[p].required = Required
                  \/ \E w \in Workers : /\ JobOf(w, th[w]) = p
                                        /\ \E i \in Pending(w, th[w]) : th[w].made[i] = r
      BY <2>1, <3>1 DEF IndInv, LeavesFit
    <3>3. ASSUME LeafOf(r, p)'
          PROVE  /\ Parent(p)' /\ ~Resting(p)'
                 /\ \/ info'[p].required = Required
                    \/ \E w \in Workers : /\ JobOf(w, th'[w]) = p
                                          /\ \E i \in Pending(w, th'[w]) : th'[w].made[i] = r
      <4>1. LeafOf(r, p) /\ p # s
        BY <1>5, <2>3, <3>3
      <4>2. Parent(p)' /\ ~Resting(p)' /\ info'[p] = info[p]
        BY <1>5, <1>6, <3>2, <4>1 DEF Parent
      <4>3. ASSUME NEW w \in Workers, JobOf(w, th[w]) = p,
                   NEW i \in Pending(w, th[w]), th[w].made[i] = r
            PROVE  /\ JobOf(w, th'[w]) = p
                   /\ i \in Pending(w, th'[w]) /\ th'[w].made[i] = r
        <5>1. CASE w = t
          <6>1. i \in 1 .. Len(x.made)
            BY <4>3, <5>1, PendingIndex
          <6> QED
            BY <1>4, <1>7, <4>3, <5>1, <6>1
        <5>2. CASE w # t
          BY <1>6, <4>3, <5>2 DEF Threads
        <5> QED
          BY <5>1, <5>2
      <4> QED
        BY <3>2, <4>1, <4>2, <4>3
    <3> QED
      BY <1>6, <3>1, <3>2, <3>3
  <2> QED
    BY <2>2, <2>3
<1>9. Counts'
  <2> SUFFICES ASSUME NEW p \in Slots, Parent(p)' PROVE CountsOf(p)'
    BY DEF Counts
  <2>1. CASE p = s
    <3>1. Cardinality(Untold(p)') = 0 /\ Cardinality(Telling(p)') = 0
      BY <1>5, <2>1, FS_EmptySet
    <3>2. meta'[p].avjobs + Cardinality(Untold(p)') = 0
          /\ meta'[p].avjobs + Cardinality(Telling(p)') = 0
      BY <1>6, <2>1, <3>1
    <3>3. \A w \in Workers : Len(th'[w].made) \in Nat
      <4>1. \A w \in Workers : th'[w] \in ThreadStates
        BY <1>3 DEF Types, Threads
      <4>2. \A z \in ThreadStates : z.made \in Seq(Slots)
        BY DEF ThreadStates
      <4> QED
        BY <4>1, <4>2
    <3>4. \A n \in Nat : 0 <= n
      OBVIOUS
    <3>5. Leaves \in Nat /\ 0 \in Nat
      BY JobLifeAssumption
    <3> QED
      BY <1>6, <2>1, <3>2, <3>3, <3>4, <3>5 DEF CountsOf, Bound
  <2>2. CASE p # s
    <3>1. Parent(p)
      BY <1>6, <2>2 DEF Parent
    <3> QED
      BY <1>1, <1>2, <1>3, <1>4, <2>2, <3>1, PublishCounts
  <2> QED
    BY <2>1, <2>2
<1>10. Resumes'
  <2> SUFFICES ASSUME NEW p \in Slots, Parent(p)' PROVE ResumesOf(p)'
    BY DEF Resumes
  <2>1. CASE p = s
    <3>1. info'[p].phase = 0 /\ "READYBASIC" \notin meta'[p].flags
      BY <1>6, <2>1 DEF Derived
    <3> QED
      BY <3>1 DEF ResumesOf
  <2>2. CASE p # s
    <3>1. /\ info'[p] = info[p] /\ meta'[p] = meta[p] /\ Parent(p)
          /\ Resting(p)' <=> Resting(p)
      BY <1>5, <1>6, <2>2 DEF Parent
    <3>2. \A w \in Workers : WaitsAt(th[w]) => th'[w] = th[w]
      BY <1>1, <1>6 DEF WaitsAt, Threads
    <3>3. Waits(p) => Waits(p)'
      BY <3>1, <3>2 DEF Waits, Suspended
    <3>4. ResumesOf(p)
      BY <3>1 DEF IndInv, Resumes
    <3> QED
      BY <3>1, <3>3, <3>4 DEF ResumesOf
  <2> QED
    BY <2>1, <2>2
<1> QED
  BY <1>3, <1>4, <1>8, <1>9, <1>10 DEF IndInv

-----------------------------------------------------------------------------
(* The invariant. *)

\* It holds at first.
LEMMA InitInv ==
  ASSUME Init, Families
  PROVE  IndInv
<1>1. PICK script \in MainScripts :
        th = [t \in Threads |->
                IF t = Main THEN [Idle EXCEPT !.pc = "script", !.script = script] ELSE Idle]
  BY DEF Init
<1> DEFINE z == [Idle EXCEPT !.pc = "script", !.script = script]
<1>2. /\ \A s \in Slots : /\ meta[s] = WordOf({}) /\ gen[s] = 0 /\ info[s] = NoInfo
                          /\ cache[s] = 0 /\ done[s] = 0
      /\ free = Slots /\ dq = <<>>
  BY DEF Init
<1>3. /\ Idle.pc = "loop" /\ Idle.made = <<>> /\ z.pc = "script" /\ z.made = <<>> /\ z.k = 1
      /\ z.script = script /\ Len(Idle.made) = 0
  BY DEF Idle
<1>4. Idle \in ThreadStates /\ z \in ThreadStates
  <2>1. Idle \in ThreadStates
    <3>1. <<>> \in Seq(Slots)
      OBVIOUS
    <3> QED
      BY <3>1 DEF Idle, ThreadStates, Labels, MaybeJob
  <2>2. "script" \in Labels /\ script \in MainScripts \cup {<<>>}
    BY DEF Labels
  <2> QED
    BY <2>1, <2>2 DEF ThreadStates
<1> HIDE DEF z
<1>5. /\ \A t \in Threads : th[t] = IF t = Main THEN z ELSE Idle
      /\ th[Main] = z /\ \A w \in Workers : th[w] = Idle
  BY <1>1, JobLifeAssumption DEF Threads, z
<1>6. Types
  <2>1. WordOf({}) \in Word
    BY MetaFlagAssumption DEF WordOf, Word
  <2>2. NoInfo \in Infos
    BY DEF NoInfo, Infos, MaybeJob
  <2>3. th \in [Threads -> ThreadStates]
    BY <1>1, <1>4 DEF z
  <2> QED
    BY <2>1, <2>2, <2>3 DEF Types, Init
<1>7. ASSUME NEW t \in Threads, NEW f \in Fields PROVE Held(t, th[t], f) = NoJob
  <2>1. /\ ~AtJob(Idle) /\ ~AtTarget(Idle) /\ ~AtTarget(z) /\ Idle.pc # "wlldestroy"
        /\ z.pc # "wlldestroy"
    BY <1>3 DEF AtJob, AtTarget, Running, Sub
  <2>2. JobOf(t, th[t]) = NoJob /\ TargetOf(th[t]) = NoJob
    <3>1. CASE t = Main
      BY <1>5, <2>1, <3>1 DEF JobOf, TargetOf
    <3>2. CASE t # Main
      BY <1>5, <2>1, <3>2 DEF JobOf, TargetOf
    <3> QED
      BY <3>1, <3>2
  <2>3. Pending(t, th[t]) = {}
    BY <1>3, <1>5 DEF Pending
  <2> QED
    BY <2>2, <2>3 DEF Held
<1>8. Cached = {} /\ Queued = {} /\ Suspended = {}
  BY <1>2 DEF Cached, Queued, Suspended, WordOf
<1>9. Exclusive
  <2>1. HandsApart
    BY <1>7 DEF HandsApart
  <2>2. HandsOutside
    BY <1>2, <1>7, <1>8, JobLifeAssumption DEF HandsOutside
  <2>3. PlacesApart
    BY <1>8 DEF PlacesApart
  <2>4. OnePlace
    BY <1>2 DEF OnePlace
  <2> QED
    BY <2>1, <2>2, <2>3, <2>4 DEF Exclusive
<1>10. Staged
  BY <1>7, <1>8 DEF Staged
<1>11. SameLife
  BY <1>3, <1>5, JobLifeAssumption DEF SameLife, JobOf, AtJob, Running, Sub
<1>12. Fits
  <2>1. MainFits(z)
    <3>1. Len(script) \in Nat
      BY DEF Families, WellBehaved
    <3>2. Created(script, 1) = 0
      <4>1. {l \in 1 .. 1 - 1 : script[l].op = "create"} = {}
        OBVIOUS
      <4> QED
        BY <4>1, FS_EmptySet DEF Created
    <3>3. 1 \in 1 .. Len(script) + 1
      BY <3>1
    <3> QED
      BY <1>3, <3>2, <3>3 DEF MainFits
  <2>2. WorkerFits(Idle)
    BY <1>3 DEF WorkerFits, AtJob, Running, Past, Sub
  <2>3. ~AtTarget(Idle) /\ ~AtTarget(z)
    BY <1>3 DEF AtTarget
  <2> QED
    BY <1>5, <2>1, <2>2, <2>3 DEF Fits
<1>13. LeavesFit
  BY <1>2 DEF LeavesFit, NoInfo
<1>14. TellersFit
  BY <1>3, <1>5 DEF TellersFit, TellerFits, TellsNow, HasTold, Sub
<1>15. Counts /\ Resumes
  BY <1>2 DEF Counts, Resumes, Parent, NoInfo
<1> QED
  BY <1>6, <1>9, <1>10, <1>11, <1>12, <1>13, <1>14, <1>15 DEF IndInv

\* A step of a call into the library keeps it.
LEMMA LibraryInv ==
  ASSUME IndInv, Families, NEW t \in Threads, LibraryCall(t)
  PROVE  IndInv'
<1>1. CASE Claim(t)
  BY <1>1, ClaimInv
<1>2. CASE Publish(t)
  BY <1>2, PublishInv
<1>3. CASE SetIndicator(t)
  BY <1>3, SetIndicatorInv
<1>4. CASE CallSetReady(t)
  BY <1>4, CallSetReadyInv
<1>5. CASE SetReady(t)
  BY <1>5, SetReadyInv
<1>6. CASE CachePush(t)
  BY <1>6, CachePushInv
<1>7. CASE CallRequire(t)
  BY <1>7, CallRequireInv
<1>8. CASE CasRead(t)
  BY <1>8, CasReadInv
<1>9. CASE Cas(t)
  BY <1>9, CasInv
<1>10. CASE CallDestroy(t)
  BY <1>10, CallDestroyInv
<1>11. CASE MarkWllDestroy(t)
  BY <1>11, MarkWllDestroyInv
<1>12. CASE DestroyNow(t)
  <2>1. CASE UnstableBan(meta[th[t].tgt]) = {}
    BY <1>12, <2>1, DestroyQueuesInv
  <2>2. CASE UnstableBan(meta[th[t].tgt]) # {}
    BY <1>12, <2>2, DestroyTearsInv
  <2> QED
    BY <2>1, <2>2
<1>13. CASE Teardown(t)
  BY <1>13, TeardownInv
<1>14. CASE ClearMeta(t)
  BY <1>14, ClearMetaInv
<1>15. CASE Release(t)
  BY <1>15, ReleaseInv
<1> QED
  BY <1>1, <1>2, <1>3, <1>4, <1>5, <1>6, <1>7, <1>8, <1>9, <1>10, <1>11, <1>12, <1>13,
     <1>14, <1>15 DEF LibraryCall

\* So does a step of a worker.
LEMMA WorkerInv ==
  ASSUME IndInv, Families, NEW w \in Workers, WorkerStep(w)
  PROVE  IndInv'
<1>1. CASE Pop(w)
  BY <1>1, PopInv
<1>2. CASE PickAccess(w)
  <2>1. AccessBan(meta[th[w].job]) \in {{}, {"ACCESS"}}
    BY <1>2, PickAccessBan
  <2>2. CASE AccessBan(meta[th[w].job]) = {}
    BY <1>2, <2>2, PickedInv
  <2>3. CASE AccessBan(meta[th[w].job]) = {"ACCESS"}
    BY <1>2, <2>3, PickRefusedInv
  <2> QED
    BY <2>1, <2>2, <2>3
<1>3. CASE UnmarkReady(w)
  BY <1>3, UnmarkReadyInv
<1>4. CASE UnmarkReadyBasic(w)
  BY <1>4, UnmarkReadyBasicInv
<1>5. CASE MarkExecuting(w)
  BY <1>5, MarkExecutingInv
<1>6. CASE UnmarkAccess(w)
  BY <1>6, UnmarkAccessInv
<1>7. CASE Return(w)
  BY <1>7, ReturnInv
<1>8. CASE RunAgain(w)
  BY <1>8, RunAgainInv
<1>9. CASE Finish(w)
  BY <1>9, FinishInv
<1>10. CASE TellAccess(w)
  BY <1>10, TellAccessInv
<1>11. CASE TellCompare(w)
  BY <1>11, TellCompareInv
<1>12. CASE TellDone(w)
  BY <1>12, TellDoneInv
<1>13. CASE QueueCheck(w)
  BY <1>13, EnterQueueInv DEF QueueCheck, At
<1>14. CASE QueuePop(w)
  <2>1. CASE th[w].n = 0 \/ dq = <<>>
    BY <1>14, <2>1, QueueEmptyInv
  <2>2. CASE th[w].n # 0 /\ dq # <<>>
    BY <1>14, <2>2, QueueTakeInv
  <2> QED
    BY <2>1, <2>2
<1> QED
  BY <1>1, <1>2, <1>3, <1>4, <1>5, <1>6, <1>7, <1>8, <1>9, <1>10, <1>11, <1>12, <1>13,
     <1>14 DEF WorkerStep

\* And every other step.
LEMMA NextInv ==
  ASSUME IndInv, Families, [Next]_vars
  PROVE  IndInv'
<1>1. CASE \E t \in Threads : LibraryCall(t)
  BY <1>1, LibraryInv
<1>2. CASE \E w \in Workers : WorkerStep(w)
  BY <1>2, WorkerInv
<1>3. CASE \E w \in Workers : IdleCheck(w)
  BY <1>3, EnterQueueInv DEF IdleCheck, At
<1>4. CASE MainEnds
  BY <1>4, MainEndsInv
<1>5. CASE UNCHANGED vars
  BY <1>5, StutterInv
<1> QED
  BY <1>1, <1>2, <1>3, <1>4, <1>5 DEF Next, Terminated

-----------------------------------------------------------------------------
(* What the invariant means. *)

\* The destroy queue names a slot at most once.
LEMMA TypeFact ==
  ASSUME IndInv, Families
  PROVE  TypeOK
<1>1. Types /\ dq \in Seq(Slots) /\ Len(dq) \in Nat /\ IsFiniteSet(Slots)
  BY DEF IndInv, Types, Families
<1>2. dq \in [1 .. Len(dq) -> Slots] /\ \A k, l \in 1 .. Len(dq) : dq[k] = dq[l] => k = l
  BY <1>1 DEF IndInv, Exclusive, OnePlace
<1>3. dq \in Injection(1 .. Len(dq), Slots)
  BY <1>2 DEF Injection, IsInjective
<1>4. Cardinality(1 .. Len(dq)) <= Cardinality(Slots)
  BY <1>1, <1>3, FS_Injection
<1>5. Cardinality(1 .. Len(dq)) = Len(dq)
  BY <1>1, FS_Interval, SMTT(30)
<1>6. \A t \in Threads : th[t].pc \in Labels
  BY <1>1 DEF Types, ThreadStates
<1> QED
  BY <1>1, <1>4, <1>5, <1>6 DEF TypeOK, Types

\* A slot that is torn down is in the hands of one thread.
LEMMA TornDownFact ==
  ASSUME IndInv
  PROVE  TornDownOnce
<1> SUFFICES ASSUME NEW t \in Threads, NEW s \in Slots, TearsDown(t, s)
             PROVE  s \notin free /\ \A u \in Threads \ {t} : ~TearsDown(u, s)
  BY DEF TornDownOnce
<1>1. ASSUME NEW u \in Threads, TearsDown(u, s)
      PROVE  Has(u, th[u], s) /\ ~Outside(s)
  <2>1. AtTarget(th[u]) /\ th[u].tgt = s
    BY <1>1 DEF TearsDown, AtTarget
  <2> QED
    BY <2>1, TargetOnly
<1> QED
  BY <1>1, OneHolder DEF Outside

\* A worker that picks, runs or tells about a job has it in its hands.
LEMMA RunsLiveFact ==
  ASSUME IndInv
  PROVE  RunsLiveJob
<1> SUFFICES ASSUME NEW w \in Workers,
                    th[w].pc = "access" \/ Holds(w, th[w].job) \/ Runs(w, th[w].job)
             PROVE  th[w].job \notin free /\ gen[th[w].job] = th[w].pop_gen
  BY DEF RunsLiveJob
<1>1. AtJob(th[w])
  BY DEF Holds, Runs, InSubroutine, AtJob, Running, Sub
<1> QED
  BY <1>1, JobOnly DEF Outside

\* The marks of a job that was picked.
LEMMA RunnableFact ==
  ASSUME IndInv
  PROVE  PickedJobIsRunnable
<1> SUFFICES ASSUME NEW w \in Workers
             PROVE  /\ At(w, "access") =>
                         meta[th[w].job].flags \cap {"UNSTABLE", "WLLDESTROY"} = {}
                    /\ At(w, "execute") =>
                         meta[th[w].job].flags \cap {"UNSTABLE", "EXECUTING"} = {}
  BY DEF PickedJobIsRunnable
<1>1. {"ALIVE", "READY", "READYBASIC", "UNSTABLE", "WLLDESTROY", "EXECUTING"} \subseteq Marks
  BY DEF Marks, Flag, Derived
<1>2. ASSUME At(w, "access")
      PROVE  meta[th[w].job].flags \cap {"UNSTABLE", "WLLDESTROY"} = {}
  <2>1. AtJob(th[w]) /\ JobStage(th[w]) = "ready"
    BY <1>2 DEF At, AtJob, JobStage
  <2>2. Marked("ready", meta[th[w].job].flags)
    BY <2>1, JobOnly
  <2> QED
    BY <1>1, <2>2 DEF Marked
<1>3. ASSUME At(w, "execute")
      PROVE  meta[th[w].job].flags \cap {"UNSTABLE", "EXECUTING"} = {}
  <2>1. AtJob(th[w]) /\ JobStage(th[w]) = "bare"
    BY <1>3 DEF At, AtJob, JobStage
  <2>2. Marked("bare", meta[th[w].job].flags)
    BY <2>1, JobOnly
  <2> QED
    BY <1>1, <2>2 DEF Marked
<1> QED
  BY <1>2, <1>3

-----------------------------------------------------------------------------
(* Accesses. *)

\* No thread accesses a job that is UNSTABLE.
Untouched ==
  \A s \in Slots : {"ALIVE", "UNSTABLE"} \subseteq meta[s].flags => meta[s].access = 0

AccessInv == Untouched /\ AccessCountsHolders

\* The places at which a worker has an access of its job, or of the job that
\* waits for its job.
Picks(x) == x.pc \in {"unready", "unbasic", "execute", "unaccess"}
Tells(x) == x.pc \in {"compare", "told"} \/ (x.pc \in Sub /\ x.back = "told")

\* A step of thread t that creates no job.
CreatesNone(t) ==
  /\ \A u \in Threads \ {t} : th'[u] = th[u]
  /\ \A s \in Slots :
       info'[s].kind = info[s].kind /\ info'[s].requested = info[s].requested

\* It neither takes nor gives back an access.
KeepsHold(t) ==
  /\ Picks(th'[t]) <=> Picks(th[t])
  /\ Tells(th'[t]) <=> Tells(th[t])
  /\ Picks(th[t]) \/ Tells(th[t]) => th'[t].job = th[t].job

\* A word n that follows m with the same accesses.
WordKeeps(m, n) ==
  "ALIVE" \in n.flags =>
    /\ "ALIVE" \in m.flags /\ n.access = m.access
    /\ "UNSTABLE" \in n.flags => "UNSTABLE" \in m.flags \/ m.access = 0
WordsKeep == \A s \in Slots : WordKeeps(meta[s], meta'[s])

\* A thread with an access is a worker with a job in its hands.
LEMMA AccessorHas ==
  ASSUME IndInv, NEW t \in Threads, Picks(th[t]) \/ Tells(th[t])
  PROVE  /\ t \in Workers /\ th[t].job \in Slots /\ Has(t, th[t], th[t].job)
         /\ AtJob(th[t]) /\ (Tells(th[t]) => info[th[t].job].requested \in Slots)
<1>1. t # Main
  BY DEF IndInv, Fits, MainFits, Picks, Tells, Sub
<1>2. t \in Workers /\ AtJob(th[t])
  BY <1>1 DEF Threads, Picks, Tells, AtJob
<1>3. th[t].job \in Slots /\ Has(t, th[t], th[t].job)
  BY <1>2, JobOnly
<1>4. ASSUME Tells(th[t]) PROVE info[th[t].job].requested \in Slots
  <2>1. info[th[t].job].requested # NoJob
    <3>1. TellerFits(th[t])
      BY <1>2 DEF IndInv, TellersFit
    <3>2. TellsNow(th[t]) \/ (HasTold(th[t]) /\ th[t].pc # "wlldestroy")
      BY <1>4 DEF Tells, TellsNow, HasTold, Sub
    <3> QED
      BY <3>1, <3>2 DEF TellerFits
  <2>2. info[th[t].job].requested \in MaybeJob
    BY <1>3 DEF IndInv, Types, Infos
  <2> QED
    BY <2>1, <2>2 DEF MaybeJob
<1> QED
  BY <1>2, <1>3, <1>4

\* What it has an access of.
LEMMA HoldsIs ==
  ASSUME NEW t, NEW s
  PROVE  Holds(t, s) <=> \/ Picks(th[t]) /\ th[t].job = s
                         \/ Tells(th[t]) /\ info[th[t].job].requested = s
BY DEF Holds, InSubroutine, Picks, Tells, Sub

\* The other threads keep their accesses.
LEMMA OthersHold ==
  ASSUME IndInv, NEW t \in Threads, CreatesNone(t), NEW s, NEW u \in Threads \ {t}
  PROVE  Holds(u, s)' <=> Holds(u, s)
<1>1. th'[u] = th[u]
  BY DEF CreatesNone
<1>2. Tells(th[u]) => info'[th[u].job].requested = info[th[u].job].requested
  BY AccessorHas DEF CreatesNone
<1>3. PICK j : j = th[u].job /\ j = th'[u].job
  BY <1>1
<1>4. Holds(u, s)' <=> \/ Picks(th'[u]) /\ th'[u].job = s
                       \/ Tells(th'[u]) /\ info'[th'[u].job].requested = s
  BY DEF Holds, InSubroutine, Picks, Tells, Sub
<1> QED
  BY <1>1, <1>2, <1>3, <1>4, HoldsIs

Holders(s) == {t \in Threads : Holds(t, s)}

\* They are finitely many.
LEMMA FiniteHolders ==
  ASSUME IsFiniteSet(Workers), NEW s
  PROVE  /\ IsFiniteSet(Holders(s)) /\ Cardinality(Holders(s)) \in Nat
         /\ IsFiniteSet(Holders(s)') /\ Cardinality(Holders(s)') \in Nat
<1>1. IsFiniteSet(Threads)
  BY FS_AddElement DEF Threads
<1>2. Holders(s) \subseteq Threads /\ Holders(s)' \subseteq Threads
  BY DEF Holders
<1> QED
  BY <1>1, <1>2, FS_Subset, FS_CardinalityType

\* A step that neither takes nor gives back an access.
LEMMA HoldKept ==
  ASSUME IndInv, AccessInv, NEW t \in Threads, CreatesNone(t), KeepsHold(t), WordsKeep
  PROVE  AccessInv'
<1>2. Untouched'
  BY DEF AccessInv, Untouched, WordsKeep, WordKeeps
<1>3. ASSUME NEW s PROVE Holders(s)' = Holders(s)
  <2>1. Holds(t, s)' <=> Holds(t, s)
    <3>1. Holds(t, s)' <=> \/ Picks(th'[t]) /\ th'[t].job = s
                           \/ Tells(th'[t]) /\ info'[th'[t].job].requested = s
      BY DEF Holds, InSubroutine, Picks, Tells, Sub
    <3>2. Tells(th[t]) => info'[th'[t].job].requested = info[th[t].job].requested
      <4>1. ASSUME Tells(th[t]) PROVE info'[th'[t].job].requested = info[th[t].job].requested
        <5>1. PICK j \in Slots : j = th[t].job /\ j = th'[t].job
          BY <4>1, AccessorHas DEF KeepsHold
        <5>2. info'[j].requested = info[j].requested
          BY DEF CreatesNone
        <5> QED
          BY <5>1, <5>2
      <4> QED
        BY <4>1
    <3> QED
      BY <3>1, <3>2, HoldsIs DEF KeepsHold
  <2>2. \A u \in Threads : Holds(u, s)' <=> Holds(u, s)
    BY <2>1, OthersHold
  <2> QED
    BY <2>2 DEF Holders
<1>4. AccessCountsHolders'
  <2> SUFFICES ASSUME NEW s \in Slots, "ALIVE" \in meta'[s].flags
               PROVE  meta'[s].access = Cardinality({u \in Threads : Holds(u, s)})'
    BY DEF AccessCountsHolders
  <2>1. meta'[s].access = meta[s].access /\ "ALIVE" \in meta[s].flags
    BY DEF WordsKeep, WordKeeps
  <2>2. meta[s].access = Cardinality(Holders(s))
    BY <2>1 DEF AccessInv, AccessCountsHolders, Holders
  <2> QED
    BY <1>3, <2>1, <2>2 DEF Holders
<1> QED
  BY <1>2, <1>4 DEF AccessInv

\* Thread t takes an access of job s.
LEMMA HoldTaken ==
  ASSUME IndInv, AccessInv, IsFiniteSet(Workers), NEW t \in Threads, CreatesNone(t),
         NEW s \in Slots, AccessBan(meta[s]) = {}, SetMeta(s, mark_access(meta[s])),
         ~Picks(th[t]), ~Tells(th[t]), \A r : Holds(t, r)' <=> r = s
  PROVE  AccessInv'
<1>1. meta \in [Slots -> Word] /\ meta[s] \in Word
  BY DEF IndInv, Types
<1>2. \A r \in Slots : meta'[r] = IF r = s THEN mark_access(meta[s]) ELSE meta[r]
  BY <1>1 DEF SetMeta
<1>3. /\ mark_access(meta[s]).flags = meta[s].flags /\ "UNSTABLE" \notin meta[s].flags
      /\ mark_access(meta[s]).access = meta[s].access + 1
  BY <1>1 DEF mark_access, AccessBan, Word
<1>5. Untouched'
  BY <1>2, <1>3 DEF AccessInv, Untouched
<1>6. \A r : ~Holds(t, r)
  BY HoldsIs
<1>7. ASSUME NEW r \in Slots, "ALIVE" \in meta'[r].flags
      PROVE  meta'[r].access = Cardinality(Holders(r)')
  <2>1. "ALIVE" \in meta[r].flags
    BY <1>2, <1>3, <1>7
  <2>2. meta[r].access = Cardinality(Holders(r))
    BY <2>1 DEF AccessInv, AccessCountsHolders, Holders
  <2>3. \A u \in Threads \ {t} : Holds(u, r)' <=> Holds(u, r)
    BY OthersHold
  <2>4. CASE r = s
    <3>1. Holders(r)' = Holders(r) \cup {t} /\ t \notin Holders(r)
      BY <1>6, <2>3, <2>4 DEF Holders
    <3>2. Cardinality(Holders(r)') = Cardinality(Holders(r)) + 1
      BY <3>1, FiniteHolders, FS_AddElement
    <3> QED
      BY <1>2, <1>3, <2>2, <2>4, <3>2
  <2>5. CASE r # s
    <3>1. Holders(r)' = Holders(r)
      BY <1>6, <2>3, <2>5 DEF Holders
    <3> QED
      BY <1>2, <2>2, <2>5, <3>1
  <2> QED
    BY <2>4, <2>5
<1>8. AccessCountsHolders'
  BY <1>7 DEF AccessCountsHolders, Holders
<1> QED
  BY <1>5, <1>8 DEF AccessInv

\* Thread t gives its access of job s back.
LEMMA HoldGiven ==
  ASSUME IndInv, AccessInv, IsFiniteSet(Workers), NEW t \in Threads, CreatesNone(t),
         NEW s \in Slots, SetMeta(s, unmark_access(meta[s])),
         Holds(t, s), \A r : Holds(t, r) => r = s, ~Picks(th'[t]), ~Tells(th'[t])
  PROVE  AccessInv'
<1>1. meta \in [Slots -> Word] /\ meta[s] \in Word
  BY DEF IndInv, Types
<1>2. \A r \in Slots : meta'[r] = IF r = s THEN unmark_access(meta[s]) ELSE meta[r]
  BY <1>1 DEF SetMeta
<1>3. unmark_access(meta[s]).flags = meta[s].flags
  BY <1>1, AccessWords
<1>5. \A r : ~Holds(t, r)'
  BY DEF Holds, InSubroutine, Picks, Tells, Sub
<1>6. t \in Holders(s)
  BY DEF Holders
<1>7. Untouched'
  BY <1>2, <1>3 DEF AccessInv, Untouched, unmark_access
<1>8. ASSUME NEW r \in Slots, "ALIVE" \in meta'[r].flags
      PROVE  meta'[r].access = Cardinality(Holders(r)')
  <2>1. "ALIVE" \in meta[r].flags
    BY <1>2, <1>3, <1>8
  <2>2. meta[r].access = Cardinality(Holders(r))
    BY <2>1 DEF AccessInv, AccessCountsHolders, Holders
  <2>3. \A u \in Threads \ {t} : Holds(u, r)' <=> Holds(u, r)
    BY OthersHold
  <2>4. CASE r = s
    <3>1. Holders(r)' = Holders(r) \ {t}
      BY <1>5, <2>3 DEF Holders
    <3>2. Cardinality(Holders(r)') = Cardinality(Holders(r)) - 1
      BY <1>6, <2>4, <3>1, FiniteHolders, FS_RemoveElement
    <3>3. Cardinality(Holders(r)) # 0
      BY <1>6, <2>4, FiniteHolders, FS_EmptySet
    <3>4. meta[s].access \in 1 .. MaxAccess /\ MaxAccess \in Nat
      BY <1>1, <2>2, <2>4, <3>3, MetaFlagAssumption DEF Word
    <3>5. "UNSTABLE" \notin meta[s].flags
      <4>1. meta[s].access # 0
        BY <3>4
      <4> QED
        BY <2>1, <2>4, <4>1 DEF AccessInv, Untouched
    <3>6. ASSUME NEW M \in Nat, NEW a \in 1 .. M PROVE (a - 1) % (M + 1) = a - 1
      BY SMT
    <3>7. (meta[s].access - 1) % (MaxAccess + 1) = meta[s].access - 1
      BY <3>4, <3>6
    <3>8. unmark_access(meta[s]).access = meta[s].access - 1
      BY <1>1, <3>5, <3>7 DEF unmark_access, Word
    <3> QED
      BY <1>2, <2>2, <2>4, <3>2, <3>8
  <2>5. CASE r # s
    <3>1. Holders(r)' = Holders(r)
      BY <1>5, <2>3, <2>5 DEF Holders
    <3> QED
      BY <1>2, <2>2, <2>5, <3>1
  <2> QED
    BY <2>4, <2>5
<1>9. AccessCountsHolders'
  BY <1>8 DEF AccessCountsHolders, Holders
<1> QED
  BY <1>7, <1>9 DEF AccessInv

\* The changes of a word that keep its accesses.
LEMMA WordsKept ==
  ASSUME NEW m \in Word
  PROVE  /\ WordKeeps(m, m)
         /\ \A F, B : "ALIVE" \notin F /\ "UNSTABLE" \notin F =>
              WordKeeps(m, mark_or(m, F, B, FALSE))
         /\ \A F, B : WordKeeps(m, unmark_or(m, F, B))
         /\ \A B : WordKeeps(m, mark_or(m, {"UNSTABLE"}, B, TRUE))
         /\ \A F : "ALIVE" \notin F => WordKeeps(m, WordOf(F))
<1>1. m.access \in Nat
  BY MetaFlagAssumption DEF Word
<1>2. ASSUME NEW F, NEW B, "ALIVE" \notin F, "UNSTABLE" \notin F
      PROVE  WordKeeps(m, mark_or(m, F, B, FALSE))
  BY <1>2 DEF WordKeeps, mark_or, Word
<1>3. ASSUME NEW F, NEW B PROVE WordKeeps(m, unmark_or(m, F, B))
  BY DEF WordKeeps, unmark_or, Word
<1>4. ASSUME NEW B PROVE WordKeeps(m, mark_or(m, {"UNSTABLE"}, B, TRUE))
  <2>1. CASE Ban(m, B, TRUE) = {}
    <3>1. m.access = 0
      BY <1>1, <2>1 DEF Ban
    <3> QED
      BY <2>1, <3>1 DEF WordKeeps, mark_or, Word
  <2>2. CASE Ban(m, B, TRUE) # {}
    BY <2>2 DEF WordKeeps, mark_or
  <2> QED
    BY <2>1, <2>2
<1>5. ASSUME NEW F, "ALIVE" \notin F PROVE WordKeeps(m, WordOf(F))
  BY <1>5 DEF WordKeeps, WordOf
<1> QED
  BY <1>2, <1>3, <1>4, <1>5 DEF WordKeeps

\* So does the update of the available jobs.
LEMMA CasKept ==
  ASSUME NEW m \in Word, NEW d, NEW F \in {{}, {"READYBASIC"}}, NEW q
  PROVE  WordKeeps(m, cas_update(m, 0, 0, d, F, 0, q))
<1> DEFINE D == DerivedFlags(m.avsock + 0, m.wait + 0, m.avjobs + d, 0, q)
           G == ((m.flags \cup F) \ Derived) \cup D
<1>1. D \subseteq Derived
  BY DEF DerivedFlags, Derived
<1> HIDE DEF D
<1>2. /\ "ALIVE" \in G => "ALIVE" \in m.flags
      /\ "UNSTABLE" \in G => "UNSTABLE" \in m.flags
  BY <1>1 DEF Derived
<1>3. /\ cas_update(m, 0, 0, d, F, 0, q).flags = G
      /\ cas_update(m, 0, 0, d, F, 0, q).access = m.access
  BY DEF cas_update, Word, D
<1> HIDE DEF G
<1> QED
  BY <1>2, <1>3 DEF WordKeeps

\* A new word for one slot.
LEMMA SetKeeps ==
  ASSUME IndInv, NEW s, NEW n, SetMeta(s, n), s \in Slots => WordKeeps(meta[s], n)
  PROVE  WordsKeep
<1>1. meta \in [Slots -> Word]
  BY DEF IndInv, Types
<1>2. \A r \in Slots : meta'[r] = IF r = s THEN n ELSE meta[r]
  BY <1>1 DEF SetMeta
<1>3. \A r \in Slots : WordKeeps(meta[r], meta[r])
  BY <1>1, WordsKept
<1> QED
  BY <1>2, <1>3 DEF WordsKeep

\* The words stay.
LEMMA SameWords ==
  ASSUME IndInv, meta' = meta
  PROVE  WordsKeep
BY WordsKept DEF IndInv, Types, WordsKeep

\* Thread t goes on with y and creates no job.
LEMMA NewState ==
  ASSUME IndInv, NEW t \in Threads, NEW y, th' = [th EXCEPT ![t] = y], info' = info
  PROVE  CreatesNone(t) /\ th'[t] = y
<1>1. th \in [Threads -> ThreadStates]
  BY DEF IndInv, Types
<1>2. th'[t] = y /\ \A u \in Threads \ {t} : th'[u] = th[u]
  BY <1>1
<1> QED
  BY <1>2 DEF CreatesNone

\* A new label only.
LEMMA NewLabel ==
  ASSUME IndInv, NEW t \in Threads, NEW l, Goto(t, l), info' = info
  PROVE  /\ CreatesNone(t) /\ th'[t].pc = l /\ th'[t].job = th[t].job
         /\ th'[t].back = th[t].back /\ th'[t].tgt = th[t].tgt
<1> DEFINE y == [th[t] EXCEPT !.pc = l]
<1>1. th[t] \in ThreadStates
  BY DEF IndInv, Types
<1>2. /\ y.pc = l /\ y.job = th[t].job /\ y.back = th[t].back /\ y.tgt = th[t].tgt
      /\ y.script = th[t].script /\ y.made = th[t].made /\ y.k = th[t].k
  BY <1>1 DEF ThreadStates
<1>3. th' = [th EXCEPT ![t] = y]
  BY DEF Goto
<1> HIDE DEF y
<1>4. CreatesNone(t) /\ th'[t] = y
  BY <1>2, <1>3, NewState
<1> QED
  BY <1>2, <1>4

\* Where a call returns to.
LEMMA BackIs ==
  ASSUME IndInv, NEW t \in Threads
  PROVE  /\ th[t].pc \in Sub => th[t].back \in {"script", "check", "told"}
         /\ th[t].pc \in {"destroy", "teardown", "clear", "release"} =>
              th[t].back \in {"script", "check", "queue"}
<1>1. CASE t = Main
  BY <1>1 DEF IndInv, Fits, MainFits, Sub
<1>2. CASE t \in Workers
  BY <1>2 DEF IndInv, Fits, WorkerFits
<1> QED
  BY <1>1, <1>2 DEF Threads

\* No accesses at these labels.
Apart(x) ==
  \/ x.pc \in {"loop", "access", "script", "publish", "again", "finish", "tell",
               "wlldestroy", "destroy", "teardown", "clear", "release", "check",
               "queue", "ended"}
  \/ x.pc \in Sub /\ x.back # "told"

\* A thread at one of them has none.
LEMMA ApartHolds ==
  ASSUME NEW x, Apart(x)
  PROVE  ~Picks(x) /\ ~Tells(x)
BY DEF Apart, Picks, Tells, Sub

\* A thread that has no access goes on without one.
LEMMA ApartStep ==
  ASSUME IndInv, AccessInv, NEW t \in Threads, CreatesNone(t), WordsKeep,
         Apart(th[t]), Apart(th'[t])
  PROVE  AccessInv'
<1>1. KeepsHold(t)
  BY ApartHolds DEF KeepsHold
<1> QED
  BY <1>1, HoldKept

\* It changes its label and words that keep their accesses.
LEMMA ApartGoto ==
  ASSUME IndInv, AccessInv, NEW t \in Threads, NEW l, Goto(t, l), info' = info, WordsKeep,
         Apart(th[t]),
         \/ l \in {"loop", "access", "script", "publish", "again", "finish", "tell",
                   "wlldestroy", "destroy", "teardown", "clear", "release", "check",
                   "queue", "ended"}
         \/ l \in Sub /\ th[t].back # "told"
  PROVE  AccessInv'
<1>1. CreatesNone(t) /\ th'[t].pc = l /\ th'[t].back = th[t].back
  BY NewLabel
<1>2. Apart(th'[t])
  BY <1>1 DEF Apart
<1> QED
  BY <1>1, <1>2, ApartStep

\* schedi_job_setready, within a call that has an access or not.
LEMMA SetReadyAcc ==
  ASSUME IndInv, AccessInv, NEW t \in Threads, SetReady(t)
  PROVE  AccessInv'
<1>1. th[t].pc = "setready" /\ info' = info /\ th[t].back \in {"script", "check", "told"}
  BY BackIs DEF SetReady, At, Sub
<1>2. PICK l : Goto(t, l) /\ l \in {"cache", th[t].back}
  BY DEF SetReady
<1>3. WordsKeep
  <2>1. PICK B : SetMeta(th[t].tgt, mark_or(meta[th[t].tgt], {"READY"}, B, FALSE))
    BY DEF SetReady
  <2>2. th[t].tgt \in Slots => meta[th[t].tgt] \in Word
    BY DEF IndInv, Types
  <2> QED
    BY <2>1, <2>2, SetKeeps, WordsKept
<1>4. CreatesNone(t) /\ th'[t].pc = l /\ th'[t].job = th[t].job /\ th'[t].back = th[t].back
  BY <1>1, <1>2, NewLabel
<1>5. KeepsHold(t)
  BY <1>1, <1>2, <1>4 DEF KeepsHold, Picks, Tells, Sub
<1> QED
  BY <1>3, <1>4, <1>5, HoldKept

\* schedi_cache_job_ready.
LEMMA CachePushAcc ==
  ASSUME IndInv, AccessInv, NEW t \in Threads, CachePush(t)
  PROVE  AccessInv'
<1>1. /\ th[t].pc = "cache" /\ info' = info /\ meta' = meta
      /\ th[t].back \in {"script", "check", "told"} /\ Goto(t, th[t].back)
  BY BackIs DEF CachePush, At, Sub
<1>2. WordsKeep
  BY <1>1, SameWords
<1>3. /\ CreatesNone(t) /\ th'[t].pc = th[t].back /\ th'[t].job = th[t].job
      /\ th'[t].back = th[t].back
  BY <1>1, NewLabel
<1>4. KeepsHold(t)
  BY <1>1, <1>3 DEF KeepsHold, Picks, Tells, Sub
<1> QED
  BY <1>2, <1>3, <1>4, HoldKept

\* The threshold is read.
LEMMA CasReadAcc ==
  ASSUME IndInv, AccessInv, NEW t \in Threads, CasRead(t)
  PROVE  AccessInv'
<1> DEFINE y == [th[t] EXCEPT !.pc = "cas", !.req = info[th[t].tgt].required]
<1>1. th[t].pc = "read" /\ info' = info /\ meta' = meta /\ th[t] \in ThreadStates
  BY DEF CasRead, At, IndInv, Types
<1>2. th' = [th EXCEPT ![t] = y]
  BY DEF CasRead
<1>3. /\ y.pc = "cas" /\ y.job = th[t].job /\ y.back = th[t].back
      /\ y.script = th[t].script /\ y.made = th[t].made /\ y.k = th[t].k
  BY <1>1 DEF ThreadStates
<1> HIDE DEF y
<1>4. CreatesNone(t) /\ th'[t] = y
  BY <1>1, <1>2, <1>3, NewState
<1>5. KeepsHold(t)
  BY <1>1, <1>3, <1>4 DEF KeepsHold, Picks, Tells, Sub
<1> QED
  BY <1>1, <1>4, <1>5, SameWords, HoldKept

\* schedi_job_meta_flag_cas_update.
LEMMA CasAcc ==
  ASSUME IndInv, AccessInv, NEW t \in Threads, Cas(t)
  PROVE  AccessInv'
<1>1. /\ th[t].pc = "cas" /\ info' = info /\ th[t] \in ThreadStates
      /\ th[t].back \in {"script", "check", "told"} /\ th[t].flag \in {{}, {"READYBASIC"}}
  BY BackIs DEF Cas, At, Sub, IndInv, Types, ThreadStates
<1>2. PICK l : Goto(t, l) /\ l \in {"setready", th[t].back}
  BY DEF Cas
<1>3. WordsKeep
  <2>1. CASE meta' = meta
    BY <2>1, SameWords
  <2>2. CASE SetMeta(th[t].tgt, cas_update(meta[th[t].tgt], 0, 0, th[t].delta, th[t].flag,
                                           0, th[t].req))
    <3>1. th[t].tgt \in Slots => meta[th[t].tgt] \in Word
      BY DEF IndInv, Types
    <3> QED
      BY <1>1, <2>2, <3>1, CasKept, SetKeeps
  <2> QED
    BY <2>1, <2>2 DEF Cas
<1>4. CreatesNone(t) /\ th'[t].pc = l /\ th'[t].job = th[t].job /\ th'[t].back = th[t].back
  BY <1>1, <1>2, NewLabel
<1>5. KeepsHold(t)
  BY <1>1, <1>2, <1>4 DEF KeepsHold, Picks, Tells, Sub
<1> QED
  BY <1>3, <1>4, <1>5, HoldKept

\* section_claim.
LEMMA ClaimAcc ==
  ASSUME IndInv, AccessInv, NEW t \in Threads, Claim(t)
  PROVE  AccessInv'
<1>1. PICK s \in free : /\ SetMeta(s, WordOf({"UNSTABLE"}))
                        /\ th' = [th EXCEPT ![t].pc = "publish", ![t].tgt = s]
  BY DEF Claim
<1> DEFINE y == [th[t] EXCEPT !.pc = "publish", !.tgt = s]
<1>2. th[t].pc = "script" /\ info' = info /\ th[t] \in ThreadStates
  BY DEF Claim, HasCall, At, IndInv, Types
<1>3. th' = [th EXCEPT ![t] = y]
  BY <1>1, <1>2 DEF IndInv, Types
<1>4. /\ y.pc = "publish"
      /\ y.script = th[t].script /\ y.made = th[t].made /\ y.k = th[t].k
  BY <1>2 DEF ThreadStates
<1> HIDE DEF y
<1>5. CreatesNone(t) /\ th'[t] = y
  BY <1>2, <1>3, <1>4, NewState
<1>6. WordsKeep
  <2>1. s \in Slots => meta[s] \in Word
    BY DEF IndInv, Types
  <2> QED
    BY <1>1, <2>1, WordsKept, SetKeeps
<1>7. Apart(th[t]) /\ Apart(th'[t])
  BY <1>2, <1>4, <1>5 DEF Apart
<1> QED
  BY <1>5, <1>6, <1>7, ApartStep

\* completion_indicator is set.
LEMMA SetIndicatorAcc ==
  ASSUME IndInv, AccessInv, NEW t \in Threads, SetIndicator(t)
  PROVE  AccessInv'
<1> DEFINE y == [th[t] EXCEPT !.k = @ + 1]
<1>1. /\ th[t].pc = "script" /\ meta' = meta /\ th[t] \in ThreadStates
      /\ th \in [Threads -> ThreadStates] /\ info \in [Slots -> Infos]
  BY DEF SetIndicator, HasCall, At, IndInv, Types
<1>2. th'[t] = y /\ \A u \in Threads \ {t} : th'[u] = th[u]
  BY <1>1 DEF SetIndicator
<1>3. /\ y.pc = "script" /\ y.script = th[t].script /\ y.made = th[t].made
      /\ y.k = th[t].k + 1
  BY <1>1 DEF ThreadStates
<1> HIDE DEF y
<1>4. PICK j : info' = [info EXCEPT ![j].indicator = TRUE]
  BY DEF SetIndicator
<1>5. \A s \in Slots : info'[s].kind = info[s].kind /\ info'[s].requested = info[s].requested
  BY <1>1, <1>4 DEF Infos
<1>6. CreatesNone(t)
  BY <1>2, <1>3, <1>5 DEF CreatesNone
<1>7. Apart(th[t]) /\ Apart(th'[t])
  BY <1>1, <1>2, <1>3 DEF Apart
<1> QED
  BY <1>1, <1>6, <1>7, SameWords, ApartStep

\* A script calls schedi_job_setready.
LEMMA CallSetReadyAcc ==
  ASSUME IndInv, AccessInv, NEW t \in Threads, CallSetReady(t)
  PROVE  AccessInv'
<1> DEFINE y == [th[t] EXCEPT !.pc = "setready", !.tgt = th[t].made[Arg(t).i],
                              !.back = "script", !.k = @ + 1]
<1>1. /\ th[t].pc = "script" /\ meta' = meta /\ info' = info /\ th[t] \in ThreadStates
      /\ th \in [Threads -> ThreadStates]
  BY DEF CallSetReady, HasCall, At, IndInv, Types
<1>2. th' = [th EXCEPT ![t] = y]
  BY <1>1 DEF CallSetReady
<1>3. /\ y.pc = "setready" /\ y.back = "script" /\ y.script = th[t].script
      /\ y.made = th[t].made /\ y.k = th[t].k + 1
  BY <1>1 DEF ThreadStates
<1> HIDE DEF y
<1>4. CreatesNone(t) /\ th'[t] = y
  BY <1>1, <1>2, <1>3, NewState
<1>5. Apart(th[t]) /\ Apart(th'[t])
  BY <1>1, <1>3, <1>4 DEF Apart, Sub
<1> QED
  BY <1>1, <1>4, <1>5, SameWords, ApartStep

\* A parent states how many leaves it requires; main() does not.
LEMMA CallRequireAcc ==
  ASSUME IndInv, AccessInv, Families, NEW t \in Threads, CallRequire(t)
  PROVE  AccessInv'
<1> DEFINE y == [th[t] EXCEPT !.pc = "read", !.tgt = th[t].job, !.back = "script",
                              !.k = @ + 1, !.delta = 0, !.flag = {}]
<1>1. /\ th[t].pc = "script" /\ meta' = meta /\ th[t] \in ThreadStates
      /\ th \in [Threads -> ThreadStates] /\ info \in [Slots -> Infos]
  BY DEF CallRequire, HasCall, At, IndInv, Types
<1>2. t # Main
  BY MainCalls DEF CallRequire
<1>3. th' = [th EXCEPT ![t] = y]
  BY <1>1 DEF CallRequire
<1>4. y.pc = "read" /\ y.back = "script"
  BY <1>1 DEF ThreadStates
<1> HIDE DEF y
<1>5. th'[t] = y /\ \A u \in Threads \ {t} : th'[u] = th[u]
  BY <1>1, <1>3
<1>6. \A s \in Slots : info'[s].kind = info[s].kind /\ info'[s].requested = info[s].requested
  BY <1>1 DEF CallRequire, Infos
<1>7. CreatesNone(t)
  BY <1>2, <1>5, <1>6 DEF CreatesNone
<1>8. Apart(th[t]) /\ Apart(th'[t])
  BY <1>1, <1>4, <1>5 DEF Apart, Sub
<1> QED
  BY <1>1, <1>7, <1>8, SameWords, ApartStep

\* A script calls schedi_job_destroy.
LEMMA CallDestroyAcc ==
  ASSUME IndInv, AccessInv, NEW t \in Threads, CallDestroy(t)
  PROVE  AccessInv'
<1> DEFINE y == [th[t] EXCEPT !.pc = "wlldestroy", !.job = th[t].made[Arg(t).i],
                              !.k = @ + 1]
<1>1. /\ th[t].pc = "script" /\ meta' = meta /\ info' = info /\ th[t] \in ThreadStates
      /\ th \in [Threads -> ThreadStates]
  BY DEF CallDestroy, HasCall, At, IndInv, Types
<1>2. th' = [th EXCEPT ![t] = y]
  BY <1>1 DEF CallDestroy
<1>3. /\ y.pc = "wlldestroy" /\ y.script = th[t].script
      /\ y.made = th[t].made /\ y.k = th[t].k + 1
  BY <1>1 DEF ThreadStates
<1> HIDE DEF y
<1>4. CreatesNone(t) /\ th'[t] = y
  BY <1>1, <1>2, <1>3, NewState
<1>5. Apart(th[t]) /\ Apart(th'[t])
  BY <1>1, <1>3, <1>4 DEF Apart
<1> QED
  BY <1>1, <1>4, <1>5, SameWords, ApartStep

\* schedi_job_destroy marks the job.
LEMMA MarkWllDestroyAcc ==
  ASSUME IndInv, AccessInv, NEW t \in Threads, MarkWllDestroy(t)
  PROVE  AccessInv'
<1> DEFINE y == [th[t] EXCEPT !.pc = "destroy", !.tgt = th[t].job,
                              !.back = AfterDestroy(t)]
<1>1. /\ th[t].pc = "wlldestroy" /\ info' = info /\ th[t] \in ThreadStates
      /\ th \in [Threads -> ThreadStates]
  BY DEF MarkWllDestroy, At, IndInv, Types
<1>2. th' = [th EXCEPT ![t] = y]
  BY <1>1 DEF MarkWllDestroy
<1>3. /\ y.pc = "destroy" /\ y.script = th[t].script
      /\ y.made = th[t].made /\ y.k = th[t].k
  BY <1>1 DEF ThreadStates
<1> HIDE DEF y
<1>4. CreatesNone(t) /\ th'[t] = y
  BY <1>1, <1>2, <1>3, NewState
<1>5. Apart(th[t]) /\ Apart(th'[t])
  BY <1>1, <1>3, <1>4 DEF Apart
<1>6. WordsKeep
  <2>1. th[t].job \in Slots => meta[th[t].job] \in Word
    BY DEF IndInv, Types
  <2>2. SetMeta(th[t].job, mark_or(meta[th[t].job], {"WLLDESTROY"}, {"UNSTABLE"}, FALSE))
    BY DEF MarkWllDestroy
  <2> QED
    BY <2>1, <2>2, WordsKept, SetKeeps
<1> QED
  BY <1>4, <1>5, <1>6, ApartStep

\* schedi_job_destroy_now makes a job UNSTABLE only when nobody accesses it.
LEMMA DestroyNowAcc ==
  ASSUME IndInv, AccessInv, NEW t \in Threads, DestroyNow(t)
  PROVE  AccessInv'
<1>1. /\ th[t].pc = "destroy" /\ info' = info /\ Apart(th[t])
      /\ th[t].back \in {"script", "check", "queue"}
  BY BackIs DEF DestroyNow, At, Apart
<1>2. PICK l : Goto(t, l) /\ l \in {"teardown", th[t].back}
  BY DEF DestroyNow
<1>3. WordsKeep
  <2>1. th[t].tgt \in Slots => meta[th[t].tgt] \in Word
    BY DEF IndInv, Types
  <2>2. PICK B : SetMeta(th[t].tgt, mark_or(meta[th[t].tgt], {"UNSTABLE"}, B, TRUE))
    BY DEF DestroyNow
  <2> QED
    BY <2>1, <2>2, WordsKept, SetKeeps
<1> QED
  BY <1>1, <1>2, <1>3, ApartGoto

\* The job is torn down.
LEMMA TeardownAcc ==
  ASSUME IndInv, AccessInv, NEW t \in Threads, Teardown(t) \/ ClearMeta(t) \/ Release(t)
  PROVE  AccessInv'
<1>1. CASE Teardown(t)
  <2>1. Apart(th[t]) /\ info' = info /\ meta' = meta /\ Goto(t, "clear")
    BY <1>1 DEF Teardown, At, Apart
  <2> QED
    BY <2>1, SameWords, ApartGoto
<1>2. CASE ClearMeta(t)
  <2>1. /\ Apart(th[t]) /\ info' = info /\ Goto(t, "release")
        /\ SetMeta(th[t].tgt, WordOf({}))
    BY <1>2 DEF ClearMeta, At, Apart
  <2>2. th[t].tgt \in Slots => meta[th[t].tgt] \in Word
    BY DEF IndInv, Types
  <2>3. WordsKeep
    BY <2>1, <2>2, WordsKept, SetKeeps
  <2> QED
    BY <2>1, <2>3, ApartGoto
<1>3. CASE Release(t)
  <2>1. /\ Apart(th[t]) /\ info' = info /\ meta' = meta /\ Goto(t, th[t].back)
        /\ th[t].back \in {"script", "check", "queue"}
    BY <1>3, BackIs DEF Release, At, Apart
  <2> QED
    BY <2>1, SameWords, ApartGoto
<1> QED
  BY <1>1, <1>2, <1>3

\* The new job has no accesses, and nobody has one.
LEMMA PublishAcc ==
  ASSUME IndInv, AccessInv, Families, ~ReusedWhileAccessed, NEW t \in Threads, Publish(t)
  PROVE  AccessInv'
<1>1. th[t].pc = "publish" /\ AtTarget(th[t]) /\ Types
  BY DEF Publish, At, AtTarget, IndInv, AccessInv
<1>2. PICK s \in Slots : s = th[t].tgt /\ Has(t, th[t], s)
  BY <1>1, TargetOnly
<1>3. Published(t, s)
  BY <1>2, PublishShape
<1>5. meta'[s] = WordOf({"ALIVE"} \cup Derived) /\ \A r \in Slots \ {s} : meta'[r] = meta[r]
  BY <1>1, <1>2 DEF Publish, SetMeta, Types
<1>6. \A u \in Threads : ~Holds(u, s)
  BY <1>1, <1>2 DEF ReusedWhileAccessed, At
<1>7. meta'[s].access = 0
  BY <1>5 DEF WordOf
<1>8. Untouched'
  BY <1>5, <1>7 DEF AccessInv, Untouched
<1>9. ASSUME NEW u \in Threads, NEW r PROVE Holds(u, r)' <=> Holds(u, r)
  <2>1. Holds(u, r)' <=> \/ Picks(th'[u]) /\ th'[u].job = r
                         \/ Tells(th'[u]) /\ info'[th'[u].job].requested = r
    BY DEF Holds, InSubroutine, Picks, Tells, Sub
  <2>2. CASE u = t
    <3>1. Apart(th[u]) /\ Apart(th'[u])
      BY <1>1, <1>3, <2>2 DEF Apart, Published
    <3> QED
      BY <2>1, <3>1, ApartHolds, HoldsIs
  <2>3. CASE u # t
    <3>1. th'[u] = th[u]
      BY <1>3, <2>3 DEF Published
    <3>2. ASSUME Tells(th[u]) PROVE info'[th'[u].job].requested = info[th[u].job].requested
      <4>1. PICK j \in Slots : j = th[u].job /\ j = th'[u].job /\ Has(u, th[u], j)
        BY <3>1, <3>2, AccessorHas
      <4>2. j # s
        BY <1>2, <2>3, <4>1, OneHolder
      <4>3. info'[j] = info[j]
        BY <1>3, <4>2 DEF Published
      <4> QED
        BY <4>1, <4>3
    <3> QED
      BY <2>1, <3>1, <3>2, HoldsIs
  <2> QED
    BY <2>2, <2>3
<1>10. ASSUME NEW r \in Slots, "ALIVE" \in meta'[r].flags
       PROVE  meta'[r].access = Cardinality(Holders(r)')
  <2>1. Holders(r)' = Holders(r)
    BY <1>9 DEF Holders
  <2>2. CASE r = s
    <3>1. Holders(r) = {}
      BY <1>6, <2>2 DEF Holders
    <3> QED
      BY <1>7, <2>1, <2>2, <3>1, FS_EmptySet
  <2>3. CASE r # s
    BY <1>5, <1>10, <2>1, <2>3 DEF AccessInv, AccessCountsHolders, Holders
  <2> QED
    BY <2>2, <2>3
<1>11. AccessCountsHolders'
  BY <1>10 DEF AccessCountsHolders, Holders
<1> QED
  BY <1>8, <1>11 DEF AccessInv

\* A worker takes a job from the cache.
LEMMA PopAcc ==
  ASSUME IndInv, AccessInv, NEW w \in Workers, Pop(w)
  PROVE  AccessInv'
<1>1. /\ th[w].pc = "loop" /\ info' = info /\ meta' = meta /\ w \in Threads /\ w # Main
      /\ th \in [Threads -> ThreadStates]
  BY JobLifeAssumption DEF Pop, At, Threads, IndInv, Types
<1>2. PICK s \in Slots :
        th' = [th EXCEPT ![w] = [Idle EXCEPT !.pc = "access", !.job = s, !.pop_gen = gen[s]]]
  BY DEF Pop
<1>3. CreatesNone(w) /\ th'[w].pc = "access"
  BY <1>1, <1>2, NewState DEF Idle
<1>4. Apart(th[w]) /\ Apart(th'[w])
  BY <1>1, <1>3 DEF Apart
<1> QED
  BY <1>1, <1>3, <1>4, SameWords, ApartStep

\* A worker goes back to its loop.
LEMMA LoopAcc ==
  ASSUME IndInv, AccessInv, NEW w \in Workers, Loop(w), info' = info, WordsKeep, Apart(th[w])
  PROVE  AccessInv'
<1>1. w \in Threads /\ w # Main
  BY JobLifeAssumption DEF Threads
<1>2. CreatesNone(w) /\ th'[w] = Idle
  BY <1>1, NewState DEF Loop
<1>3. Idle.pc = "loop"
  BY DEF Idle
<1>4. Apart(th'[w])
  BY <1>2, <1>3 DEF Apart
<1> QED
  BY <1>1, <1>2, <1>4, ApartStep

\* pickready takes its access, or cannot.
LEMMA PickAccessAcc ==
  ASSUME IndInv, AccessInv, IsFiniteSet(Workers), NEW w \in Workers, PickAccess(w)
  PROVE  AccessInv'
<1>1. /\ th[w].pc = "access" /\ info' = info /\ w \in Threads
      /\ SetMeta(th[w].job, mark_access(meta[th[w].job]))
  BY DEF PickAccess, At, Threads
<1>2. PICK s \in Slots : s = th[w].job /\ meta[s] \in Word
  BY PickAccessBan
<1>3. Apart(th[w])
  BY <1>1 DEF Apart
<1>4. CASE AccessBan(meta[s]) = {}
  <2>1. Goto(w, "unready")
    BY <1>2, <1>4 DEF PickAccess
  <2>2. CreatesNone(w) /\ th'[w].pc = "unready" /\ th'[w].job = s
    BY <1>1, <1>2, <2>1, NewLabel
  <2>3. \A r : Holds(w, r)' <=> r = s
    BY <2>2 DEF Holds, InSubroutine
  <2> QED
    BY <1>1, <1>2, <1>3, <1>4, <2>2, <2>3, ApartHolds, HoldTaken
<1>5. CASE AccessBan(meta[s]) # {}
  <2>1. Loop(w)
    BY <1>2, <1>5 DEF PickAccess
  <2>2. mark_access(meta[s]) = meta[s]
    BY <1>5 DEF mark_access
  <2>3. WordsKeep
    BY <1>1, <1>2, <2>2, WordsKept, SetKeeps
  <2> QED
    BY <1>1, <1>3, <2>1, <2>3, LoopAcc
<1> QED
  BY <1>4, <1>5

\* A worker that has its access changes the marks of its job.
LEMMA PickedAcc ==
  ASSUME IndInv, AccessInv, NEW w \in Workers,
         UnmarkReady(w) \/ UnmarkReadyBasic(w) \/ MarkExecuting(w)
  PROVE  AccessInv'
<1>1. Picks(th[w]) /\ ~Tells(th[w]) /\ info' = info /\ w \in Threads
  BY DEF UnmarkReady, UnmarkReadyBasic, MarkExecuting, At, Picks, Tells, Threads, Sub
<1>2. PICK l \in {"unbasic", "execute", "unaccess"} : Goto(w, l)
  <2>1. CASE UnmarkReady(w) \/ UnmarkReadyBasic(w)
    BY <2>1 DEF UnmarkReady, UnmarkReadyBasic
  <2>2. CASE MarkExecuting(w)
    <3>1. meta[th[w].job].flags \cap {"UNSTABLE", "EXECUTING"} = {}
      BY <2>2, RunnableFact DEF MarkExecuting, PickedJobIsRunnable
    <3>2. Ban(meta[th[w].job], {"UNSTABLE", "EXECUTING"}, FALSE) = {}
      BY <3>1 DEF Ban
    <3> QED
      BY <2>2, <3>2 DEF MarkExecuting
  <2> QED
    BY <2>1, <2>2
<1>3. CreatesNone(w) /\ th'[w].pc = l /\ th'[w].job = th[w].job
  BY <1>1, <1>2, NewLabel
<1>4. KeepsHold(w)
  BY <1>1, <1>3 DEF KeepsHold, Picks, Tells, Sub
<1>5. WordsKeep
  <2>1. th[w].job \in Slots => meta[th[w].job] \in Word
    BY DEF IndInv, Types
  <2>2. CASE UnmarkReady(w) \/ UnmarkReadyBasic(w)
    <3>1. PICK F, B : SetMeta(th[w].job, unmark_or(meta[th[w].job], F, B))
      BY <2>2 DEF UnmarkReady, UnmarkReadyBasic
    <3> QED
      BY <2>1, <3>1, WordsKept, SetKeeps
  <2>3. CASE MarkExecuting(w)
    <3>1. PICK B : SetMeta(th[w].job, mark_or(meta[th[w].job], {"EXECUTING"}, B, FALSE))
      BY <2>3 DEF MarkExecuting
    <3> QED
      BY <2>1, <3>1, WordsKept, SetKeeps
  <2> QED
    BY <2>2, <2>3
<1> QED
  BY <1>1, <1>3, <1>4, <1>5, HoldKept

\* It gives its access back and runs the job.
LEMMA UnmarkAccessAcc ==
  ASSUME IndInv, AccessInv, IsFiniteSet(Workers), NEW w \in Workers, UnmarkAccess(w)
  PROVE  AccessInv'
<1>1. /\ th[w].pc = "unaccess" /\ info' = info /\ w \in Threads /\ Goto(w, "script")
      /\ SetMeta(th[w].job, unmark_access(meta[th[w].job]))
  BY DEF UnmarkAccess, At, Threads
<1>2. Picks(th[w]) /\ ~Tells(th[w])
  BY <1>1 DEF Picks, Tells, Sub
<1>3. th[w].job \in Slots /\ \A r : Holds(w, r) <=> r = th[w].job
  BY <1>1, <1>2, AccessorHas, HoldsIs
<1>4. CreatesNone(w) /\ th'[w].pc = "script"
  BY <1>1, NewLabel
<1>5. ~Picks(th'[w]) /\ ~Tells(th'[w])
  BY <1>4 DEF Picks, Tells, Sub
<1> QED
  BY <1>1, <1>3, <1>4, <1>5, HoldGiven

\* The run of a job ends.
LEMMA ReturnAcc ==
  ASSUME IndInv, AccessInv, NEW w \in Workers, Return(w)
  PROVE  AccessInv'
<1>1. /\ th[w].pc = "script" /\ meta' = meta /\ w \in Threads /\ w # Main
      /\ th \in [Threads -> ThreadStates] /\ info \in [Slots -> Infos]
  BY JobLifeAssumption DEF Return, ScriptEnds, At, Threads, IndInv, Types
<1>2. PICK l \in {"finish", "again"} : th' = [th EXCEPT ![w].pc = l]
  BY DEF Return
<1>3. /\ th'[w].pc = l /\ \A u \in Threads \ {w} : th'[u] = th[u]
  BY <1>1, <1>2 DEF ThreadStates
<1>4. \A s \in Slots : info'[s].kind = info[s].kind /\ info'[s].requested = info[s].requested
  BY <1>1 DEF Return, Infos
<1>5. CreatesNone(w)
  BY <1>1, <1>3, <1>4 DEF CreatesNone
<1>6. Apart(th[w]) /\ Apart(th'[w])
  BY <1>1, <1>3 DEF Apart
<1> QED
  BY <1>1, <1>5, <1>6, SameWords, ApartStep

\* A job that returned 1 is not executed any more.
LEMMA RunAgainAcc ==
  ASSUME IndInv, AccessInv, NEW w \in Workers, RunAgain(w)
  PROVE  AccessInv'
<1> DEFINE y == [th[w] EXCEPT !.pc = "read", !.tgt = th[w].job, !.back = "check",
                              !.delta = 0, !.flag = {"READYBASIC"}]
<1>1. /\ th[w].pc = "again" /\ info' = info /\ w \in Threads /\ w # Main
      /\ th[w] \in ThreadStates /\ th \in [Threads -> ThreadStates]
  BY JobLifeAssumption DEF RunAgain, At, Threads, IndInv, Types
<1>2. th' = [th EXCEPT ![w] = y]
  BY <1>1 DEF RunAgain
<1>3. y.pc = "read" /\ y.back = "check"
  BY <1>1 DEF ThreadStates
<1> HIDE DEF y
<1>4. CreatesNone(w) /\ th'[w] = y
  BY <1>1, <1>2, NewState
<1>5. Apart(th[w]) /\ Apart(th'[w])
  BY <1>1, <1>3, <1>4 DEF Apart, Sub
<1>6. WordsKeep
  <2>1. th[w].job \in Slots => meta[th[w].job] \in Word
    BY DEF IndInv, Types
  <2> QED
    BY <2>1, WordsKept, SetKeeps DEF RunAgain, UnmarkExecuting
<1> QED
  BY <1>1, <1>4, <1>5, <1>6, ApartStep

\* Nor is one that has ended.
LEMMA FinishAcc ==
  ASSUME IndInv, AccessInv, NEW w \in Workers, Finish(w)
  PROVE  AccessInv'
<1>1. Apart(th[w]) /\ info' = info /\ w \in Threads
  BY DEF Finish, At, Apart, Threads
<1>2. PICK l \in {"wlldestroy", "tell"} : Goto(w, l)
  BY DEF Finish
<1>3. WordsKeep
  <2>1. th[w].job \in Slots => meta[th[w].job] \in Word
    BY DEF IndInv, Types
  <2> QED
    BY <2>1, WordsKept, SetKeeps DEF Finish, UnmarkExecuting
<1> QED
  BY <1>1, <1>2, <1>3, ApartGoto

\* The worker of a leaf takes an access of the parent, or cannot.
LEMMA TellAccessAcc ==
  ASSUME IndInv, AccessInv, IsFiniteSet(Workers), NEW w \in Workers, TellAccess(w)
  PROVE  AccessInv'
<1>1. /\ th[w].pc = "tell" /\ info' = info /\ w \in Threads /\ Apart(th[w])
      /\ AtJob(th[w]) /\ TellerFits(th[w])
  BY DEF TellAccess, At, Threads, Apart, AtJob, IndInv, TellersFit
<1>2. th[w].job \in Slots
  BY <1>1, JobOnly
<1>3. PICK p \in Slots : p = info[th[w].job].requested
  <2>1. info[th[w].job].requested # NoJob
    BY <1>1 DEF TellerFits, TellsNow
  <2>2. info[th[w].job].requested \in MaybeJob
    BY <1>2 DEF IndInv, Types, Infos
  <2> QED
    BY <2>1, <2>2 DEF MaybeJob
<1>4. SetMeta(p, mark_access(meta[p])) /\ meta[p] \in Word
  BY <1>3 DEF TellAccess, IndInv, Types
<1>5. CASE AccessBan(meta[p]) = {}
  <2>1. Goto(w, "compare")
    BY <1>3, <1>5 DEF TellAccess
  <2>2. CreatesNone(w) /\ th'[w].pc = "compare" /\ th'[w].job = th[w].job
    BY <1>1, <2>1, NewLabel
  <2>3. info'[th'[w].job].requested = p
    BY <1>1, <1>3, <2>2
  <2>4. \A r : Holds(w, r)' <=> r = p
    BY <2>2, <2>3 DEF Holds, InSubroutine
  <2> QED
    BY <1>1, <1>4, <1>5, <2>2, <2>4, ApartHolds, HoldTaken
<1>6. CASE AccessBan(meta[p]) # {}
  <2>1. Goto(w, "wlldestroy")
    BY <1>3, <1>6 DEF TellAccess
  <2>2. mark_access(meta[p]) = meta[p]
    BY <1>6 DEF mark_access
  <2>3. WordsKeep
    BY <1>4, <2>2, WordsKept, SetKeeps
  <2> QED
    BY <1>1, <2>1, <2>3, ApartGoto
<1> QED
  BY <1>5, <1>6

\* It compares the generation of the parent.
LEMMA TellCompareAcc ==
  ASSUME IndInv, AccessInv, NEW w \in Workers, TellCompare(w)
  PROVE  AccessInv'
<1>1. /\ th[w].pc = "compare" /\ info' = info /\ meta' = meta /\ w \in Threads /\ w # Main
      /\ th[w] \in ThreadStates /\ th \in [Threads -> ThreadStates]
  BY JobLifeAssumption DEF TellCompare, At, Threads, IndInv, Types
<1> DEFINE r == info[th[w].job].requested
           l == IF gen[r] = info[th[w].job].requested_gen THEN "read" ELSE "told"
           y == [th[w] EXCEPT !.pc = l, !.tgt = r, !.back = "told", !.delta = 1, !.flag = {}]
<1>2. th' = [th EXCEPT ![w] = y]
  BY <1>1 DEF TellCompare
<1>3. y.pc \in {"read", "told"} /\ y.back = "told" /\ y.job = th[w].job
  BY <1>1 DEF ThreadStates
<1> HIDE DEF y
<1>4. CreatesNone(w) /\ th'[w] = y
  BY <1>1, <1>2, NewState
<1>5. KeepsHold(w)
  BY <1>1, <1>3, <1>4 DEF KeepsHold, Picks, Tells, Sub
<1> QED
  BY <1>1, <1>4, <1>5, SameWords, HoldKept

\* It gives its access of the parent back.
LEMMA TellDoneAcc ==
  ASSUME IndInv, AccessInv, IsFiniteSet(Workers), NEW w \in Workers, TellDone(w)
  PROVE  AccessInv'
<1>1. /\ th[w].pc = "told" /\ info' = info /\ w \in Threads /\ Goto(w, "wlldestroy")
      /\ SetMeta(th[w].tgt, unmark_access(meta[th[w].tgt])) /\ TellerFits(th[w])
  BY DEF TellDone, At, Threads, IndInv, TellersFit
<1>2. ~Picks(th[w]) /\ Tells(th[w])
  BY <1>1 DEF Picks, Tells
<1>3. th[w].tgt = info[th[w].job].requested
  BY <1>1 DEF TellerFits
<1>4. th[w].tgt \in Slots /\ \A r : Holds(w, r) <=> r = th[w].tgt
  BY <1>1, <1>2, <1>3, AccessorHas, HoldsIs
<1>5. CreatesNone(w) /\ th'[w].pc = "wlldestroy"
  BY <1>1, NewLabel
<1>6. ~Picks(th'[w]) /\ ~Tells(th'[w])
  BY <1>5 DEF Picks, Tells, Sub
<1> QED
  BY <1>1, <1>4, <1>5, <1>6, HoldGiven

\* A worker looks at the destroy queue.
LEMMA QueueAcc ==
  ASSUME IndInv, AccessInv, NEW w \in Workers, QueueCheck(w) \/ IdleCheck(w) \/ QueuePop(w)
  PROVE  AccessInv'
<1>1. /\ Apart(th[w]) /\ info' = info /\ meta' = meta /\ w \in Threads /\ w # Main
      /\ th[w] \in ThreadStates /\ th \in [Threads -> ThreadStates]
  BY JobLifeAssumption
     DEF QueueCheck, IdleCheck, EnterQueueCheck, QueuePop, At, Apart, Threads, IndInv, Types
<1>2. CASE QueueCheck(w) \/ IdleCheck(w)
  <2> DEFINE y == [th[w] EXCEPT !.pc = "queue", !.n = Len(dq)]
  <2>1. th' = [th EXCEPT ![w] = y]
    BY <1>1, <1>2 DEF QueueCheck, IdleCheck, EnterQueueCheck
  <2>2. y.pc = "queue"
    BY <1>1 DEF ThreadStates
  <2> HIDE DEF y
  <2>3. CreatesNone(w) /\ th'[w] = y
    BY <1>1, <2>1, NewState
  <2>4. Apart(th'[w])
    BY <2>2, <2>3 DEF Apart
  <2> QED
    BY <1>1, <2>3, <2>4, SameWords, ApartStep
<1>3. CASE QueuePop(w) /\ Loop(w)
  BY <1>1, <1>3, SameWords, LoopAcc
<1>4. CASE QueuePop(w) /\ ~(th[w].n = 0 \/ dq = <<>>)
  <2> DEFINE y == [th[w] EXCEPT !.pc = "destroy", !.tgt = Head(dq), !.n = @ - 1,
                                !.back = "queue"]
  <2>1. th' = [th EXCEPT ![w] = y]
    BY <1>1, <1>4 DEF QueuePop
  <2>2. y.pc = "destroy"
    BY <1>1 DEF ThreadStates
  <2> HIDE DEF y
  <2>3. CreatesNone(w) /\ th'[w] = y
    BY <1>1, <2>1, NewState
  <2>4. Apart(th'[w])
    BY <2>2, <2>3 DEF Apart
  <2> QED
    BY <1>1, <2>3, <2>4, SameWords, ApartStep
<1> QED
  BY <1>2, <1>3, <1>4 DEF QueuePop

\* main() ends, or nothing happens.
LEMMA EndsAcc ==
  ASSUME IndInv, AccessInv, MainEnds \/ UNCHANGED vars
  PROVE  AccessInv'
<1>1. CASE MainEnds
  <2>1. /\ Apart(th[Main]) /\ info' = info /\ meta' = meta /\ Goto(Main, "ended")
        /\ Main \in Threads
    BY <1>1 DEF MainEnds, ScriptEnds, At, Apart, Threads
  <2> QED
    BY <2>1, SameWords, ApartGoto
<1>2. CASE UNCHANGED vars
  <2>1. th' = th /\ info' = info /\ meta' = meta /\ Main \in Threads
    BY <1>2 DEF vars, Threads
  <2>2. CreatesNone(Main) /\ KeepsHold(Main)
    BY <2>1 DEF CreatesNone, KeepsHold
  <2> QED
    BY <2>1, <2>2, SameWords, HoldKept
<1> QED
  BY <1>1, <1>2

\* No thread accesses a job at first, and there is none.
LEMMA InitAcc ==
  ASSUME Init
  PROVE  AccessInv
<1>1. \A s \in Slots : info[s] = NoInfo /\ meta[s] = WordOf({})
  BY DEF Init
<1>4. \A s \in Slots : "ALIVE" \notin meta[s].flags
  BY <1>1 DEF WordOf
<1> QED
  BY <1>4 DEF AccessInv, Untouched, AccessCountsHolders

\* Every step keeps it.
LEMMA NextAcc ==
  ASSUME IndInv, AccessInv, Families, IsFiniteSet(Workers), ~ReusedWhileAccessed,
         [Next]_vars
  PROVE  AccessInv'
<1>1. ASSUME NEW t \in Threads, LibraryCall(t) PROVE AccessInv'
  BY <1>1, ClaimAcc, PublishAcc, SetIndicatorAcc, CallSetReadyAcc, SetReadyAcc,
     CachePushAcc, CallRequireAcc, CasReadAcc, CasAcc, CallDestroyAcc, MarkWllDestroyAcc,
     DestroyNowAcc, TeardownAcc DEF LibraryCall
<1>2. ASSUME NEW w \in Workers, WorkerStep(w) PROVE AccessInv'
  BY <1>2, PopAcc, PickAccessAcc, PickedAcc, UnmarkAccessAcc, ReturnAcc, RunAgainAcc,
     FinishAcc, TellAccessAcc, TellCompareAcc, TellDoneAcc, QueueAcc DEF WorkerStep
<1>3. CASE \E w \in Workers : IdleCheck(w)
  BY <1>3, QueueAcc
<1>4. CASE MainEnds \/ UNCHANGED vars
  BY <1>4, EndsAcc
<1> QED
  BY <1>1, <1>2, <1>3, <1>4 DEF Next, Terminated

-----------------------------------------------------------------------------
(* The theorems. *)

\* A job is in one place at a time, in the stage of its life that this place
\* stands for, and a family of jobs knows its leaves: this is kept by every
\* step of worker_routine and of the calls into the library.
THEOREM JobLifeInvariant ==
  ASSUME Families
  PROVE  Spec => []IndInv
<1>1. Init => IndInv
  BY InitInv
<1>2. IndInv /\ [Next]_vars => IndInv'
  BY NextInv
<1> QED
  BY <1>1, <1>2, PTL DEF Spec

\* The variables have their types; the destroy queue never holds more entries
\* than there are slots.
THEOREM TypeCorrect ==
  ASSUME Families
  PROVE  Spec => []TypeOK
<1>1. IndInv => TypeOK
  BY TypeFact
<1> QED
  BY <1>1, JobLifeInvariant, PTL

\* schedi_job_destroy_now tears a slot down once, and gives section_release a
\* slot that is not in the pool.
THEOREM TornDownOnceHolds ==
  ASSUME Families
  PROVE  Spec => []TornDownOnce
<1>1. IndInv => TornDownOnce
  BY TornDownFact
<1> QED
  BY <1>1, JobLifeInvariant, PTL

\* No worker runs, picks or tells about a job that was destroyed or whose slot
\* was given to another one.
THEOREM RunsLiveJobHolds ==
  ASSUME Families
  PROVE  Spec => []RunsLiveJob
<1>1. IndInv => RunsLiveJob
  BY RunsLiveFact
<1> QED
  BY <1>1, JobLifeInvariant, PTL

\* What pickready and worker_routine take for impossible does not happen: a
\* job from the ready cache is neither set up, destroyed nor executed.
THEOREM PickedJobIsRunnableHolds ==
  ASSUME Families
  PROVE  Spec => []PickedJobIsRunnable
<1>1. IndInv => PickedJobIsRunnable
  BY RunnableFact
<1> QED
  BY <1>1, JobLifeInvariant, PTL

\* The access count of a live job is the number of threads that access it,
\* whatever the widths of the counts: a thread that finds the count at its
\* limit is refused, and none is taken from a job whose count is 0.  There is
\* one way in which a program can break this, a slot that gets a new job while
\* its last job is still accessed.
THEOREM AccessCountsHoldersHolds ==
  ASSUME Families, IsFiniteSet(Workers)
  PROVE  Spec /\ []~ReusedWhileAccessed => []AccessCountsHolders
<1>1. Init => AccessInv
  BY InitAcc
<1>2. IndInv /\ AccessInv /\ ~ReusedWhileAccessed /\ [Next]_vars => AccessInv'
  BY NextAcc
<1>3. AccessInv => AccessCountsHolders
  BY DEF AccessInv
<1>4. Spec => []IndInv
  BY JobLifeInvariant
<1> QED
  BY <1>1, <1>2, <1>3, <1>4, PTL DEF Spec
=============================================================================
