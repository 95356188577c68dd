# schedi in TLA+

schedi is a C library that runs *jobs* on a pool of worker threads. A job is a
function with a context; it may ask to be run again, wait for sockets or for
other jobs, and be waited for. Jobs live in a fixed array, and almost everything
about a job is in one atomic 32-bit word, `meta_flag`, that every thread changes
with compare-and-swap loops. This directory models the scheduler: the slot
table, the word, the life of a job, the ready cache, the worker threads, the
destroy queue, the completion indicator, and what the epoll thread serves:
one-time requests and buffered sockets.

Line numbers refer to `src/src/*.c` and `src/include/schedi/*.h`.

## Inventory

| Component | State | Operations | Hard parts |
|---|---|---|---|
| slot table (`jobs.c:195-275`) | `empty_sections`, `SECTION_WARN` | `sections_init`, `section_claim`, `section_release` | long claim/release sequences, a full table, interval ends |
| `meta_flag` word (`jobs.h:40-108`, `jobs.c:572-830`) | flags, 4-bit counters for accesses, available jobs and sockets, waiting requests | `mark_or`, `unmark_or`, `mark_access`, `unmark_access`, `cas_update` and the wrappers | counter limits, thresholds read once, derived bits |
| job life (`jobs.c:837-926`, `1779-1886`, `worker.c:51-79`) | `gen`, `state`, `requested_job`, thresholds, indicator | create, setready, pickready, run, notify parent, destroy | two children completing at once, destroy against access or execution, reused slots |
| ready cache (`jobs.c:405-569`) | `ready_jobs_cache`, `job_count` (count and peak), reorganize counter | push, pop, reorganize, tick | lock-free exchange of entries, counts that lag, a window of checked entries |
| worker pool (`worker.c`, `jobs.c:277-382`) | `shutdown`, `readyjob_mutex`, `readyjob_cond` | `worker_routine`, init, deinit | lost wakeups, shutdown race, two builds |
| destroy queue (`jobs.c:25-193`, `872-903`) | ring `buf`, `ready`, packed head/tail/count | push, super_push, super_pop, dec_count, queue check | three-step push, entry freed before it is read, lagging count |
| completion indicator (`jobs.c:1890-1925`) | flag, mutex, condition | init, indicate, wait, destroy | spurious wakeup, destruction while in use |
| epoll requests (`jobs.c:928-1005`) | request, waiting count | `tool_epoll`, `epoll_request_return` | late event for a reused slot, spin on a banned owner |
| epoll thread (`epoll.c`) | two epoll descriptors, wake fd, `epoll_stop` | thread init/deinit, loop, dispatch | stop and restart, descriptors closed under users, one request on two instances |
| epoll sockets (`jobs.c:1007-1777`, `jobs.h:175-285`) | `htc` word, two ring buffers, conditions, `fall`, timer | register, read/write from both sides, change of conditions, done, timeout, `epollagain` | lock-free buffers, one-shot registrations that must be renewed, readiness carried from the socket's word to the job's, two owners, timer against data |
| list, log | a list; a line buffer | - | `list.c` has no user; the log is output only |

How they interact. `schedi_job_create` claims a slot and publishes the word.
`schedi_job_setready` (called by users, by a worker whose job returned 1, and by
the `cas_update` that completes a job's readiness) marks READY and pushes the job
into the cache under `readyjob_mutex`. A worker pops it, marks an access, clears
READY and marks EXECUTING, drops the access, runs it, and when it
is over indicates completion, adds one to the available jobs of the parent
it was required by, and destroys it: directly, or, when `destroy_now` reports
failure, through the destroy queue that every worker looks at once per loop. Teardown
increments `gen`, clears the word and releases the slot. A running job that
calls `schedi_job_tool_epoll` adds one to its waiting count and registers a
descriptor; the epoll thread answers an event by an access to the owner, a
comparison of generations, and a `cas_update` that takes one off the count and
may complete the job's readiness. A job that registers an epoll socket
(`schedi_job_tool_epollsocket`) shares with the epoll thread the two buffers of the
socket and its `htc` word; every change of the word's READY bit is carried over to
the job's count of available sockets by `jobready_update`, and the job is
ready when that count reaches what it required. Job and epoll thread give up the
socket separately, and the last of them frees it.

What makes each component correct: the table never offers a slot in use and
forgets none silently; an access count counts accesses; a popped job is
live, run by one worker and torn down once; a parent runs again after the jobs it
required, and does run again; the cache and the queue lose and duplicate nothing;
no job waits while all workers sleep; the pool stops; a waiter returns, and not
before completion; the waiting count counts unanswered requests, whose data lives
as long as an event may carry it; the epoll thread can always be stopped; the bytes
of a socket come out in order and all of them, the job's count of available sockets
follows its sockets, a resumed job finds what it asked for, and a socket is freed
once, after its last use.

## Modules

| Module | Models | Composition |
|---|---|---|
| `SlotPool` | abstract pool of free slots: claim, release, lost release | |
| `JobSlots` | the section table | implements `SlotPool` (`PoolSpec`) |
| `...Proofs` | theorems about `JobSlots`, `JobLife`, `WorkerPool`, `DestroyQueue`, `CompletionIndicator`, `EpollRequest`, `SocketStream`, `EpollSocket` | each extends its module and TLAPS |
| `MetaFlag` | the word as a record, the CAS loops as operators | |
| `JobLife`, `JobLifeMC` | life of jobs, dependencies, destruction; scripts of `main()` | extends `MetaFlag`, slots as in `SlotPool` |
| `JobBag` | abstract bag: put, take, drop, again | |
| `ReadyCache` | the cache, one atomic access per step | |
| `WorkerPool`, `WorkerPoolMC` | `worker_routine`, start and stop | extends `ReadyCache`, implements `JobBag` (`BagSpec`) |
| `DestroyQueue` | the ring | implements `JobBag` (`QueueSpec`) |
| `CompletionIndicator` | the indicator | |
| `EpollRequest`, `EpollRequestMC` | requests of a job, `schedi_epoll_loop`, start and stop of the thread; programs | extends `MetaFlag` |
| `SocketWord` | the `htc` word as a record, its CAS loops as operators | |
| `ByteStream` | abstract pair of FIFO byte channels | |
| `SocketStream`, `SocketStreamMC` | read, write, the two returns, renewal of the registrations, change of the conditions; loads | extends `SocketWord`, implements `ByteStream` (`StreamSpec`) |
| `EpollSocket`, `EpollSocketMC` | life of a socket: registration, readiness of its job, timeout, done, free; programs | extends `MetaFlag` and `SocketWord` |

Correspondence. A thread is a function value holding a program counter and its
locals; each action is one atomic step of the code. A CAS loop is one step: a
failed attempt changes nothing and retries with the fresh word, so the loop acts
on the word it finally replaced. What the loop reads *before* it starts (the
thresholds in `cas_update`, `jobs.c:655-656`) is a step of its own (`CasRead`).
The word is a record with the set of flags and the counters, so bit layout is
abstracted and width is kept: counters live in `0 .. MaxAccess` and
`0 .. MaxCount`, wrap or are refused where the code wraps or refuses. A critical
section with a single effect is one step guarded by the mutex being free.

`JobLife` takes the cache and the queue as atomic; `ReadyCache`/`WorkerPool` and
`DestroyQueue` look inside them and show that each behaves as an atomic bag
(`JobBag`), which is what `JobLife` uses. In the same way `JobLife` takes slots from
a set, which is what `JobSlots` is shown to implement. User functions are scripts
of library calls taken from `examples/avjobs.c` and `examples/aparalleljob.c`.

In `EpollRequest` the job, with the worker that has it, is one actor per slot and
the epoll thread another. The steps of the job that the epoll thread can meet are
kept apart (READYBASIC, the two registrations, the mark and the three parts of the
teardown); those that commute with it are taken together. The kernel is a set of
registered descriptors per epoll instance and the events each has pending;
`epoll_wait` is level-triggered, as in the code. A job asks for its descriptors,
returns 1 and ends when it is run again (`examples/onetimesocket.c`), or ends
without waiting. `main()` may stop the thread, destroy its descriptors and start it
again; `epoll_stop` stays set, as in the code.

Epoll sockets are modelled twice, because their two questions meet only in the word.
`SocketStream` is about bytes: the n-th byte of a direction is the number n, both
threads copy, add and store positions in separate steps in the order of the code,
`recv` and `send` move what the kernel has or takes, and `epoll_wait` disarms what
it reports until `schedi_epoll_mod` renews it. The CAS loops of the epoll thread
are split where it matters: the condition is read by one step and the
CAS is another, which fails if the word has changed (`ReturnRead`, `ReturnAdd`).
`EpollSocket` is about readiness and ownership: a receive is one step there, and
each call of `jobready_update` is up to four (access, comparison of generations,
CAS, give back), in either thread. Its job is the one of
`examples/epollsocket.c` (reads, registers again after a time-out, calls done
on a dead socket and waits for EPOLLDID) or of `examples/epollsocket_test.c`
(leaves done to its destructor; its echo is not written). The first registration, the
one after a time-out and the failures of each are modelled `epoll_ctl` by
`epoll_ctl`. `timerfd` and the peer are external.

Operators whose name ends in a suffix after the name of another
(`ReleaseNew_Inactive`) are marked "Mutant": variants of a definition with a
plausible defect, used to test that the properties can fail.

## Runs

Passing runs:

| Run | Checks | Bounds |
|---|---|---|
| `JobSlots.cfg` | `TypeOK`, `NoSlotOfferedTwice`, `NoSlotForgotten`, `PoolSpec` | 6 slots, 3 section entries: enough for merges at both ends and for slots that are released between used ones until sections run short |
| `JobLife.cfg` | `AccessCountsHolders`, `PickedJobIsRunnable`, `RunsLiveJob`, `TornDownOnce`, `AllJobsComplete` | 2 workers; a parent and 2 leaves, which may complete while the parent is still being executed, or independent jobs after one that `main()` destroys unrun, whose slot they may get |
| `WorkerPool.cfg` | `NoJobStranded`, `CacheNeverFull`, `PoolStops`, `BagSpec` | 2 workers, 2 jobs run twice, 1 spurious wakeup, 3 entries, all within the checked interval; `main()` stops the pool after its jobs or at any moment; also the `LOCKLESS_READYJOB` build |
| `DestroyQueue.cfg` | `QueueNeverFull`, `CountIsExact`, `QueueSpec`, `AllDestroyed` | 2 threads, 2 jobs pushed 3 times each, ring of 4, so that it wraps and a stalled thread can be lapped; one job found busy |
| `CompletionIndicator.cfg` | `WaitReturnsCompleted`, `IndicatorOutlivesUse`, `WaitersReturn` | 2 jobs, 2 waiters, any spurious wakeup |
| `EpollRequest.cfg` | `WaitCountsRequests`, `ResumesWhenAnswered`, `JobsComplete`, `DeinitReturns` | a job that asks for 3 descriptors where 2 can be counted, or one that may end while its descriptor is registered; `schedi_epoll_thread_deinit` at any moment or never, and the thread started and stopped again |
| `SocketStream.cfg` | `CountsAreExact`, `StreamSpec`, `AllSent`, `AllReceived`, `FlagsAreCurrent`, `DeathNoticed` | buffers of 2; 3 bytes in and 1 out, or 4 out: each buffer fills, wraps and fills again; reads and writes of 1 or 2 bytes, room for 1 byte in the kernel, conditions lowered from 2 to 1 at any moment, an end of the stream or a reset at any moment |
| `EpollSocket.cfg` | `AvailableCountsReady`, `ReadGuaranteed`, `FallCountsHolders`, `SocketReleased`, `BytesRead` | 3 bytes read by 2, 2 expiries of the timer, timer and data in one answer of `epoll_wait`; eight programs: with and without timeouts, a peer that closes (at any time in the build without timeouts) or is silent, done by function or by destructor, the first or second registration refused for the timer or the socket |

What they show: the section table is a pool; with the order of calls that
`examples/avjobs.c` uses, jobs run live, once at a time and to their end, and are
torn down once, whatever the interleaving of workers; the cache and the queue,
which are lock-free, are bags; the shutdown race that a comment in
`worker.c:21-23` warns of (`ISSUE_WORKER_SHUTDOWN_RACE`) does not exist any more,
since `shutdown` is set and tested under `readyjob_mutex`; and the
completion indicator loses no wakeup. A job that waits for descriptors is never
resumed before every request was answered or had failed, and while the thread
runs it is resumed and ends; a stop that closes the descriptors under it leaves the
counts exact, and the stop itself never hangs, the second time neither. The ring
buffers of a socket lose, double and reorder nothing although both threads work on
them without a lock and `read` gives bytes back before it stores its tail
(`jobs.c:1576-1578`); what `write` leaves in the buffer is always sent. With the
programs of the examples the job's count of available sockets is exact, the job
is resumed with the bytes it asked for, and through time-outs, new registrations and
failed ones the references are counted exactly and the socket is freed.

The ready cache always has room (`CacheNeverFull`, and the theorem `NeverFull` for every
size): it has an entry for each slot, and a push that scans it against pops and a
reorganization finds one. "Job Ready Cache Being Full" among the flaws of
`README.md:398-411` of the repository cannot happen, not even with the workers stopped.

`TypeOK` of a module describes its variables. It is an invariant of the run of
`JobSlots` and can be added to every other run; the invariants that are checked there
say more about the same state. It is proved in eight modules (`TypeCorrect`, see Proofs).

`CHECK_DEADLOCK FALSE` appears where the modelled program ends (workers joined,
all jobs destroyed, indicator gone) or where the environment may stop calling
(`JobSlots`). `JobLife` has a `Terminated` step and is checked for deadlock.

Runs that refute a statement of the repository. Each states what a comment or
document says, and TLC finds a behaviour of the code that contradicts it:

| Run | Statement | What happens |
|---|---|---|
| `WorkerPoolStranded.cfg` | no missed job (`jobs.c:285-291`) | a job pushed beyond the checked interval stays there while all workers sleep |
| `EpollRecycled.cfg` | "When a job is ready, a worker [...] will get this job and execute it" (`README.md:163-164`) | `epoll_request_return` makes the owner ready before it gives its access back; the job ends meanwhile and is torn down in spite of the access, whose return wraps the count of the next job in the slot: that job is never picked |
| `ParentRecipe.cfg` | a parent that sets its children ready and then requires them is next executed when they have completed (`README.md:285-298`) | `cas_update` reads the threshold before its CAS (`jobs.c:655-656`); a child that read it before the parent stored it computes READYJOB from 0 after the parent has returned, and the parent runs with one of two children done |
| `SocketDone.cfg` | "If EPOLLNT is set but EPOLLDID is not, readiness is false no matter what" (`jobs.h:254-258`), "Then socket will be accepted as not ready until it is destroyed" (`README.md:274`) | the job calls done on a live socket and waits; the peer closes, `schedi_job_epollsocket_dead` sets READY under EPOLLNT (`jobs.c:1096`; `timeout_cas` does the same, `jobs.c:1175`), and the job is resumed, and may close the descriptor, while it is still registered |

`jobs.c:844` tests what `schedi_job_mark_unstable` returns the wrong way round:
it tears down exactly when the mark is refused, although "If mark_unstable fails
(slot is busy) returns 0" (`jobs.h:1212`). This explains why ordinary destruction always goes
through the queue: the first `destroy_now` succeeds in marking UNSTABLE and
reports failure, the job is pushed, and the second one is refused by the first
one's mark and tears the job down. The passing runs model exactly that and show
that it is safe as long as nobody destroys a running job and no slot
is reused while somebody still holds an access to its earlier job.

Where the passing properties end. Each of these limits is a constant, a program or an
exception that the property itself states, and relaxing it makes TLC show why it is
there. What lies beyond them is what the code does, and not claimed to be right:

- `NoSlotForgotten` allows slots lost with `SECTION_WARN` set: the rescan that
  `jobs.h:398-403` describes does not exist. Nor are sections kept sorted or merged
  with each other (`jobs.c:201-203`); nothing depends on that but the
  number of entries needed.
- `MaxAccess = 1` in `JobLife.cfg` breaks `AllJobsComplete`: a child whose
  access to the parent is refused (`worker.c:67`) does not try again. The code's field
  of 15 is full only with 16 threads in one job; in the run it is never full.
- `MainScripts <- FamilyThenLeaf` breaks `AccessCountsHolders`: an `unmark_access`
  that comes after the teardown is taken from the slot's next job and wraps its
  count (`jobs.c:792`). The same script shows a job in a reused slot that signals
  the indicator of the earlier one, since `schedi_job_create` does not reset
  `completion_indicator`.
- `TypeOK` of `WorkerPool` allows a peak up to `CountMod - 1`: a pop may be counted
  before its push, the count wraps below zero and the peak becomes 2^32 - 1, after
  which the reorganization finds a negative index and never runs.
- In `EpollRequest.cfg` a job that may end early asks for one descriptor only. With
  two (`Loads <- QuitTwo`), `DeinitReturns` fails: the first event's access is given back after the
  teardown and wraps the count of the free slot, and the handler of the second
  spins on it (`jobs.c:933`).
- One descriptor for reading and writing (`EventsOf <- BothWays`, `Loads <- OneLife`,
  `Fds = {a}`) breaks the invariant `EventDataIsLive`, which therefore no run states: the read event is answered and the data
  freed before the second `epoll_ctl` of `schedi_epoll_add`, which registers the
  freed data, although the call is "thread-safe" (`epoll.h:80`). In the same way the
  answer to one direction frees the data of an event of the other that is in the batch.
  The descriptors of the runs are in one direction, where the data is live.
- `JobsComplete` asks that the epoll thread was never stopped: one that is started
  again returns at once, since nothing resets `epoll_stop`, and the jobs that
  register from then on wait for ever.
- `AllReceived` and `DeathNoticed` except `FilledDuringRead`. A `read` wakes a socket
  that stopped receiving if it saw the buffer full when it began (`jobs.c:1580`); when
  the epoll thread fills the buffer during the read, it does not renew the
  registration because the buffer is full, nor does the read, and nothing is
  received again until a buffered write renews the registration.
- `AllReceived`, `AllSent` and `FlagsAreCurrent` except `Overtaken`. `count_add` reads
  the condition and then replaces the word (`jobs.c:1118-1136`); if the job stores
  another condition in between and its own update leaves the word as it was, the
  replacement succeeds with the flags of the old condition, and the job is not woken
  for bytes that are there, or is woken without them.
- `Programs <- ReadTwice` breaks `AvailableCountsReady`: a job that reads twice in one
  run takes the socket's readiness down while the epoll thread's update that it
  came up is still under way. The job's update arrives first, its count below zero
  is refused (`jobs.c:1045`), and the count stays one too high.
- `SocketReleased` and `BytesRead` of `EpollSocket` except behaviours in which the epoll
  thread is about to use a freed socket or freed event data (`MeetsFreed`), from where the
  code's behaviour is undefined; the model's thread stops there. It gets there in
  `EpollSocket.cfg`: add the invariant `EventDataIsLive`. The end of the stream may be
  dispatched between the two registrations of `schedi_epoll_add` (`epoll.c:53-71`), which
  then registers freed data; and of the timer and the data of a socket in one answer
  of `epoll_wait` (`MAX_EVENTS` is 1024) the handler of the first takes the socket
  out and frees, and the second is dispatched all the same.
- Bytes received after the TIMEOUT mark are not counted (`jobs.c:1116`), and so lost to
  the job. With timer and data in one answer this happens in `EpollSocket.cfg`.
  `BytesRead` is about bytes in the kernel or counted in the buffer, and does not see it.
- `Programs <- CloseLate` breaks `FallCountsHolders`: when the end of the stream
  meets an expiry, both handlers give up the reference of the registration. The
  condition `calm` keeps the two apart in the one program of the run that has both; it
  also keeps an expiry away from the second registration that is refused. Nothing in
  the code does.
- A registration for writing that the kernel refuses (`fails` with the source `out`)
  breaks `EventDataIsLive`: it comes after the one for reading, whose event may be in
  an answer of `epoll_wait` already when the data is freed.
- A job that leaves its socket to the destructor, in the build with timeouts, breaks
  `FallCountsHolders` if its function also calls done after a failed `epollagain`: the
  reference of the job is dropped twice.
- `epollagain` fails when the job sees TIMEOUT before the epoll thread has set
  EPOLLDID; the job of the example then gives up a socket that was only late.
  `BytesRead` allows it.
- The properties of `DestroyQueue` end with the first lapping: `lapped` records that an
  entry was reserved while a thread was still in it. Nothing in `jobs.c:94-117` prevents
  it, and then `dq_super_pop` reads `dq.buf` after its CAS has given the entry back
  (`jobs.c:159`). It happens in the run, and `QueueSpec` without the exception fails.
- `WaitReturnsCompleted` excepts spurious wakeups: `schedi_job_completion_wait`
  has an `if` where the condition variable needs a loop (`jobs.c:1917-1921`).
- `AllDestroyed` excepts a job found busy in the queue: it is put back and not
  looked at again before another worker checks the queue.

- `PopCount` of `ReadyCache` takes three steps of the code as one (the tick of the
  reorganization counter, the count, the clearing of ARRAY_FULL): each is one atomic
  access of a different word, and the thread decides nothing between them.

## Bounds

- `MaxAccess`, `MaxCount` are 15 in the code and 3 in the models: at least the
  number of threads that can hold an access at once.
- `CountMod` stands for 2^32; 16 is above every count reached, so the wrap below
  zero is seen as a very large number, as in the code.
- `CacheCheck` is the checked interval (`SCHEDI_JOBS_CACHE_CHECK`, 16), and the
  threshold of the reorganization is derived from it as in the code. The passing
  run uses 3: a reorganization that moves one job counts a pop and a push, so an
  interval of 2 would make it start itself again for ever, which with the code's
  constant it cannot do with so few jobs. With 2 jobs the cache of the run is never
  nearly full; that case, any number of jobs and a cache beyond the checked interval
  are covered by the theorems about `CacheNeverFull` and `BagSpec`.
- `RingSize` (`SCHEDI_DQ_SIZE`, 1024) is at least jobs + threads, as in the code
  with its 256 slots. A ring of 4 lets a thread be lapped (see above); with 1024 entries
  and 256 slots that takes a long stall.
- `EpollRequest.cfg` has `MaxCount = 2` and three descriptors, so that the limit of
  the waiting count is met, and both epoll instances are used. One slot is
  enough: jobs meet in it only through the epoll thread, which serves
  one event at a time.
- `BufferSize` is `SCHEDI_JOB_EPOLLSOCKET_BUFFERSIZE`. In `SocketStream` 2 is the
  smallest size with a first and a rest part of a transfer; in `EpollSocket` it is
  larger than what the peer sends, so that a receive is never limited.
- In `EpollSocket` `MaxEvents = 2`: an epoll instance has at most two events of one
  socket, the timer and EPOLLIN, so longer answers add nothing. One read per run, a job
  that is done only on a dead socket and, for two programs, a `calm` peer are the limits
  explained above. `MaxExpiries = 2` lets a socket time out, be registered again and time
  out again.
- `Runs`, `LeafPhases`, `Lives`, `MaxBusy`, `MaxSpurious` bound how often
  something happens; a second time lets an operation meet its own repetition.
- Symmetry over workers and jobs is used in `WorkerPoolStranded.cfg` only.

## Fairness

Weak fairness of each thread's next step: the operating system schedules threads,
user functions return, and `pthread` mutexes are granted eventually. Not assumed:
that an idle worker looks at the destroy queue (`IdleCheck` has no
fairness, since it may be asleep), that spurious wakeups occur, or that a job is
ever destroyed by its user.

In `EpollRequest` the job, the epoll thread and a `schedi_epoll_thread_deinit`
that has begun are scheduled fairly, `main()` starts the thread, and each
descriptor eventually has its event (the peer answers). The spin of
`epoll_request_return` is a step that is enabled when an attempt succeeds or is
refused for good, so weak fairness does not help a thread that spins for ever. Only
the first start of the thread is assumed to happen.

In `SocketStream` and `EpollSocket` the job and the epoll thread are scheduled fairly,
the peer sends what its program says, receives what arrives and, where the program
says so, closes. No fairness is assumed for faults, nor for the timer: a job
must not depend on a time-out.

## Proofs

`JobSlotsProofs` proves for every `MaxJobs` and `MaxSections` that are positive
(the only assumption, on the constants of `JobSlots`):

- `TypeCorrect`: `Spec => []TypeOK`;
- `SlotsAreExclusive`: `Spec => []NoSlotOfferedTwice`;
- `SlotsAreNotForgotten`: `Spec => []NoSlotForgotten`;
- `TableImplementsPool`: `Spec => PoolSpec`.

The inductive invariant is `TypeOK`, `SectionsWellFormed` (an active section is
a nonempty interval within the array, which is what makes the slot
`section_claim` takes from its start a free one), `NoSlotOfferedTwice` and
`NoSlotForgotten`. The argument goes through the set of free slots: lemmas say
how the union of the active intervals changes when one section loses its first
slot, grows by one at an end, or is opened with one slot; each action then
changes `FreeSlots` by exactly the slot it moves. Disjointness is needed to know
that a claimed slot leaves the union, and that a released slot was in no section.

`JobLifeProofs`, for every set of workers and slots, number of leaves, phases of a leaf
and width of the counters: `TypeCorrect`, `TornDownOnceHolds` (`TornDownOnce`),
`RunsLiveJobHolds` (`RunsLiveJob`) and `PickedJobIsRunnableHolds` (`PickedJobIsRunnable`).
Their hypothesis `Families` is about the programs: the scripts of `main()` create jobs
before they use them and set each one ready or destroy it at most once, and a parent
requires all its leaves before it sets one ready, as in `examples/avjobs.c`. The constants of
`JobLife.cfg` satisfy it, which TLC checks as an assumption of `JobLifeMC`; the recipe of
`ParentRecipe.cfg` does not. Slots are reused freely.

`AccessCountsHoldersHolds` is about the same programs: `AccessCountsHolders` holds in every
behaviour in which no slot is given to a new job while a thread still has an access of the
old one (`ReusedWhileAccessed`). That happens in the code, for `destroy_now` does not wait
for accessors (with `FamilyThenLeaf`, for instance, and in `EpollRecycled.cfg`); the theorem
says that there is no other way to a wrong count.

`IndInv` says where a job is: free, in the cache, in the destroy queue, suspended with
READYBASIC set, or in the hands of one thread as the job it works on, as the target of a
call, or as one it created and has yet to use (`Exclusive`); which marks it has there
(`Staged`); and that its generation is the one that was popped (`SameLife`). The inverted
test of `destroy_now` is harmless because of this: a job reaches `destroy` with
WLLDESTROY set, nobody else has it, and nobody gets it before it is torn down. That part
alone is not inductive. A leaf of an earlier parent could tell the slot's next job. `Counts` says that the leaves a parent was
told about (`avjobs`) and those that live and have yet to tell are at most the leaves
it has created, and that no leaf tells before it has completed; `Resumes` says that a
parent in its second phase has met its threshold unless it waits. So when a parent is torn
down no leaf is left that could tell the slot's next job, and `requested_gen` is never
ahead of `gen` (`LeavesFit`). Every action moves one job (`MoveStep`) or none (`StayStep`);
there is a lemma for each action, the CAS of `cas_update` having one for each of its uses.

For the access counts, `AccessInv` is added to it. Its part `Untouched` says that UNSTABLE
is set only on a word without accesses and refuses new ones, so that the `unmark_access`
which it makes a no-op (`jobs.c:781-800`) never has to count. A step then takes an access
(`HoldTaken`), gives one back (`HoldGiven`), or keeps all of them (`HoldKept`); a job is
published in a slot that nobody accesses, by the exception.

`WorkerPoolProofs`, for every set of workers and jobs, cache size, checked interval and
number of runs:

- `TypeCorrect`, `NeverFull` (`CacheNeverFull`), `ImplementsBag` (`BagSpec`);
- `JobsAreNotStranded` (`NoJobStranded`), for at least one worker and no more jobs than
  a pop looks at. The run `worker_pool_stranded` shows that it needs the second
  hypothesis; nobody but a worker empties the cache, so it needs the first.

Assumed (`CapacityAssumption` of `ReadyCache`) is an entry for every job, which is how
`jobs.c` sizes the array, and fewer threads than half the range of the count. `IndInv`
says where each job is (`Exclusive`: in one entry or in one thread's hands), what the
count is while some threads are late with theirs (`Counted`: it may be below zero, modulo
its width, and a peak taken then is beyond the signed range), and why a push finds room
(`Room`: a push that has come to entry `k` has at most `|Jobs| - k` jobs in the entries
from `k` on, because whatever it passed was a job; a reorganization may have moved that
job since, but only downwards). Every action moves at most one job, in one of five ways;
`Exclusive` and the refinement follow from the move alone. `SleepInv` adds who holds the
mutex, and that the last worker awake has found the part of the cache it looked at
empty: jobs come into the cache with the mutex, which that worker holds.

`DestroyQueueProofs`, for every ring with room for all jobs and threads
(`QueueSizeAssumption`; the code has 1024 entries for 256 jobs): `TypeCorrect`, `NeverFull`
(`QueueNeverFull`), `CountExact` (`CountIsExact`) and `ImplementsBag` (`QueueSpec`). There is
no hypothesis on the schedule; the properties themselves end with the first lapping, since
nothing in the code stops a thread from stalling between its swap of the packed word and its
access of the entry while the others go once around the ring. `Inv` is `IndInv` unless
`lapped`: a step that laps nobody keeps `IndInv`, which relates the segment from tail to head
with the ready marks and the threads that work on an entry; the count is a second layer on
top.

`CompletionIndicatorProofs`, for every number of jobs and waiters: `TypeCorrect`,
`ReturnsWhenCompleted` (`WaitReturnsCompleted`), `IndicatorIsUsedBeforeDestroyed`
(`IndicatorOutlivesUse`). The mutex is held exactly between the store of `completion` and
the broadcast, so whoever returns without a spurious wakeup has left the worker behind.

`SocketStreamProofs`, for every buffer size, condition, request size, program and room in
the kernel: `TypeCorrect`, `CountsExact` (`CountsAreExact`), `ImplementsStream`
(`StreamSpec`) and `FlagsCurrent` (`FlagsAreCurrent`, which excepts behaviours in which an
update of the epoll thread is `Overtaken` by a change of the conditions, and says nothing of
them). The counts alone are not inductive:
`IndInv` numbers all bytes through and says at which position of the ring each one is,
corrected by the transfers under way, since each thread moves bytes, then adds to the
word, then stores its position. What a thread saw of the word can since have changed only
in its favour.

`EpollRequestProofs`, for every number of slots and descriptors: `TypeCorrect`,
`WaitCountExact` (`WaitCountsRequests`) and `ResumesAnswered` (`ResumesWhenAnswered`). Their
hypothesis `OneTime` leaves out descriptors that are registered in both directions, with
which the code uses freed memory (the answer to the first event may free the request before
it is registered for writing), and a
second job in a slot, since the model has one request record for a descriptor where the
code would have two. The invariant says which flags the word has in each stage of the job,
where the requests are, and that the list of answers makes up for the count.

`EpollSocketProofs`, for every buffer, size of a read, number of bytes and of expiries
and every width of the counters that holds two: `TypeCorrect`, `ReadyCountExact`
(`AvailableCountsReady`), `ResumedReads` (`ReadGuaranteed`) and `FallExact`
(`FallCountsHolders`). Their hypothesis `Sound` is about the programs: one read per run, a job
that calls done on a dead socket or leaves it to its destructor, a calm peer, no refused
registration for writing, and answers of one event if the socket has a timer. It is narrower
than the run, which checks the same three invariants with a peer that closes at any time in
the build without timeouts and with answers of two events in the other. The last three
conditions keep the epoll thread away from freed memory, which the inductive argument
relies on.

None of the four is inductive, and they are proved together, because each thread relies
on what the other has made of the word. The argument turns on three facts. From the moment
it is resumed until it changes the word itself, the job finds READY set and no update
of the epoll thread under way (`PendingFits`): so its own update never brings the count
below zero, and the count can be exact. A socket with one of the marks DEAD, TIMEOUT and
EPOLLNT is one the epoll thread has given up or is on its way to give up, which it does
once (`EpFits`): so EPOLLDID comes once for each registration, and `fall` counts. And
a job that registers has a socket without these marks, of which the epoll thread has no
event in its hands (`JobFits`, `RegFits`). The access count of the job's word is the number of
threads that access it (`MetaFits`), so a change of readiness is dropped only by a job that
has begun to end. There is a lemma for each action, or for each case of one, and in it a
step for each part of the invariant.

Only model-checked:

- liveness (`AllJobsComplete`, `PoolStops`, `AllDestroyed`, `WaitersReturn`, `JobsComplete`,
  `DeinitReturns`, `AllSent`, `AllReceived`, `DeathNoticed`, `SocketReleased`, `BytesRead`):
  the provers do not reason about fairness;
- the invariants of `EpollSocket` for the programs of the run outside `Sound`, and
  `EpollRequest` with a slot used again.

## Not modelled

- A job function that returns 0 (it stays suspended), failures of `malloc` and
  `pthread_create`, and DESTROYNOTENT as a bit of the word (in `DestroyQueue` a
  refused push is recorded in `notent`).
- Memory order: every atomic operation is sequentially consistent here, plain
  fields are read and written in program order.
- Failures of `poll`, `epoll_create1`, `eventfd` and the `timerfd` calls; the timer's
  descriptor, which nobody closes after a successful registration.
- Several epoll sockets of one job, and a job that writes while its socket times out.
- `list.c` (unused), `log.c` (output only), `jobs/jobs_epoll_socket.h` (not
  included anywhere).

## Plan

Done: the scheduler in the order slot table, word, job life, cache and pool,
destroy queue, indicator; epoll requests and the epoll thread, with its restart;
epoll sockets, first their bytes, then their life. Next:

1. `EventDataIsLive` of both epoll modules as runs that refute "thread-safe"
   (`epoll.h:80`), and `FallCountsHolders` with `CloseLate`.
2. `JobLife`: a job function returning 0, destruction by somebody other than the
   worker, whose indicator a reused slot signals.
3. Two sockets of one job, for the count of available sockets above one.
