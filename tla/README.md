# DNS_pro in TLA+

A verification development for the filtering DNS forwarder under `src/`: TLA+
modules of its concurrent components, its data structures and its protocol
code, TLC configurations that check them on
small instances, and TLAPS proofs for every value of the constants.

## The system

One process forwards DNS queries, answers from a cache and filters names
against a blocklist that can be replaced while it serves.

| thread | code | what it does |
|---|---|---|
| owners | `DNS::start`, `request_stop`, `join`, `wait`, `replace_blocked_domains` | start and stop the service, ask for updates |
| A | `FilterUpdateController::run` | takes queued updates, builds a snapshot, publishes it, waits until it is visible |
| B | `FilterPublicationState::run_reclaimer` | destroys a replaced snapshot once every worker has left it |
| C | `WorkerSupervisor::run` | creates, gates, monitors, replaces and joins workers |
| workers | `WorkerLoop::run` | epoll loop, coroutine scheduler, timers, one upstream channel, one cache shard, a local snapshot |

Interactions: A commits through the publication state, which hands the old
snapshot to B and tells C, which tells every worker; a worker's acknowledgement
wakes B, and B's convergence wakes A. C registers and quiesces workers in the
publication state. The owner's teardown joins C (and with it the workers), then
A, then B, and stands in for any of them that failed.

## Inventory

| component | state | operations | hard behaviours | properties |
|---|---|---|---|---|
| publication state | active snapshot, generation, per-slot epoch, two retirement records, one credit | register, refresh, quiesce, commit, scan, reclaim, detach, emergency reclaim | lock-free scan against restarts and refreshes; wakeups; B failing | no snapshot freed under a reader; success means visible; refinement of FilterVersions |
| update controller | queue, byte account, in-flight journal, retirement credit, seal | submit, take, apply, seal, cancel, successor | seal against commit; A failing after a commit; exits of apply with the credit in hand; two sealers | one true answer per caller; accounting; the credit is not lost; teardown ends |
| upstream channel | id table, free and retired ids, pending awaiters | begin, finish, deadline, datagram, abandon, fail_all, stop | late and duplicated datagrams; deadline against response; id reuse | ids partitioned; one completion; own response |
| worker supervisor | record per worker, gates, budget, results | create, spawn, gates, replace, stop, join | stop against replacement; failed joins; exceptions in C | quiescence is real; gates; budget; waiters answered |
| service lifecycle | lifecycle state, control threads, first cause | init, start, stop, join, teardown | concurrent stop, join, failure; retry after a failed join | owners outlive threads; nothing left behind; first cause wins; calls return and the service settles |
| coroutine runtime | frames, ready queue, timer heap, stop source | spawn, schedule, run_ready, awaiters, expire, cancel_all, shutdown | cancellation from a running coroutine; deadline against completion; budgets; reuse of frames | one owner and one waker per frame; shutdown leaves nothing; sleepers wake |
| request path | datagrams, pending flags, upstream socket, local filter | receive, evaluate, match, look up, query, answer, hang up | edge triggering and budgets; hangup; rules that change during a request | queries dealt with; blocked names get no address; closed sockets unused |
| timer queue | heap, place of each registration | arm, disarm, abandon, expire | removal from the middle | heap order and places |
| cache shard | slots, index, CLOCK hand | get, put | expiry, replacement when all are in use | index and slots agree; no answer outlives its TTL |
| blocklist | cuckoo filter, tree of labels | build, grow, match, cancel | kicks that fail; growth | exact matching; failed insertions change nothing |
| wire protocol | packets, names | parse, validate, write | compression pointers; boundaries of packet, record and name | names stay in place; what is written is read back |

## Modules

**FilterVersions** is what the publication promises: versions replace one
another, a reader moves straight to the newest one, and the next version comes
only after every reader reached the last. At most two adjacent versions are read
at the same time.

**FilterPublication** models `FilterPublicationState` with the parts of C, A and
the workers that call it. A section under `publication_mutex_` that B can see
half done (registration, refresh) is two actions; B's scan is one action per
atomic load; any other critical section is one action. `retirement_mutex_` is
held by B in the stages of `Scanning`. A snapshot is its generation, 0 a null
pointer; `use_count()` is counted from the owners the state names.
`progress_sequence_` is reduced to what B compares it for: whether it moved since
B read it. The grace deadline may expire at any scan.
The theorems of a module M are in **MProofs**, described under Proofs.

**FilterUpdateController** models A, the callers of `submit_replace`, `seal()` as
executed by A and by the owner step by step, and the owner's teardown as far as A
and B are concerned. It composes with the publication through `INSTANCE
FilterVersions`: the publication appears as its abstract specification plus the
retirement credit. A rule set is its counts, its bytes and whether it builds. An
exception in `submit_replace`, in the builder or after the commit is an action; the
last (`PostcommitFailure`) is a step of its own that fairness never forces.

**UpstreamChannel** models one channel on its owner thread. The network keeps
every sent query as a datagram that may be answered at any time within
`MaxDelay`, any number of times; `DelayAssumption` (`MaxDelay <
id_reuse_guard`) is the environment's part of the contract that the guard stands
for. Time is a bounded counter. Of the outcomes the model keeps what the caller
tells apart: a response, a timeout, any other error. An awaiter is awaited once:
`query()` and `query_until()` return it as a temporary of the `co_await` expression,
so the refusal to reuse one in `QueryAwaiter::begin` is not modelled.

**WorkerSupervisor** models C, one thread per worker with the gates of
`WorkerLoop::run`, and the commands of `DNS::start` and `request_stop`. The clock
is reduced to whether a backoff or a stability window is over. Waits on `wakeup_`
are modelled as guards, since every notifier holds or takes `mutex_`. A failed
join, an exception in C and a failed refresh request are actions of C that
fairness never forces.

**DNSLifecycle** models `DNS` itself: any number of threads that call `init`,
`start`, `request_stop`, `join` and `wait` (`Program` says who calls what), and
the three control threads around them. A section under `lifecycle_mutex_` is one
action. `start` and `finish_teardown` hold `startup_mutex_`, so a single position
`at` serves the holder: each wait, each section and each join is a step of its
own. A, B and C are reduced to their runs' beginnings, ends, results and what a
teardown can wait for: an update A has committed, the record B must reclaim, the
terminal record. The other modules show that those waits end. A role may fail at
any step; `MaxJoinFailures` bounds how often a join throws (or an emergency join
or a wait fails) and the teardown answers `TeardownIncomplete`.

**CoroutineRuntime** models the scheduler, the tasks and their awaiters on one
worker's thread, with the phases of `WorkerLoop::run` that drive them. A frame is
an address that is used again after it was destroyed. Between two suspensions a
coroutine does anything the runtime offers: create and await a child, spawn,
yield, sleep, wait for an operation, wake another, cancel everything, shut its
scheduler down, return. The timers are those of **TimerQueue**, by `INSTANCE`, so
the heap is the code's and not an abstraction of it.

**RequestPath** models the data plane of a worker: epoll's edges, the
`*_pending_` flags and the budgets of each phase, `drain_listener`,
`process_datagram` from its beginning to its `co_await` and from there to its end,
the hangup of the upstream and the end of the loop, after a stop or a fatal error.
Failing calls are steps too: `recvmsg` fails, a datagram cannot be owned or spawned
(`DropDatagram`), a response cannot be made or sent (`Finish` loses it). It stands on
what the other
modules show: the channel ends each query once, the cache keeps an answer until it
expires or is replaced (`Forget`), the scheduler resumes in order of readiness.

**TimerQueue**, **CacheShard**, **DomainBlocklist** and **DnsWire** are the
sequential code, as operators on records and sequences named for the code's
functions. `TimerQueue` keeps the order in which registrations were armed
(`before`) in place of a sequence number; its loops are `Repeat`, a step applied
as often as the code's loop can turn. `CacheShard` includes the split of the capacity and which upstream
answers may be kept for how long; its `Evict` says in one expression where the loop of
the CLOCK hand stops, so that it stops is part of the definition and not a result. `DomainBlocklist` builds step by step, because
a build can be cancelled and its filter can be outgrown; the hash of each name and
every choice of a slot to kick are arbitrary. A filter with more buckets than a vector
can hold (`max_size`) ends the build with `length_error`; that limit lies below the
one of `CapacityOverflow`, which a build therefore does not reach. `DnsWire` works on
octets: the pointer walk, sections with their limits, the layouts of record data, the
writers with what they refuse (header fields too large for their bits, counts and
sizes beyond 16 bits), the header-only reply to what cannot be parsed, and the
validation of queries and upstream responses. The text form of a name is a sequence of
octets, each bare, escaped or in decimal; a bare dot separates labels. **DataStructures**
runs the four side by side: one behaviour exercises one of them.

## Runs

| run | instance | distinct states | shows |
|---|---|---|---|
| publication_safety | 2 slots, 2 generations, 2 instances | 1.6 M | safe reclaim, refinement |
| publication_liveness | 1 slot, 3 generations, 2 instances | 45 k | updates answered, teardown completes |
| update | 3 callers (two of them exceed the queue's bytes together), queue of 2, 3 generations | 176 k | true and unique answers, accounting, one holder of the retirement credit, everybody answered, teardown ends |
| upstream | 3 queries (two alike), 2 of 3 ids, timeout 1, guard 2, 3 ticks | 168 k | id partition, one completion, own response, every query ends |
| supervisor_safety | 2 workers, 3 instances, 2 attempts | 1.3 M | quiescence, gates, budget, answers |
| supervisor_liveness | 1 worker, 3 instances | 9 k | stop completes, failures are resolved |
| lifecycle_safety | 3 callers (init, init, start, wait; request_stop; join), 1 failing join | 1.5 M | owners, leftovers, failed starts, first cause (also against late reports) |
| lifecycle_liveness | 2 callers (init, start, wait; request_stop), 1 failing join | 197 k | every call returns; the service comes to rest or stays Active with all its control threads |
| runtime | 3 frames, 1 tick, budgets of 1, 2 resumptions at shutdown | 15 k | ownership, wakers, shutdown, wakeups; no deadlock |
| requests | 2 datagrams at a time (a cacheable query; a bypassing query or a response), 1 name, budgets of 1 | 371 k | queries answered or counted as lost, policy, closed sockets |
| structures | see below | 285 k | the data structures and codecs against their reference definitions |
| wait_before_start | 2 callers (init, start; wait) | violated | see Findings |

Why the bounds are enough. Two worker slots show a cohort whose members are
complete in different ways and a restart of one during the scan of the other;
two instances per slot show the reuse of an epoch; three generations show a
credit returned and used again, and exhaustion. Two ids out of three show reuse,
overload and an id that is never available; the ticks cover a timeout, a guard
period and a late datagram. Three instances with a budget of two attempts show a
replacement, a stable period that resets the budget, and exhaustion of the
budget and of the instance numbers. Three callers show a waiter, a joiner and a
stop that compete for one teardown; one failing join shows a teardown that is
entered again with each possible set of threads already joined. 
Three frames show a parent, its child and a stranger, hence cancellation seen from
each of them; a budget of 1 makes every phase end with work left over, which is
what budgets are hard for. Two datagrams show one that waits while the other
hangs up, stops or changes the rules.

`structures` uses 6 timers with 3 deadlines (a heap deep enough for a removal
after which the last element has to move up); 4 keys on 3 slots with two ticks
to a second (eviction of live entries, empty slots below the hand, TTLs that
round); 4 names in buckets of one fingerprint with at most 3 kicks and a filter
that may grow once or twice before the vector's limit of 8 buckets; every packet of up to 5
octets behind the header over the octets that matter (0, 1, 2, 12, 13, 64, 192)
with names of at most 7 octets and 2 pointers; every text of up to 4 octets over
a letter, a dot, a backslash and a control character in the forms they can have; and
exchanges over 2 ids, the flags, 4 names, A and AAAA, 3 TTLs and the sizes at which
a reply just fits, does not, or is too large for a datagram. The limits 7, 2, 1, 2 and
3 stand for 255 octets, 32 pointers, 16 questions, and the limits on the records of a
section and of a message: the code compares with them and does nothing else. With 5
octets a name cannot follow more than 2 pointers, so that limit is not exceeded.

`MaxInstance` and `MaxGeneration` are the
code's integer limits made small, so the code's own limit checks bound them.

Each `Symmetry` set permutes values that no definition tells apart and is used
only in runs without liveness properties. The definitions
marked "mutant" in front of another are plausible mistakes in the code it models;
each property is known to fail when the definition is replaced by its mutant.

## Findings

`wait_before_start`. `docs/OPERATIONS.md` says that `wait()` waits for a normal
stop or a service-level fatal failure before it drives the teardown. In the code
its predicate also holds in `Initialized`; it then releases `lifecycle_mutex_` and
blocks on `startup_mutex_`. When another thread's `start()` has that mutex, or
takes it first, `wait()` enters `finish_teardown` after `start()` has succeeded,
and `finish_teardown` returns early only for `Empty`, `Initialized`, `Stopped` and
`Failed`. So it stops and joins a healthy service; the service ends `Failed` with
the exit code `NotStarted`. The trace of `WaitTearsDownOnlyStopped` shows it. The
other lifecycle properties hold in spite of it.

## Fairness

Weak fairness per thread: a thread that can run does, a critical section ends, a
builder returns, a worker asked to stop ends its loop, and a clock passes a
deadline. Nothing is assumed of new calls, failures, restarts, datagrams or the
grace deadline. The owner's teardown is fair once the service failed or was
stopped, because `DNS` runs it from `join`, `wait` or the destructor. In `DNSLifecycle`
a caller is fair only within a call: no thread has to stop or join the service,
and the scheduling of each role is one weak fairness condition.

In `CoroutineRuntime` the worker's thread and the clock are weakly fair; no
coroutine has to end or to leave its loop. In `RequestPath` the thread is weakly
fair, and a query that stays unanswered is ended by its deadline in one of the
iterations (strong fairness, since other phases run in between): `QueriesEnd` of
`UpstreamChannel` is the justification. No reply, event or datagram has to come.

## Proofs

Each `…Proofs` module extends the module it is about and proves an invariant
inductive (`Invariance`), with one lemma per action or per group of actions, and
then reads the properties off it. The theorems hold for every value of the
constants that the named assumptions allow; the bounds of the model (`MaxTime`,
`MaxGeneration`, `MaxInstance`, `MaxJoinFailures`) are among them. TLC checked
each inductive invariant on the instance of its run before it was proved.

**FilterPublicationProofs**: `ReclaimIsSafe`, `WorkersNeverDestroy`,
`UpdatesAreVisible`, `RefusalsAreTerminal` and `PublicationImplementsVersions`,
for a finite set of workers.

1. A worker's local snapshot is the current generation, or the one before it
   while a retirement record is pending and the worker is a member of its cohort.
2. An acknowledgement (`observed_generation`) never runs ahead of the snapshot
   its instance holds, and a quiesced instance holds none. So a member B found
   complete, by either test, no longer holds the old snapshot and cannot return
   to it, although B read the atomics at different times.
3. What B has scanned so far stays true until the scan ends: that is the part of
   the invariant about `scan_left` and `scan_member`, and the reason why
   `SafeReclaim` is not inductive by itself.
4. One credit means one pending record, so no two records own the same snapshot
   and convergence never lags more than one generation.

**FilterUpdateControllerProofs**: `EveryAnswerIsTrue`, `QueueIsAccounted`,
`CreditIsNeverLost` and `NobodyIsForgotten`. `AnswersAreTrue` needs to know where
an unanswered call is: it waits in exactly one of the queue, A's hands and the
list of a `seal()` that has yet to answer it (`CallInv`), and a generation beyond
the first has a command behind it that was told so, or is the one in A's hands
(`VersionInv`). So whoever answers last, A, a seal or the successor, answers
for the first time and knows whether the rules were published. The publication is
the abstract `FilterVersions` here, which the previous module proves to be
implemented. `QueueAccounting` compares a counter with a sum over the queue: what
`Append` and `Tail` do to that sum is a lemma each, by induction on its length.

**UpstreamChannelProofs**: `PoolIsPartitioned`, `ResponsesAreOwn` and
`WaitsEndOnce`, for a finite set of queries and every configuration `start()`
accepts. `ResponseIsOwn` is not inductive: what makes it so is that an ID carried
by a transmission the network can still answer belongs to the query that sent it,
or is in quarantine until after the last possible answer (`WireInv`). That is
where `DelayAssumption` is used: a response later than `id_reuse_guard` could
reach a later query.

**WorkerSupervisorProofs**: `QuiescedInstancesAreGone`, `ServingIsReleased`,
`NobodyWaitsForever` and `RestartBudgetIsKept`, for any
workers and every configuration `is_valid_recovery_config` accepts. Per record,
the invariant orders thread, instance and quiesced epoch (`InstanceInv`), what a
thread has reported against where it is (`ThreadInv`), who may have an open data
plane (`PlaneInv`) and the budget (`BudgetInv`); `PhaseInv` says what each place
of C has established, among it that a record about to be spawned is fresh. On top
of it `DelayInv` counts how often a delay was doubled: once per attempt, and once
more while a backoff runs.

**DNSLifecycleProofs**: `ThreadsAreOwned`, `EndLeavesNothing`,
`FailedStartIsSilent` and `FirstCauseIsFinal`, for any callers and any program of
calls. The invariant ties the one position `at` to the caller that holds
`startup_mutex_`, to the state and to what is already gone: past the join of a
thread it stays gone, and only the last place of the teardown releases the owners.

**RequestPathProofs**: `ClosedSocketsStayUnused` and `PolicyIsFollowed`, for any
datagrams, rules and budgets (`ContentsAssumption` says what a datagram can be).
A closed upstream has nothing pending, so no phase drains it; leaving the loop
closes the listener with what its buffer held, and a coroutine resumed after that
finds that its scheduler has seen the stop. A forwarded datagram is a query that was not
blocked, and stays one while it waits.

**CacheShardProofs**: `CacheStaysSound`, for any keys, answers, capacity and clock
resolution, from `CacheAssumption` (at least one shard, TTLs are naturals) and of
`CacheSpec`, the cache by itself, which the run exercises through `UseCache`.
Index and slots name each other, and each entry expires when the shortest-lived
record of its answer does; the invariant carries the second part because a hit may
come any number of replacements, hand movements and ticks after the put.

**CoroutineRuntimeProofs**: `EveryFrameIsOwnedOnce`,
`EverySuspendedFrameIsWokenOnce`, `NothingIsLeftBehind` and `TimersStayInOrder`, for
any set of frames, budgets and clock, from `BudgetsAssumption` alone.

1. The heap. `Sound` says that the heap and the places its registrations know
   agree, that `before` is a strict total order on the armed ones, and that no child
   is earlier than its parent. `HeapIsKept` shows that `arm`, `remove_at`, `disarm`
   and `abandon` keep it and arm what they should. Its steps `SiftUp` and `SiftDown`
   start from a heap that is in order except above or below one place (`UpTo`,
   `DownFrom`) and show, by induction on the rounds of the loop, that this place
   moves until the heap is in order. The test in `remove_at` picks the right
   direction, and the code's branches for a wrong `heap_index_` are never taken.
   The lemmas that rest on it assume `Induction` (over the naturals), which
   `NaturalInduction` proves at the end of the module from the library's
   well-founded relations; the theorems assume nothing of it.
2. The frames. `Forest` says who owns each frame (`OwnedOnce`), what wakes it
   (`OneWaker`) and that every frame is reached from the roots (`Rooted`). The last
   is in none of the properties, and is why a cancellation is complete: it destroys
   what the roots reach. Destroying the child of a resumed frame keeps it, because
   a finished frame awaits nothing.
3. `Core` ties both to the scheduler's lists: no frame is ready twice, what is armed
   is what waits for a deadline or an answer, and a scheduler that does not run has
   no frames. One lemma per action shows that it is kept, the deferred
   cancellations and shutdowns of `AfterResume` included.

### Model-checked only

- Liveness (`CommittedUpdateAnswered`, `TeardownCompletes`, `EveryUpdateAnswered`,
  `TeardownFinishes`, `QueriesEnd`, `StopCompletes`, `FailureIsResolved`,
  `ServiceSettles`, `WakeupsArrive`, `QueriesAreAnswered`): fairness and
  `ENABLED` are outside this prover.
- `DomainBlocklist` and `DnsWire`: they work on bits and recurse over names and
  octets; the runs compare them with reference definitions.

## Plan

Proofs that the reading and the writing of names in `DnsWire` are inverse, once its
recursions are written as functions of the octets left.

## Not modelled

The creation of sockets and epoll registration (one outcome in
`WorkerSupervisor`); wording of messages; statistics, health counters and
diagnostics; the seams the tests use to inject failures (the failures themselves
are actions); the arithmetic of the hash functions (`xxhash.h` is vendored and is
two fifths of the lines under `src/`; its users are modelled for every hash value
of the instance); which error code a refused message gets; the spin lock, the
descriptor owner and `main`; allocation failure where the code does not handle
it. `FilterUpdateController::wait_until_sealed` has no caller; with one, the
`notify_one` of `submit_replace` could wake that waiter in place of A.
`WorkerSupervisor::await_worker_readiness` passes over the completion of a worker
whose registration a newer publication refused; `replace_blocked_domains` admits
updates only while the service is `Active`, so no publication can race that
function, and the path of a replacement tests the completion first (as
`ReplacementReady` does). Memory ordering is taken as sequentially consistent: the
code pairs its release stores with acquire loads and every other shared field has
a mutex.
