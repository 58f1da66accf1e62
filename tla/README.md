# A verification project for Ori

Ori is a compiled language: a Rust workspace (`src/compiler/crates`) holds the
compiler, and every program it produces links `ori-runtime`, the library that
manages memory, tasks, channels, timers, I/O and the boot and unload of the
library inside a host process. Translation itself is sequential; this project
models the parts in which threads, processes or crashes meet: the runtime, the
embedding API through which a host process runs Ori code, the incremental
build, and the package manager with its registry, cache and lockfile. There a
mistake is a lost wakeup, a freed object, a stale executable or a lost version,
and a test reaches few of the orders that can happen.

In the text below `lib.rs` is `src/compiler/crates/ori-runtime/src/lib.rs` and
`stack_guard.rs` is its neighbour; `embed` is `ori-embed/src/lib.rs`, `c_api.rs`
its neighbour, `jit.rs` is in `ori-codegen/src/native_backend`, and `incremental.rs`,
`compile.rs` (in `pipeline/`) and `package.rs` are in `ori-driver/src`.
`PROJECT.json` maps every definition to its lines.

## 1. Inventory

| Component | State | Operations | Hard because |
|---|---|---|---|
| ARC heap and cycle collector | registry of allocations, counts, edges by owner and child, suspect buffer | alloc, retain, release, register / unregister / update edge, full and suspect-driven collection | any thread may release or collect; destructors run outside the lock; the partial collector must neither free what is reachable nor miss garbage |
| Channels | queue of (value, managed) slots, capacity, closed flag, one condvar | create, send, send_managed, receive, close, destructor | both sides sleep on one condvar; a value changes owner in three critical sections |
| Futures and cancel tokens | status, value, waiters, cancel_token per future; flag and list per token | complete, fail, cancel, on_ready, associate, cancel token, destructors | settles race each other and cancellation; future and token own each other through raw counts; two mutexes are nested |
| Executor and block_on | FIFO of closures; thread-local last await status | spawn, run_one, drain, block_on | no executor thread: waiting threads run tasks on their own stack |
| Timer thread | heap of (due, sequence, future), shutdown flag | sleep, compaction, timer loop, start, stop | the thread is started lazily and stopped by a flag set without its mutex |
| Blocking I/O pool | bounded queue, worker count, one condvar | submit, ensure workers, worker loop, stop | callers and workers share a condvar; the count races shutdown |
| Lifecycle | Stopped / Running / Stopping, flag, active workers, init count | ori_rt_init, ori_rt_shutdown_ex, worker admission | "0" tells the host that it may unmap the code of every one of these threads |
| Stack guard | process handler installed, attached threads | install, uninstall, attach, detach, thread exit | install may fail half-way on one thread while another relies on it |
| Readiness reactor | job queue, one condvar; counted native handles with a mutex each | *_async calls, poll loop, drain; synchronous calls, close | a job owns a future and a handle, both of which others drop, cancel, close and lock meanwhile |
| Incremental build | `.ori/incremental.json`, objects under `.ori/modules`, the output | reuse, compile, link, record | two builds share files that are truncated before they are filled; keys must hold every input |
| Package registry | lock file, archive, digest, tree and two indexes | publish | several processes, each may die between any two renames |
| Package cache and lockfile | one entry per version with its origin and digest; `ori.lock` | install, lock, restore | sources are read while they are edited; clients race for an entry |
| Embedding API | engines, module generations, handles, callbacks, leases, two error slots per thread | compile, call, callback, cancel, unload, destroy | calls nest through callbacks; workers hold callbacks; all engines share one runtime |
| Task jobs, atomics, debug agent | join handles; breakpoints | – | not modelled, see sections 6 and 7 |
| Collections (list, map, set, tree, graph, heap, deque, region, buffer) | sequential structures over the ARC heap | – | not modelled |
| Lexer, parser, resolver, type checker, HIR, code generator | per compilation | – | sequential translation over large trees, out of TLC's reach as a whole |
| Daemon, debugger front end, updater, language server | sessions, documents | – | not modelled, see section 7 |

How they interact. Generated code calls the runtime's C entry points. A task
that sleeps or does I/O holds a future; the timer thread or an I/O worker
settles it with `set_future_status`, which moves the future's waiters to the
executor queue, where whichever thread is inside `block_on` runs them. All
objects, futures, tokens and channels included, are ARC payloads, so every
component both owns references and can run a destructor when it releases one.
All worker threads are admitted by `try_spawn_named`, which the shutdown
synchronises with; the shutdown then sets one flag that every loop reads.
The embedding API takes a lease on the runtime for each compilation; dropping
the last lease is that shutdown. The driver's processes share nothing but
files: a build asks the package cache for its dependencies and only reuses an
output when they are locked.

What makes each correct is stated by the properties of section 3, and the
hazards they answer are listed, line by line, in `PROJECT.json`.

## 2. Modules and how they correspond to the code

Every module has its state as variables, one action per critical section, and
parameters as constants with a named assumption. `MC*.tla` only adds
symmetry sets and values of constants that a configuration file cannot write.
`*Proofs.tla` hold theorems. A step of a model is one critical section of a mutex
(or one atomic access outside of them): the mutexes make the code's sections atomic, and what a thread does between two sections is local to it.
Where a thread is *between* sections is its `pc`.

* **Arc** (`lib.rs` 144–795, 2585–2798). A counted reference is a token with an
  owner and a target: a variable of the program, an edge of the registry, or a
  release still to be made by a thread. So `RefCountExact` compares the counts
  with the references that exist, and parallel edges between the same two objects are
  distinct. `ReleaseLast` is the critical section of a final release;
  destructor, free and the release of the children follow as further steps and
  interleave with other threads. `Collect` is trial deletion over a candidate
  set: `TrialCount` discounts the edges from candidates, `Marked` is what the
  externally referenced candidates reach, `Dead` the rest. An object's
  references stay until its memory is freed, as its fields do; `remove_edges_to`
  only erases registry entries, so a survivor that pointed at a collected
  object would show as a violation of `NoDangling`. A finalizer is an opaque
  step here: it does not call back into the registry.
* **Channel** (803–824, 1435–1447, 1758–1788, 2416–2543). `asleep` is the wait
  set of the one condition variable. `NotifyOne` wakes any member of it. The
  transfer of a received value is `BorrowResult`, `UnlinkSlot`, `ReleaseSlot`.
  A handle may be passed as a scalar although it equals a live payload, or as
  a managed value although it is stale: both can happen in the code, and
  `SlotOwnership` and `SendInvalid` are about them. Memory exhaustion aborts
  the process in `ori_alloc`, so no allocation of the model fails.
* **FifoChannel** says what a channel promises: every call takes effect at one
  instant. **ChannelRefinement** maps Channel to it: a call is pending while its
  `pc` is `send` or `recv` (asleep or not), the buffer is the queue, and the
  hand-over of references is a stutter.
* **Futures** (1346–1389, 1453–1494, 1624–1683, 2146–2323). `Settle` is the critical
  section of `set_future_status`; the deregistration from the token, the
  scheduling of the waiters and the caller's own release follow as steps. A
  call borrows a handle of the program by moving it from `user` to the thread's
  pointer, so that the program cannot drop it during the call. `Handles`, a
  function, is the number of references the program starts with.
  `ori_task_associate` works under both mutexes and is one step.
* **Executor** (361–363, 1606–1617, 1685–1714, 1994–2109, 2326–2403). A thread's
  stack is a sequence of frames, each with the future it blocks on and the
  status its own last `block_on` returned. `last` is the thread-local cell.
  Tasks wait only for events and for tasks spawned before them, so no program
  of the model makes tasks wait in a circle; a deadlock is then the executor's.
* **Timers** (871–903, 1235–1344, 1391–1429, 1872–1886). The heap is a set whose
  order is `Earlier`. The thread keeps the mutex between its checks and
  `Condvar::wait` (`toWait`), and the shutdown notifies without it.
* **IoPool** (908–929, 1112–1226, 11286–11327). As in Timers, `toWait` holds the
  mutex; `starting` is the holder of `IO_POOL_START`.
* **Lifecycle** (938–1091, 11929–12082, and `stack_guard.rs`). `install()` is
  three steps on each thread that runs it, with its failures. `Ordered` says
  whether the host keeps the documented order: initialise first, shut down
  only after a successful initialisation and not while another thread is
  inside `ori_rt_thread_attach`. Workers in `Joined` are the persistent ones.
* **Reactor** (10917–11281, 11390–11424, 11661–11675). A step of the thread ends
  where it takes a mutex that others use: the queue's, a future's or a handle's.
  What an operation waits for (bytes, a peer, room) is a unit of its handle's
  `input`. Synchronous calls, and the operation that the thread itself runs, hold
  the handle's mutex while they wait for it; `write_all` may take several units
  (`WorkGoesOn`). A panic in an operation leaves the mutex `poisoned`, and the
  probe then reports the handle as ready (11197). The two cancellation checks
  before and after the probe are separate steps (`check`, `recheck`).
* **Incremental** (`incremental.rs`, `compile.rs` 72–311, `native_backend.rs`
  19266–19277). Of a source module the cache tells apart its signatures
  (`sig`), the expressions other objects embed (`embed`: default arguments and
  field contracts) and the rest (`body`). An object consists of its own source
  and of what comes from other modules: `sigs`, `embeds` and, with
  `ORI_OPT=aggressive`, the bodies that were `inlined` in the merged program
  before it is split. The record and its temporary file are inodes, since a
  rename moves what an open descriptor still writes; `fs::write` truncates in
  one step and writes from offset 0 in another, so a shorter record over a longer
  one leaves the end of that (`Garbled`; `Longest` names the outputs with the
  longer record). `Envs` is the set of circumstances the behaviours of a run
  are divided into: builds that die, that bypass the cache, that are
  instrumented for the debugger, edits that are undone, edits during a build,
  overlapping builds of different outputs (`mixed`), executables that are not
  split into modules (`whole`), and `aggressive`.
  What a clean build would give is `Clean` of the sources.
* **Registry** (`package.rs` 3146–3228, 3453–3640) is `ori publish` into a
  directory: lock, archive, digest, tree and the two indexes, each rename a
  step, with failures, crashes and the removal of a stale lock. `robbed` is set
  when a publisher removes a lock that is no longer the one it found stale.
* **PackageCache** extends Registry: `ori install` (registry or path), `ori lock`
  and the restoring of a lockfile, beside publishers. A digest is modelled by
  the tree that was hashed, read file by file while the checkout is edited.
  The origin of an entry is compared only with a source the caller expects
  (`Valid`): `ori lock` without `ORI_REGISTRY` expects none.
  `was` and `history` remember what registry and checkouts have been; `meddled`
  is set when somebody changes cache or registry by hand.
* **Embed** (`embed`, `c_api.rs`, `jit.rs`). One engine per host thread. A stack
  of frames alternates Ori calls and host callbacks; host code runs when the
  stack is empty or its top is a callback. A lease is named after the code it
  was taken for, <<engine, n>>, and whatever clones it (module, returned slice,
  callback binding) holds that name, so that "the lease is dropped" is "nobody
  holds the name". Workers acquire, run and release callbacks in the code's
  separate atomic steps. The drop of an engine stores `orphaned` with release and
  then loads the count with acquire (`embed` 913–914), so the store may arrive
  after that load: `InFlight` and `StoreArrives` model it. `raced` is set when a lease is taken between the last
  drop and the shutdown it causes.

Every future in Timers, IoPool, Reactor and Executor behaves as Futures describes:
the first settle counts (`SettledOnce`), which is what these modules use of it.
Timers, IoPool and Reactor use the start and stop of workers that Lifecycle describes:
a restart happens only after a shutdown that returned 0. The shutdown's store
to the flag and its notification are one step there; the loops may already
have read the flag, which is the order that loses a notification.

## 3. Runs

| Run | Shows |
|---|---|
| `channel` | bounded and unbounded channels implement FifoChannel; exact counts through send, receive, close and destruction; after a close nobody sleeps; on the unbounded channel no wakeup is lost and a receiver is served |
| `arc` | nothing dangles, the suspects cover all garbage, both collectors are complete |
| `futures` | counts exact for futures, tokens and values under every interleaving of settle, cancel, associate and drop; a waiter has one owner; no destructor under the token's mutex; a cancelled token settles its futures |
| `executor` | failures propagate, with nested `block_on` too; where no task blocks itself, the program's `block_on` returns |
| `timers` | references of heap entries balance; a live thread settles every sleep |
| `io_pool` | no lost wakeup on the shared condvar, every job settles, a retried shutdown stops the pool |
| `lifecycle` | a shutdown that returned 0 leaves no worker, attached thread or handler; a busy shutdown resolves on retry |
| `reactor` | a job gives back its future and its handle once; unless a peer stops the thread for good, a ready handle is served while another stays idle and a cancelled operation lets go of its handle |
| `incremental` | what a build hands out is what a clean build would give; the modules of an output agree on their interfaces, also with edits during the build; an unreadable record is about to be filled, or comes of overlapping builds of different outputs |
| `incremental_stale_object` (violation) | an edit of a default argument or a field contract leaves other modules' objects stale |
| `packages` | no reported version is lost; what is indexed can be fetched; what is served is a tree its origin really was; a restore gives what the lockfile records or fails; what is locked can be restored, unless it was locked with no registry named |
| `embed` | a running callback keeps its registration; none leaks, unless the drop's store arrives too late; a handle never reaches other code; a call traps exactly when it failed; the runtime outlives what needs it |

**Known divergences.** The violation is a disagreement between the code and what
the repository says of it; `PROJECT.json` quotes the lines under `findings`.
More were met. They are not runs of their own; each can be seen by the change
given, and the properties of the passing runs exclude exactly that circumstance.

* *Bounded channel, lost wakeup* (`lib.rs` 2491; `docs/spec/12-stdlib.md` 1284).
  Senders and receivers share a condvar and `notify_one` may wake the wrong
  kind. `ReceiverServed` in place of `UnboundedReceiverServed`, one handle,
  `MaxCalls = 5`.
* *Host that does not initialise* (`lib.rs` 12048, 12055). A runtime started by
  the library's constructor or lazily is reported as stopped (0) with a worker
  running or the handlers installed. `SafeToUnload` with `Ordered = FALSE`.
* *Lost sleep* (`lib.rs` 1395, comment at 1880). A sleep pushed after the drain of
  a shutdown is never settled. `SleepSettles` with `Interval = 2` and
  `Delays = {0, 1}`. The same holds for a readiness job (`lib.rs` 11247).
* *Stale await status* (`lib.rs` 2028, `tests.rs` 2693). The thread-local status
  of another task's failed await fails a task that succeeded. `SuccessCompletes`
  with one thread.
* *Buried task* (`lib.rs` 2379). A nested `block_on` runs, on top of a task, one
  that waits for it. `BlockOnEnds` without `[]NoTaskBlocks`.
* *Incremental build.* `OutputMatchesSources` fails, besides the run above, when
  a build dies between linking and recording and the edit is then undone
  (`Envs = {{"abort", "revert"}}`); when a build with `ORI_DISABLE_INCREMENTAL`
  comes between an edit and its undoing (`{{"bypass", "revert"}}`); when a
  normal build follows one with `ORI_DEBUG_INSTRUMENT` (`{{"instrument"}}`); and
  when a file is saved during a build (`{{"edit_during_build"}}`): sources are
  fingerprinted after they were read.
* *Inlined bodies* (`compile.rs` 129; the comment at `incremental.rs` 325–327 and
  the documentation of `inline_leafs.rs`, which speaks of the same module). With
  `ORI_OPT=aggressive` leaf functions of other modules are inlined before the
  split, and the fingerprint does not digest bodies: an edit of a dependency's
  body leaves the application's object stale. `OutputMatchesSources` with
  `Envs = {{"aggressive"}}`.
* *Garbled record* (`incremental.rs` 171). Two builds of different outputs that
  overlap share `incremental.json.tmp`; the shorter record written over the
  longer one cannot be parsed, and every later build fails with
  `incremental.cache_invalid` until it is deleted. `UnreadableRecordIsTransient`
  with `data[rec] # Garbled` in place of its last conjunct; `{{"mixed"}}`.
* *Stale registry lock* (`package.rs` 3616; the comment at 3582–3584 says the lock
  is "preventing two publishers from losing each other's version"). Two
  publishers that both find a lock stale: the second removes the first one's new
  lock. `NoVersionLost` without `~robbed`.
* *Reactor stopped at one handle* (the comment at `lib.rs` 11151–11152 says that
  "one idle socket cannot monopolize the reactor"). The thread is inside
  `write_all` with a peer that does not read (10965); or the probe waits for the
  handle's mutex, which a blocking call on the same handle holds (11197); or the
  mutex is poisoned, so that the handle counts as ready and the operation
  blocks. No other handle is served and no cancellation observed meanwhile.
  `ReadyIsServed` and `CancelIsObserved` without `PeersGoOn`.
* *Lock without a registry* (`package.rs` 823–828, 2414, 2675–2678). After
  `ori install --path`, `ori lock` with `ORI_REGISTRY` unset takes the entry over
  although its origin is a checkout, and no other machine can restore it.
  `LockIsRestorable` without its last disjunct.
* *Leaked callback* (`embed` 913–914 against 943–944). The drop of an engine reads
  the count before its store of `orphaned` arrives, the last release reads
  `orphaned` after its decrement: each leaves the removal to the other.
  `NoCallbackLeak` without `store = "missed"`.
* *Errors of nested calls* (`embed` 2370, `jit.rs` 475;
  `docs/planning/embedded-runtime-host-abi-v1.md` 308–310). A call made inside a callback
  clears the outer call's error or leaves its own to it. `OutcomeExact`
  without `~nested`.
* *Lease race* (`jit.rs` 134, 409). A lease taken between the last drop and its
  shutdown belongs to a runtime that stops. `HeldMeansRunning` without `~raced`.
* *Refused shutdown* (`jit.rs` 404). It leaves the runtime `Stopping`, and every
  later compilation of the process fails; an intermittent test failure of this
  kind is recorded in `docs/plans/active/selfhost-exec-plan.md` 37.

**Properties without a run of their own.** `Arc!RefCountExact`, `CancelReaches`,
`SettledOnce`, `NeverEarly`, `DeadlineOrder`, `SleepsUntilFirst`, `WorkersExact`,
`RunsOnce`, `NoJobForgotten` and the `TypeOK` of these modules and of Incremental
are proved (section 4). `SlotOwnership`, `WaiterRuns`, `TimerStops`,
`AdmissionClosed` and `GuardInstalled` hold on the same instances and can be
added to the configurations.

**Deadlock.** `CHECK_DEADLOCK FALSE` stands where the model really may stop:
programs end, calls and time are bounded, everything may have been dropped.
Lifecycle never stops and is checked for deadlock.

**Bounds, and why they are enough.** Channel: three threads give two senders and
a receiver (or the reverse), the least with which a notification can go astray;
`MaxCalls` bounds the calls so that each thread can block and be served. Arc:
three objects and five references contain a cycle with a tail, parallel edges,
two cycles sharing an object, and an outside reference to either; two threads
make a release race a collection. Futures: two futures, a token and two threads;
a third thread adds no new pair of critical sections on one object. The program
has two references to one future and to the token, so that it can drop one and
keep using the object. Timers: two sleeps and three
delays give ties and inversions of deadlines; `Interval` and `MinLen` are one
and two instead of 64 and 128, so that the second push compacts and can meet a
settled first entry. IoPool: capacity one instead of 256 and two workers make
full and empty queues meet; three jobs are one running, one queued and one
caller asleep; the third thread is the worker that outlives a shutdown.
Executor: two tasks and an event suffice to bury one task beneath
another. Lifecycle: one persistent and one other worker, one foreign thread.
Reactor: two operations on the same or on different handles, and one unit of
input that either may take. Incremental: an application and a locked dependency,
two builders, two edits (one can be undone) and three builds (before, between
and after, or two at once); three inodes are the record and a temporary file of
each builder; an executable and a library with records of different length. Packages: two publishers and two clients, two versions, two files
(the least that can be mixed), three commands and two upsets: an edit, crash,
aged lock or change by hand. Embed: two engines and a worker; the first engine
compiles twice, registers a callback and nests two calls, the second competes
for the runtime only; `MAX_HOST_CALLBACK_DEPTH` is one instead of 64.
Proofs remove the bounds for the safety properties of every component, for
Incremental under the conditions named in section 4.

**Fairness, and why the code justifies it.** Threads that are runnable are
scheduled (weak fairness of each thread's steps inside a call). In IoPool it is
strong: a thread that competes for the pool's mutex again and again gets it in
the end, which the futex mutex of the standard library grants in practice. A
task's body and blocking work end (Executor uses strong fairness since the
task's thread may run other tasks on top of it); the clock advances; an event
happens. Some thread drains the executor (`RunOne` in Futures), as `block_on`
does. In Timers, IoPool, Reactor and Lifecycle the host retries a shutdown that reported
busy, which its contract (`lib.rs` 12048–12051) tells it to do; without the
retry a notification sent between a check and a wait is lost. In Reactor the
thread, a caller that has entered its call, and a synchronous call that has its
input go on; that input arrives is not assumed, and the condition `PeersGoOn` of
its two liveness properties (the thread is not stopped at a handle for good) is
part of the properties, not of the fairness. Incremental, Packages and Embed
have safety properties only: every process may die, and hosts owe nothing.
Nothing is assumed of callers, closes, drops, spurious wakeups or shutdowns.

## 4. What is proved

The theorems hold for every value of the constants that satisfies the named
assumptions (finite sets of threads, handles, references or workers, disjoint
names). Each follows from an inductive invariant, which TLC has checked on the
instances of the runs before it was proved; the property itself is seldom
inductive, and what has to be added is the argument why the code is right.

* **ArcProofs.** `HeapIsSafe`: `TypeOK /\ RefCountExact /\ NoDangling /\
  DestroyedOnce` is itself inductive (`Safe`). The step that needs an argument
  is the collection: an unmarked candidate has a count equal to its edges from
  candidates, so by exactness it has no other reference, and since the marked
  ones are closed under edges it is referenced by the dead only
  (`DeadUnreferenced`); this needs nothing of the candidate set, which is the
  claim of the comment at `lib.rs` 2633. `SuspectsMissNothing`: everything
  registered is reachable from a root or a suspect. Its invariant adds that the
  owner of a reference is registered or being destroyed. The step that needs an
  argument is a release that does not reach zero: if the object has no
  children, the reference that remains makes it reachable from where its owner
  is. `CollectorsAreComplete` follows for the full and the partial collection
  with one lemma (`CollectComplete`).
* **ChannelProofs.** `Inv` is `TypeOK`, `RefCountExact`, `ClosedNobodySleeps`
  and `WakeCredit`. The last is the strengthening that makes "no lost wakeup"
  inductive: on an unbounded channel with a sleeping receiver there are at
  least as many receivers awake as values queued, since every push that found a
  sleeper woke one. `RefCountsAreExact`, `CloseWakesEverybody` hold for both
  kinds of channel, `UnboundedLosesNoWakeup` is about the unbounded one; for a
  bounded channel it would be false (known divergences).
  `ChannelIsFifo`: every step of Channel is a step of FifoChannel under the
  mapping, or a stutter. Of the invariant it needs only `TypeOK`; mutex, condvar
  and counts do not matter for it.
* **LifecycleProofs.** `WorkersAreCounted` for any host. `UnloadIsSafe` for an
  ordered host, with an invariant in four parts: where the host is determines
  lifecycle, flag and init count (`HostPhase`); nobody is inside while the
  runtime is down or past its last check (`Quiet`); the handler is there while
  the runtime is up, and a thread in `install()` other than the host has read
  that it was (`Handler`); and what a returned 0 means (`Returned`).

* **FuturesProofs.** `FInv` is `TypeOK`, what a thread at each place of its call
  holds (`Locals`), how links and lists of futures and tokens correspond
  (`Linked`), the counts (`Counted`) and the managed result (`ValueOwned`).
  `FutureCountsAreExact`, `ResultsAreOwned` and `DeregisterKeepsAlive` follow. A
  count is a sum over threads, lists, batches and links; each action is shown to
  move one summand (`HeldMoves` and its companions), and a lemma on natural
  numbers does the rest. `FirstSettleWins` is an action property. For
  `CancellationReaches` the invariant `Reaching(f)` is relative to `FInv`: a
  future linked to a cancelled token is in the list of a thread about to take
  it, or in a batch that was taken. `WaitersRunOnce` needs `WInv`: a closure is
  in one place of one of the sequences that hold waiters (a future's list, a
  thread's woken batch, the queue, the log), which are treated as homes of one
  function, so that an action is one move between two homes.
* **SchedulingProofs** has the four components of the runtime that hold work for
  later. It extends Executor and has IoPool, Reactor and Timers as instances
  `Pool`, `React` and `Tim` beside it, with variables of their own; what their
  modules assume of the parameters is a hypothesis of their theorems. *Executor*: `XInv` says that
  beneath the innermost call of a stack every call is draining (`Stacks`), so
  that what runs on top of an await has ended when it looks again, and that a
  call which has just awaited a failure finds it in the thread-local (`Seen`);
  `FailuresPropagate` follows. `TasksRunOnce` needs where a task is: in the
  queue once (`Waiting`) or on one stack once, until its future is settled
  (`Running`). *IoPool*: `PInv` says that whoever has decided to wait holds the
  mutex, so the queue is as it was found (`Decided`); the holder of
  `IO_POOL_START` is the one call inside `ensure_io_worker_pool` (`Starter`); all
  live workers are counted but the one just created, and during a shutdown at
  most those (`Counted`). `PoolLosesNoWakeup`: a push finds room, so no caller
  sleeps, so the single notification goes to a worker. `PoolCountIsExact`: at a
  restart no worker is alive, so none is counted, although one may have exited
  before its creator could count it. *Reactor*: `RInv` says that a job is in one
  of queue, `cur` and `drained` (`Placed`), that the program keeps a handle it is
  passing until the job owns it too (`Passed`), and `JobOwnsBoth` as an equation
  for each future and handle (`Owned`). Every way a job ends is one lemma
  (`GivesBack`), and every step that only moves it another (`Moves`).
  `JobsOwnBoth`, `NoJobIsForgotten` and the bounds of `ReactorTypeCorrect` follow.
  *Timers*: `TInv` adds to the properties that an entry is in one place
  (`TimerPlaced`), that sequence numbers are handed out in the order of the pushes
  (`Numbered`), that a batch which was taken leaves behind only what is later
  (`Taken`) and that nothing is pushed between check and wait (`TimerWaits`). That
  the heap has a first entry is the least-number principle.
  `EntriesOwnTheirFutures`, `SleepsAreNeverEarly`, `SleepsEndInOrder` and
  `WaitsForTheFirst` hold for any settings of the compaction.
* **IncrementalProofs** has invariants that build on each other. `IInv`: what a
  builder relies on at each of its steps (`Locals`), and that a truncated file
  which is the record, or is about to be renamed to it, is open in a build that
  will fill it (`TornIsOpen`): a file is truncated only by opening it, and
  whoever finds `incremental.json.tmp` opens that same file. `GInv`, where builds
  of different outputs do not overlap: the builders at work make one output, an
  open file is empty or holds a record of the length its writer brings, and no
  record is garbled. `UnreadableRecordsAreTransient` follows from the two. `KInv`
  needs no condition at all: an object implements the interface its key digests
  (`Implements`), and all keys of a build digest the interface that the build
  loaded, whatever the files have become since (`Named`); `LinkedModulesAgree`.
  `SInv`, if nobody edits during a build (`Steady`): what a builder has read is
  what the files hold, and the keys it has computed are those of the sources.
  `BInv`, under the conditions `Tame`: a builder that has linked finds in the
  output what a build from nothing makes (`Made`; `Plain` is `Clean` without
  inlining), and no record describes the sources and names an output of others. For the last part there are two arguments. Where no
  edit is undone, versions only grow, so a record that describes the sources was
  written since the last edit (`Forward`). Where edits may be undone, the record
  describes its own output whatever the sources are, or a build that has linked
  is about to replace it (`Backward`); this is why no build may then die or
  bypass the cache. `BuildsAreClean` (`[]CacheIsTransparent`) follows. The conditions of `Steady` and
  `Tame` rule out the known divergences of section 3 and nothing else: for
  each of them TLC has a counterexample without it. The run `incremental` checks
  environments that satisfy them.
* **PackageCacheProofs.** `RInv`, for the registry: while no stale lock was
  taken from a live owner at most one publisher is past `Acquire`; its copy of
  the index is current, and the archive, digest and tree it has renamed are its
  own. `PublicationIsDurable` and `IndexesAreSound` follow, with crashes at any
  step. `CInv`, for the clients, is relative to `RInv`. Texts are numbered, and
  `ServedIsSnapshot` is the delicate one: a tree is read file by file while
  it is edited, and it is accepted only if a second reading agrees; since texts
  only grow, the tree that existed between the two readings is the one that was
  read. `RestoresReproduce` and `LocksRestore` follow; the latter names the lock
  without a registry as its exception.
* **EmbedProofs.** `EInv` has a part for each structure. Of an engine: its
  names, module and handles (`Owned`, `Resolved`). Of a stack: calls and
  callbacks alternate, and only the topmost call can be without a nested one
  (`Frames`), which is why two error slots per thread are enough for
  `OutcomesAreExact`. Of code: what is in use was published, and the
  callback it was compiled for is one of its engine's (`Codings`, `Baked`). Of a callback: `active` is the number of calls of it on
  stacks and on workers, whoever is inside finds it in its box, and an orphan
  that is still mapped belongs to a dropped engine and has somebody left to
  remove it, or its store was missed (`Callback`); `CallbacksStayAlive` and `NoCallbackIsLeaked` follow.
  Of the runtime: what is held is leased, and while there are leases it is
  running and nobody closes it, unless a lease was taken from under a shutdown
  (`Leases`), which gives `HeldLeasesKeepRunning`. `HandlesRunTheirCode` rests on
  module ids that are never used again.

The assumptions are those the modules name: finite sets, a capacity or a number
of workers of at least one, `None`, `Nil` and `Torn` outside the sets they
complete, names of modules that are not labels of the model.
Nothing is assumed of hosts beyond what the guards of the actions say.

## 5. What is only model-checked

Liveness (all properties with `~>` or `<>`): it is outside the prover's reach, as
is everything that needs `ENABLED`.
Where a safety property is false of the code in general, the theorem names the
circumstances in which it holds; what happens outside them is in section 3 and
was found by TLC.

## 6. What is not modelled, and why

Outside the handles of the Reactor, poisoned mutexes are recovered by
`into_inner` and behave as unpoisoned ones. Null arguments return at once. All
shared state is under mutexes except flags and counters; of these only the pair
in Embed (section 2) is read after a store to another location without a mutex
or a sequentially consistent order between them, so only there a store may be
delayed. The adaptive threshold of the cooperative collection only
decides when it runs, and the model lets it run at any time. The
signal handler itself, host error messages and the error trace are left out.
Incremental: the compiler's version, cfg manifests and the environment of the
linker are part of the digests and do not change during a behaviour; the object
that code generation writes is a function of what `Object` names. Packages:
HTTP registries, git dependencies, the parsing of manifests and version
requirements and the validation of archives are left out; a publication is
taken to be shorter than the two minutes after which its lock counts as stale,
and edits make new texts. Embed: conversion and validation of values and
signatures, capabilities, globals and the text of a session are left out.
Reactor and Registry are the unix build: on Windows the index is replaced by a
removal and a rename (`package.rs` 3567–3574).

Some steps stand for several accesses of the code that nobody can tell apart in
the properties: the release, destructor and child releases of a dropped channel
(`Channel!DropChannel`, `lib.rs` 732–755; Arc has them one by one); the settle
and the token's release in `Futures!AssociateCancels`; `can_uninstall` and
`uninstall` in `Lifecycle!CheckAttached` (12066–12073), between which an
ordered host lets nobody attach; the removal of digest and archive when the
tree's rename fails in `Registry!RenameTree` (`package.rs` 3213–3214). `Futures!Schedule` leaves out
the branch that drops waiters during a shutdown, and `PackageCache!Serve`
validates an entry in one step although the code reads it file by file
(2413–2438): a hand that changes it during that reading is modelled as changing
it before or after. In Incremental the generated header is taken to be part of
the library it belongs to.

Lexer, parser, resolver, type checker, lowering, optimiser and code generator
make up most of the repository. Each is one sequential function over trees
whose correctness is about what every program means; a small instance would say
little, and a translation of them would be as long as they are. The library's
strings, files, JSON and network wrappers are conversions and system calls.
The remaining components are listed in `PROJECT.json` with the reason.

Hazards of the modelled code that no property covers: a future and its token that
the program has dropped keep each other alive (`lib.rs` 2304); the executor's
drain at shutdown drops async jobs without settling their futures (1496); the
managed result of a job whose future was cancelled is not released (1213);
archive and
tree of a publication are read from the checkout one after the other
(`package.rs` 3183); the C API's destroy may stop half-way through the callbacks
(`c_api.rs` 1241); unloading tears down globals under running tasks (`jit.rs`
720); a callback's error on a worker thread is read by nobody (`embed` 60).

## 7. Plan

Written, in order of importance: Arc, Channel with FifoChannel, Futures,
Lifecycle, Timers, IoPool, Executor, Reactor, Incremental, Registry with
PackageCache, Embed. Next:

1. **Runtime**, a composition of Lifecycle, Executor and Timers: the drain of
   the executor at shutdown, which drops async jobs without settling their
   futures; a Lifecycle with two hosts.
2. **A one-shot cell** that Futures refines.
3. **Task jobs** (spawn, join, detach) and compiled async frames
   (`native_backend.rs`) on top of Futures and Executor.
4. **Collections**: heap, map, deque and region operations as operators,
   checked against reference definitions over bounded inputs.
5. **Debug agent** and compiler **daemon**.

Each gets one run, with the smallest instance in which two actors can meet at
each critical section.
