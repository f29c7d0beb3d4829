# Fusion: TLA+ models and proofs

This directory is a verification development of the concurrent core of Fusion:
TLA+ modules translated from the Rust sources under `src/Crates`, the TLC
configurations that model-check them on small instances, and TLAPS proofs that
hold for every value of the constants.  `PROJECT.json` maps each definition to
the lines it models and lists the runs, mutants, hazards and theorems.

    tlc -workers 2 -config FutexMutex.cfg FutexMutex     # one run
    tlapm PrimitiveProofs.tla                            # one set of proofs

Contents: [the system](#the-system) · [inventory](#inventory) ·
[modules](#modules-and-the-code-they-model) · [runs](#what-the-runs-check) ·
[bounds](#bounds) · [fairness](#fairness) · [proofs](#what-is-proved) ·
[disagreements](#disagreements-between-code-and-documentation) ·
[abstractions](#abstractions-and-limits) · [not modelled](#not-modelled)

## The system

Fusion is a layered runtime.  From the bottom:

1. **Platform** (`fusion-pal`): contracts and one backend per platform.  On
   Linux the locks, semaphores, wait words and once cells are futex algorithms
   written in this repository; other backends delegate to their kernels.
2. **System layer** (`fusion-sys`): sync wrappers, `LeftRight`, the memory pool
   and allocators, the carrier thread pool `SystemThreadPool`, fibers, channels,
   domains, couriers and claims.
3. **Standard layer** (`fusion-std`): `ThreadPool` (closures over the carrier
   pool), green fibers, the async executor with its current-thread, pool-backed
   and hosted schedulers, the reactor driver, runtime assembly.
4. **Drivers, firmware, PCU, kernel module, binaries**: device packaging, the AML
   interpreter, and entry points.

The hard part is the vertical slice from an async task or a green fiber down to the
futex: a waker marks a slot scheduled, dispatches a job to a worker's queue and
releases a wake token (a semaphore permit); the worker sleeps in a futex, wakes,
dequeues, runs the future, and may race a join, an abort, a detach, another wake, the
reactor's answer or shutdown.  Each of these layers keeps counts (`waker_refs`,
`external_inflight`, tokens, permits, `free_bytes`, live fibers) that must agree with
what they count, because memory is recycled when they say so.  The modules cover that
slice, each layer relying on what the one below is shown to promise.

    AsyncTask        run_state, waker_refs, generation, completion     fusion-std
       | dispatch of a marked slot              CurrentExecutor (one thread does it all)
    HostedExecutor = HostedScheduler + ReactorDriver                   fusion-std
    GreenPool      = fibers over StackSlab + CourierLedger             fusion-std/-sys
    CarrierPool      closures, queues, tokens, stealing, shutdown      fusion-std/-sys
       | acquire / release of a wake token, queue locks
    FutexSemaphore   FutexMutex   FutexRwLock   FutexOnce              fusion-pal
       |                 |
    LeftRight        MemoryPool   (both run under a mutex)             fusion-sys
                         | leases
                     Allocator <- AllocatorService over LocalChannel   fusion-sys
                     Exclusion    (what a lock promises)

## Inventory

For each component that has state worth modelling: state, operations, what is
hard, and the properties that matter.  The last one has no module and is described by
what a model of it would have to say.

| Component | State | Operations | Hard behaviours | Properties |
|---|---|---|---|---|
| Futex mutex | one word | `lock`, `try_lock`, `unlock_unchecked` | spurious wakes, EINTR, wake lost between swap and wait | exclusion, no lost wakeup, every lock returns |
| Futex rwlock | epoch, three counters under a gate mutex | read and write lock, try, unlock | wake skipped when no writer waits; guard dropped before retry | counters exact, writer alone, nobody forgotten |
| Futex semaphore | permit word | `acquire`, `try_acquire`, `release(n)` | one wake syscall for n permits, barging | permits conserved, no sleeper beside a free permit |
| Once, OnceLock | three-valued word, value cell | `call_once_try`, `get_or_try_init` | initializer fails, waiters retry | one initializer, one value |
| LeftRight | two replicas, selector, reader counters | `update`, `replace`, `read` | selector store delayed past the counter loads | replica under a guard never changes |
| Carrier pool | per-worker FIFO and token semaphore, pool state | `submit`, worker loop, steal, `shutdown` | tokens and items drift apart by stealing, token overflow | consumed once, drained, progress |
| Hosted scheduler | ready queues, signals, in-flight count | dispatch, worker loop, shutdown | dispatch racing shutdown, dropped jobs, signal overflow | count exact, queued jobs signalled |
| Async task slot | atomics, future/result/waker cells, completion | spawn, wake, run, join, poll, abort, detach, recycle | wake during a run, completion racing join, reuse | one run, one job, wake and join not lost, references exact |
| Memory pool | extent table, byte counters, lease ids | `acquire_extent`, `release_extent` | splitting and merging at the limit of the table | tiling, exact leases, coalescing, honest refusals |
| Reactor driver | wait, outcome and deregistration tables, poller keys, pipe | register, drop, look, activate, sleep, resolve, clear | answer between two locks, activation of a wait that is gone, driver asleep on new waits | waits kept, keys named, driver notified |
| Current-thread executor | slots, free stack, ready ring, waits, outcomes, poller | spawn, poll, nested join, wake, wait, drive, drop | slot freed by whoever is last, stale ring entries, blocking with work queued | slots, jobs and registrations exact, wake not lost |
| Green fibers | task records, carriers, per-carrier queues, waiters | spawn, run, yield, park, steal, finish, join, shutdown | park racing ready, completion racing join, recycling, failed migration | in one place, handles exact, joiner woken, tasks finish |
| Fiber stacks | free stack, allocated, committed prefix | acquire, release, grow, shrink | growth and shrinking at chunk boundaries | every committed stack free or in one fiber's hands |
| Courier ledger | fiber records, live counts per class | register, update, terminal | refusal after the task is queued | live counts match the records |
| Allocators | arena cursors and counts, slab stacks, counted control blocks and pool handles | assign, allocate, release, reset, clone, drop | releases in any order, failing initializers, last drop on several threads | allocations apart, backing exactly as long as reachable |
| Local channel | ring, attachments | attach, send, receive, detach | full ring, busy lock, consumers that come and go | in order, nothing twice |
| Audit service | pending reply, stream and advertisement index | pump, flushes, requests | ring full between two items, pool changing under a stream | every reply once and in order |
| Domain registry, claims | registries, grants, awards | register, grant, revoke | order of settle and teardown | obligations discharged once |

The remaining components (facades, descriptors, planners, build tools, device
drivers, firmware, kernels, examples) are listed in `PROJECT.json` with the reason
they have no model: they forward calls, are pure sizing arithmetic, or have
behaviour that is decided by hardware or a kernel outside the sources.

## Modules and the code they model

Every multi-threaded module follows one convention: each thread has a program
counter, one action is one atomic access, one system call, or one section under a
lock that is itself verified below, and the labels are named after the code
positions.  An operator `X_Bug`, just before `X`, is a plausible wrong version of
`X`: substituting it must break a property, which shows that the property depends on
that line of the code.

**`Exclusion`** is the abstract shared/exclusive lock: sets of readers and writers,
acquire and release.  `FutexMutex` and `FutexRwLock` are shown to implement it.

**`FutexMutex`** (`fusion-pal` Linux `sync.rs`, `LinuxRawMutex`): the word
UNLOCKED / LOCKED / CONTENDED.  `lock` tries the exchange, then loops in
`lock_contended` (load, swap to CONTENDED, futex wait); `unlock_unchecked` swaps to
UNLOCKED and wakes one sleeper if the old word was CONTENDED.  A futex wait may be
interrupted at any time.

**`FutexRwLock`** (`LinuxRawRwLock`): three counters changed under the gate mutex (so
one gated section is one action) and the `epoch` word every waiter sleeps on.  A
writer registers in `waiting_writers` while it waits and deregisters before it
retries; a release bumps the epoch and then wakes everybody, but `read_unlock` skips
both when no writer is registered.

**`FutexSemaphore`** (`LinuxSemaphore`, and `Semaphore` of `fusion-sys` which forwards
to it): load / compare-exchange / wait loops, `release(n)` adding n with the overflow
check and then waking n.

**`FutexOnce`** (`LinuxOnce` with `OnceLock::get_or_try_init`): UNINITIALIZED /
RUNNING / COMPLETE, initializers that may fail and reset the word, the value cell,
and the re-read after `call_once_try`.

**`LeftRight`** (`fusion-sys` `left_right.rs`): `update` clones the active replica into
the inactive one, stores the selector with Release, and scans the reader counters
with Acquire loads.  The two orderings do not keep the loads after the store, so the
store sits in a store buffer (`pending`) and drains at any time up to the unlock of
the writer mutex.  `late` records that a load has overtaken it.

**`CarrierPool`** (`fusion-sys` `thread/pool.rs` under `fusion-std` `thread/pool.rs`):
submit, placement on a worker's queue, release of the primary and the companion
token, the error path that runs the rejected record, the worker loop with its local
queue and its steal boundary, and shutdown under both policies.  Submission holds
`inner` throughout; token releases happen outside the queue lock.

**`HostedScheduler`** (`fusion-std` executor `core.rs`, `hosted.rs`): a dispatch counts
itself in flight, re-checks shutdown, tries the workers' bounded queues in turn and
signals; a worker dequeues, runs, and takes itself off the count; shutdown sets the
flags, clears the queues, wakes the workers, takes the cleared jobs off the count and
waits for it to reach zero.

**`ReactorDriver`** (executor `state.rs`, `run_reactor_driver`): tasks publish a wait
(`waits`), and then clear their old outcome under another lock; the driver reads the
tables, registers the sources with the poller while no table is locked, publishes the
keys, sleeps in the poller up to the next timer, stores outcomes and marks the tasks.
A drop of a wait defers the deregistration of its key to the driver.  A pipe wakes the
driver out of the poller.  `fault` is history: it names the waits that the two races
described below have hit, so that the properties can say what holds of all others.

**`HostedExecutor`** extends the two, which share **`ExecutorShutdown`**: one shutdown flag
stops both, and the waits are cleared and the driver is joined once the scheduler's jobs
have drained (`drained`).

**`CurrentExecutor`** (executor `core.rs`, `state.rs`, `engine.rs`, `current.rs`): the same
registry and reactor tables on one thread.  A call of the executor is one action on the
record `ex`; what interleaves is the code of the tasks, which may spawn, join (a nested
poll), wake, wait and abort in any order, the clock, and the sources.  A blocking drive
is cut in two where the thread sleeps.

**`GreenPool`** (`fusion-std` `fiber/fiber.rs`, `green.rs`, `scheduler.rs`, `pool_impl.rs`):
spawn with every failure path, ready queues, stealing with migration, parking on the
carrier's reactor, completion, join and its withdrawal, handles, recycling and shutdown;
`config` selects a pool with carrier threads or the pool of the current thread.  It
extends **`StackSlab`** (the committed prefix of a slab, its growth and shrinking) and
**`CourierLedger`** (the fiber records and live counts of a domain's courier, which a pool
of either kind may report to, `config.sink`).  A spawn registers its fiber after it has
queued the task; `finish_task` is one action for each thing other threads can see: stack,
state, completion, slot, report.  A carrier that ends on an error shuts the pool down and
wakes the others one by one (`Alarm`).

**`AsyncTask`** (`fusion-std` executor, `AsyncTaskSlot` and `TaskHandle`): the life of a
slot through its generations.  Operations that several threads call (schedule, mark,
dispatch, complete, fail, recycle, drop a waker) are written once for a thread t,
which returns to the label on top of its return stack.  Workers run jobs, wakers own
clones of the waker, the owner spawns, joins, polls, aborts, detaches.  Each cell
access under its own lock is one action; the atomics in between are actions too.

**`MemoryPool`** (`fusion-sys` `mem/pool`): the table of extents as a set of records
(slot, member, offset, length, lease), the byte counters, the lease ids.  `Candidate`
is the record `find_candidate` returns under either ranking; `AcquireExtent` splits
it into front piece, lease and back piece; `ReleaseExtent` frees the record and
merges it with both neighbours.  The declarative merge is compared with the code's
loop (`MergeLoop`).  Each refusal (`AcquireInvalid`, `AcquireNoRoom`, `AcquireNoId`,
`AcquireNoSlot`) is an action with the state change the code makes before it returns:
a request that finds a candidate but no vacant record has already consumed a lease
id, and one that finds no id left answers `metadata_exhausted` too.

**`Allocator`** (`fusion-sys` `alloc/arena.rs`, `slab.rs`, `control.rs`, `alloc.rs`, `root.rs`,
`sync/shared.rs`) extends `MemoryPool`: each arena, slab or control block lives in an
extent it leased, `blocks` maps the lease to its state (`cursor`, `live_slices`,
`live_allocations`, the free stack, the reference count), `owned` is what callers hold:
handles, slices that share the arena's count, tokens and slots that borrow it, and bare
results.  Calls under the allocator's mutex are one step.  A drop is cut at every count it
goes through (slice count, `SharedHeader::release`, the extent, the `PoolHandle`), so drops
on several threads interleave.

**`LocalChannel`** (`channel/channel.rs`) has the ring and the attachments of a channel as
operators on a record; **`AllocatorService`** (`alloc/service.rs`) composes three of them with
`Allocator`: `pump` is a program counter over `flush_metadata`, `flush_pending_status`,
`flush_pending_stream` and the loop over requests, one step for each channel call.  Clients
attach, ask, read and detach between pumps, or at any time when they are threads; then
every `try_lock` of the service may fail.  `asked`, `sent` and `got` are history.

`MC*` modules add symmetry sets or concrete members and requests for TLC; `*Proofs`
modules hold the theorems.

## What the runs check

| Run | Instance | Shows |
|---|---|---|
| `mutex` | 3 threads, 2 rounds | every lock returns, implements `Exclusion` (hence mutual exclusion) |
| `rwlock` | 3 threads, 2 rounds | every lock returns, implements `Exclusion` (hence writers alone) |
| `semaphore` | 3 threads, max 2 permits, batches 1 and 2, 2 calls | while a thread sleeps, free permits are matched by threads awake or wakes owed |
| `once` | 3 threads, 2 calls | one value, every call returns |
| `left_right` | 2 readers, 3 updates, 3 reads | guards keep their replica while loads stay behind the store; updates return |
| `pool` | 3 jobs, 2 workers, 1 queue place, both policies, all boundaries (located ones for the draining pool only) | every queued item has a token behind it, accepted jobs finish, shutdowns with nothing to steal return |
| `hosted` | 10 workloads: up to 4 dispatches on 1 and 2 workers of capacity 1; 1 and 2 tasks with sources and timers | the in-flight count is exact, every queued job has a wake-up, unanswered waits stay registered, registered keys are named, the driver does not sleep beside work it was not told of |
| `task` | 2 workloads with 1 waker: 2 workers, 1 poll pending and an abort; 1 worker, 2 polls pending, panics and a refused dispatch | runs do not overlap and there is one job per task, no wake lost, references exact, a joiner of a finished task has somebody to wake it |
| `task_result` | 2 workers, 1 waker | *violation*: a join does not always return the task's result (see below) |
| `current` | 4 workloads on 2 slots, ring of 2, events in batches of 1 | slots accounted for, jobs and registrations exact, no wake lost, a future is left alone while it is polled |
| `green` | 10 pools of 1 or 2 carriers, 3 of them under a courier, 2 stacks in chunks of 1, up to 3 clients | tasks in one place from spawn to recycling; admission, handles and ledger exact; joiners woken; tasks finish; carriers exit on shutdown |
| `memory_pool` | 2 members of 7 and 4 bytes, 5 records, 6 lease ids; 7 workloads of leases, allocators and clients | records tile the members, leases and bytes exact, free neighbours merged (`Consistent`); honest refusals; merge = loop; allocations apart; extents and pool there exactly while they can be reached; replies once and in order |

What is proved for every instance (types, `MutualExclusion`, the mutex's `NoLostWakeup`,
`CountsExact`, `NobodyForgotten`, `ExclusiveInit`, `Drained`, `DrainedIsWhole`, `SlabExact`,
`PermitsConserved`, `ConsumedOnce`, `UpdatesAccumulate`)
is not repeated in the runs.

Deadlock checking is off in the runs whose calls are bounded: when every thread has
used up its calls, or a semaphore has no permit left to give, the model rightly stops.
The liveness properties say which stops are legitimate.

Why these properties and not the obvious ones:

* *No lost wakeup* is stated as a relation between the sleepers and the threads that
  still owe them something.  It takes a release, a wait and a third thread's barging
  in a particular order to break it, and it is what liveness rests on.
* `TokensCover` and `SignalsCover` are the pool's and the scheduler's versions: an item
  in a queue whose owner sleeps without a token would wait for ever.  Stealing removes
  items without removing tokens, so the two drift apart, but only in one direction.
* `RefsExact` and `InflightExact` tie a counter to the things it counts at every
  instant between the atomic accesses; recycling and teardown decide on those counters.
  `InflightExact` says by how much the count is short after a signal has overflowed.
* `WakeNotLost` relates a wake recorded in history (`woken`) to all places the duty of
  polling again can be: a queued job, the dispatch, a run that has yet to poll, the
  scheduled mark of a running task, or a thread about to settle it.
* `Consistent` (its conjunct `Coalesced`) and `RefusalsHonest` say when the pool may
  refuse: never because of fragmentation it created itself; for want of metadata only
  when no vacant record or no lease id is left, unless the pool is tight-front, which may
  settle on a record it cannot split and pass over one it could.
* `WaitKept`, `KeysNamed` and `DriverNotified` tie four tables with four locks to each
  other at every instant: a wait a future still holds is in the table or answered, a key
  in the poller is named by a wait or a deferred deregistration, and a sleeping driver
  has been told of what changed since it looked.
* `OnePlace` follows a fiber through free stack, spawn, queue, carrier, waiter table and
  back; stealing, parking and shutdown each have a moment where it could be in two
  places or in none.  It promises a place to tasks that are not yet published, in a pool
  that runs.
* `LedgerTruth` compares the courier's records with the tasks, but for fibers whose spawn or
  whose `finish_task` is still under way: there the two are apart by design.
* `RegistrationsExact` and `JobsExact` relate future, wait table, outcome table, poller
  and ring of the current executor after any nesting of calls.
* `PollUndisturbed` is what the borrow of a future during its poll rests on: the cells of
  that executor take no lock, so only the state of the slot keeps a nested join, a wake or a
  full ring from polling, dropping or reusing the future underneath.
* `BackingExact` relates three levels of counts (slices, control blocks, pool) to what
  callers hold at every instant of a drop: the arena's lock and count lie in the bytes that
  the last drop gives back.  `BlocksApart` says that the cursor's way down is sound although
  only the top is popped and dead ranges stay.
* `RepliesExact` follows requests and replies through two rings, a pending reply and a
  pending stream, and says exactly what a full or busy ring may lose.

## Bounds

* Futex modules: three threads are a holder, a sleeper and a barger; two rounds let
  a thread come back while its own late wake is still under way.
* `LeftRight`: three updates recycle each replica at least once; two readers allow one
  to straddle an update while another is passed by the scan.
* `CarrierPool`: one queue place makes rejection and token overflow (TokenMax is queue
  places plus workers) reachable with three jobs on two workers.  Located boundaries are
  looked at for the draining pool only: the policies differ in what shutdown does with
  the queues, and a queue that shutdown has emptied gives a thief nothing.
* `HostedExecutor`: each workload has the feature whose interplay it is about.  Crowded
  (one worker, four dispatches, capacity 1) overflows the worker's signal; Spread (two
  workers, three dispatches) forces the fallback to the second worker, and Ending shuts
  two workers down; Sources and Timed have waits replaced by waits and by timers, Sharing
  two tasks on one source, Mixed a task on a source beside one on a timer; Again uses a slot for a second task; Stopping and Dozing shut down over a wait
  for a source or a timer.  Scheduler and reactor are not both busy in one workload
  except through shutdown, which is all they share.
* `CurrentExecutor`: two slots and a ring of two, so the ring fills with stale entries;
  nesting of two; three tasks in one slot with wakers of the earlier ones still held;
  two sources for a batch of one event; timers at two instants.
* `GreenPool`: two stacks that are committed one by one, so growth, shrinking and
  exhaustion happen with three spawns; three handles on one task; two carriers for a
  thief and its victim; a ledger with room for two records and one live fiber a class;
  Supervised and Overseen put carriers under it, which may outrun the registration.
* `AsyncTask`: one generation with two workers and a waker has all races within one
  task; panics and refused dispatches are explored with one worker, where a second pending
  poll lets the future count on a waker it already gave away.  A slot used by two tasks in turn is beyond the bound (see the
  disagreements).
* `MemoryPool`: eleven bytes in two members with bases that make alignment cost a prefix
  in one and not in the other; five records make the table run out (two are taken by
  the members, a split takes up to two); six lease ids run out (workload Leases).
* `Allocator`: a header of one byte.  Arenas (three bytes, a request that needs padding,
  mortal and immortal, beside an immortal slab), Slabs (two slots, control blocks with two
  references) and Pieces (blocks that use up the records) have two or three assignments;
  `bound.drops` caps the slices being dropped at once, `bound.clones` the references.
* `AllocatorService`: rings of one or two places, two requests and streams of two to four
  items, so the ring fills within a stream; two consumers on the status ring.  Audit has
  clients of the same context, Threads those on other threads with the service on a fiber,
  Churn leases and frees extents while they are listed.  `bound.asks` and
  `bound.attachments` cap the clients.
* Counters that grow without bound in the code (`Rounds`, `Calls`, `Updates`, `Reads`,
  `Generations`, `Polls`, `Refusals`, `LastLeaseId`) are capped by constants in guards.
  The proofs hold for every value of them.

## Fairness

Weak fairness of each thread's own next step, which the operating system's scheduler
gives a runnable thread: a step that stays enabled is taken.  A thread asleep in a
futex has no enabled step until another thread wakes it, so fairness never
substitutes for a wake.  Interruptions, spurious wakes, the start of a shutdown and a
waker's decision to wake carry no fairness.  In the futex modules and for the submissions of
`CarrierPool` the fair step includes the beginning of a call: calls are bounded by a
constant, so this only means that each thread makes the calls it has, and the liveness
properties (a call that has begun returns) do not depend on it.  They do assume that who
holds a lock releases it and that an initializer ends.  In particular:
`LeftRight` is fair to the writer, to the store buffer (hardware drains it) and to
readers that have begun; `CarrierPool` to submissions under way, workers and a begun
shutdown; `AsyncTask` to every slot operation under way, to workers, and to an owner that has
entered join, poll or detach; `GreenPool` to each carrier and to callers that are
signalling (it assumes that task bodies give their carrier back and that the source a
parked task waits for becomes ready).  `HostedExecutor`, `CurrentExecutor`,
`AllocatorService` and `FutexSemaphore` state safety only: their progress depends on tasks and clients, and the
invariants on signals, wakes and waits are the part that the code is responsible for.

## What is proved

TLAPS checks these for every value of the constants, from the named assumptions on
the constants only (`RoundsAssumption`, `LockersAssumption`, `RwRoundsAssumption`,
`SemaphoreAssumption`, `PoolAssumption`,
`CallsAssumption`, `EmptyAssumption`, `ReadersAssumption`, `BoundsAssumption`,
`SlabAssumption`, `SchedulerAssumption`, `WorkloadAssumption`): any number of threads,
permits, workers, jobs, readers, members, records, requests, stacks, tasks, waits and sources.

**`PrimitiveProofs`, the mutex**: types, mutual exclusion, no lost wakeup, and `Spec =>
ImplementsExclusion`.  The properties are not inductive alone; `IInv` adds
`WordMatchesHolder`, that the word is non-zero exactly while a thread holds.

**`PrimitiveProofs`, `OnceLock`**: types, one initializer, a single assigned value and no `invalid`
fallback, no lost wakeup.  `Published` relates the word to the cell: COMPLETE means
written, RUNNING means somebody is responsible, and who has a result has seen COMPLETE.

**`PrimitiveProofs`, the left-right table**: types; the writer never stages into a replica a guard names and what a
guard dereferences never changes (an action property), both while no counter load has
overtaken the selector store; no update is lost in any case.  `OldGuardsAwaited` says
that a guard on the old side is at a slot the scan has not passed; `PendingInScan`
where a delayed store can be; `Versions` what each phase knows of the replicas.

**`PrimitiveProofs`, the stack slab**: `SlabExact`, for every capacity and chunk size: the committed prefix is
split exactly into free and allocated stacks and never falls below the initial one.  The
shrinking loop is characterised by where it stops (`ShrinksTo`); the lemmas show that a
chunk given up is free and that the next end is again a chunk boundary.

**`FutexProofs`, the rwlock**: types, exact counters, exclusive writers, nobody forgotten,
refinement of `Exclusion`.  The invariant needs `WaitersCovered`, which speaks of epochs:
a waiter whose observed epoch is current has a holder (or, for a reader, a writer) or
a release about to bump the epoch ahead of it; one asleep on an older epoch has a wake
under way.  This is why `read_unlock` may skip the wake.  Counting is by cardinality of
sets of threads, with the theorems on finite sets.

**`FutexProofs`, the semaphore**: permits conserved and within the maximum, and no permit
stranded: while a thread sleeps, the free permits are at most the acquirers awake plus the wakes
still owed.  The argument counts: a release of n adds n permits and owes n wakes
(`ReleaseCovers`); a wake call moves as many sleepers to the awake as it pays off, unless
nobody sleeps any more (`WakeCovers`); an acquirer that takes a permit stops being awake
as the permit stops being free, and one that goes to sleep has just compared the word
with 0 (`AcquireCovers`).

**`CarrierPoolProofs`**: types, `ConsumedOnce`, `Drained`, `TokensCover`.  The invariant
puts each job in exactly one place (`Places`: one position of one queue, or one
worker's hand), relates place, outcome and counters by the progress of its submit call
(`Account`), and says a worker leaves only during shutdown over an empty queue.
`TokensCover` needs in addition that the queues together hold at most `QueueItems` jobs:
a release that overflows has found at least that many tokens.

**`MemoryPoolProofs`**: types, `Tiled`, `LeasesExact`, `Coalesced`, `BytesExact`,
`RefusalsHonest`, `DrainedIsWhole`, and the conjunction `Consistent` that the run checks.
The invariant states the
tiling as intervals: extents of one member are apart, and cover its usable range
(`Shape`); the counters are the sums of lengths, the leases held are the leased
records, with ids below the next one; no two free neighbours touch.  The key lemma,
`ReplaceTiles`, says that replacing a set of records by another that covers the same
bytes keeps a tiling; splitting and merging are both instances of it.  A lease that
is held therefore always has its record, so release never finds an unknown one.

**`HostedSchedulerProofs`**: types, `InflightExact`, `SignalsCover` and `DrainedAtTeardown`
(shutdown tears the slots down with no job queued or running and no dispatch about to
queue one, unless a signal overflowed).  The counts are cardinalities: an action adds one
element to the set of dispatches that count, moves one from there to a queue or to a
worker, takes one away, or empties a queue into the count of dropped jobs.

**`ReactorDriverProofs`**: three layers, each kept by every step of the tasks, the driver
and the closing thread.  *Types* (`ReactorTypes`), which include what the driver may have
in hand at each label.  *Waits* (`Wait`, one slot at a time): the entry of a slot is that
of the wait its task holds (`Own`); what the driver has taken out of the table for a slot
answers that wait (`Hand`); and an entry that is gone has left an outcome, together with a
mark, a poll or a driver about to mark (`Kept`).  *Keys* (`KeysHeld`): every key of the
poller that is neither queued nor leaked has exactly one holder, an entry, a task, the
driver or the closing thread (`OneHolder`).  "Exactly one" is what `KeysNamed` by itself
does not say and what a step that drops or hands over a key needs; the steps are six
operations on that assignment (`Handed`, `Leaked`, `Queued`, `Registers`, `Deregisters`,
`Flushes`).

**`DriverNotifyProofs`**: what `DriverNotified` needs (the driver never sleeps in the poller
beside a wait, an earlier timer, a key to deregister or the end of the executor it has not
been told of) is to say what the driver will still see by itself.  `NotifyInv` does, one slot
at a time: whoever changed a table is still on its way to `signal_driver`, or the byte is in
the pipe, or the driver stands at a label from which it goes through that part of the tables
before it sleeps (`Restarting`, `Flushing`, `Scans`).  `Tidy` and `Shut` tie an entry to the
task of its slot, so that the driver finds under the lock the entry it read before.

**`HostedExecutorProofs`**: the composition.  The executor implements its scheduler
(lemma `ExecutorSchedules`), so the scheduler's properties hold of it; a scheduler step leaves
the reactor's variables alone, so `WaitKept`, `KeysNamed` and `DriverNotified` hold of it as
well.

Only model-checked: all liveness (beyond this prover), `MergeIsLoop` (induction over the
loop), and the safety of `AsyncTask`, `CurrentExecutor`, `GreenPool`,
`Allocator` and `AllocatorService`.

## Disagreements between code and documentation

One is kept as a run.  Where an entry names another property of a module, TLC refutes it
with the constants given (add it to a configuration with these values); the remaining
entries are in the models as exceptions that a property names, or as behaviour a reader
of the properties should know.

* **Join loses a result** (run `task_result`, `JoinReturnsResult`).  "Blocks until the
  task completes and returns its result"; after a poll that returned
  Ready, `run_slot_by_ref` clears RUNNING before `complete` leaves PENDING
  (`core.rs:1183`).  A wake between the two dispatches the task again; the second run
  finds the future's storage empty and fails the task, and the output is dropped.
* **Writer preference** (`FutexRwLock`, `WriterPreferred`; 3 threads, 2 rounds).  "Waiting
  writers block new readers": `write_lock` drops its `WaitingWriterGuard` before it
  retries, so a reader can be admitted between wake and retry (`sync.rs:590`).
* **Store buffering** (`LeftRight`, `GuardNotRecycled`; READERS 2, Updates 3, Reads 3).
  The SAFETY comment says a replica is not recycled until every slot is quiescent; the
  Release store of the selector followed by Acquire loads of the counters does not
  order the two (`left_right.rs:128`), so a reader can load the old selector after its
  slot was scanned.  A sequentially consistent pair would.
* **Pool shutdown can hang** (`CarrierPool`, `ShutdownReturns`; 1 job, 3 workers, 1
  queue place, Drain, Global).  A worker that spends its shutdown token on a stolen
  item waits for another one (`fusion-sys` `thread/pool.rs:603`).
* **A rejected closure runs** (`CarrierPool`, `RejectedNeverRuns`; 2 jobs, 1 worker, 1
  place).  The comment on the error path speaks of a drop/recycle path; the path
  executes the closure on the submitting thread (`fusion-std` `thread/pool.rs:836`).
* **Token overflow after the enqueue** (`CarrierPool`, `FailedNotObservable`; 5 jobs, 2
  workers, 1 place, Drain, Global).  "submission failed, so no worker can observe the
  record": the release of a token may overflow when the item is already queued
  (`fusion-sys` `thread/pool.rs:720`).
* **Hosted shutdown can hang** (2 dispatches, 1 worker, capacity 1).  A dispatch that passed
  its re-check pushes after the queues were cleared; if the worker has left, nobody takes
  the job off the count, and shutdown waits for it (`hosted.rs:510`).
* **Hosted signal overflow** (workload Crowded).  A signal that overflows reports failure for
  a job that stays queued, and its dispatch takes itself off a count the worker will take it
  off again; `InflightExact` says that the count is short by these, so that shutdown may
  stop waiting while a job is still queued or running (`hosted.rs:523`).
* **A readiness answer can be erased** (`ReactorDriver`, `fault.erased` in `WaitKept`).  "One
  future that resolves when the selected source reports readiness" (`current.rs:753`): the
  wait is published under one lock and the old outcome cleared under another, so an answer
  that arrives in between is lost (`state.rs:378`).
* **A key can go to the wrong wait** (`ReactorDriver`, `fault.crossed` and `fault.leaked`).  The
  driver registers a source with the tables unlocked; if the wait was dropped meanwhile
  its key stays in the poller, or is published to the task's next wait (`state.rs:559`).
* **Driver errors are silent.**  The driver returns on any error of the poller while
  `reactor_driver_ready` stays true, so later waits are never answered; a full list of
  deferred deregistrations is such an error.
* **Green join can sleep on** (`GreenPool`, `late` in `JoinNotLost`).  A joiner that counts
  itself after the finishing carrier released the permit, and before it published the
  completion, sleeps with nobody to wake it (`scheduler.rs:1063`).
* **A refused fiber stays queued** (`GreenPool`, `refused`).  The courier's ledger is asked
  after the task was queued; when it refuses, the spawn fails and the queue entry stays
  (`fiber.rs:1989`).  `max_live_fibers` is documented as a bound on live fibers
  (`domain.rs:405`) and compared with the number of records, terminal ones included.
* **A carrier can outrun the registration** (`GreenPool`, label `unregistered` in
  `ErrorMeansShutdown`).  The same order of steps lets a carrier begin a task whose fiber the
  courier does not know yet: the report fails, the carrier's loop ends with the error and the
  pool shuts down.  A pool on the current thread cannot meet it.
* **Work left at a green shutdown.**  A task that yields after the shutdown request cannot be
  queued again; its carrier leaves with the error and the task stays Yielded
  (`ErrorMeansShutdown` allows it only then).
* **Blocking over due timers** (`CurrentExecutor`, action `Drive`).  A blocking drive queues the tasks of timers that are due and then still blocks for an event
  (`state.rs:775`).
* **Ring of the current executor.**  Jobs of tasks that are gone keep their place in the ring,
  so a wake of a live task can be refused; a spawn whose publication fails returns an error
  with `handle_live` set, and its slot is never freed (`engine.rs:375`).
* **Audit streams lose items** (`AllocatorService`, `lost` in `RepliesExact`).  The status
  protocol has `requires_reliability: true` (`protocol.rs:152`); `flush_pending_stream`
  advances or ends the stream before `try_send`, so an item that meets a full ring or a busy
  lock, the completion included, is never sent (`service.rs:423`).
* **The service's fiber can end on a busy lock.**  `try_receive` reports a busy control
  channel as an error, `pump` returns it and `run` ends the fiber (`service.rs:233`, `461`).
* **Stream indices are not stable.**  `extent_info_at` speaks of a "stable stream index"
  (`mem/pool/pool.rs:218`) and counts the records in use; a lease or a release between two
  pumps makes a stream skip or repeat extents.
* **A refused `deallocate` keeps its arena busy** (`lost` in `BackingExact`).  A result below the
  top is refused and consumed, so `live_allocations` never returns to 0 and `reset` answers
  busy from then on (`arena.rs:707`).  After a padded block was popped, the block below it
  is not at the cursor any more and is refused too.
* **Reuse of a task slot** (`AsyncTask`, two generations).  A thread that checked the
  generation before it took a cell's lock may clear the future of the next task
  (`core.rs:265`).  The windows are in the model; the run's single generation does not reach
  them, and no property that holds could be stated across them.

## Abstractions and limits

* Payloads, closures, results and errors are model values or generations; what matters
  is whose they are and how often they are consumed.
* Memory ordering is sequentially consistent, except for the store buffer in `LeftRight`,
  where the code's orderings allow the difference to be seen by a property.
* The futex is external: atomic compare-and-sleep, wake of any n sleepers, interruption
  at any time.  The epoch and generation words do not wrap within the bounds.
* `GreenPool` joins steps on a slot that no other thread can reach; which free stack is
  handed out is left open.  Task bodies only yield, park and finish.
* `CurrentExecutor` assumes of the tasks' code what its header lists: one wait at a time, a
  yield ends the poll, Pending only with a wake arranged, no abort of the task being polled.
  The last is not enforced: `TaskHandle::abort` on the task that is being polled, from its own
  code or from a poll nested in it, would drop the future under its poll.
  With two wait futures in one task the second overwrites the first's entry.  A nested
  join resets the thread's context and the requeue flag; this is in the model.  Wakes from other
  threads are not, and the code has no signal for them while the thread blocks.
* `ReactorDriver` polls a marked task without going through a queue; what lies between is
  the scheduler's and `AsyncTask`'s.  A task whose dispatch is refused is failed and its wait
  cleared in one step (`Settled`), where the code takes several locks.  An abort of a waiting
  task by another thread is left out: it clears the wait, fails the task and recycles the slot
  beside a driver that may be answering it.
* `AsyncTask` takes as one step each: the creation of a run's waker, the test of
  `can_recycle` with the loads it makes, and `initialize_for_allocation` (the slot is
  not reachable by others yet); `reset_empty` is two, its cells and its atomics.  It has one
  slot: the free list is a flag.  `RefsExact` says nothing of an empty slot: a worker that
  began its run before an abort and the recycling makes a waker of the empty slot, whose
  drop is not counted any more.
* Calls on the memory pool are one step each, because they run under the state mutex,
  which is what `FutexMutex` provides.  Overflow of addresses is not modelled: members
  are validated against it when the pool is built.
* `Allocator` takes offsets for addresses: the payload starts at a multiple of the largest
  alignment it accepts.  Its policies allow every mode, and the counts do not overflow.
  What `AssignedPoolExtent::assign` and the constructors look up or check once the extent is
  leased repeats what the request asked for and is taken to succeed; if a lookup in `assign`
  failed, the lease would not be returned (`alloc.rs:511`).
  `AllocatorService` identifies requests by the order they were sent in; the contents of
  replies are left out, and a busy pool lock is waited for.
* Thread start-up failure, placement, stacks, statistics and observability counters
  are left out.

## Not modelled

`PROJECT.json` gives the reason for each component.  They fall into four groups.

* **Decided outside the sources**: platform system calls other than the futex, the kernels
  of the other hosted platforms, microcontroller registers, device drivers, the context
  switch.  A model would state assumptions about hardware, not translate code.
* **No state that changes, or none that interleaves**: descriptors, contracts, facades,
  planners, runtime assembly, claims, locators, PCU programs, build tools.  The AML
  interpreter is sequential and decided by the byte code it is given.
* **Parts of modelled components** that add data but no control the properties tell apart:
  statistics, insight and metadata reporting, start-up of threads and their placement,
  size classes and guard pages of stacks, yield budgets, memory planning.
* **Worth a module and not written**: the domain registry (couriers, contexts, visibility
  grants) beside its fiber ledger, and the insight timeline, the one user of
  `clear_pending_messages`.

Proofs still missing where a run checks safety: `Allocator` over the
invariant of `MemoryPoolProofs`, then one generation of `AsyncTask`.
