# A TLA+ verification of unagi's concurrent runtime

unagi compiles Python to Go. A compiled program links against an object runtime
(`pkg/objects`, `pkg/runtime`) that reimplements Python's threading, queue,
concurrent.futures and asyncio libraries on goroutines, mutexes and channels.
The compiler is sequential. The runtime is where steps of several actors meet in
orders no test fixes, so it is what these modules model, with the one concurrent
part of the driver, the cache of linked binaries (`pkg/build`).

Contents: [the system](#the-system) · [modules](#modules-and-how-they-correspond-to-the-code) ·
[runs](#runs) · [bounds](#bounds) · [fairness](#fairness) · [proofs](#proofs) ·
[what is not modelled](#what-is-not-modelled)

## The system

| Part | State | Operations | What makes it hard |
|---|---|---|---|
| Semaphore, BoundedSemaphore (`objects/semaphore.go`) | count, FIFO of waiter channels | acquire (blocking, timed), release(n) | the woken thread does not own the permit: it re-checks under the lock and may be overtaken; a timer races a release |
| Queue, LifoQueue, PriorityQueue (`objects/queue.go`) | items, unfinished count, shutdown flag, three waiter lists | put, get, task_done, join, shutdown | one wake per put and get; timeouts; shutdown over sleepers; user `__lt__` that raises half-way |
| RLock, Condition (`objects/lock.go`, `cond.go`) | token, owner, depth, waiter list | acquire, release, wait_for, wait, notify | token and owner change separately; wait registers, releases and sleeps in three steps |
| Barrier (`objects/barrier.go`) | round state, count, broadcast channel | wait, reset, abort | a fast thread re-enters while the last round drains |
| Future (`objects/futures.go`) | state, outcome, done channel, callbacks | set_result, set_exception, cancel, set_running_or_notify_cancel, add_done_callback | several threads race to settle it; callbacks run after the unlock |
| ThreadPoolExecutor (`objects/executor.go`) | work queue, idle count, worker count, flags, a `sync.Cond` | submit, worker loop, initializer failure, shutdown | Signal to nobody, lazy growth on a count corrected later, shutdown against parking workers |
| asyncio loop and tasks (`objects/asyncio.go`) | ready queue, batch, timers, wakeup channel, task states | run, step, cancel, call_soon, stop | a wake missed while the loop goes to block; cancellation between a wake and the resume |
| asyncio bridges (`objects/asyncio_executor.go`, `asyncio_threadsafe.go`) | pending mark, helper goroutines | run_in_executor, to_thread, run_coroutine_threadsafe | the loop must neither stop nor sleep through a result under way |
| asyncio Lock, Semaphore, Queue (`objects/asyncio_lock.go`, `asyncio_semaphore.go`, `asyncio_queue.go`) | flag, count or items, waiter futures | acquire, release, put, get, task_done, join, shutdown | a task is cancelled after its waiter was resolved and before it resumes |
| Build cache (`build/buildcache.go`) | entries by recency, byte total, key locks, files | buildBinary, hit, store, evict, CleanupCache | files used outside the mutex; other keys evict; failing links; files that vanish or cannot be removed |

How they interact: the executor owns the futures it hands out and is the only one
to run and resolve them, while clients cancel them and add callbacks. asyncio's
`run_in_executor` waits for such a future on a helper goroutine and queues the
outcome on the loop. The asyncio primitives live on the loop's goroutine: their
waiters are futures whose callbacks are steps of the waiting tasks. Semaphore, queue
and condition share a scheme of waiter channels (append, a wake closes the front
one, a timed-out waiter takes its place out), and their proofs share lemmas. The
build cache stands alone, below the commands that build programs.

`PROJECT.json` lists every part of the repository with its status, the lines each
definition stands for, and the hazards of the code with the properties that cover
them.

## Modules and how they correspond to the code

Granularity: **a critical section under the object's mutex is one action**, and
what a goroutine does between two of them (sleeping on a channel, a timer firing,
running a callable, touching a file) is an action of its own. On the event loop an
action is a callback up to the resumed coroutine, or one operation of that coroutine.
A call that raises or misses without changing anything is a stuttering step.
Definitions named "A mutant" in their comment are variants with a plausible bug.
No specification uses them: each one shows that the property paired with it in
`PROJECT.json` can fail.

**WaiterLists** holds what the primitives do to a list of waiters besides appending to
it and taking its front (`removeAt`, `removeFirst`), and the orders in which Go may
leave equal deadlines (`orders`). **Threads** declares the finite set of threads.

**ThreadSemaphore** (`semaphore.go`). `value`, `sleepers` (the field `waiters`),
`initial` and `bounded` are the struct's fields. A waiter channel is named by the
thread that made it, and `signalled` holds the threads whose current channel is closed.
`acquirePermit` is the first passage of acquire's loop, `wokenAcquire` the passage after
the channel closed, `timerFires` the `select` choosing the timer (also over a closed
channel), `reclaim` the search of the waiter list, `late` the passage after a lost
reclaim. `releasePermits(n)` lifts the count and wakes up to n waiters in the same step.
**Semaphore** is what it promises: a count, and calls that are pending, take a permit
or give up, each at one instant.
ThreadSemaphore, Condition and Barrier carry their name in `SemaphoreSpec`,
`ConditionSpec`, `BarrierSpec` and the like because one module of proofs extends the
three.

**ThreadQueue** (`queue.go`). The same scheme with three lists. Items are counted,
because the discipline decides which item moves and not whether one does. What the
discipline does change is kept: a PriorityQueue compares items, and a comparison
may raise. `comparesRaise` marks such a queue; `addItem`, `removeItem` and
`shutdownImmediateRaises` have the code's error paths. `processing` is history, the
items got and not yet reported, under the convention that callers report each item
once. **TaskQueue** is what it promises: a bounded store with a task count and no
lists, channels or wakes.

**Condition** (`cond.go` over the RLock of `lock.go`). `free` is the token in the
inner Lock's channel, `owner` and `count` the RLock's fields; taking the token and
storing the owner are two steps, and so are clearing the owner and giving the token
back. The client is a monitor: it produces an item and notifies, notifies for no
reason, or calls wait_for(items > 0). `register`, `condReleaseSave`, `freeInner`,
`wakes` or `timesOut`, `takeInner` and `condAcquireRestore` are the stations of one
turn of wait_for's loop. `depth` is history.

**Barrier** (`barrier.go`). `state` and `arrived` (`b.count`) are the fields, `woken` the parked
threads whose broadcast channel has been closed. Each action runs from a park or the
call to the next park or the return: `wait` and `reenter` share `enter`; `drained`
and `waitTimesOut` share the `leave` that ends in `exit`. `mates` is history, the parties
present when the round tripped.

**Future** (`futures.go`) holds the method bodies as operators on the futures'
variables. `calls` are the callback runs owed after the unlock, with the actor that
owes them. **Executor** (`executor.go`) extends it with the pool. `sync.Cond` is
external and modelled by its contract: Wait appends to a notify list, Signal takes
the oldest, Broadcast all, and a worker taken off the list (`signalled`) still has
to get the mutex back before it leaves `e.idle`.

**EventLoop** (`asyncio.go`, `asyncio_executor.go`, `asyncio_threadsafe.go`) holds
the loop's and the task's methods as operators. `iterate`, `wakesUp` and `timerFires`
are `runUntil` up to the batch, `runs` takes the next callback, `step` is `Task.step`
up to the resumed coroutine, and the operators after it are what that coroutine may
do. Off-loop threads take part through `callSoon`, `wake` and `donePending`; `wakers`
are those between the unlock and the wake. A task's awaited future goes by the task:
`awaits` names what would resolve it, `fut` its state. **AsyncioLock**,
**AsyncioSemaphore** and **AsyncioQueue** extend it with a primitive each: what an
operation does before its await, and what it does when the task is stepped again,
with a result or with the cancellation. Their history variables `dropped`, `leaked`,
`semDropped` and `swallowed` record that a cancellation took a wake with it.
**Asyncio** composes the four: a coroutine is any sequence of the operations its
program allows.

**BuildCache** (`buildcache.go`). A key stands for its canonical file and `files` are
those on disk. `entries` are the recorded keys and `older` their order by use tick.
`evictLocked` is given by the files it tries to remove: those whose turn finds the total
still over the cap, the older ones gone that could be removed, which is what the loop
over the sorted keys computes. Which present files `os.Remove` fails on is any set
(`refuse` in `store`): their records, files and bytes stay and the loop goes on. The
history variable `stuck` holds the present files the last eviction failed on. A size is
counted as a set of bytes (`bytesOf`), so that a total is a cardinality. The steps of
`buildBinary` are `begin`, `lockFor`, `hit`, `link`, `store`, `copyExecutable`; `link`
may fail or find no directory. `reap` removes a file from outside.

The **\*Proofs** modules and **WaiterLemmas** hold the proofs. The **MC\*** modules
and their `.cfg` files fix the constants for TLC.

## Runs

| Run | Configuration | Distinct states | Result |
|---|---|---|---|
| `semaphore` | `MCThreadSemaphore.cfg` | 10,812 | passes |
| `queue` | `MCThreadQueue.cfg` | 404,330 | passes |
| `queue_refused_put` | `MCThreadQueueOrder.cfg` | – | `NoSpuriousTask` violated |
| `condition` | `MCCondition.cfg` | 50,754 | passes |
| `barrier` | `MCBarrier.cfg` | 23,802 | passes |
| `executor` | `MCExecutor.cfg` | 143,264 | passes |
| `executor_growth` | `MCExecutorGrowth.cfg` | – | `FreshItemGetsAWorker` violated |
| `asyncio_loop` | `MCAsyncioLoop.cfg` | 57,961 | passes |
| `asyncio_sync` | `MCAsyncioSync.cfg` | 1,179,740 | passes |
| `asyncio_lock` | `MCAsyncioCancel.cfg` | – | `FreeLockWakesWaiter` violated |
| `build_cache` | `MCBuildCache.cfg` | 400,306 | passes |
| `build_cache_eviction` | `MCBuildCacheEvict.cfg` | – | `CurrentBuildHasFile` violated |

Run one with `tlc -config MCThreadQueue.cfg MCThreadQueue`.

- **semaphore**: the code implements the atomic semaphore (`ImplementsSemaphore`), so
  permits are conserved through wakes, barging acquires and timeouts; a free permit
  beside a sleeper is always matched by a woken thread on its way (`NoLostWakeup`); a
  timed acquire is refused only when every free permit is claimed by somebody else
  (`RefusedOnlyIfClaimed`); the waiter list is exact (`SleepersQueued`, so no channel
  is closed twice); a free permit does not stay beside a sleeper
  (`PermitReachesSleeper`) and timed acquires return (`TimedAcquireReturns`).
- **queue**: the code implements the atomic queue (`ImplementsTaskQueue`), which
  carries the capacity, the task accounting and the finality of shutdown; items and
  slots are not left beside sleepers (`NoLostItem`, `NoLostSlot`), nor a zero count
  beside a joiner (`JoinersHaveWork`); shutdown lets everybody out
  (`ShutdownWakesAll`), and blocked calls and joins return. The wake properties are
  claimed only for queues whose comparisons do not raise: the error paths do leave
  sleepers and counts behind, as the code's comments partly say.
- **condition**: the RLock excludes, and every thread owns it at the depth its own
  acquires and releases add up to, a wait in between or not (`LockExact`); the waiter
  list is exact (`WaitersExact`); while somebody is queued, every item has a notified
  thread on its way to the predicate (`NoLostNotify`). The last rests on wait_for
  looking at the predicate once more after a timeout: a timed-out waiter may have
  consumed the notification.
- **barrier**: a filling barrier has counted only parties of its own round and a
  draining one only those of the round that tripped, all present (`RoundsDoNotMix`);
  nobody sleeps through the broadcast that ends their wait (`NoMissedBroadcast`); a
  counted party whose round is over, or with a timeout, returns (`PartyReturns`).
- **executor**: a settled future keeps its outcome (`SettledOnce`); a callback runs
  once (`CallbacksOnce`); an item is handed out once (`HandedOutOnce`), which is why
  `runItem` may ignore the errors of the state changes it makes; queued work always
  has a worker coming (`NoStrandedWork`); the idle count and the notify list are exact
  (`IdleExact`); everything submitted settles (`SubmittedSettles`), and
  `shutdown(wait=True)` returns (`ShutdownReturns`) with all of it settled
  (`ShutdownSettlesAll`).
- **asyncio_loop**: a loop that blocks or sleeps with a callback ready has its signal
  buffered or on its way (`NoLostCallback`); run_until_complete reports "Event loop
  stopped before Future completed" only when no worker, helper or timer is at work
  (`NoPrematureStop`, which depends on the helper queueing the result before it drops
  the pending mark); a cancel reaches its task once (`CancelReachesTask`); whoever
  awaits a worker or a timer is resumed or the run returns (`ResultDelivered`).
- **asyncio_sync**: the lock passes to the waiter that has waited longest
  (`LockHandover`); permits are neither minted nor lost, but for those granted to a
  waiter that was then cancelled (`PermitsAccounted`); a task waits for the queue only
  while it has to, join included (`QueueWaitsJust`). Each of the three says exactly
  what a cancellation may break, because the code does not repair it: next paragraph.
- **build_cache**: the byte total equals the recorded sizes (`BytesExact`), the cap
  holds but for the one spared binary and the files that cannot be removed (`CapHolds`),
  builds of a key are serialized (`OneBuilderPerKey`), no file escapes the accounts
  (`NoOrphanFile`), every build returns (`BuildReturns`).

The four violated properties state what a comment in the code says:

1. `queue_refused_put`. `put`'s error path says "a later get sees no spurious task"
   (`queue.go:126-128`). A heap push that raises leaves the item appended and
   uncounted, so a later get does return an item no count covers: two puts suffice.
2. `executor_growth`. `submit` says a fresh item wakes a parked worker or, with none
   idle and room in the pool, spawns one (`executor.go:87-89`). `e.idle` still counts
   a worker that has been signalled and does not hold the mutex yet, so a second
   submit in that window signals nobody and spawns nobody. The item is not lost
   (`NoStrandedWork` holds); it waits for the first worker.
3. `build_cache_eviction`. `evictLocked` says "the current build always has its file"
   (`buildcache.go:164-165`). The copy happens after the mutex is released, under the
   lock of its own key only, so the store of another key may evict the file first.
   Needs a cap two concurrent binaries exceed.
4. `asyncio_lock`. "acquire suspends the caller until the lock is free"
   (`asyncio_lock.go:3-4`). A task cancelled after `release` resolved its waiter, and
   before it resumes, leaves the lock free and wakes nobody. The other waiters stay
   suspended: only a release wakes them, and a fresh acquire of the free lock queues
   behind them. The semaphore loses the granted permit in the same
   window (`asyncio_semaphore.go:84-88`), and the queue's put and get do not pass
   their wake on (`asyncio_queue.go:239`, `:265`); `leaked` and `swallowed` mark these
   in the properties of `asyncio_sync`.

## Bounds

- Three threads (`semaphore`, `queue`, `condition`): one sleeps, one has been woken,
  one barges in between. With three, a list also holds two sleepers at once, so a wake
  may go to the wrong end or too few may go out. Threads are not declared symmetric
  because the runs check liveness.
- `Initials` 0..2, `MaxN` 2, `MaxValue` 3: an empty, a binary and a counting
  semaphore, a release that wakes two. `MaxValue` caps an unbounded count only.
- `MaxSizes` {0, 2} and `MaxTasks` 3: unbounded and bounded queues, full with one
  putter left over; three items are what `heapPop` needs to compare at all.
  `MaxTasks` guards `put` only.
- `MaxDepth` 2 and `MaxItems` 2 (`condition`): a wait gives up two levels while
  another thread holds one, and two items meet two waiters. They guard the re-entrant
  acquire and the client's `produce` only.
- Three parties and four threads (`barrier`): a round trips and a fourth thread
  arrives while its parties are still leaving.
- Three calls, two workers, one registration (`executor`): one item runs, one is
  queued and one is submitted meanwhile, with the pool below and at its cap. The
  registration may be made before, during or after its future settles.
- Two tasks and two completions from outside (`asyncio_loop`): the main task and one
  that it or another thread creates; both completions may be under way together, from
  a helper and from a timer. The sets of operations (`LoopPrograms`, `SyncPrograms`)
  limit what each coroutine calls, not how often or in which order.
- Three tasks, two permits, a queue of one place, three items (`asyncio_sync`): one
  holds, one has been woken, one arrives or is cancelled. Main cancels and shuts down;
  all three call the primitives.
- Three builders, three keys of sizes 1, 2, 3, caps {0, 2, 4}: no cap, a cap below
  the largest binary, a cap that any one fits and not all.

`CHECK_DEADLOCK FALSE` is set where the program may rightly stop: a semaphore nobody
releases, threads that all wait for a notify, a pool with nothing more to submit, a
loop that has returned.

## Fairness

Weak fairness on what a goroutine does once it can: one whose channel is closed or
that waits for a free mutex runs, a timer that is due fires, a worker that holds an
item calls it, the loop takes its next callback. Callables, callbacks and
initializers are taken to end. Nobody has to *make* a call: `acquire`, `release`,
`put`, `get`, `taskDone`, `submit`, `shutdown`, `begin`, a barrier's `wait`, `reset`
and `abort` and a thread's run_coroutine_threadsafe have no fairness. The timer is
fair separately from the wake, since a waiter woken in vain again and again still has
its deadline. Strong fairness is used in two places. `lockFor` of the build cache:
Go's mutex hands over to a waiter that has starved for a millisecond, so a builder
asking for a key lock gets it even if others keep taking it. And two assumptions on
the program and the clock in `Asyncio`: a coroutine does not run for ever without
suspending or returning (`suspendsOrEnds`), and a deadline is passed however often the
loop wakes up early (`comesDue`). The condition's run checks safety only: whether a
waiter is notified is up to the client.

## Proofs

TLAPS proves the following for any finite set of threads, futures and callbacks, any
number of workers, parties, builders and keys, and all values of the other constants.
The assumptions are the named `ASSUME`s of the modules: sets are finite where they are
counted, counts and bounds are naturals, `nil` is not a thread, a task or a future. For
asyncio neither the tasks nor the outside completions have to be finitely many, since
only live tasks and running helpers are counted; an outside completion is not named
like a primitive's call (`OpAssumption`), and what other threads submit are tasks
(`SubmittedAssumption`).

**WaiterLemmas**: what Append, Head/Tail, SubSeq, removeAt, removeFirst, concatenation
and orders do to the set of entries and to the absence of duplicates of a waiter
list, what Min returns, and how the size of a finite set moves when one element joins or leaves.

**ThreadingProofs** is about the semaphore, the condition and the barrier. For the
semaphore it proves `SemaphoreSpec => []SemaphoreInv` with

    SemaphoreInv == SemaphoreTypeOK /\ SleepersQueued /\ PermitsConserved /\ NoLostWakeup

`NoLostWakeup` is not inductive alone. When a woken thread takes a permit, `value`
and the threads in flight drop by one together, which needs it to have been in
flight. When a release pops k waiters, exactly k new threads join the flight, which
needs the list to be free of duplicates and disjoint from `signalled`: that is
`SleepersQueued`. There is one lemma per action (`AcquireStep` ... `ReleaseStep`).
`RefusalIsJust` proves the action property `RefusedOnlyIfClaimed` from `SemaphoreInv`: the
thread that gives up either is still queued, so it is not among those in flight, or
has seen a count of zero. `Implementation` is the refinement: under `pendingCall` the
initial states are initial states of Semaphore, and each action is one of its steps
or a stutter.

For the condition the invariant is

    ConditionInv == ConditionTypeOK /\ LockInv /\ WaitersExact /\ NoLostNotify

where `LockInv` adds to `LockExact` that an owner's depth is not zero (else a wait could save
zero levels). `NoLostNotify` needs `WaitersExact` the way the semaphore's wakes do: a
notify moves a thread from the list to `closed`, and a thread leaves `closed` only as
it takes an item or finds none.

For the barrier it is

    BarrierInv == BarrierTypeOK /\ RoundsDoNotMix /\ NoMissedBroadcast /\ Distinct

`Distinct` carries that the indexes of a filling round differ and that a thread outside
a round has no mates; from it the parties present at the trip number exactly
`Parties`. One lemma per way of leaving or entering a wait.

**ThreadQueueProofs** has two layers. `Lists == TypeOK /\ SleepersQueued` is inductive
by itself; `Counts` (capacity, accounting, joiners, shutdown, `NoLostItem`,
`NoLostSlot`) is inductive given `Lists` before and after the step. Putters and
getters use the same argument, each with its own list and its own flight.
`ShutdownStays` proves that the flag stays, `Implementation` that the queue is
TaskQueue.

**BuildCacheProofs** has two layers. `Inv == KeyLocks /\ OneBuilderPerKey /\
NoOrphanFile` is inductive by itself: `KeyLocks` says that a builder past the lock is
its key's stored owner, and nothing in the layer depends on what eviction picks, only on
its dropping a record together with its file (`StoreShape`). `Accounts` (`BytesExact`,
`CapHolds`) is inductive given `Inv`, which it needs so that `store` never records a key
twice. The total is exact because the bytes of disjoint sets of binaries are disjoint
sets. For the cap (`EvictFacts`), suppose `evictLocked` leaves the total over the cap
and never tries some present file. Take the oldest one untried: all older ones were
tried, those of them that could be removed are no more than all that is gone, so the
total was over the cap when its turn came and it was tried too. There is an oldest one
because the use order is total and transitive and the keys are finitely many. So above
the cap every present file but the fresh one was tried, and what is left of them is
`stuck`.

**ExecutorProofs** first shows what each method of Future preserves whoever calls it:
`FutureInv`, that the done channel is closed exactly for settled futures and that every
registered callback is unregistered, attached, owed or run, in exactly one of these.
Then it proves `Spec => []Inv` with

    Inv == TypeOK /\ FutureInv /\ IdleExact /\ Pool /\ NoStrandedWork
             /\ Places /\ Tracked /\ ShutdownSettlesAll

`NoStrandedWork` needs `IdleExact` (submit acts on the count) and `Pool` (workers are
born in order and die only when the pool is shut down or broken: with none idle and the
pool at its cap, all workers are alive and awake). `Places` puts each item in the queue
or in the hands of one worker, in the state that place expects; with `Tracked`, that an
unsettled future is in one of these places, it gives `HandedOutOnce`, `SettledOnce` and
`ShutdownSettlesAll`.

**EventLoopProofs**, **AsyncioSyncProofs** and **AsyncioProofs** prove `Spec => []IInv`
of Asyncio with

    IInv == LoopInv /\ LockInv /\ SemInv /\ QueueInv

The first holds the loop layer, the lock's invariant and its acquire; the second the
rest of the lock, the semaphore and the wakes of the queue; the third the queue's
operations, the composition and the theorems. They hold for every program of the
coroutines, and give the six safety properties of `asyncio_loop` and `asyncio_sync`.
Leaves that take the SMT translation long cite the `Zenon` pragma.

`LoopInv` is about the loop, the helpers and the tasks whatever they call. Its core:
no callback is queued twice (`Queues`); a live task runs, has its step queued, or
awaits a pending future, in exactly one of these (`TasksInv`); an outside completion
is at work, on the timer heap or queued, in one of these while a task awaits it
(`OpsInv`); the pending count is the number of helpers at work (`Marks`); and a loop
that has given up has none of them left (`Modes`). `NoPrematureStop` needs all of it:
with no step, resolution, helper or timer left, a live task can only await a
primitive. `CancelReachesTask` and `NoLostCallback` are conjuncts.

The primitives are proved one by one over the loop. Every step of a primitive is one of
four things to the loop: a call that resumes and returns, waking some (`resumes`), one
that resumes and parks again (`reparks`), the running task waking some (`acts`), or the
running task parking (`parks`). `touches(C)` says that a step is one of these and wakes
only tasks that await calls in C. `TouchLoop` shows once that such a step keeps
`LoopInv` and that whoever awaits another call keeps their future or is cancelled
(`frame`); all other steps do that for every call (`quiet`). Each primitive then needs
one lemma per operation and one for steps that are not its own.

- `LockInv` and `SemInv` add to `LockHandover` and `PermitsAccounted` that the waiter
  list holds each task awaiting the call, once, and for the semaphore that a holder does
  not wait. A cancelled waiter stays in the list until its task resumes, as in the code.
- `QueueInv` is `standing(awaits, fut, 0, 0)`. The waiters that wakeupNext pops leave
  the list before their task resumes, so a list holds every pending waiter, no woken one
  and perhaps cancelled ones (`parked`). A woken getter or putter that resumes first
  leaves the flight and then looks at the queue. In between the books are off by one:
  `standing(A, F, 1, 0)` and `standing(A, F, 0, 1)`, which storing, taking or parking
  again set right.

Check a module with `tlapm ExecutorProofs.tla`. The three asyncio modules and
ExecutorProofs take up to a quarter of an hour each, the others a few minutes.

**Only model-checked**: the liveness properties (`PermitReachesSleeper`,
`BlockedCallsReturn`, `SubmittedSettles`, `ResultDelivered`, `BuildReturns` and the
like): fairness and ENABLED are out of the prover's reach.

## What is not modelled

Most of the repository's lines are generated tables (Unicode, codecs) and sequential
library code, so the lines these modules stand for are a small share of the whole;
they are most of the code in which two goroutines or two tasks can meet.

- Which item a queue discipline hands out, and the heap algorithm itself.
- A Condition over a plain Lock, which any thread may notify while somebody holds it,
  and `notify` with a negative count, which slices out of range (`cond.go:122`).
- `Executor.map` and its iterator, and the process-wide `ShutdownExecutors`; a client
  that calls `set_result` on a pool's future; a task that shuts its own pool down and
  waits (it waits for itself).
- concurrent.futures.wait and as_completed. They read futures and change none. What
  there is to know follows from the pool's model: a future that `shutdown` cancels
  stays plainly cancelled, and wait polls such a future until the executor moves it on
  (`futureswait.go:228`), so `wait(ALL_COMPLETED)` without a timeout does not return.
- In asyncio: tasks that await tasks (gather, wait, wait_for, shield, TaskGroup,
  timeout, Runner), Event beyond what `Queue.join` uses, Condition and Barrier, user
  callbacks on futures, the copy of a task's outcome onto the concurrent future of
  run_coroutine_threadsafe, and a second run of the same loop. Of these, `stopLoop`
  says that on a loop that is not running it "arms the flag for the next run"
  (`asyncio.go:941-943`), while `runForever` clears the flag first (`asyncio.go:928`).
  Tasks awaiting tasks would make the awaited future's state depend on another task's
  whole run; with three tasks, the loop and one primitive are already at the limit of
  what TLC explores in minutes.
- A user `__lt__` that re-enters the queue it runs under.
- threading.Event (one flag and one channel under one mutex) and SimpleQueue (the get
  side of the queue's model, with the same helpers).
- Thread start and join, the registry and atexit: straight-line code around one done
  channel. Generators: a strictly alternating exchange over unbuffered channels.
  Scratch directories: a question about clocks and process tables.
- The hash that makes a cache key. What a failing `os.RemoveAll` leaves behind in
  `CleanupCache`: the next build makes a directory of its own.
- The compiler, the object model, the regular expression engine and the library
  modules: sequential code over large data, covered by the conformance suite, and
  out of TLC's reach beyond toy inputs.
