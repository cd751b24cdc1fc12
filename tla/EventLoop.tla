----------------------------- MODULE EventLoop ------------------------------
(***************************************************************************)
(* The asyncio event loop with its tasks and futures                       *)
(* (pkg/objects/asyncio.go) and the bridge from worker threads             *)
(* (asyncio_executor.go, asyncio_threadsafe.go).  The operators are the    *)
(* loop's and the task's methods; the module Asyncio composes them.        *)
(*                                                                         *)
(* Callbacks and task steps run one at a time on the loop's goroutine;     *)
(* helper goroutines and other threads interleave with it at callSoon,     *)
(* wake and donePending.  A wake follows the unlock of the critical        *)
(* section that decided on it: `wakers` holds the threads in between.      *)
(*                                                                         *)
(* A task awaits one future at a time, so its future goes by the task:     *)
(* `awaits` says what would resolve it and `fut` how it stands.  An Op is  *)
(* a future resolved from outside the coroutines, by run_in_executor's     *)
(* helper or by a sleep timer.                                             *)
(***************************************************************************)
EXTENDS Integers, Sequences, FiniteSets, WaiterLists

CONSTANTS
  Task,  \* the tasks, some created only while the loop runs
  Main,  \* the task the loop is run for
  Op,    \* completions from outside the loop
  nil    \* no task

ASSUME MainAssumption == Main \in Task /\ nil \notin Task

\* What a task may await besides an Op.
Calls == {"lock", "sem", "get", "put", "join"}

ASSUME OpAssumption == Op \cap (Calls \cup {"start", "none"}) = {}

VARIABLES
  ready,      \* l.ready
  batch,      \* what is left of the batch in flight
  inBatch,    \* l.inBatch
  wakeup,     \* the buffered signal of l.wakeup
  pending,    \* l.pending
  timers,     \* the Ops with a timer in l.timers
  idleBlocks, \* run_forever rather than run_until_complete
  stopping,   \* l.stopping
  lpc,        \* running, blocked or sleeping, returned, or stopped with the error
  helper,     \* the goroutine of a run_in_executor: none, working or queued
  wakers,     \* off-loop threads about to wake the loop
  current,    \* l.current
  live,       \* tasks created
  done,       \* tasks done
  awaits,     \* what each task is suspended at
  fut,        \* the future it awaits: none, pending, result or cancelled
  mustCancel, \* tk.mustCancel
  asked       \* history: live tasks cancelled and not yet told

loop == <<batch, inBatch, wakeup, pending, timers, idleBlocks, stopping, lpc>>
offLoop == <<helper, wakers>>
task == <<current, live, done, awaits, mustCancel, asked>>
evars == <<ready, fut, loop, offLoop, task>>

\* The callbacks: a step of a task, the resolution of an Op's future, and the
\* task creation run_coroutine_threadsafe queues.
stepOf(t) == <<"step", t>>
resolutionOf(o) == <<"resolve", o>>
creationOf(t) == <<"create", t>>
queued(cb) == cb \in Range(ready) \cup Range(batch)

LoopInit ==
  /\ ready = <<stepOf(Main)>>
  /\ batch = <<>>
  /\ inBatch = FALSE
  /\ wakeup = TRUE
  /\ pending = 0
  /\ timers = {}
  /\ idleBlocks \in BOOLEAN
  /\ stopping = FALSE
  /\ lpc = "running"
  /\ helper = [o \in Op |-> "none"]
  /\ wakers = {}
  /\ current = nil
  /\ live = {Main}
  /\ done = {}
  /\ awaits = [t \in Task |-> "start"]
  /\ fut = [t \in Task |-> "none"]
  /\ mustCancel = [t \in Task |-> FALSE]
  /\ asked = {}
-----------------------------------------------------------------------------
\* The end of an iteration's locked part: the timers that are due join the
\* ready callbacks, and all of them are the next batch.
grab(due) ==
  /\ \E q \in orders(due) : batch' = ready \o [i \in DOMAIN q |-> resolutionOf(q[i])]
  /\ ready' = <<>>
  /\ timers' = timers \ due
  /\ inBatch' = TRUE
  /\ lpc' = "running"

\* The loop is between two iterations.
atTop == lpc = "running" /\ current = nil /\ batch = <<>>
runDone == IF idleBlocks THEN stopping ELSE Main \in done

\* A mutant: the loop goes to sleep with inBatch still set.
iterateInBatch ==
  /\ atTop
  /\ ~runDone
  /\ \/ ready # <<>> /\ \E due \in SUBSET timers : grab(due)
     \/ /\ ready = <<>>
        /\ lpc' = (IF timers # {} THEN "sleeping"
                   ELSE IF pending = 0 /\ ~idleBlocks THEN "stopped" ELSE "blocked")
        /\ UNCHANGED <<ready, batch, timers, inBatch>>
  /\ UNCHANGED <<wakeup, pending, idleBlocks, stopping, fut, offLoop, task>>

\* runUntil from the top of its loop: take a batch if something is ready, else
\* sleep until a timer, block for an off-loop operation, or report a deadlock.
iterate ==
  /\ atTop
  /\ ~runDone
  /\ \/ ready # <<>> /\ \E due \in SUBSET timers : grab(due)
     \/ /\ ready = <<>>
        /\ lpc' = (IF timers # {} THEN "sleeping"
                   ELSE IF pending = 0 /\ ~idleBlocks THEN "stopped" ELSE "blocked")
        /\ inBatch' = FALSE
        /\ UNCHANGED <<ready, batch, timers>>
  /\ UNCHANGED <<wakeup, pending, idleBlocks, stopping, fut, offLoop, task>>

\* run_until_complete or run_forever returns.
runReturns ==
  /\ atTop
  /\ runDone
  /\ lpc' = "returned"
  /\ UNCHANGED <<ready, batch, inBatch, wakeup, pending, timers, idleBlocks, stopping, fut, offLoop, task>>

\* The signal ends a block or a sleep.
wakesUp ==
  /\ lpc \in {"blocked", "sleeping"}
  /\ wakeup
  /\ wakeup' = FALSE
  /\ \E due \in SUBSET timers : grab(due)
  /\ UNCHANGED <<pending, idleBlocks, stopping, fut, offLoop, task>>

\* The earliest timer ends a sleep.
timerFires ==
  /\ lpc = "sleeping"
  /\ \E due \in SUBSET timers : due # {} /\ grab(due)
  /\ UNCHANGED <<wakeup, pending, idleBlocks, stopping, fut, offLoop, task>>
-----------------------------------------------------------------------------
\* The next callback of the batch is cb.
runs(cb) ==
  /\ lpc = "running"
  /\ current = nil
  /\ batch # <<>>
  /\ Head(batch) = cb
  /\ batch' = Tail(batch)
  /\ UNCHANGED <<inBatch, wakeup, pending, timers, idleBlocks, stopping, lpc, offLoop>>

\* The future of w, in F, is resolved or cancelled and its callback scheduled.
settle(F, w, outcome) ==
  /\ fut' = [F EXCEPT ![w] = outcome]
  /\ ready' = Append(ready, stepOf(w))

\* The places in the wait queue q whose future, in F, is pending.
pendingAt(q, F) == {i \in DOMAIN q : F[q[i]] = "pending"}

\* A future already done, or one nobody awaits any more, ignores a resolution.
resolve(o) ==
  /\ runs(resolutionOf(o))
  /\ \/ \E t \in Task : awaits[t] = o /\ fut[t] = "pending" /\ settle(fut, t, "result")
     \/ /\ \A t \in Task : awaits[t] = o => fut[t] # "pending"
        /\ UNCHANGED <<ready, fut>>
  /\ UNCHANGED task

\* scheduleTask on the loop, for a coroutine another thread submitted.
createSubmitted(t) ==
  /\ runs(creationOf(t))
  /\ live' = live \cup {t}
  /\ ready' = Append(ready, stepOf(t))
  /\ UNCHANGED <<fut, current, done, awaits, mustCancel, asked>>

\* The step ends with CancelledError raised inside the coroutine.
raised(t) == mustCancel[t] \/ fut[t] = "cancelled"

\* Task.step up to the resumed coroutine, which runs as `current`.  A coroutine
\* cancelled before its first step is thrown into at its start and ends.
step(t) ==
  /\ runs(stepOf(t))
  /\ awaits' = [awaits EXCEPT ![t] = "none"]
  /\ mustCancel' = [mustCancel EXCEPT ![t] = FALSE]
  /\ asked' = (IF raised(t) THEN asked \ {t} ELSE asked)
  /\ IF awaits[t] = "start" /\ raised(t)
       THEN done' = done \cup {t} /\ UNCHANGED current
       ELSE current' = t /\ UNCHANGED done
  /\ UNCHANGED live

\* A step of a task that is in no call of a primitive.
plainStep(t) ==
  /\ awaits[t] \notin Calls
  /\ step(t)
  /\ fut' = [fut EXCEPT ![t] = "none"]
  /\ UNCHANGED ready
-----------------------------------------------------------------------------
\* What the running coroutine of t may do.  It suspends on a future ...
suspend(t, what) ==
  /\ awaits' = [awaits EXCEPT ![t] = what]
  /\ fut' = [fut EXCEPT ![t] = "pending"]
  /\ current' = nil
  /\ UNCHANGED <<ready, live, done, mustCancel, asked>>

\* ... yields to the loop once (sleep(0)) ...
yieldOnce(t) ==
  /\ current = t
  /\ current' = nil
  /\ ready' = Append(ready, stepOf(t))
  /\ UNCHANGED <<fut, loop, offLoop, live, done, awaits, mustCancel, asked>>

opFree(o) ==
  helper[o] = "none" /\ o \notin timers \cup wakers /\ ~queued(resolutionOf(o))

\* A mutant: the off-loop operation is not marked pending.
runInExecutorUnmarked(t, o) ==
  /\ current = t
  /\ opFree(o)
  /\ helper' = [helper EXCEPT ![o] = "working"]
  /\ suspend(t, o)
  /\ UNCHANGED <<batch, inBatch, wakeup, pending, timers, idleBlocks, stopping, lpc, wakers>>

\* ... awaits loop.run_in_executor or to_thread ...
runInExecutor(t, o) ==
  /\ current = t
  /\ opFree(o)
  /\ pending' = pending + 1
  /\ helper' = [helper EXCEPT ![o] = "working"]
  /\ suspend(t, o)
  /\ UNCHANGED <<batch, inBatch, wakeup, timers, idleBlocks, stopping, lpc, wakers>>

\* ... whose submit may raise, the mark taken back ...
submitFails(t) ==
  /\ current = t
  /\ wakeup' = TRUE
  /\ UNCHANGED <<ready, fut, batch, inBatch, pending, timers, idleBlocks, stopping, lpc, offLoop, task>>

\* ... awaits sleep(delay) ...
sleep(t, o) ==
  /\ current = t
  /\ opFree(o)
  /\ timers' = timers \cup {o}
  /\ suspend(t, o)
  /\ UNCHANGED <<batch, inBatch, wakeup, pending, idleBlocks, stopping, lpc, offLoop>>

\* ... calls create_task ...
createTask(t, u) ==
  /\ current = t
  /\ u \notin live
  /\ ~queued(creationOf(u))
  /\ live' = live \cup {u}
  /\ ready' = Append(ready, stepOf(u))
  /\ UNCHANGED <<fut, loop, offLoop, current, done, awaits, mustCancel, asked>>

\* A mutant: a task between steps, its future resolved, is not cancelled.
cancelParkedOnly(t, u) ==
  /\ current = t
  /\ u \in live \ done
  /\ asked' = asked \cup {u}
  /\ IF fut[u] = "pending" THEN settle(fut, u, "cancelled") ELSE UNCHANGED <<fut, ready>>
  /\ UNCHANGED <<loop, offLoop, current, live, done, awaits, mustCancel>>

\* ... calls Task.cancel ...
cancel(t, u) ==
  /\ current = t
  /\ u \in live \ done
  /\ asked' = asked \cup {u}
  /\ IF fut[u] = "pending"
       THEN settle(fut, u, "cancelled") /\ UNCHANGED mustCancel
       ELSE mustCancel' = [mustCancel EXCEPT ![u] = TRUE] /\ UNCHANGED <<fut, ready>>
  /\ UNCHANGED <<loop, offLoop, current, live, done, awaits>>

\* ... calls loop.stop ...
stopLoop(t) ==
  /\ current = t
  /\ stopping' = TRUE
  /\ UNCHANGED <<ready, fut, batch, inBatch, wakeup, pending, timers, idleBlocks, lpc, offLoop, task>>

\* ... and returns: Task.finish.
finish(t) ==
  /\ current = t
  /\ current' = nil
  /\ done' = done \cup {t}
  /\ asked' = asked \ {t}
  /\ UNCHANGED <<ready, fut, loop, offLoop, live, awaits, mustCancel>>
-----------------------------------------------------------------------------
\* callSoon from the off-loop thread w, up to the unlock.
callSoon(w, cb) ==
  /\ ready' = Append(ready, cb)
  /\ wakers' = (IF inBatch THEN wakers ELSE wakers \cup {w})
  /\ UNCHANGED <<fut, loop, task>>

\* wake: a signal already buffered is left in place.
wake(w) ==
  /\ w \in wakers
  /\ wakeup' = TRUE
  /\ wakers' = wakers \ {w}
  /\ UNCHANGED <<ready, fut, batch, inBatch, pending, timers, idleBlocks, stopping, lpc, helper, task>>

\* A mutant: the helper of a worker that failed queues nothing.
workerDoneFails(o) ==
  /\ helper[o] = "working"
  /\ helper' = [helper EXCEPT ![o] = "queued"]
  /\ callSoon(o, resolutionOf(o)) \/ UNCHANGED <<ready, wakers, fut, loop, task>>

\* chainExecutorFuture: the worker has finished, the helper queues the
\* resolution ...
workerDone(o) ==
  /\ helper[o] = "working"
  /\ helper' = [helper EXCEPT ![o] = "queued"]
  /\ callSoon(o, resolutionOf(o))

\* ... and then, its wake delivered, drops the pending mark.
donePending(o) ==
  /\ helper[o] = "queued"
  /\ o \notin wakers
  /\ helper' = [helper EXCEPT ![o] = "none"]
  /\ pending' = pending - 1
  /\ wakers' = wakers \cup {o}
  /\ UNCHANGED <<ready, fut, batch, inBatch, wakeup, timers, idleBlocks, stopping, lpc, task>>

\* run_coroutine_threadsafe from another thread, named by the task it submits.
runCoroutineThreadsafe(t) ==
  /\ t \notin live \cup wakers
  /\ ~queued(creationOf(t))
  /\ callSoon(t, creationOf(t))
  /\ UNCHANGED helper
-----------------------------------------------------------------------------
\* Tasks whose call of a primitive has been woken and not resumed yet.
wokenIn(call) == {t \in Task : awaits[t] = call /\ fut[t] = "result"}

\* No callback waits for a loop that nobody wakes: whenever the loop blocks or
\* sleeps with callbacks ready, or blocks for an operation that is over, the
\* signal is buffered or a thread is about to send it, although callSoon decides
\* on the wake from inBatch under l.mu and sends it after the unlock
\* (asyncio.go:262-270).
NoLostCallback ==
  \/ lpc = "sleeping" /\ ready # <<>>
  \/ lpc = "blocked" /\ (ready # <<>> \/ (pending = 0 /\ ~idleBlocks))
  => wakeup \/ wakers # {}

\* run_until_complete reports "Event loop stopped before Future completed" only
\* when no result is under way: no worker or helper is still at work for a
\* suspended task, no timer runs, and whoever is not done waits for a lock, a
\* permit or the queue (asyncio.go:302-307, asyncio_executor.go:93-116).
NoPrematureStop ==
  lpc = "stopped" =>
    /\ \A t \in live \ done : awaits[t] \in Calls /\ fut[t] = "pending"
    /\ \A o \in Op : helper[o] = "none" /\ o \notin timers

\* A cancel reaches the coroutine once: between the request and the step that
\* raises it, and only then, the task is armed or its future cancelled, whether
\* the request found it parked, resolved but not resumed, or not started
\* (asyncio.go:738-753).
CancelReachesTask ==
  \A t \in live \ done : t \in asked <=> raised(t)
=============================================================================
