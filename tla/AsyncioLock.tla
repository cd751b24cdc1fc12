---------------------------- MODULE AsyncioLock -----------------------------
(***************************************************************************)
(* asyncio.Lock (pkg/objects/asyncio_lock.go).  A waiter future goes by    *)
(* the task that awaits it; it stays queued until that task resumes.       *)
(***************************************************************************)
EXTENDS EventLoop

VARIABLES
  locked,       \* lk.locked
  lockWaiters,  \* lk.waiters
  holder,       \* history: the task whose acquire returned last, until its release
  dropped       \* history: a cancelled waiter left the queue of a free lock

lockVars == <<locked, lockWaiters, holder, dropped>>

LockInit ==
  /\ locked = FALSE
  /\ lockWaiters = <<>>
  /\ holder = nil
  /\ dropped = FALSE

\* wakeFirst: the first pending waiter is resolved and stays queued.
wakeFirst ==
  IF pendingAt(lockWaiters, fut) = {}
    THEN UNCHANGED <<fut, ready>>
    ELSE settle(fut, lockWaiters[Min(pendingAt(lockWaiters, fut))], "result")

\* A mutant: a free lock is taken although others are queued for it.
lockAcquireBarging(t) ==
  /\ current = t
  /\ holder # t
  /\ \/ /\ ~locked
        /\ locked' = TRUE
        /\ holder' = t
        /\ UNCHANGED <<lockWaiters, ready, fut, task>>
     \/ /\ locked
        /\ lockWaiters' = Append(lockWaiters, t)
        /\ suspend(t, "lock")
        /\ UNCHANGED <<locked, holder>>
  /\ UNCHANGED <<dropped, loop, offLoop>>

\* acquire up to its await: an uncontended lock is taken at once.
lockAcquire(t) ==
  /\ current = t
  /\ holder # t
  /\ \/ /\ ~locked
        /\ lockWaiters = <<>>
        /\ locked' = TRUE
        /\ holder' = t
        /\ UNCHANGED <<lockWaiters, ready, fut, task>>
     \/ /\ locked \/ lockWaiters # <<>>
        /\ lockWaiters' = Append(lockWaiters, t)
        /\ suspend(t, "lock")
        /\ UNCHANGED <<locked, holder>>
  /\ UNCHANGED <<dropped, loop, offLoop>>

\* acquire after its await: the waiter leaves the queue and takes the lock,
\* unless the await raised.
lockResume(t) ==
  /\ awaits[t] = "lock"
  /\ step(t)
  /\ lockWaiters' = removeFirst(lockWaiters, t)
  /\ IF raised(t)
       THEN /\ dropped' = (dropped \/ ~locked)
            /\ UNCHANGED <<locked, holder>>
       ELSE locked' = TRUE /\ holder' = t /\ UNCHANGED dropped
  /\ fut' = [fut EXCEPT ![t] = "none"]
  /\ UNCHANGED ready

lockRelease(t) ==
  /\ current = t
  /\ holder = t
  /\ locked' = FALSE
  /\ holder' = nil
  /\ wakeFirst
  /\ UNCHANGED <<lockWaiters, dropped, loop, offLoop, task>>
-----------------------------------------------------------------------------
\* The waiters that have been woken and have not resumed.
wokenWaiters == {t \in Range(lockWaiters) : fut[t] = "result"}

\* The lock passes from a release to the waiter that has waited longest, and to
\* no one else: one task holds it at a time, a task that asks while it is on its
\* way queues up behind (asyncio_lock.go:68), at most one waiter is woken and
\* those ahead of it are cancelled, and a free lock with waiters has woken one
\* of them, unless cancelled waiters are in the queue or have left it.
LockHandover ==
  /\ locked <=> holder # nil
  /\ locked => wokenWaiters = {}
  /\ \A i, j \in DOMAIN lockWaiters :
       fut[lockWaiters[j]] = "result" =>
         /\ i < j => fut[lockWaiters[i]] = "cancelled"
         /\ i > j => fut[lockWaiters[i]] # "result"
  /\ (~locked /\ pendingAt(lockWaiters, fut) # {}) =>
       wokenWaiters # {} \/ dropped \/ \E t \in Range(lockWaiters) : fut[t] = "cancelled"

\* "acquire suspends the caller until the lock is free" (asyncio_lock.go:3-4): a
\* free lock never leaves every waiter suspended.
FreeLockWakesWaiter ==
  ~(~locked /\ lockWaiters # <<>> /\ \A t \in Range(lockWaiters) : fut[t] = "pending")
=============================================================================
