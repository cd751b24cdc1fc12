----------------------------- MODULE Condition ------------------------------
(***************************************************************************)
(* threading.Condition over a threading.RLock (pkg/objects/cond.go and     *)
(* lock.go).  The RLock is a one-slot channel holding a token, an atomic   *)
(* owner and a recursion count that only the owner touches; nothing        *)
(* guards the token and the owner together, so each changes in a step of   *)
(* its own.  A waiter channel belongs to the thread that made it, so       *)
(* `waiters` holds threads and `closed` those whose channel is closed.     *)
(*                                                                         *)
(* The client is the usual monitor: under the lock it adds an item and     *)
(* notifies, or it calls wait_for(items > 0) and takes one; it may also    *)
(* notify anybody at any time.  wait is the body of wait_for's loop.       *)
(* Calls that raise (not the owner) and acquires that fail at once change  *)
(* nothing and are stuttering steps.                                       *)
(***************************************************************************)
EXTENDS Integers, Sequences, Threads, WaiterLists

CONSTANTS
  MaxDepth,  \* bound of the model on the recursion count
  MaxItems,  \* bound of the model on the items waiting
  nil        \* owner 0, no thread

ASSUME NilAssumption == nil \notin Thread
ASSUME BoundAssumption == MaxDepth \in Nat /\ MaxItems \in Nat

VARIABLES
  free,     \* the token is in r.inner.ch
  owner,    \* r.owner
  count,    \* r.count
  waiters,  \* c.waiters
  closed,   \* threads in wait whose channel has been closed
  pc,       \* where each thread is
  saved,    \* the recursion count condReleaseSave returned
  timed,    \* the call in progress has a timeout
  timeup,   \* waitOn returned because the deadline passed
  items,    \* the client's state, what the predicate reads
  depth     \* history: acquires of each thread minus its releases

lock == <<free, owner, count>>
cond == <<waiters, closed>>
call == <<saved, timed, timeup>>
conditionVars == <<free, owner, count, waiters, closed, pc, saved, timed, timeup, items, depth>>

\* out: in no call; locking: in inner.acquire for acquire; owning: it has the
\* token, not yet stored as owner; freeing: no longer the owner, the token not
\* yet back.  In wait: registered, dropping (as freeing), parked in waitOn,
\* awake (in inner.acquire for the restore), restoring (as owning).
InWait == {"registered", "dropping", "parked", "awake", "restoring"}
PC == {"out", "locking", "owning", "freeing"} \cup InWait

ConditionInit ==
  /\ free = TRUE
  /\ owner = nil
  /\ count = 0
  /\ waiters = <<>>
  /\ closed = {}
  /\ pc = [t \in Thread |-> "out"]
  /\ saved = [t \in Thread |-> 0]
  /\ timed = [t \in Thread |-> FALSE]
  /\ timeup = [t \in Thread |-> FALSE]
  /\ items = 0
  /\ depth = [t \in Thread |-> 0]

goto(t, l) == pc' = [pc EXCEPT ![t] = l]

\* The call returns; its locals are gone.
return(t) ==
  /\ goto(t, "out")
  /\ saved' = [saved EXCEPT ![t] = 0]
  /\ timed' = [timed EXCEPT ![t] = FALSE]
  /\ timeup' = [timeup EXCEPT ![t] = FALSE]
-----------------------------------------------------------------------------
\* RLock.acquire: the owner goes one level deeper, anybody else asks for the
\* token.
acquire(t, hasTimeout) ==
  /\ pc[t] = "out"
  /\ \/ /\ owner = t
        /\ count < MaxDepth
        /\ count' = count + 1
        /\ depth' = [depth EXCEPT ![t] = @ + 1]
        /\ UNCHANGED <<pc, timed>>
     \/ /\ owner # t
        /\ goto(t, "locking")
        /\ timed' = [timed EXCEPT ![t] = hasTimeout]
        /\ UNCHANGED <<count, depth>>
  /\ UNCHANGED <<free, owner, cond, saved, timeup, items>>

\* The timer of an acquire wins the select.
acquireTimesOut(t) ==
  /\ pc[t] = "locking"
  /\ timed[t]
  /\ return(t)
  /\ UNCHANGED <<lock, cond, items, depth>>

\* inner.acquire receives the token, for acquire or for condAcquireRestore.
takeInner(t) ==
  /\ free
  /\ free' = FALSE
  /\ \/ pc[t] = "locking" /\ goto(t, "owning")
     \/ pc[t] = "awake" /\ goto(t, "restoring")
  /\ UNCHANGED <<owner, count, cond, call, items, depth>>

storeOwner(t) ==
  /\ pc[t] = "owning"
  /\ owner' = t
  /\ count' = 1
  /\ depth' = [depth EXCEPT ![t] = 1]
  /\ return(t)
  /\ UNCHANGED <<free, cond, items>>

\* RLock.release: the owner is cleared at the last level, before the token goes
\* back.
release(t) ==
  /\ pc[t] = "out"
  /\ owner = t
  /\ count' = count - 1
  /\ depth' = [depth EXCEPT ![t] = @ - 1]
  /\ IF count = 1
       THEN owner' = nil /\ goto(t, "freeing")
       ELSE UNCHANGED <<owner, pc>>
  /\ UNCHANGED <<free, cond, call, items>>

\* inner.release puts the token back, for release or for condReleaseSave.
freeInner(t) ==
  /\ \/ pc[t] = "freeing" /\ goto(t, "out")
     \/ pc[t] = "dropping" /\ goto(t, "parked")
  /\ free' = TRUE
  /\ UNCHANGED <<owner, count, cond, call, items, depth>>
-----------------------------------------------------------------------------
\* The head of wait_for's loop on a queue q that holds no slot of t: the
\* predicate holds and the client takes an item ...
satisfied(t, q) ==
  /\ items > 0
  /\ items' = items - 1
  /\ waiters' = q
  /\ return(t)

\* ... or it does not and wait registers a fresh channel ...
register(t, q, hasTimeout) ==
  /\ items = 0
  /\ waiters' = Append(q, t)
  /\ timed' = [timed EXCEPT ![t] = hasTimeout]
  /\ goto(t, "registered")
  /\ UNCHANGED <<items, saved, timeup>>

\* ... or the deadline has passed and the call returns False.
expire(t, q) ==
  /\ items = 0
  /\ waiters' = q
  /\ return(t)
  /\ UNCHANGED items

waitFor(t, hasTimeout) ==
  /\ pc[t] = "out"
  /\ owner = t
  /\ satisfied(t, waiters) \/ register(t, waiters, hasTimeout)
  /\ UNCHANGED <<lock, closed, depth>>

\* A mutant: condReleaseSave leaves the count to the next owner and saves one
\* level.
condReleaseSaveOne(t) ==
  /\ pc[t] = "registered"
  /\ saved' = [saved EXCEPT ![t] = 1]
  /\ count' = 0
  /\ owner' = nil
  /\ goto(t, "dropping")
  /\ UNCHANGED <<free, cond, timed, timeup, items, depth>>

condReleaseSave(t) ==
  /\ pc[t] = "registered"
  /\ saved' = [saved EXCEPT ![t] = count]
  /\ count' = 0
  /\ owner' = nil
  /\ goto(t, "dropping")
  /\ UNCHANGED <<free, cond, timed, timeup, items, depth>>

\* waitOn returns true: the channel is closed ...
wakes(t) ==
  /\ pc[t] = "parked"
  /\ t \in closed
  /\ goto(t, "awake")
  /\ UNCHANGED <<lock, cond, call, items, depth>>

\* ... or false: the timer won, even over a closed channel.
timesOut(t) ==
  /\ pc[t] = "parked"
  /\ timed[t]
  /\ timeup' = [timeup EXCEPT ![t] = TRUE]
  /\ goto(t, "awake")
  /\ UNCHANGED <<lock, cond, saved, timed, items, depth>>

\* removeWaiter: the slot of t is cut out; a notified thread has none left.
removeWaiter(t) ==
  IF t \in Range(waiters)
    THEN removeAt(waiters, CHOOSE i \in DOMAIN waiters : waiters[i] = t)
    ELSE waiters

\* A mutant: a wait whose timer fired ends the call without another look at the
\* predicate.
condAcquireRestoreTrusting(t) ==
  /\ pc[t] = "restoring"
  /\ owner' = t
  /\ count' = saved[t]
  /\ closed' = closed \ {t}
  /\ LET q == removeWaiter(t)
     IN \/ timeup[t] /\ waiters' = q /\ return(t) /\ UNCHANGED items
        \/ ~timeup[t] /\ (satisfied(t, q) \/ register(t, q, timed[t]))
  /\ UNCHANGED <<free, depth>>

\* A mutant: a waiter whose timer fired leaves its channel in the queue.
condAcquireRestoreForgets(t) ==
  /\ pc[t] = "restoring"
  /\ owner' = t
  /\ count' = saved[t]
  /\ closed' = closed \ {t}
  /\ \/ satisfied(t, waiters)
     \/ timed[t] /\ expire(t, waiters)
     \/ ~timeup[t] /\ register(t, waiters, timed[t])
  /\ UNCHANGED <<free, depth>>

\* condAcquireRestore once it has the token, removeWaiter and wait_for's next
\* turn, all as the owner.
condAcquireRestore(t) ==
  /\ pc[t] = "restoring"
  /\ owner' = t
  /\ count' = saved[t]
  /\ closed' = closed \ {t}
  /\ LET q == removeWaiter(t)
     IN \/ satisfied(t, q)
        \/ timed[t] /\ expire(t, q)
        \/ ~timeup[t] /\ register(t, q, timed[t])
  /\ UNCHANGED <<free, depth>>
-----------------------------------------------------------------------------
\* notify's effect: the first n slots are closed and dropped.
notifyFirst(n) ==
  LET k == Min({n, Len(waiters)})
  IN /\ closed' = closed \cup {waiters[i] : i \in 1..k}
     /\ waiters' = SubSeq(waiters, k + 1, Len(waiters))

\* notify(n) and notify_all.
notify(t, n) ==
  /\ pc[t] = "out"
  /\ owner = t
  /\ notifyFirst(n)
  /\ UNCHANGED <<lock, pc, call, items, depth>>

\* The client adds an item and calls notify().
produce(t) ==
  /\ pc[t] = "out"
  /\ owner = t
  /\ items < MaxItems
  /\ items' = items + 1
  /\ notifyFirst(1)
  /\ UNCHANGED <<lock, pc, call, depth>>

ConditionNext ==
  \E t \in Thread :
    \/ \E hasTimeout \in BOOLEAN : acquire(t, hasTimeout) \/ waitFor(t, hasTimeout)
    \/ acquireTimesOut(t) \/ takeInner(t) \/ storeOwner(t) \/ release(t) \/ freeInner(t)
    \/ condReleaseSave(t) \/ wakes(t) \/ timesOut(t) \/ condAcquireRestore(t)
    \/ produce(t) \/ \E n \in 1..Cardinality(Thread) : notify(t, n)

ConditionSpec == ConditionInit /\ [][ConditionNext]_conditionVars
-----------------------------------------------------------------------------
\* The lock, the waiter queue and the calls in progress have their types.
ConditionTypeOK ==
  /\ free \in BOOLEAN
  /\ owner \in Thread \cup {nil}
  /\ count \in Nat
  /\ waiters \in Seq(Thread)
  /\ closed \subseteq Thread
  /\ pc \in [Thread -> PC]
  /\ saved \in [Thread -> Nat]
  /\ timed \in [Thread -> BOOLEAN]
  /\ timeup \in [Thread -> BOOLEAN]
  /\ items \in Nat
  /\ depth \in [Thread -> Nat]

\* The threads that have the token or are the stored owner.
holders ==
  {t \in Thread : owner = t \/ pc[t] \in {"owning", "freeing", "dropping", "restoring"}}

\* The RLock stays one lock although token, owner and count are three stores: at
\* most one thread holds it, the token is away exactly then, and a thread that
\* is in no call owns the lock exactly at the depth its own acquires and
\* releases add up to, so a wait gives every level up and brings every level
\* back (lock.go:251-268), whoever held the lock in between.
LockExact ==
  /\ \A t, u \in holders : t = u
  /\ free <=> holders = {}
  /\ \A t \in Thread :
       /\ pc[t] = "out" => (owner = t <=> depth[t] > 0)
       /\ owner = t => pc[t] \in {"out", "registered"} /\ count = depth[t]
       /\ pc[t] = "registered" => owner = t
       /\ pc[t] \in InWait \ {"registered"} => saved[t] = depth[t] /\ depth[t] > 0
       /\ pc[t] \in {"locking", "owning", "freeing"} => depth[t] = 0

\* The waiter queue holds every thread in wait once, or its channel is closed,
\* and nobody else: notify never closes a channel twice (a panic) and never
\* spends a wake on a call that has returned.
WaitersExact ==
  /\ IsInjective(waiters)
  /\ Range(waiters) \cap closed = {}
  /\ Range(waiters) \cup closed = {t \in Thread : pc[t] \in InWait}

\* No notify is lost between the register, the release and the sleep of a wait
\* (cond.go:58-67), nor to a waiter that times out as it is notified
\* (cond.go:111-112): while somebody is queued, every item has a distinct
\* notified thread on its way to the predicate.
NoLostNotify ==
  waiters # <<>> => items <= Cardinality(closed)
=============================================================================
