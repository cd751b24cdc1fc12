----------------------------- MODULE ThreadQueue -----------------------------
(***************************************************************************)
(* queue.Queue, queue.LifoQueue and queue.PriorityQueue                    *)
(* (pkg/objects/queue.go) shared by threads.  Every critical section under *)
(* q.mu is one action.                                                     *)
(*                                                                         *)
(* The discipline (front, top of the stack, smallest) decides WHICH item   *)
(* moves; here an item is counted, so `size` is len(q.items).  What the    *)
(* discipline does change is that a PriorityQueue compares items and a     *)
(* comparison may raise: `comparesRaise` says whether this queue holds     *)
(* such items, and put, get and the drain of shutdown then have their      *)
(* error paths.                                                            *)
(*                                                                         *)
(* As in ThreadSemaphore a waiter channel is named by its thread, and the  *)
(* calls that change nothing (a non-blocking or expired miss, a put after  *)
(* shutdown, a join with nothing unfinished) are stuttering steps.  The    *)
(* callers report each item they got once with task_done; `processing`     *)
(* counts the items got and not yet reported.                              *)
(***************************************************************************)
EXTENDS Integers, Sequences, Threads, WaiterLists

CONSTANTS
  MaxSizes,      \* the maxsize values it may be built with; 0 is unbounded
  MaxTasks       \* bound of the model on the tasks a put call may add to

ASSUME SizeAssumption ==
  MaxSizes \subseteq Nat /\ MaxTasks \in Nat

VARIABLES
  comparesRaise,  \* a PriorityQueue with items whose < may raise
  maxsize,        \* q.maxsize
  size,           \* len(q.items)
  unfinished,     \* q.unfinished
  isShutdown,     \* q.isShutdown
  notEmpty,       \* q.notEmpty, the parked getters, the front first
  notFull,        \* q.notFull, the parked putters
  allDone,        \* q.allDone, the parked joiners
  closed,         \* threads whose channel has been closed
  pc,             \* where each thread is
  timed,          \* hasTimeout of the call in progress
  processing      \* items got whose task_done is still to come

fixed == <<comparesRaise, maxsize>>
lists == <<notEmpty, notFull, allDone>>
vars == <<fixed, size, unfinished, isShutdown, lists, closed, pc, timed, processing>>

\* parked: in queuePark (join: on its channel); expired: the timer fired, about
\* to reclaim; late: reclaim lost the race, about to take q.mu again.
PC == {"idle", "put parked", "put expired", "put late",
       "get parked", "get expired", "get late", "join parked"}

atCapacity == maxsize > 0 /\ size >= maxsize

\* wakeOneWaiter: the waiter it closes and the list it leaves.
front(list) == IF list = <<>> THEN {} ELSE {Head(list)}
rest(list) == IF list = <<>> THEN <<>> ELSE Tail(list)

goto(t, where) == pc' = [pc EXCEPT ![t] = where]

Init ==
  /\ comparesRaise \in BOOLEAN
  /\ maxsize \in MaxSizes
  /\ size = 0
  /\ unfinished = 0
  /\ isShutdown = FALSE
  /\ notEmpty = <<>> /\ notFull = <<>> /\ allDone = <<>>
  /\ closed = {}
  /\ pc = [t \in Thread |-> "idle"]
  /\ timed = [t \in Thread |-> FALSE]
  /\ processing = 0
-----------------------------------------------------------------------------
(* put *)

\* A mutant: the putter counts the item and wakes nobody.
addItemSilently(t) ==
  /\ ~atCapacity
  /\ size' = size + 1
  /\ unfinished' = unfinished + 1
  /\ closed' = closed \ {t}
  /\ goto(t, "idle")
  /\ UNCHANGED <<isShutdown, lists, processing>>

\* The loop is left with room: the item goes in, is counted, and one getter is
\* woken.  A comparison that raises in heapPush leaves the item appended and
\* neither counts it nor wakes anyone.
addItem(t) ==
  /\ ~atCapacity
  /\ size' = size + 1
  /\ \/ /\ unfinished' = unfinished + 1
        /\ notEmpty' = rest(notEmpty)
        /\ closed' = (closed \ {t}) \cup front(notEmpty)
     \/ /\ comparesRaise /\ size > 0
        /\ closed' = closed \ {t}
        /\ UNCHANGED <<unfinished, notEmpty>>
  /\ goto(t, "idle")
  /\ UNCHANGED <<isShutdown, notFull, allDone, processing>>

\* The queue is full and the call may still wait: a fresh channel.
awaitRoom(t) ==
  /\ atCapacity
  /\ notFull' = Append(notFull, t)
  /\ closed' = closed \ {t}
  /\ goto(t, "put parked")
  /\ UNCHANGED <<size, unfinished, isShutdown, notEmpty, allDone, processing>>

\* The call ends without touching the queue: Full, Empty or ShutDown.
raises(t) ==
  /\ closed' = closed \ {t}
  /\ goto(t, "idle")
  /\ UNCHANGED <<size, unfinished, isShutdown, lists, processing>>

put(t, hasTimeout) ==
  /\ pc[t] = "idle"
  /\ unfinished < MaxTasks /\ size + processing < MaxTasks
  /\ ~isShutdown
  /\ timed' = [timed EXCEPT ![t] = hasTimeout]
  /\ addItem(t) \/ awaitRoom(t)
  /\ UNCHANGED fixed

\* A mutant: a woken putter takes the wake for a slot.
putWokenTrusting(t) ==
  /\ pc[t] = "put parked"
  /\ t \in closed
  /\ size' = size + 1
  /\ unfinished' = unfinished + 1
  /\ notEmpty' = rest(notEmpty)
  /\ closed' = (closed \ {t}) \cup front(notEmpty)
  /\ goto(t, "idle")
  /\ UNCHANGED <<fixed, timed, isShutdown, notFull, allDone, processing>>

\* Woken under the lock: shutdown first, then the capacity again.
putWoken(t) ==
  /\ pc[t] = "put parked"
  /\ t \in closed
  /\ \/ isShutdown /\ raises(t)
     \/ /\ ~isShutdown
        /\ addItem(t) \/ awaitRoom(t) \/ (timed[t] /\ atCapacity /\ raises(t))
  /\ UNCHANGED <<fixed, timed>>

\* The same after a lost reclaim, the deadline passed.
putLate(t) ==
  /\ pc[t] = "put late"
  /\ \/ isShutdown /\ raises(t)
     \/ ~isShutdown /\ addItem(t)
     \/ ~isShutdown /\ atCapacity /\ raises(t)
  /\ UNCHANGED <<fixed, timed>>
-----------------------------------------------------------------------------
(* get *)

\* A mutant: a get that frees a slot wakes no putter.
removeItemSilently(t) ==
  /\ size > 0
  /\ size' = size - 1
  /\ processing' = processing + 1
  /\ closed' = closed \ {t}
  /\ goto(t, "idle")
  /\ UNCHANGED <<unfinished, isShutdown, lists>>

\* The loop is left with an item: it goes out and one putter is woken.  heapPop
\* compares from three items on; a comparison that raises there drops the item
\* and wakes nobody.
removeItem(t) ==
  /\ size > 0
  /\ size' = size - 1
  /\ \/ /\ processing' = processing + 1
        /\ notFull' = rest(notFull)
        /\ closed' = (closed \ {t}) \cup front(notFull)
     \/ /\ comparesRaise /\ size >= 3
        /\ closed' = closed \ {t}
        /\ UNCHANGED <<processing, notFull>>
  /\ goto(t, "idle")
  /\ UNCHANGED <<unfinished, isShutdown, notEmpty, allDone>>

awaitItem(t) ==
  /\ size = 0
  /\ notEmpty' = Append(notEmpty, t)
  /\ closed' = closed \ {t}
  /\ goto(t, "get parked")
  /\ UNCHANGED <<size, unfinished, isShutdown, notFull, allDone, processing>>

get(t, hasTimeout) ==
  /\ pc[t] = "idle"
  /\ ~(isShutdown /\ size = 0)
  /\ timed' = [timed EXCEPT ![t] = hasTimeout]
  /\ removeItem(t) \/ awaitItem(t)
  /\ UNCHANGED fixed

\* A mutant: a woken getter that finds nothing parks again, shutdown or not.
getWokenUnchecked(t) ==
  /\ pc[t] = "get parked"
  /\ t \in closed
  /\ removeItem(t) \/ awaitItem(t)
  /\ UNCHANGED <<fixed, timed>>

getWoken(t) ==
  /\ pc[t] = "get parked"
  /\ t \in closed
  /\ \/ removeItem(t)
     \/ isShutdown /\ size = 0 /\ raises(t)
     \/ ~isShutdown /\ awaitItem(t)
     \/ timed[t] /\ size = 0 /\ raises(t)
  /\ UNCHANGED <<fixed, timed>>

getLate(t) ==
  /\ pc[t] = "get late"
  /\ removeItem(t) \/ (size = 0 /\ raises(t))
  /\ UNCHANGED <<fixed, timed>>
-----------------------------------------------------------------------------
(* queuePark's timer and reclaim, shared by put and get *)

timerFires(t) ==
  /\ timed[t]
  /\ \/ pc[t] = "put parked" /\ goto(t, "put expired")
     \/ pc[t] = "get parked" /\ goto(t, "get expired")
  /\ UNCHANGED <<fixed, size, unfinished, isShutdown, lists, closed, timed, processing>>

\* A mutant: reclaim finds the waiter and forgets to take it out.
reclaimForgets(t) ==
  /\ pc[t] \in {"put expired", "get expired"}
  /\ t \notin closed
  /\ goto(t, "idle")
  /\ UNCHANGED <<fixed, size, unfinished, isShutdown, lists, closed, timed, processing>>

\* Still queued: a genuine timeout, Full or Empty.  Popped: on to the loop head.
reclaim(t) ==
  /\ \/ /\ pc[t] = "put expired"
        /\ \/ \E i \in DOMAIN notFull :
                notFull[i] = t /\ notFull' = removeAt(notFull, i)
           \/ t \notin Range(notFull) /\ UNCHANGED notFull
        /\ goto(t, IF t \in Range(notFull) THEN "idle" ELSE "put late")
        /\ UNCHANGED notEmpty
     \/ /\ pc[t] = "get expired"
        /\ \/ \E i \in DOMAIN notEmpty :
                notEmpty[i] = t /\ notEmpty' = removeAt(notEmpty, i)
           \/ t \notin Range(notEmpty) /\ UNCHANGED notEmpty
        /\ goto(t, IF t \in Range(notEmpty) THEN "idle" ELSE "get late")
        /\ UNCHANGED notFull
  /\ closed' = closed \ {t}
  /\ UNCHANGED <<fixed, size, unfinished, isShutdown, allDone, timed, processing>>
-----------------------------------------------------------------------------
(* task_done, join and shutdown *)

\* A mutant: the joiners are woken one report too early.
taskDoneEarly ==
  /\ processing > 0 /\ unfinished > 0
  /\ processing' = processing - 1
  /\ unfinished' = unfinished - 1
  /\ IF unfinished = 1
       THEN UNCHANGED <<closed, allDone>>
       ELSE closed' = closed \cup Range(allDone) /\ allDone' = <<>>
  /\ UNCHANGED <<fixed, size, isShutdown, notEmpty, notFull, pc, timed>>

\* A caller reports an item; the report that balances the last put wakes the
\* joiners.
taskDone ==
  /\ processing > 0 /\ unfinished > 0
  /\ processing' = processing - 1
  /\ unfinished' = unfinished - 1
  /\ IF unfinished' = 0
       THEN closed' = closed \cup Range(allDone) /\ allDone' = <<>>
       ELSE UNCHANGED <<closed, allDone>>
  /\ UNCHANGED <<fixed, size, isShutdown, notEmpty, notFull, pc, timed>>

join(t) ==
  /\ \/ pc[t] = "idle"
     \/ pc[t] = "join parked" /\ t \in closed
  /\ unfinished > 0
  /\ allDone' = Append(allDone, t)
  /\ closed' = closed \ {t}
  /\ goto(t, "join parked")
  /\ UNCHANGED <<fixed, size, unfinished, isShutdown, notEmpty, notFull, timed, processing>>

joinReturns(t) ==
  /\ pc[t] = "join parked"
  /\ t \in closed
  /\ unfinished = 0
  /\ closed' = closed \ {t}
  /\ goto(t, "idle")
  /\ UNCHANGED <<fixed, size, unfinished, isShutdown, lists, timed, processing>>

\* unfinished once k drained items have been balanced against it.
balanced(k) == Max({0, unfinished - k})

\* shutdown(immediate=False): the items stay for get.
shutdown ==
  /\ isShutdown' = TRUE
  /\ closed' = closed \cup Range(notEmpty) \cup Range(notFull)
  /\ notEmpty' = <<>> /\ notFull' = <<>>
  /\ UNCHANGED <<fixed, size, unfinished, allDone, pc, timed, processing>>

\* A mutant: the immediate shutdown leaves the joiners asleep.
shutdownImmediateSilent ==
  /\ isShutdown' = TRUE
  /\ size' = 0
  /\ unfinished' = balanced(size)
  /\ closed' = closed \cup Range(notEmpty) \cup Range(notFull)
  /\ notEmpty' = <<>> /\ notFull' = <<>>
  /\ UNCHANGED <<fixed, allDone, pc, timed, processing>>

\* shutdown(immediate=True): every item is dropped and everybody is woken ...
shutdownImmediate ==
  /\ isShutdown' = TRUE
  /\ size' = 0
  /\ unfinished' = balanced(size)
  /\ closed' = closed \cup Range(notEmpty) \cup Range(notFull) \cup Range(allDone)
  /\ notEmpty' = <<>> /\ notFull' = <<>> /\ allDone' = <<>>
  /\ UNCHANGED <<fixed, pc, timed, processing>>

\* ... unless a heap comparison raises after k items: the item being popped is
\* gone, the rest stay, and nobody is woken.
shutdownImmediateRaises ==
  /\ comparesRaise
  /\ isShutdown' = TRUE
  /\ \E k \in 0..(size - 3) :
       /\ size' = size - k - 1
       /\ unfinished' = balanced(k)
  /\ UNCHANGED <<fixed, lists, closed, pc, timed, processing>>
-----------------------------------------------------------------------------
Next ==
  \/ \E t \in Thread :
       \/ \E hasTimeout \in BOOLEAN : put(t, hasTimeout) \/ get(t, hasTimeout)
       \/ putWoken(t) \/ putLate(t)
       \/ getWoken(t) \/ getLate(t)
       \/ timerFires(t) \/ reclaim(t)
       \/ join(t) \/ joinReturns(t)
  \/ taskDone
  \/ shutdown \/ shutdownImmediate \/ shutdownImmediateRaises

\* A goroutine whose channel is closed or that waits for q.mu gets to run, and a
\* timer that is due fires however often its waiter is woken in vain; nobody has
\* to make a call.
Fairness ==
  \A t \in Thread :
    /\ WF_vars(putWoken(t) \/ putLate(t) \/ getWoken(t) \/ getLate(t))
    /\ WF_vars(timerFires(t))
    /\ WF_vars(reclaim(t))
    /\ WF_vars(joinReturns(t) \/ (join(t) /\ t \in closed))

Spec == Init /\ [][Next]_vars /\ Fairness
-----------------------------------------------------------------------------
\* Woken getters and putters that have not yet been back under the lock.
gettersInFlight ==
  {t \in Thread : pc[t] = "get late" \/ (t \in closed /\ pc[t] \in {"get parked", "get expired"})}
puttersInFlight ==
  {t \in Thread : pc[t] = "put late" \/ (t \in closed /\ pc[t] \in {"put parked", "put expired"})}

\* The fields of the queue and of the calls in progress have their types.
TypeOK ==
  /\ comparesRaise \in BOOLEAN /\ isShutdown \in BOOLEAN
  /\ maxsize \in Nat /\ size \in Nat /\ unfinished \in Nat /\ processing \in Nat
  /\ notEmpty \in Seq(Thread) /\ notFull \in Seq(Thread) /\ allDone \in Seq(Thread)
  /\ closed \subseteq Thread
  /\ pc \in [Thread -> PC]
  /\ timed \in [Thread -> BOOLEAN]

\* put, get, join, reclaim and the wakes keep the three waiter lists exact: a
\* parked thread is queued once in the list of its call or its channel is
\* closed, never both, and nobody else is queued.
SleepersQueued ==
  /\ IsInjective(notEmpty) /\ IsInjective(notFull) /\ IsInjective(allDone)
  /\ Range(notEmpty) = {t \in Thread : t \notin closed /\ pc[t] \in {"get parked", "get expired"}}
  /\ Range(notFull) = {t \in Thread : t \notin closed /\ pc[t] \in {"put parked", "put expired"}}
  /\ Range(allDone) = {t \in Thread : t \notin closed /\ pc[t] = "join parked"}
  /\ \A t \in closed : pc[t] \notin {"idle", "put late", "get late"}

\* No item waits beside a sleeping getter unless a distinct woken getter is on
\* its way to it: put's single wake (queue.go:133) is enough even when barging
\* gets, timeouts and shutdown interleave.
NoLostItem ==
  ~comparesRaise /\ notEmpty # <<>> => size <= Cardinality(gettersInFlight)

\* No free slot waits beside a sleeping putter unless a distinct woken putter is
\* on its way to it: get's single wake (queue.go:185) is enough.
NoLostSlot ==
  ~comparesRaise /\ notFull # <<>> => maxsize - size <= Cardinality(puttersInFlight)

\* A bounded queue never holds more than maxsize items, whatever races the
\* woken putters (put re-checks atCapacity after every wake).
CapacityRespected == maxsize > 0 => size <= maxsize

\* task_done accounting: the unfinished count is the queued items plus the items
\* being processed, so task_done is never refused to a caller that got an item
\* and join waits for exactly the outstanding work, shutdowns included.
UnfinishedExact == ~comparesRaise => unfinished = size + processing

\* Nobody sleeps in join once everything is reported: the task_done or immediate
\* shutdown that brings the count to zero wakes all joiners.
JoinersHaveWork == ~comparesRaise /\ allDone # <<>> => unfinished > 0

\* After shutdown no getter or putter sleeps and none goes to sleep any more:
\* the woken ones leave with ShutDown or drain what is left.
ShutdownWakesAll == ~comparesRaise /\ isShutdown => notEmpty = <<>> /\ notFull = <<>>

\* Shutdown is final: the flag never clears and no put that was parked before it
\* adds an item or a count after it.
ShutdownIsFinal ==
  [][isShutdown => isShutdown' /\ size' <= size /\ unfinished' <= unfinished]_vars

\* The pending call of each thread, as its caller sees it.
callAt(where, hasTimeout) ==
  IF where \in {"put parked", "put expired", "put late"}
    THEN IF hasTimeout THEN "timed put" ELSE "put"
  ELSE IF where \in {"get parked", "get expired", "get late"}
    THEN IF hasTimeout THEN "timed get" ELSE "get"
  ELSE IF where = "join parked" THEN "join" ELSE "none"
pendingCall == [t \in Thread |-> callAt(pc[t], timed[t])]
Abstract == INSTANCE TaskQueue WITH pending <- pendingCall

\* The waiter lists and channels implement an atomic queue: a put that returns
\* added its item at an instant when the queue had room and was open, a get that
\* returns an item removed one, a put or get that raises after parking changed
\* nothing and timed out or met a shutdown, and a join that parked returns at an
\* instant when every task was reported (queue.go:95-190, 323-345).
ImplementsTaskQueue == Abstract!Spec

\* A put or get in progress.
blocked(t) == pc[t] \in PC \ {"idle", "join parked"}

\* put and get with a timeout return however often they are woken in vain, and
\* after a shutdown every blocked put and get returns.
BlockedCallsReturn ==
  \A t \in Thread :
    (blocked(t) /\ (timed[t] \/ (isShutdown /\ ~comparesRaise))) ~> ~blocked(t)

\* Once the queue is shut down and all its work reported, join returns.
JoinReturns ==
  \A t \in Thread :
    (isShutdown /\ ~comparesRaise /\ unfinished = 0 /\ pc[t] = "join parked") ~> (pc[t] = "idle")

\* What put's error path promises (queue.go:126-128): an item the heap refuses
\* leaves "the count and the not-empty wake untouched ... so a later get sees no
\* spurious task", that is, every item a get can return has been counted.
NoSpuriousTask == size + processing <= unfinished
=============================================================================
