---------------------------- MODULE AsyncioQueue ----------------------------
(***************************************************************************)
(* asyncio.Queue and LifoQueue (pkg/objects/asyncio_queue.go), with the    *)
(* finished Event join waits on (asyncio_event.go).  Items are counted.  A *)
(* wake takes its waiter off the queue, and drops the cancelled ones ahead *)
(* of it; here a cancelled waiter also goes when its task resumes, which   *)
(* nobody can tell from a dead entry a later wake skips.                   *)
(*                                                                         *)
(* The calls that raise at once change nothing, and each item got is       *)
(* reported with task_done once.                                           *)
(***************************************************************************)
EXTENDS EventLoop

CONSTANTS
  QueueSize,  \* q.maxsize, positive
  MaxItems    \* bound of the model on q.unfinished

ASSUME QueueAssumption == QueueSize \in Nat \ {0} /\ MaxItems \in Nat

VARIABLES
  items,      \* len(q.items)
  unfinished, \* q.unfinished; q.finished is set exactly when it is zero
  isShutdown, \* q.isShutdown
  getters,    \* q.getters
  putters,    \* q.putters
  joiners,    \* q.finished.waiters
  got,        \* history: items got and not yet reported
  swallowed   \* history: a task was cancelled after a wake had reached it

queueVars == <<items, unfinished, isShutdown, getters, putters, joiners, got, swallowed>>

QueueInit ==
  /\ items = 0 /\ unfinished = 0 /\ got = 0
  /\ isShutdown = FALSE /\ swallowed = FALSE
  /\ getters = <<>> /\ putters = <<>> /\ joiners = <<>>

full == items >= QueueSize

\* wakeupNext, with the futures F: the waiter of q that it resolves, and those
\* that it leaves.
firstIn(q, F) ==
  IF pendingAt(q, F) = {} THEN <<>> ELSE <<q[Min(pendingAt(q, F))]>>
afterFirst(q, F) ==
  IF pendingAt(q, F) = {} THEN <<>> ELSE SubSeq(q, Min(pendingAt(q, F)) + 1, Len(q))

\* The pending waiters of q in their order: the one member of this set.
allIn(q, F) ==
  {[i \in DOMAIN p |-> q[p[i]]] :
     p \in {p \in orders(pendingAt(q, F)) : \A i, j \in DOMAIN p : i < j => p[i] < p[j]}}

\* The waiters of q are resolved in turn.
settleAll(F, q) ==
  /\ fut' = [t \in Task |-> IF t \in Range(q) THEN "result" ELSE F[t]]
  /\ ready' = ready \o [i \in DOMAIN q |-> stepOf(q[i])]
-----------------------------------------------------------------------------
\* A mutant: put_nowait wakes no getter.
putNoWaitSilent(F, q) ==
  /\ ~full /\ ~isShutdown
  /\ items' = items + 1
  /\ unfinished' = unfinished + 1
  /\ putters' = q
  /\ settleAll(F, <<>>)
  /\ UNCHANGED <<isShutdown, getters, joiners, got, swallowed>>

\* put_nowait, with the futures F and the putters q.
putNoWait(F, q) ==
  /\ ~full /\ ~isShutdown
  /\ items' = items + 1
  /\ unfinished' = unfinished + 1
  /\ putters' = q
  /\ getters' = afterFirst(getters, F)
  /\ settleAll(F, firstIn(getters, F))
  /\ UNCHANGED <<isShutdown, joiners, got, swallowed>>

\* get_nowait.
getNoWait(F, q) ==
  /\ items > 0
  /\ items' = items - 1
  /\ got' = got + 1
  /\ getters' = q
  /\ putters' = afterFirst(putters, F)
  /\ settleAll(F, firstIn(putters, F))
  /\ UNCHANGED <<unfinished, isShutdown, joiners, swallowed>>

\* put and get up to their first await.
put(t) ==
  /\ current = t
  /\ unfinished < MaxItems
  /\ \/ putNoWait(fut, putters) /\ UNCHANGED task
     \/ /\ full /\ ~isShutdown
        /\ putters' = Append(putters, t)
        /\ suspend(t, "put")
        /\ UNCHANGED <<items, unfinished, isShutdown, getters, joiners, got, swallowed>>
  /\ UNCHANGED <<loop, offLoop>>

get(t) ==
  /\ current = t
  /\ \/ getNoWait(fut, getters) /\ UNCHANGED task
     \/ /\ items = 0 /\ ~isShutdown
        /\ getters' = Append(getters, t)
        /\ suspend(t, "get")
        /\ UNCHANGED <<items, unfinished, isShutdown, putters, joiners, got, swallowed>>
  /\ UNCHANGED <<loop, offLoop>>

\* The await raised: the call ends, and a wake it had received ends with it.
callCancelled(t) ==
  /\ step(t)
  /\ raised(t)
  /\ swallowed' = (swallowed \/ (fut[t] = "result" /\ awaits[t] # "join"))
  /\ getters' = removeFirst(getters, t)
  /\ putters' = removeFirst(putters, t)
  /\ joiners' = removeFirst(joiners, t)
  /\ fut' = [fut EXCEPT ![t] = "none"]
  /\ UNCHANGED <<ready, items, unfinished, isShutdown, got>>

\* The loop of put and of get finds its condition still unmet and parks again.
parksAgain(t) ==
  /\ runs(stepOf(t))
  /\ ~raised(t)
  /\ fut' = [fut EXCEPT ![t] = "pending"]
  /\ UNCHANGED <<ready, task, items, unfinished, isShutdown, joiners, got, swallowed>>

\* put and get after an await that returned.  QueueShutDown ends the call.
putResume(t) ==
  /\ awaits[t] = "put"
  /\ \/ callCancelled(t)
     \/ /\ step(t) /\ ~raised(t)
        /\ \/ putNoWait([fut EXCEPT ![t] = "none"], putters)
           \/ /\ isShutdown
              /\ fut' = [fut EXCEPT ![t] = "none"]
              /\ UNCHANGED <<ready, queueVars>>
     \/ /\ full /\ ~isShutdown
        /\ parksAgain(t)
        /\ putters' = Append(putters, t)
        /\ UNCHANGED getters

getResume(t) ==
  /\ awaits[t] = "get"
  /\ \/ callCancelled(t)
     \/ /\ step(t) /\ ~raised(t)
        /\ \/ getNoWait([fut EXCEPT ![t] = "none"], getters)
           \/ /\ items = 0 /\ isShutdown
              /\ fut' = [fut EXCEPT ![t] = "none"]
              /\ UNCHANGED <<ready, queueVars>>
     \/ /\ items = 0 /\ ~isShutdown
        /\ parksAgain(t)
        /\ getters' = Append(getters, t)
        /\ UNCHANGED putters
-----------------------------------------------------------------------------
\* task_done: the report of the last item sets the finished event.
taskDone(t) ==
  /\ current = t
  /\ got > 0 /\ unfinished > 0
  /\ got' = got - 1
  /\ unfinished' = unfinished - 1
  /\ \E q \in (IF unfinished' = 0 THEN allIn(joiners, fut) ELSE {<<>>}) : settleAll(fut, q)
  /\ UNCHANGED <<items, isShutdown, getters, putters, joiners, swallowed, task, loop, offLoop>>

\* join with work outstanding, and its return once the event was set.
join(t) ==
  /\ current = t
  /\ unfinished > 0
  /\ joiners' = Append(joiners, t)
  /\ suspend(t, "join")
  /\ UNCHANGED <<items, unfinished, isShutdown, getters, putters, got, swallowed, loop, offLoop>>

joinResume(t) ==
  /\ awaits[t] = "join"
  /\ \/ callCancelled(t)
     \/ /\ step(t) /\ ~raised(t)
        /\ joiners' = removeFirst(joiners, t)
        /\ fut' = [fut EXCEPT ![t] = "none"]
        /\ UNCHANGED <<ready, items, unfinished, isShutdown, getters, putters, got, swallowed>>

\* shutdown: an immediate one drains the queue; then everybody is woken.
shutdown(t, immediate) ==
  /\ current = t
  /\ isShutdown' = TRUE
  /\ items' = (IF immediate THEN 0 ELSE items)
  /\ unfinished' = (IF immediate THEN Max({0, unfinished - items}) ELSE unfinished)
  /\ \E j \in (IF immediate /\ unfinished' = 0 THEN allIn(joiners, fut) ELSE {<<>>}),
        g \in allIn(getters, fut), p \in allIn(putters, fut) : settleAll(fut, j \o g \o p)
  /\ getters' = <<>> /\ putters' = <<>>
  /\ UNCHANGED <<joiners, got, swallowed, task, loop, offLoop>>
-----------------------------------------------------------------------------
\* A task waits for the queue only while it has to: an item beside a waiting get
\* and a slot beside a waiting put are each matched by a woken task on its way
\* to it, unless a wake went to a task that was then cancelled, which get and put
\* do not pass on (asyncio_queue.go:239, :265); no one waits once the queue is
\* shut down; and join waits only for items that are queued or unreported.
QueueWaitsJust ==
  /\ pendingAt(getters, fut) # {} =>
       ~isShutdown /\ (swallowed \/ items <= Cardinality(wokenIn("get")))
  /\ pendingAt(putters, fut) # {} =>
       ~isShutdown /\ (swallowed \/ QueueSize - items <= Cardinality(wokenIn("put")))
  /\ pendingAt(joiners, fut) # {} => unfinished > 0
  /\ unfinished = items + got
=============================================================================
