------------------------------ MODULE Executor ------------------------------
(***************************************************************************)
(* concurrent.futures.ThreadPoolExecutor (pkg/objects/executor.go) with    *)
(* the futures it hands out.  Every critical section under e.mu is one     *)
(* action, the future's own critical sections are the operators of Future. *)
(*                                                                         *)
(* sync.Cond is external: Wait adds the worker to a notify list under the  *)
(* mutex, Signal takes the oldest entry off, Broadcast all, and a worker   *)
(* taken off still has to get the mutex back (`signalled`) before it       *)
(* decrements e.idle.                                                      *)
(*                                                                         *)
(* The client submits, cancels, registers callbacks and shuts the pool     *)
(* down; it does not call the executor-side methods of Future (set_result, *)
(* set_running_or_notify_cancel) and does not shut the pool down from a    *)
(* worker.                                                                 *)
(***************************************************************************)
EXTENDS Future, WaiterLists

CONSTANTS
  Registrations,  \* the add_done_callback calls the client may make
  MaxWorkers,     \* e.maxWorkers
  nil             \* no work item

ASSUME FutureAssumption == IsFiniteSet(Fut) /\ IsFiniteSet(Callback)
ASSUME RegistrationAssumption == Registrations \subseteq Fut \X Callback
ASSUME NilAssumption == nil \notin Fut
ASSUME MaxWorkersAssumption == MaxWorkers \in Nat \ {0}

VARIABLES
  hasInitializer, \* e.initializer # nil
  queue,          \* e.queue
  idle,           \* e.idle
  shutdown,       \* e.shutdown
  broken,         \* e.broken
  notifyList,     \* the workers in e.cond's list, the oldest first
  wpc,            \* where each worker is
  item,           \* the future of the work item a worker holds
  failing,        \* the queue a worker took in breakPool and has yet to fail
  submitted,      \* history: futures handed out by submit
  closer          \* the thread in shutdown(): none, waiting, returned

evars == <<hasInitializer, queue, idle, shutdown, broken, notifyList, wpc, item,
           failing, submitted, closer>>
vars == <<fvars, evars>>

\* Who runs done callbacks: the workers, a client, the thread in shutdown().
Worker == 1..MaxWorkers
Client == 0
Closer == -1

\* unborn; init: spawned, running the initializer; loop: on its way to e.mu;
\* parked: in cond.Wait; signalled: taken off the list, waiting for e.mu; run:
\* holds an item; call: inside the callable; breaking: in breakPool; dead.
WPC == {"unborn", "init", "loop", "parked", "signalled", "run", "call", "breaking", "dead"}

numWorkers == Cardinality({w \in Worker : wpc[w] # "unborn"})

Init ==
  /\ FutureInit
  /\ hasInitializer \in BOOLEAN
  /\ queue = <<>>
  /\ idle = 0
  /\ shutdown = FALSE
  /\ broken = FALSE
  /\ notifyList = <<>>
  /\ wpc = [w \in Worker |-> "unborn"]
  /\ item = [w \in Worker |-> nil]
  /\ failing = [w \in Worker |-> <<>>]
  /\ submitted = {}
  /\ closer = "none"
-----------------------------------------------------------------------------
(* submit *)

\* spawnWorker: the next worker of the pool is born and counted.
spawnWorker ==
  /\ wpc' = [wpc EXCEPT ![numWorkers + 1] = "init"]
  /\ UNCHANGED notifyList

\* cond.Signal and cond.Broadcast; with nobody in the list they do nothing.
Signal ==
  IF notifyList = <<>>
    THEN UNCHANGED <<wpc, notifyList>>
    ELSE /\ wpc' = [wpc EXCEPT ![Head(notifyList)] = "signalled"]
         /\ notifyList' = Tail(notifyList)

broadcastTo(pcs) ==
  [w \in Worker |-> IF w \in Range(notifyList) THEN "signalled" ELSE pcs[w]]

\* A mutant: submit signals only, also when no worker exists yet to hear it.
submitSignalling(f) ==
  /\ f \notin submitted
  /\ ~broken /\ ~shutdown
  /\ submitted' = submitted \cup {f}
  /\ queue' = Append(queue, f)
  /\ IF numWorkers = 0 THEN spawnWorker ELSE UNCHANGED <<wpc, notifyList>>
  /\ UNCHANGED <<fvars, hasInitializer, idle, shutdown, broken, item, failing, closer>>

submit(f) ==
  /\ f \notin submitted
  /\ ~broken /\ ~shutdown
  /\ submitted' = submitted \cup {f}
  /\ queue' = Append(queue, f)
  /\ IF idle = 0 /\ numWorkers < MaxWorkers THEN spawnWorker ELSE Signal
  /\ UNCHANGED <<fvars, hasInitializer, idle, shutdown, broken, item, failing, closer>>
-----------------------------------------------------------------------------
(* the worker *)

\* runInitializer succeeded, or there is none.
initialize(w) ==
  /\ wpc[w] = "init"
  /\ wpc' = [wpc EXCEPT ![w] = "loop"]
  /\ UNCHANGED <<fvars, hasInitializer, queue, idle, shutdown, broken, notifyList,
                 item, failing, submitted, closer>>

\* A mutant: breakPool drops the queue without failing its futures.
breakPoolDropping(w) ==
  /\ wpc[w] = "init" /\ hasInitializer
  /\ broken' = TRUE
  /\ queue' = <<>>
  /\ wpc' = broadcastTo([wpc EXCEPT ![w] = "breaking"])
  /\ notifyList' = <<>>
  /\ UNCHANGED <<fvars, hasInitializer, idle, shutdown, item, failing, submitted, closer>>

\* The initializer raised: breakPool's critical section.
breakPool(w) ==
  /\ wpc[w] = "init" /\ hasInitializer
  /\ broken' = TRUE
  /\ failing' = [failing EXCEPT ![w] = queue]
  /\ queue' = <<>>
  /\ wpc' = broadcastTo([wpc EXCEPT ![w] = "breaking"])
  /\ notifyList' = <<>>
  /\ UNCHANGED <<fvars, hasInitializer, idle, shutdown, item, submitted, closer>>

\* ... and its loop over the futures it took, each failed and called back.
failQueued(w) ==
  /\ wpc[w] = "breaking" /\ callbacksRun(w)
  /\ IF failing[w] = <<>>
       THEN /\ wpc' = [wpc EXCEPT ![w] = "dead"]
            /\ UNCHANGED <<fvars, failing>>
       ELSE /\ resolve(Head(failing[w]), "exception", w)
            /\ failing' = [failing EXCEPT ![w] = Tail(@)]
            /\ UNCHANGED wpc
  /\ UNCHANGED <<hasInitializer, queue, idle, shutdown, broken, notifyList, item,
                 submitted, closer>>

\* A mutant: a worker back from cond.Wait stays in the idle count.
fetchStaysIdle(w) ==
  /\ wpc[w] \in {"loop", "signalled"} /\ callbacksRun(w)
  /\ \/ /\ queue = <<>> /\ ~shutdown
        /\ idle' = idle + 1
        /\ wpc' = [wpc EXCEPT ![w] = "parked"]
        /\ notifyList' = Append(notifyList, w)
        /\ UNCHANGED <<queue, item>>
     \/ /\ queue # <<>>
        /\ item' = [item EXCEPT ![w] = Head(queue)]
        /\ queue' = Tail(queue)
        /\ wpc' = [wpc EXCEPT ![w] = "run"]
        /\ UNCHANGED <<idle, notifyList>>
  /\ UNCHANGED <<fvars, hasInitializer, shutdown, broken, failing, submitted, closer>>

\* A mutant: a worker leaves on shutdown without draining the queue.
fetchUndrained(w) ==
  /\ wpc[w] \in {"loop", "signalled"} /\ callbacksRun(w)
  /\ LET awake == IF wpc[w] = "signalled" THEN idle - 1 ELSE idle
     IN \/ /\ queue = <<>> /\ ~shutdown
           /\ idle' = awake + 1
           /\ wpc' = [wpc EXCEPT ![w] = "parked"]
           /\ notifyList' = Append(notifyList, w)
           /\ UNCHANGED <<queue, item>>
        \/ /\ shutdown
           /\ idle' = awake
           /\ wpc' = [wpc EXCEPT ![w] = "dead"]
           /\ UNCHANGED <<queue, item, notifyList>>
        \/ /\ queue # <<>> /\ ~shutdown
           /\ idle' = awake
           /\ item' = [item EXCEPT ![w] = Head(queue)]
           /\ queue' = Tail(queue)
           /\ wpc' = [wpc EXCEPT ![w] = "run"]
           /\ UNCHANGED notifyList
  /\ UNCHANGED <<fvars, hasInitializer, shutdown, broken, failing, submitted, closer>>

\* A mutant: the item is read and the lock dropped before it is taken off.
fetchPeeking(w) ==
  /\ wpc[w] \in {"loop", "signalled"} /\ callbacksRun(w)
  /\ queue # <<>>
  /\ idle' = (IF wpc[w] = "signalled" THEN idle - 1 ELSE idle)
  /\ item' = [item EXCEPT ![w] = Head(queue)]
  /\ wpc' = [wpc EXCEPT ![w] = "run"]
  /\ UNCHANGED <<fvars, hasInitializer, queue, shutdown, broken, notifyList, failing,
                 submitted, closer>>

\* One passage of workerLoop's critical section: back from cond.Wait the worker
\* leaves the idle count; then it parks, leaves, or takes the head of the queue.
fetch(w) ==
  /\ wpc[w] \in {"loop", "signalled"} /\ callbacksRun(w)
  /\ LET awake == IF wpc[w] = "signalled" THEN idle - 1 ELSE idle
     IN \/ /\ queue = <<>> /\ ~shutdown
           /\ idle' = awake + 1
           /\ wpc' = [wpc EXCEPT ![w] = "parked"]
           /\ notifyList' = Append(notifyList, w)
           /\ UNCHANGED <<queue, item>>
        \/ /\ queue = <<>> /\ shutdown
           /\ idle' = awake
           /\ wpc' = [wpc EXCEPT ![w] = "dead"]
           /\ UNCHANGED <<queue, item, notifyList>>
        \/ /\ queue # <<>>
           /\ idle' = awake
           /\ item' = [item EXCEPT ![w] = Head(queue)]
           /\ queue' = Tail(queue)
           /\ wpc' = [wpc EXCEPT ![w] = "run"]
           /\ UNCHANGED notifyList
  /\ UNCHANGED <<fvars, hasInitializer, shutdown, broken, failing, submitted, closer>>

\* runItem: the pre-run transition; anything but pending skips the item.
start(w) ==
  /\ wpc[w] = "run"
  /\ setRunningOrNotifyCancel(item[w])
  /\ IF state[item[w]] = "pending"
       THEN wpc' = [wpc EXCEPT ![w] = "call"] /\ UNCHANGED item
       ELSE wpc' = [wpc EXCEPT ![w] = "loop"] /\ item' = [item EXCEPT ![w] = nil]
  /\ UNCHANGED <<hasInitializer, queue, idle, shutdown, broken, notifyList, failing,
                 submitted, closer>>

\* The callable returned or raised; the worker owes the callbacks.
complete(w) ==
  /\ wpc[w] = "call"
  /\ \E kind \in {"value", "exception"} : resolve(item[w], kind, w)
  /\ wpc' = [wpc EXCEPT ![w] = "loop"]
  /\ item' = [item EXCEPT ![w] = nil]
  /\ UNCHANGED <<hasInitializer, queue, idle, shutdown, broken, notifyList, failing,
                 submitted, closer>>
-----------------------------------------------------------------------------
(* the client *)

clientCancel(f) ==
  /\ f \in submitted
  /\ cancel({f}, Client)
  /\ UNCHANGED evars

clientAddCallback(f, cb) ==
  /\ f \in submitted
  /\ addCallback(f, cb, Client)
  /\ UNCHANGED evars

invoke ==
  /\ \E c \in calls : invokeFutureCallback(c)
  /\ UNCHANGED evars

\* A mutant: shutdown sets the flag and does not wake the parked workers.
doShutdownSilently(wait, cancelFutures) ==
  /\ closer = "none" /\ callbacksRun(Closer)
  /\ shutdown' = TRUE
  /\ closer' = (IF wait THEN "waiting" ELSE "none")
  /\ IF cancelFutures
       THEN cancel(Range(queue), Closer) /\ queue' = <<>>
       ELSE UNCHANGED <<fvars, queue>>
  /\ UNCHANGED <<hasInitializer, idle, broken, wpc, notifyList, item, failing, submitted>>

\* doShutdown's critical section.
doShutdown(wait, cancelFutures) ==
  /\ closer = "none" /\ callbacksRun(Closer)
  /\ shutdown' = TRUE
  /\ closer' = (IF wait THEN "waiting" ELSE "none")
  /\ IF cancelFutures
       THEN cancel(Range(queue), Closer) /\ queue' = <<>>
       ELSE UNCHANGED <<fvars, queue>>
  /\ wpc' = broadcastTo(wpc)
  /\ notifyList' = <<>>
  /\ UNCHANGED <<hasInitializer, idle, broken, item, failing, submitted>>

\* workers.Wait: the callbacks of the cancelled futures have run and every
\* spawned worker has returned.
shutdownReturns ==
  /\ closer = "waiting" /\ callbacksRun(Closer)
  /\ \A w \in Worker : wpc[w] \in {"unborn", "dead"}
  /\ closer' = "returned"
  /\ UNCHANGED <<fvars, hasInitializer, queue, idle, shutdown, broken, notifyList, wpc,
                 item, failing, submitted>>
-----------------------------------------------------------------------------
workerStep(w) ==
  initialize(w) \/ breakPool(w) \/ failQueued(w) \/ fetch(w) \/ start(w) \/ complete(w)

Next ==
  \/ \E f \in Fut : submit(f) \/ clientCancel(f)
  \/ \E r \in Registrations : clientAddCallback(r[1], r[2])
  \/ \E w \in Worker :
       \/ initialize(w) \/ breakPool(w) \/ failQueued(w)
       \/ fetch(w) \/ start(w) \/ complete(w)
  \/ invoke
  \/ \E wait, cancelFutures \in BOOLEAN : doShutdown(wait, cancelFutures)
  \/ shutdownReturns

\* Workers run, callables and callbacks end, and a thread in shutdown goes on;
\* the client need not do anything.
Fairness ==
  /\ \A w \in Worker : WF_vars(workerStep(w))
  /\ WF_vars(invoke)
  /\ WF_vars(shutdownReturns)

Spec == Init /\ [][Next]_vars /\ Fairness
-----------------------------------------------------------------------------
\* The fields of the pool, of its workers and of the futures have their types.
TypeOK ==
  /\ state \in [Fut -> FutureState]
  /\ outcome \in [Fut -> {"none", "value", "exception"}]
  /\ done \subseteq Fut
  /\ callbacks \in [Fut -> SUBSET Callback]
  /\ calls \subseteq [by : Worker \cup {Client, Closer}, fut : Fut, cb : Callback]
  /\ added \subseteq Fut \X Callback
  /\ ran \in [Fut \X Callback -> Nat]
  /\ hasInitializer \in BOOLEAN /\ shutdown \in BOOLEAN /\ broken \in BOOLEAN
  /\ queue \in Seq(Fut)
  /\ idle \in Nat
  /\ notifyList \in Seq(Worker)
  /\ wpc \in [Worker -> WPC]
  /\ item \in [Worker -> Fut \cup {nil}]
  /\ failing \in [Worker -> Seq(Fut)]
  /\ submitted \subseteq Fut
  /\ closer \in {"none", "waiting", "returned"}

\* No work is stranded: while an item is queued some worker is awake and will
\* come to the queue, whatever Signal found nobody to wake; a broken pool keeps
\* no queue.
NoStrandedWork ==
  queue # <<>> =>
    /\ ~broken
    /\ \E w \in Worker : wpc[w] \notin {"unborn", "dead", "parked"}

\* The workers that have f in hand or in the queue they fail.
holders(f) ==
  {w \in Worker : item[w] = f \/ f \in Range(failing[w])}

\* Each item is handed out once: it is in the queue, in one worker's hands or in
\* a failed queue, never in two places, and the worker that holds it finds it
\* pending or cancelled and, while calling, running.  runItem ignores the errors
\* of setRunningOrNotifyCancel and of setResult on this ground.
HandedOutOnce ==
  /\ IsInjective(queue)
  /\ \A f \in Fut : Cardinality(holders(f)) + (IF f \in Range(queue) THEN 1 ELSE 0) <= 1
  /\ \A w \in Worker :
       /\ item[w] # nil <=> wpc[w] \in {"run", "call"}
       /\ wpc[w] = "run" => state[item[w]] \in {"pending", "cancelled"}
       /\ wpc[w] = "call" => state[item[w]] = "running"

\* e.idle counts the workers in cond.Wait, the ones already signalled included,
\* and exactly the parked ones are in the notify list.
IdleExact ==
  /\ idle = Cardinality({w \in Worker : wpc[w] \in {"parked", "signalled"}})
  /\ IsInjective(notifyList)
  /\ Range(notifyList) = {w \in Worker : wpc[w] = "parked"}

\* When shutdown(wait=True) returns, every future the pool ever handed out is
\* settled: drained, cancelled or failed, never forgotten.
ShutdownSettlesAll == closer = "returned" => \A f \in submitted : terminal(f)

\* Every submitted call is settled, as long as callables end.
SubmittedSettles == \A f \in Fut : (f \in submitted) ~> terminal(f)

\* shutdown(wait=True) returns.
ShutdownReturns == (closer = "waiting") ~> (closer = "returned")

\* submit's contract (executor.go:87-89): "A fresh item wakes a parked worker or,
\* when none is idle and the pool is below its cap, spawns one".
FreshItemGetsAWorker ==
  [][submitted' # submitted =>
       \/ Len(notifyList') < Len(notifyList)
       \/ numWorkers' > numWorkers
       \/ numWorkers = MaxWorkers]_vars
=============================================================================
