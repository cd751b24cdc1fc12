------------------------------ MODULE TaskQueue ------------------------------
(***************************************************************************)
(* What queue.Queue, LifoQueue and PriorityQueue promise the threads that  *)
(* share them: a bounded store with a count of unfinished tasks, where     *)
(* put, get, task_done, join and shutdown each take effect at one instant. *)
(* There are no waiter lists, channels or wakes here; a call that cannot   *)
(* go on is pending.  ThreadQueue implements this specification.           *)
(***************************************************************************)
EXTENDS Integers, FiniteSetsExt

CONSTANTS Thread, MaxSizes

VARIABLES
  comparesRaise,  \* comparing two items may raise (a PriorityQueue)
  maxsize,        \* the bound on the items; 0 is none
  size,           \* the items
  unfinished,     \* the tasks put and not reported
  isShutdown,     \* shutdown has been called
  processing,     \* the items got and not reported
  pending         \* the pending call of each thread

fixed == <<comparesRaise, maxsize>>
vars == <<fixed, size, unfinished, isShutdown, processing, pending>>

putting == {"put", "timed put"}
getting == {"get", "timed get"}
ends(t) == pending' = [pending EXCEPT ![t] = "none"]

Init ==
  /\ comparesRaise \in BOOLEAN
  /\ maxsize \in MaxSizes
  /\ size = 0 /\ unfinished = 0 /\ processing = 0
  /\ isShutdown = FALSE
  /\ pending = [t \in Thread |-> "none"]

full == maxsize > 0 /\ size >= maxsize

\* put and get take effect; an item that cannot be compared is stored without
\* being counted as a task, or lost on its way out.
put(t) ==
  /\ pending[t] \in putting \cup {"none"}
  /\ ~isShutdown /\ ~full
  /\ size' = size + 1
  /\ \/ unfinished' = unfinished + 1
     \/ comparesRaise /\ size > 0 /\ UNCHANGED unfinished
  /\ ends(t)
  /\ UNCHANGED <<fixed, isShutdown, processing>>

get(t) ==
  /\ pending[t] \in getting \cup {"none"}
  /\ size > 0
  /\ size' = size - 1
  /\ \/ processing' = processing + 1
     \/ comparesRaise /\ size >= 3 /\ UNCHANGED processing
  /\ ends(t)
  /\ UNCHANGED <<fixed, unfinished, isShutdown>>

\* A call that has to wait for room, for an item or for the tasks.
waits(t) ==
  /\ pending[t] = "none"
  /\ \/ /\ full /\ ~isShutdown
        /\ \E call \in putting : pending' = [pending EXCEPT ![t] = call]
     \/ /\ size = 0 /\ ~isShutdown
        /\ \E call \in getting : pending' = [pending EXCEPT ![t] = call]
     \/ /\ unfinished > 0
        /\ pending' = [pending EXCEPT ![t] = "join"]
  /\ UNCHANGED <<fixed, size, unfinished, isShutdown, processing>>

\* A pending put or get ends without effect only if it has a timeout or the queue
\* is shut down.
gives(t) ==
  /\ \/ pending[t] \in {"timed put", "timed get"}
     \/ isShutdown /\ pending[t] \in putting \cup getting
  /\ ends(t)
  /\ UNCHANGED <<fixed, size, unfinished, isShutdown, processing>>

\* join returns only when every task has been reported.
joins(t) ==
  /\ pending[t] = "join"
  /\ unfinished = 0
  /\ ends(t)
  /\ UNCHANGED <<fixed, size, unfinished, isShutdown, processing>>

taskDone ==
  /\ processing > 0 /\ unfinished > 0
  /\ processing' = processing - 1
  /\ unfinished' = unfinished - 1
  /\ UNCHANGED <<fixed, size, isShutdown, pending>>

\* An immediate shutdown drops items and the tasks they stand for: all of them,
\* or those before a comparison that raises, which loses one uncounted.
shutdown ==
  /\ isShutdown' = TRUE
  /\ \/ UNCHANGED <<size, unfinished>>
     \/ size' = 0 /\ unfinished' = Max({0, unfinished - size})
     \/ /\ comparesRaise
        /\ \E k \in 0..(size - 3) :
             size' = size - k - 1 /\ unfinished' = Max({0, unfinished - k})
  /\ UNCHANGED <<fixed, processing, pending>>

Next ==
  \/ \E t \in Thread : put(t) \/ get(t) \/ waits(t) \/ gives(t) \/ joins(t)
  \/ taskDone
  \/ shutdown

Spec == Init /\ [][Next]_vars
=============================================================================
