------------------------------ MODULE Semaphore ------------------------------
(***************************************************************************)
(* What threading.Semaphore and BoundedSemaphore promise their callers: a  *)
(* count of permits that acquire takes from and release adds to, each at   *)
(* one instant.  There are no queues, channels or wakes here; a call of    *)
(* acquire that finds no permit is pending until it takes one, or gives up *)
(* if it has a timeout.  ThreadSemaphore implements this specification.    *)
(***************************************************************************)
EXTENDS Integers

CONSTANTS Thread, Initials, MaxN

VARIABLES
  initial,  \* the count the semaphore was built with
  bounded,  \* whether a release may not lift the count above it
  value,    \* the permits that are free
  pending   \* the threads in a pending acquire, with a timeout or not

vars == <<initial, bounded, value, pending>>

Init ==
  /\ initial \in Initials
  /\ bounded \in BOOLEAN
  /\ value = initial
  /\ pending = [t \in Thread |-> "no"]

\* acquire takes a permit at once, or later.
take(t) ==
  /\ value > 0
  /\ value' = value - 1
  /\ pending' = [pending EXCEPT ![t] = "no"]
  /\ UNCHANGED <<initial, bounded>>

\* acquire becomes pending.
wait(t) ==
  /\ pending[t] = "no"
  /\ value = 0
  /\ \E kind \in {"untimed", "timed"} : pending' = [pending EXCEPT ![t] = kind]
  /\ UNCHANGED <<initial, bounded, value>>

\* Only a call with a timeout gives up.
giveUp(t) ==
  /\ pending[t] = "timed"
  /\ pending' = [pending EXCEPT ![t] = "no"]
  /\ UNCHANGED <<initial, bounded, value>>

release(n) ==
  /\ bounded => value + n <= initial
  /\ value' = value + n
  /\ UNCHANGED <<initial, bounded, pending>>

Next ==
  \/ \E t \in Thread : take(t) \/ wait(t) \/ giveUp(t)
  \/ \E n \in 1..MaxN : release(n)

Spec == Init /\ [][Next]_vars
=============================================================================
