--------------------------- MODULE ThreadSemaphore ---------------------------
(***************************************************************************)
(* threading.Semaphore and threading.BoundedSemaphore                      *)
(* (pkg/objects/semaphore.go).  Every critical section under s.mu is one   *)
(* action; what a thread does between two of them (parking on its channel, *)
(* a timer that fires) is an action of its own.                            *)
(*                                                                         *)
(* A waiter channel belongs to the thread that made it and a thread parks  *)
(* on one channel at a time, so `waiters` holds threads and `closed` is    *)
(* the set of threads whose current channel has been closed.  The calls    *)
(* that raise (n < 1, a bounded release past the ceiling) and the refusals *)
(* that touch nothing (a non-blocking miss, a timeout of zero) change no   *)
(* state and are the stuttering steps of the specification.                *)
(***************************************************************************)
EXTENDS Integers, Sequences, Threads, WaiterLists

CONSTANTS
  Initials,   \* the counts it may be built with
  MaxN,       \* the largest n of a release(n) call
  MaxValue    \* bound of the model on the count of an unbounded semaphore

ASSUME CountAssumption ==
  /\ Initials \subseteq Nat
  /\ MaxN \in Nat
  /\ MaxValue \in Nat
  /\ \A i \in Initials : i <= MaxValue

VARIABLES
  initial,     \* s.initial
  bounded,     \* s.bounded
  value,       \* s.value
  sleepers,    \* s.waiters, the front first
  signalled,   \* threads whose channel a release has closed
  stage,       \* where each thread is in acquire
  withTimeout, \* hasTimeout of the acquire in progress
  outstanding  \* history: acquires that returned True minus permits released

semaphoreVars == <<initial, bounded, value, sleepers, signalled, stage, withTimeout, outstanding>>

\* idle: in no call; parked: in park; expired: its timer fired, about to
\* reclaim; late: reclaim lost the race, about to take s.mu once more.
Stages == {"idle", "parked", "expired", "late"}

SemaphoreInit ==
  /\ initial \in Initials
  /\ bounded \in BOOLEAN
  /\ value = initial
  /\ sleepers = <<>>
  /\ signalled = {}
  /\ stage = [t \in Thread |-> "idle"]
  /\ withTimeout = [t \in Thread |-> FALSE]
  /\ outstanding = 0
-----------------------------------------------------------------------------
\* The exits of acquire's loop.  A thread leaves with a count ...
take(t) ==
  /\ value > 0
  /\ value' = value - 1
  /\ outstanding' = outstanding + 1
  /\ stage' = [stage EXCEPT ![t] = "idle"]
  /\ UNCHANGED sleepers

\* ... or goes to sleep on a fresh channel ...
sleep(t) ==
  /\ value = 0
  /\ sleepers' = Append(sleepers, t)
  /\ stage' = [stage EXCEPT ![t] = "parked"]
  /\ UNCHANGED <<value, outstanding>>

\* ... or, its deadline passed, reports False.
giveUp(t) ==
  /\ value = 0
  /\ stage' = [stage EXCEPT ![t] = "idle"]
  /\ UNCHANGED <<value, sleepers, outstanding>>

\* The call enters the loop for the first time.
acquirePermit(t, hasTimeout) ==
  /\ stage[t] = "idle"
  /\ withTimeout' = [withTimeout EXCEPT ![t] = hasTimeout]
  /\ take(t) \/ sleep(t)
  /\ UNCHANGED <<initial, bounded, signalled>>

\* A mutant: the woken waiter trusts the wake and does not re-check the count.
wokenTrusting(t) ==
  /\ stage[t] = "parked"
  /\ t \in signalled
  /\ signalled' = signalled \ {t}
  /\ value' = (IF value > 0 THEN value - 1 ELSE 0)
  /\ outstanding' = outstanding + 1
  /\ stage' = [stage EXCEPT ![t] = "idle"]
  /\ UNCHANGED <<initial, bounded, sleepers, withTimeout>>

\* park returned true: the channel is closed, and the thread re-checks the
\* count under the lock.
wokenAcquire(t) ==
  /\ stage[t] = "parked"
  /\ t \in signalled
  /\ signalled' = signalled \ {t}
  /\ take(t) \/ sleep(t) \/ (withTimeout[t] /\ giveUp(t))
  /\ UNCHANGED <<initial, bounded, withTimeout>>

\* park returned false: the timer won the select, even over a closed channel.
timerFires(t) ==
  /\ stage[t] = "parked"
  /\ withTimeout[t]
  /\ stage' = [stage EXCEPT ![t] = "expired"]
  /\ UNCHANGED <<initial, bounded, value, sleepers, signalled, withTimeout, outstanding>>

\* A mutant: a timed-out waiter gives up without asking whether a release had
\* already woken it.
reclaimAlways(t) ==
  /\ stage[t] = "expired"
  /\ stage' = [stage EXCEPT ![t] = "idle"]
  /\ sleepers' = SelectSeq(sleepers, LAMBDA w : w # t)
  /\ signalled' = signalled \ {t}
  /\ UNCHANGED <<initial, bounded, value, withTimeout, outstanding>>

\* A mutant: a timed-out waiter leaves its channel in the queue.
reclaimForgets(t) ==
  /\ stage[t] = "expired"
  /\ stage' = [stage EXCEPT ![t] = IF t \in signalled THEN "late" ELSE "idle"]
  /\ signalled' = signalled \ {t}
  /\ UNCHANGED <<initial, bounded, value, sleepers, withTimeout, outstanding>>

\* reclaim: still queued means a genuine timeout, the call returns False.
\* Popped means the count is this waiter's to ask for again.
reclaim(t) ==
  /\ stage[t] = "expired"
  /\ \/ \E i \in DOMAIN sleepers :
          /\ sleepers[i] = t
          /\ sleepers' = removeAt(sleepers, i)
          /\ stage' = [stage EXCEPT ![t] = "idle"]
          /\ UNCHANGED signalled
     \/ /\ t \notin Range(sleepers)
        /\ stage' = [stage EXCEPT ![t] = "late"]
        /\ signalled' = signalled \ {t}
        /\ UNCHANGED sleepers
  /\ UNCHANGED <<initial, bounded, value, withTimeout, outstanding>>

\* A mutant: after a lost reclaim the call goes to sleep with no timer left.
lateSleeps(t) ==
  /\ stage[t] = "late"
  /\ take(t) \/ sleep(t)
  /\ withTimeout' = [withTimeout EXCEPT ![t] = FALSE]
  /\ UNCHANGED <<initial, bounded, signalled>>

\* The loop head after a lost reclaim: the deadline is behind it.
late(t) ==
  /\ stage[t] = "late"
  /\ take(t) \/ giveUp(t)
  /\ UNCHANGED <<initial, bounded, signalled, withTimeout>>

\* A mutant: release(n) lifts the count by n and wakes a single waiter.
wakeOne(n) == IF Len(sleepers) = 0 THEN 0 ELSE 1

\* How many waiters a release(n) wakes.
wakeCount(n) == Min({n, Len(sleepers)})

\* The ceiling of a bounded semaphore; the model's own bound otherwise.
room(n) ==
  /\ bounded => value + n <= initial
  /\ ~bounded => value + n <= MaxValue

releasePermits(n) ==
  /\ room(n)
  /\ value' = value + n
  /\ outstanding' = outstanding - n
  /\ signalled' = signalled \cup {sleepers[i] : i \in 1..wakeCount(n)}
  /\ sleepers' = SubSeq(sleepers, wakeCount(n) + 1, Len(sleepers))
  /\ UNCHANGED <<initial, bounded, stage, withTimeout>>
-----------------------------------------------------------------------------
SemaphoreNext ==
  \/ \E t \in Thread :
       \/ \E hasTimeout \in BOOLEAN : acquirePermit(t, hasTimeout)
       \/ wokenAcquire(t)
       \/ timerFires(t)
       \/ reclaim(t)
       \/ late(t)
  \/ \E n \in 1..MaxN : releasePermits(n)

\* Goroutines whose next step is enabled run it, and timers fire; nobody has to
\* call acquire or release.
SemaphoreFairness ==
  \A t \in Thread :
    /\ WF_semaphoreVars(wokenAcquire(t)) /\ WF_semaphoreVars(timerFires(t))
    /\ WF_semaphoreVars(reclaim(t)) /\ WF_semaphoreVars(late(t))

SemaphoreSpec == SemaphoreInit /\ [][SemaphoreNext]_semaphoreVars /\ SemaphoreFairness
-----------------------------------------------------------------------------
\* Threads a release has woken that have not yet been back under the lock.
inFlight == {t \in Thread : t \in signalled \/ stage[t] = "late"}

\* The fields of the semaphore and of the calls in progress have their types;
\* the count is never negative.
SemaphoreTypeOK ==
  /\ initial \in Initials
  /\ bounded \in BOOLEAN
  /\ value \in Nat
  /\ sleepers \in Seq(Thread)
  /\ signalled \subseteq Thread
  /\ stage \in [Thread -> Stages]
  /\ withTimeout \in [Thread -> BOOLEAN]
  /\ outstanding \in Int

\* acquire, reclaim and release keep the waiter queue exact: a thread asleep in
\* park is queued once or its channel is closed, never both and never neither,
\* and no thread that left acquire is still queued (release closes a channel
\* once only; a second close would panic).
SleepersQueued ==
  /\ IsInjective(sleepers)
  /\ Range(sleepers) \cap signalled = {}
  /\ Range(sleepers) \cup signalled = {t \in Thread : stage[t] \in {"parked", "expired"}}

\* No permit is minted or lost by a wake, a barging acquire or a timeout that
\* races a release: what acquire has handed out and the count always add up to
\* the initial count, and a bounded semaphore never rises above it.
PermitsConserved ==
  /\ value + outstanding = initial
  /\ bounded => value <= initial

\* No lost wakeup: while a thread sleeps in the queue every free permit is
\* matched by a distinct woken thread that is on its way to ask for it, so a
\* release(n) that pops n waiters (semaphore.go:131-135) leaves no permit idle
\* beside a sleeper.
NoLostWakeup ==
  sleepers # <<>> => value <= Cardinality(inFlight)

\* acquire returns False after parking only when every free permit is already
\* claimed by some other woken thread: a timeout never forfeits a permit that
\* was this waiter's to take (the race reclaim settles, semaphore.go:103-116).
refused(t) ==
  /\ stage[t] # "idle"
  /\ stage'[t] = "idle"
  /\ outstanding' = outstanding
RefusedOnlyIfClaimed ==
  [][\A t \in Thread : refused(t) => value <= Cardinality(inFlight \ {t})]_semaphoreVars

\* The threads asleep in acquire, or on their way back to its loop, are the ones
\* whose call is pending.
pendingCall ==
  [t \in Thread |-> IF stage[t] = "idle" THEN "no" ELSE IF withTimeout[t] THEN "timed" ELSE "untimed"]
Abstract == INSTANCE Semaphore WITH pending <- pendingCall

\* The channels, the queue and the wakes implement an atomic count: every acquire
\* that returns True takes a permit at one instant, one that returns False after
\* parking takes none and had a timeout, and a woken thread re-checks the count
\* (semaphore.go:56-90), so permits are neither minted nor lost.
ImplementsSemaphore == Abstract!Spec

\* A free permit does not stay beside a sleeping thread for ever: somebody takes
\* it or the queue empties.
PermitReachesSleeper ==
  (value > 0 /\ sleepers # <<>>) ~> (value = 0 \/ sleepers = <<>>)

\* acquire(timeout=...) returns, however often it is woken for a permit that a
\* barging acquire has taken.
TimedAcquireReturns ==
  \A t \in Thread : (stage[t] # "idle" /\ withTimeout[t]) ~> (stage[t] = "idle")
=============================================================================
