--------------------------- MODULE ThreadingProofs ---------------------------
(***************************************************************************)
(* The safety properties of threading's Semaphore, Condition (over an      *)
(* RLock) and Barrier, for any finite set of threads, any initial counts   *)
(* and any bounds.                                                         *)
(*                                                                         *)
(* The semaphore's inductive invariant is the conjunction of the four      *)
(* state properties the runs check: a thread that goes to sleep does so    *)
(* under the lock with the count at zero, and a release pops as many       *)
(* waiters as it adds permits, so the comparison between the free permits  *)
(* and the woken threads is kept by every step.  The condition's adds to   *)
(* its three properties that an owner's depth is not zero.  For the        *)
(* barrier RoundsDoNotMix is not inductive by itself: that the indexes of  *)
(* a filling round are distinct, and that a thread outside a round has no  *)
(* mates, has to be carried along.                                         *)
(***************************************************************************)
EXTENDS ThreadSemaphore, Condition, Barrier, WaiterLemmas

\* The inductive invariant.
SemaphoreInv == SemaphoreTypeOK /\ SleepersQueued /\ PermitsConserved /\ NoLostWakeup

\* What a release(n) pops: the front of the queue, and exactly n waiters when
\* some stay behind.
LEMMA WakeCountFacts ==
  ASSUME sleepers \in Seq(Thread), NEW n \in Nat
  PROVE  /\ wakeCount(n) \in 0..Len(sleepers)
         /\ wakeCount(n) < Len(sleepers) => wakeCount(n) = n
<1>1. Len(sleepers) \in Nat
  OBVIOUS
<1> QED BY <1>1, MinPair DEF wakeCount

\* The woken threads are finitely many, and one of them leaving costs one.
LEMMA InFlightFinite ==
  ASSUME NEW F \in SUBSET Thread, NEW t
  PROVE  /\ IsFiniteSet(F)
         /\ Cardinality(F) \in Nat
         /\ IsFiniteSet(F \ {t})
         /\ Cardinality(F \ {t}) \in Nat
         /\ Cardinality(F \ {t}) >= Cardinality(F) - 1
<1>1. IsFiniteSet(F)
  BY ThreadAssumption, FS_Subset
<1>2. Cardinality(F) \in Nat
  BY <1>1, FS_CardinalityType
<1>3. /\ IsFiniteSet(F \ {t})
      /\ Cardinality(F \ {t}) = IF t \in F THEN Cardinality(F) - 1 ELSE Cardinality(F)
  BY <1>1, FS_RemoveElement
<1>4. Cardinality(F \ {t}) \in Nat
  BY <1>3, FS_CardinalityType
<1> QED BY <1>1, <1>2, <1>3, <1>4

\* A thread leaves acquire's loop with a permit, giving up one place in flight.
LEMMA TakeKeepsCount ==
  ASSUME SemaphoreTypeOK, NoLostWakeup, NEW t \in Thread,
         value > 0, value' = value - 1, sleepers' = sleepers,
         inFlight \ {t} \subseteq inFlight', inFlight' \subseteq Thread
  PROVE  NoLostWakeup'
<1>1. inFlight \subseteq Thread
  BY DEF inFlight
<1>2. /\ Cardinality(inFlight) \in Nat
      /\ Cardinality(inFlight \ {t}) \in Nat
      /\ Cardinality(inFlight \ {t}) >= Cardinality(inFlight) - 1
  BY <1>1, InFlightFinite
<1>3. IsFiniteSet(inFlight') /\ Cardinality(inFlight') \in Nat
  BY InFlightFinite
<1>4. Cardinality(inFlight \ {t}) <= Cardinality(inFlight')
  BY <1>3, FS_Subset
<1>5. sleepers # <<>> => value - 1 <= Cardinality(inFlight')
  BY <1>2, <1>3, <1>4 DEF NoLostWakeup, SemaphoreTypeOK
<1> QED BY <1>5 DEF NoLostWakeup

\* With no permit free there is nothing to lose.
LEMMA ZeroKeepsCount ==
  ASSUME value' = 0, inFlight' \subseteq Thread
  PROVE  NoLostWakeup'
<1>1. Cardinality(inFlight') \in Nat
  BY InFlightFinite
<1> QED BY <1>1 DEF NoLostWakeup

\* acquire's first pass through the loop: a barging take, or to sleep.
LEMMA AcquireStep ==
  ASSUME SemaphoreInv, NEW t \in Thread, NEW h \in BOOLEAN, acquirePermit(t, h)
  PROVE  SemaphoreInv'
<1> USE DEF SemaphoreInv
<1>1. t \notin Range(sleepers) /\ t \notin signalled
  BY DEF acquirePermit, SleepersQueued
<1>2. CASE take(t)
  <2>1. SemaphoreTypeOK'
    BY <1>2 DEF acquirePermit, take, SemaphoreTypeOK, Stages
  <2>2. SleepersQueued'
    BY <1>2, <1>1 DEF acquirePermit, take, SemaphoreTypeOK, SleepersQueued
  <2>3. PermitsConserved'
    BY <1>2, CountAssumption DEF acquirePermit, take, SemaphoreTypeOK, PermitsConserved
  <2>4. inFlight' = inFlight /\ inFlight \subseteq Thread
    BY <1>2 DEF acquirePermit, take, SemaphoreTypeOK, inFlight
  <2>5. NoLostWakeup'
    BY <1>2, <2>4, TakeKeepsCount DEF take
  <2> QED BY <2>1, <2>2, <2>3, <2>5
<1>3. CASE sleep(t)
  <2>1. /\ sleepers' \in Seq(Thread)
        /\ Range(sleepers') = Range(sleepers) \cup {t}
        /\ IsInjective(sleepers')
    BY <1>1, <1>3, AppendFacts DEF sleep, SemaphoreTypeOK, SleepersQueued
  <2>2. SemaphoreTypeOK'
    BY <1>3, <2>1 DEF acquirePermit, sleep, SemaphoreTypeOK, Stages
  <2>3. SleepersQueued'
    BY <1>1, <1>3, <2>1 DEF acquirePermit, sleep, SemaphoreTypeOK, SleepersQueued
  <2>4. PermitsConserved'
    BY <1>3 DEF acquirePermit, sleep, PermitsConserved
  <2>5. value' = 0 /\ inFlight' \subseteq Thread
    BY <1>3 DEF sleep, inFlight
  <2>6. NoLostWakeup'
    BY <2>5, ZeroKeepsCount
  <2> QED BY <2>2, <2>3, <2>4, <2>6
<1> QED BY <1>2, <1>3 DEF acquirePermit

\* A woken thread is back under the lock: it takes, sleeps again or gives up.
LEMMA WokenStep ==
  ASSUME SemaphoreInv, NEW t \in Thread, wokenAcquire(t)
  PROVE  SemaphoreInv'
<1> USE DEF SemaphoreInv
<1>1. t \notin Range(sleepers) /\ t \in signalled
  BY DEF wokenAcquire, SleepersQueued
<1>2. CASE take(t)
  <2>1. SemaphoreTypeOK'
    BY <1>2 DEF wokenAcquire, take, SemaphoreTypeOK, Stages
  <2>2. SleepersQueued'
    BY <1>2, <1>1 DEF wokenAcquire, take, SemaphoreTypeOK, SleepersQueued
  <2>3. PermitsConserved'
    BY <1>2, CountAssumption DEF wokenAcquire, take, SemaphoreTypeOK, PermitsConserved
  <2>4. inFlight \ {t} \subseteq inFlight' /\ inFlight' \subseteq Thread
    BY <1>2 DEF wokenAcquire, take, SemaphoreTypeOK, inFlight
  <2>5. NoLostWakeup'
    BY <1>2, <2>4, TakeKeepsCount DEF take
  <2> QED BY <2>1, <2>2, <2>3, <2>5
<1>3. CASE sleep(t)
  <2>1. /\ sleepers' \in Seq(Thread)
        /\ Range(sleepers') = Range(sleepers) \cup {t}
        /\ IsInjective(sleepers')
    BY <1>1, <1>3, AppendFacts DEF sleep, SemaphoreTypeOK, SleepersQueued
  <2>2. SemaphoreTypeOK'
    BY <1>3, <2>1 DEF wokenAcquire, sleep, SemaphoreTypeOK, Stages
  <2>3. SleepersQueued'
    BY <1>1, <1>3, <2>1 DEF wokenAcquire, sleep, SemaphoreTypeOK, SleepersQueued
  <2>4. PermitsConserved'
    BY <1>3 DEF wokenAcquire, sleep, PermitsConserved
  <2>5. value' = 0 /\ inFlight' \subseteq Thread
    BY <1>3 DEF sleep, inFlight
  <2>6. NoLostWakeup'
    BY <2>5, ZeroKeepsCount
  <2> QED BY <2>2, <2>3, <2>4, <2>6
<1>4. CASE withTimeout[t] /\ giveUp(t)
  <2>1. SemaphoreTypeOK'
    BY <1>4 DEF wokenAcquire, giveUp, SemaphoreTypeOK, Stages
  <2>2. SleepersQueued'
    BY <1>4, <1>1 DEF wokenAcquire, giveUp, SemaphoreTypeOK, SleepersQueued
  <2>3. PermitsConserved'
    BY <1>4 DEF wokenAcquire, giveUp, PermitsConserved
  <2>4. value' = 0 /\ inFlight' \subseteq Thread
    BY <1>4 DEF giveUp, inFlight
  <2>5. NoLostWakeup'
    BY <2>4, ZeroKeepsCount
  <2> QED BY <2>1, <2>2, <2>3, <2>5
<1> QED BY <1>2, <1>3, <1>4 DEF wokenAcquire

\* The timer fires: the thread leaves park, its channel stays where it was.
LEMMA TimerStep ==
  ASSUME SemaphoreInv, NEW t \in Thread, timerFires(t)
  PROVE  SemaphoreInv'
<1> USE DEF SemaphoreInv
<1>1. SemaphoreTypeOK' /\ PermitsConserved'
  BY DEF timerFires, SemaphoreTypeOK, PermitsConserved, Stages
<1>2. SleepersQueued'
  BY DEF timerFires, SemaphoreTypeOK, SleepersQueued
<1>3. inFlight' = inFlight
  BY DEF timerFires, SemaphoreTypeOK, inFlight
<1>4. NoLostWakeup'
  BY <1>3 DEF timerFires, NoLostWakeup
<1> QED BY <1>1, <1>2, <1>4

\* reclaim: the thread leaves the queue, or learns that a release popped it.
LEMMA ReclaimStep ==
  ASSUME SemaphoreInv, NEW t \in Thread, reclaim(t)
  PROVE  SemaphoreInv'
<1> USE DEF SemaphoreInv
<1>1. CASE t \in Range(sleepers)
  <2>1. PICK i \in 1..Len(sleepers) :
          /\ sleepers[i] = t
          /\ sleepers' = removeAt(sleepers, i)
          /\ stage' = [stage EXCEPT ![t] = "idle"]
          /\ signalled' = signalled
    BY <1>1 DEF reclaim, SemaphoreTypeOK
  <2>2. /\ sleepers' \in Seq(Thread)
        /\ Range(sleepers') = Range(sleepers) \ {t}
        /\ IsInjective(sleepers')
        /\ sleepers' # <<>> => sleepers # <<>>
    BY <2>1, RemoveAtFacts DEF SemaphoreTypeOK, SleepersQueued
  <2>3. t \notin signalled
    BY <1>1 DEF SleepersQueued
  <2>4. SemaphoreTypeOK' /\ PermitsConserved'
    BY <2>1, <2>2 DEF reclaim, SemaphoreTypeOK, PermitsConserved, Stages
  <2>5. SleepersQueued'
    BY <2>1, <2>2, <2>3 DEF SemaphoreTypeOK, SleepersQueued
  <2>6. inFlight' = inFlight
    BY <2>1 DEF reclaim, SemaphoreTypeOK, inFlight
  <2>7. NoLostWakeup'
    BY <2>2, <2>6 DEF reclaim, NoLostWakeup
  <2> QED BY <2>4, <2>5, <2>7
<1>2. CASE t \notin Range(sleepers)
  <2>1. /\ stage' = [stage EXCEPT ![t] = "late"]
        /\ signalled' = signalled \ {t}
        /\ sleepers' = sleepers
    BY <1>2 DEF reclaim, SemaphoreTypeOK, Range
  <2>2. t \in signalled
    BY <1>2 DEF reclaim, SleepersQueued
  <2>3. SemaphoreTypeOK' /\ PermitsConserved'
    BY <2>1 DEF reclaim, SemaphoreTypeOK, PermitsConserved, Stages
  <2>4. SleepersQueued'
    BY <2>1, <1>2 DEF reclaim, SemaphoreTypeOK, SleepersQueued
  <2>5. inFlight' = inFlight
    BY <2>1, <2>2 DEF SemaphoreTypeOK, inFlight
  <2>6. NoLostWakeup'
    BY <2>1, <2>5 DEF reclaim, NoLostWakeup
  <2> QED BY <2>3, <2>4, <2>6
<1> QED BY <1>1, <1>2

\* The loop head after a lost reclaim: take, or give up with nothing free.
LEMMA LateStep ==
  ASSUME SemaphoreInv, NEW t \in Thread, late(t)
  PROVE  SemaphoreInv'
<1> USE DEF SemaphoreInv
<1>1. t \notin Range(sleepers) /\ t \notin signalled
  BY DEF late, SleepersQueued
<1>2. SleepersQueued'
  BY <1>1 DEF late, take, giveUp, SemaphoreTypeOK, SleepersQueued
<1>3. CASE take(t)
  <2>1. SemaphoreTypeOK'
    BY <1>3 DEF late, take, SemaphoreTypeOK, Stages
  <2>2. PermitsConserved'
    BY <1>3, CountAssumption DEF late, take, SemaphoreTypeOK, PermitsConserved
  <2>3. inFlight \ {t} \subseteq inFlight' /\ inFlight' \subseteq Thread
    BY <1>3 DEF late, take, SemaphoreTypeOK, inFlight
  <2>4. NoLostWakeup'
    BY <1>3, <2>3, TakeKeepsCount DEF take
  <2> QED BY <1>2, <2>1, <2>2, <2>4
<1>4. CASE giveUp(t)
  <2>1. SemaphoreTypeOK' /\ PermitsConserved'
    BY <1>4 DEF late, giveUp, SemaphoreTypeOK, PermitsConserved, Stages
  <2>2. value' = 0 /\ inFlight' \subseteq Thread
    BY <1>4 DEF giveUp, inFlight
  <2>3. NoLostWakeup'
    BY <2>2, ZeroKeepsCount
  <2> QED BY <1>2, <2>1, <2>3
<1> QED BY <1>3, <1>4 DEF late

\* release(n): n permits more, and as many sleepers put in flight, or all.
LEMMA ReleaseStep ==
  ASSUME SemaphoreInv, NEW n \in 1..MaxN, releasePermits(n)
  PROVE  SemaphoreInv'
<1> USE DEF SemaphoreInv
<1> DEFINE k == wakeCount(n)
           P == {sleepers[i] : i \in 1..k}
<1>0. n \in Nat
  BY CountAssumption
<1>1. /\ k \in 0..Len(sleepers)
      /\ k < Len(sleepers) => k = n
  BY <1>0, WakeCountFacts DEF SemaphoreTypeOK
<1>2. /\ signalled' = signalled \cup P
      /\ sleepers' = SubSeq(sleepers, k + 1, Len(sleepers))
      /\ stage' = stage
  BY DEF releasePermits
<1> HIDE DEF k
<1>3. /\ sleepers' \in Seq(Thread)
      /\ Range(sleepers') = Range(sleepers) \ P
      /\ IsInjective(sleepers')
      /\ P \subseteq Range(sleepers)
      /\ IsFiniteSet(P)
      /\ Cardinality(P) = k
      /\ sleepers' # <<>> => k < Len(sleepers)
  BY <1>1, <1>2, PopFacts DEF SemaphoreTypeOK, SleepersQueued
<1> HIDE DEF P
<1>4. Range(sleepers) \subseteq Thread
  BY RangeFacts DEF SemaphoreTypeOK
<1>5. SemaphoreTypeOK'
  BY <1>0, <1>2, <1>3, <1>4 DEF releasePermits, SemaphoreTypeOK
<1>6. SleepersQueued'
  BY <1>2, <1>3 DEF SleepersQueued
<1>7. PermitsConserved'
  BY <1>0, CountAssumption DEF releasePermits, room, SemaphoreTypeOK, PermitsConserved
<1>8. inFlight' = inFlight \cup P /\ inFlight \cap P = {} /\ inFlight \subseteq Thread
  BY <1>2, <1>3, <1>4 DEF SemaphoreTypeOK, SleepersQueued, inFlight
<1>9. ASSUME sleepers' # <<>> PROVE value' <= Cardinality(inFlight')
  <2>1. k = n /\ Cardinality(P) = n /\ sleepers # <<>>
    BY <1>1, <1>3, <1>9
  <2>2. IsFiniteSet(inFlight) /\ Cardinality(inFlight) \in Nat
    BY <1>8, InFlightFinite
  <2>3. Cardinality(inFlight') = Cardinality(inFlight) + Cardinality(P) - Cardinality({})
    BY <1>3, <1>8, <2>2, FS_Union
  <2>4. value <= Cardinality(inFlight)
    BY <2>1 DEF NoLostWakeup
  <2> QED BY <1>0, <2>1, <2>2, <2>3, <2>4, FS_EmptySet DEF releasePermits, SemaphoreTypeOK
<1>10. NoLostWakeup'
  BY <1>9 DEF NoLostWakeup
<1> QED BY <1>5, <1>6, <1>7, <1>10

\* The inductive invariant holds in every reachable state of the semaphore.
THEOREM SemaphoreInvariance == SemaphoreSpec => []SemaphoreInv
<1>1. SemaphoreInit => SemaphoreInv
  <2> SUFFICES ASSUME SemaphoreInit PROVE SemaphoreInv
    OBVIOUS
  <2>1. SemaphoreTypeOK
    BY CountAssumption DEF SemaphoreInit, SemaphoreTypeOK, Stages
  <2>2. SleepersQueued
    BY DEF SemaphoreInit, SleepersQueued, Range, IsInjective
  <2>3. PermitsConserved /\ NoLostWakeup
    BY CountAssumption DEF SemaphoreInit, PermitsConserved, NoLostWakeup
  <2> QED BY <2>1, <2>2, <2>3 DEF SemaphoreInv
<1>2. SemaphoreInv /\ [SemaphoreNext]_semaphoreVars => SemaphoreInv'
  <2> SUFFICES ASSUME SemaphoreInv, [SemaphoreNext]_semaphoreVars PROVE SemaphoreInv'
    OBVIOUS
  <2>1. CASE UNCHANGED semaphoreVars
    BY <2>1 DEF semaphoreVars, SemaphoreInv, SemaphoreTypeOK, SleepersQueued, PermitsConserved, NoLostWakeup, inFlight
  <2>2. ASSUME NEW t \in Thread, NEW h \in BOOLEAN, acquirePermit(t, h) PROVE SemaphoreInv'
    BY <2>2, AcquireStep
  <2>3. ASSUME NEW t \in Thread, wokenAcquire(t) PROVE SemaphoreInv'
    BY <2>3, WokenStep
  <2>4. ASSUME NEW t \in Thread, timerFires(t) PROVE SemaphoreInv'
    BY <2>4, TimerStep
  <2>5. ASSUME NEW t \in Thread, reclaim(t) PROVE SemaphoreInv'
    BY <2>5, ReclaimStep
  <2>6. ASSUME NEW t \in Thread, late(t) PROVE SemaphoreInv'
    BY <2>6, LateStep
  <2>7. ASSUME NEW n \in 1..MaxN, releasePermits(n) PROVE SemaphoreInv'
    BY <2>7, ReleaseStep
  <2> QED BY <2>1, <2>2, <2>3, <2>4, <2>5, <2>6, <2>7 DEF SemaphoreNext
<1> QED BY <1>1, <1>2, PTL DEF SemaphoreSpec

\* The fields keep their types; in particular the count never goes negative,
\* however acquires barge in between a release and the thread it woke.
THEOREM TypeCorrect == SemaphoreSpec => []SemaphoreTypeOK
<1>1. SemaphoreInv => SemaphoreTypeOK
  BY DEF SemaphoreInv
<1> QED BY SemaphoreInvariance, <1>1, PTL

\* A thread asleep in acquire is queued once or already woken, never both and
\* never neither, so no release closes a channel twice.
THEOREM SleepersAreQueued == SemaphoreSpec => []SleepersQueued
<1>1. SemaphoreInv => SleepersQueued
  BY DEF SemaphoreInv
<1> QED BY SemaphoreInvariance, <1>1, PTL

\* Permits are conserved, and a bounded semaphore stays under its ceiling.
THEOREM PermitsAreConserved == SemaphoreSpec => []PermitsConserved
<1>1. SemaphoreInv => PermitsConserved
  BY DEF SemaphoreInv
<1> QED BY SemaphoreInvariance, <1>1, PTL

\* No wakeup is lost: a free permit beside a sleeper is always matched by a
\* woken thread on its way to ask for it.
THEOREM NoWakeupIsLost == SemaphoreSpec => []NoLostWakeup
<1>1. SemaphoreInv => NoLostWakeup
  BY DEF SemaphoreInv
<1> QED BY SemaphoreInvariance, <1>1, PTL

\* A timed acquire that parked and returns False leaves no permit unclaimed.
THEOREM RefusalIsJust == SemaphoreSpec => RefusedOnlyIfClaimed
<1> DEFINE A == \A t \in Thread : refused(t) => value <= Cardinality(inFlight \ {t})
<1>1. SemaphoreInv /\ [SemaphoreNext]_semaphoreVars => [A]_semaphoreVars
  <2> SUFFICES ASSUME SemaphoreInv, SemaphoreNext, NEW t \in Thread, refused(t)
               PROVE  value <= Cardinality(inFlight \ {t})
    OBVIOUS
  <2>1. inFlight \subseteq Thread
    BY DEF inFlight
  <2>2. Cardinality(inFlight \ {t}) \in Nat
    BY <2>1, InFlightFinite
  <2>3. CASE value = 0
    BY <2>2, <2>3
  <2>4. CASE reclaim(t) /\ t \in Range(sleepers)
    <3>1. sleepers # <<>> /\ t \notin inFlight
      BY <2>4 DEF SemaphoreInv, SemaphoreTypeOK, SleepersQueued, inFlight, reclaim, Range
    <3>2. inFlight \ {t} = inFlight
      BY <3>1
    <3> QED BY <3>1, <3>2 DEF SemaphoreInv, NoLostWakeup
  <2>5. ASSUME NEW u \in Thread,
               (\E h \in BOOLEAN : acquirePermit(u, h)) \/ wokenAcquire(u) \/ timerFires(u)
                 \/ reclaim(u) \/ late(u)
        PROVE  value = 0 \/ (reclaim(t) /\ t \in Range(sleepers))
    <3>1. outstanding \in Int /\ stage \in [Thread -> Stages]
      BY DEF SemaphoreInv, SemaphoreTypeOK
    <3>2. CASE u # t
      BY <2>5, <3>1, <3>2
         DEF refused, acquirePermit, wokenAcquire, timerFires, reclaim, late, take, sleep, giveUp
    <3>3. CASE u = t
      <4>1. ~take(t)
        BY <3>1 DEF take, refused
      <4> QED BY <2>5, <3>1, <3>3, <4>1
              DEF refused, acquirePermit, wokenAcquire, timerFires, reclaim, late, sleep, giveUp, Range
    <3> QED BY <3>2, <3>3
  <2>6. ASSUME NEW n \in 1..MaxN PROVE ~releasePermits(n)
    BY DEF releasePermits, refused
  <2> QED BY <2>3, <2>4, <2>5, <2>6 DEF SemaphoreNext
<1> QED BY SemaphoreInvariance, <1>1, PTL DEF SemaphoreSpec, RefusedOnlyIfClaimed

\* Only a call with a timeout meets its deadline: the part of the refinement that
\* the inductive invariant does not say.
ExpiredAreTimed == \A t \in Thread : stage[t] \in {"expired", "late"} => withTimeout[t]

\* ... and every step keeps it.
LEMMA TimedInvariance == SemaphoreSpec => []ExpiredAreTimed
<1>1. SemaphoreInit => ExpiredAreTimed
  BY DEF SemaphoreInit, ExpiredAreTimed
<1>2. SemaphoreInv /\ ExpiredAreTimed /\ [SemaphoreNext]_semaphoreVars => ExpiredAreTimed'
  <2> SUFFICES ASSUME SemaphoreInv, ExpiredAreTimed, [SemaphoreNext]_semaphoreVars PROVE ExpiredAreTimed'
    OBVIOUS
  <2>1. stage \in [Thread -> Stages] /\ withTimeout \in [Thread -> BOOLEAN]
    BY DEF SemaphoreInv, SemaphoreTypeOK
  <2>2. CASE UNCHANGED semaphoreVars
    BY <2>2 DEF semaphoreVars, ExpiredAreTimed
  <2>3. ASSUME NEW t \in Thread, NEW h \in BOOLEAN, acquirePermit(t, h) PROVE ExpiredAreTimed'
    BY <2>1, <2>3 DEF acquirePermit, take, sleep, ExpiredAreTimed
  <2>4. ASSUME NEW t \in Thread, wokenAcquire(t) \/ late(t) PROVE ExpiredAreTimed'
    BY <2>1, <2>4 DEF wokenAcquire, late, take, sleep, giveUp, ExpiredAreTimed
  <2>5. ASSUME NEW t \in Thread, timerFires(t) \/ reclaim(t) PROVE ExpiredAreTimed'
    BY <2>1, <2>5 DEF timerFires, reclaim, ExpiredAreTimed
  <2>6. ASSUME NEW n \in 1..MaxN, releasePermits(n) PROVE ExpiredAreTimed'
    BY <2>6 DEF releasePermits, ExpiredAreTimed
  <2> QED BY <2>2, <2>3, <2>4, <2>5, <2>6 DEF SemaphoreNext
<1> QED BY SemaphoreInvariance, <1>1, <1>2, PTL DEF SemaphoreSpec

\* What a thread's own step does to the calls its callers see.
LEMMA PendingAfter ==
  ASSUME SemaphoreInv, NEW t \in Thread, NEW p \in Stages, NEW h \in BOOLEAN,
         stage' = [stage EXCEPT ![t] = p], withTimeout' = [withTimeout EXCEPT ![t] = h]
  PROVE  pendingCall' = [pendingCall EXCEPT ![t] =
           IF p = "idle" THEN "no" ELSE IF h THEN "timed" ELSE "untimed"]
BY DEF SemaphoreInv, SemaphoreTypeOK, pendingCall

\* The same when the timeout of the call stays.
LEMMA PendingMoves ==
  ASSUME SemaphoreInv, NEW t \in Thread, NEW p \in Stages,
         stage' = [stage EXCEPT ![t] = p], withTimeout' = withTimeout
  PROVE  pendingCall' = [pendingCall EXCEPT ![t] =
           IF p = "idle" THEN "no" ELSE IF withTimeout[t] THEN "timed" ELSE "untimed"]
BY DEF SemaphoreInv, SemaphoreTypeOK, pendingCall

\* Seen by its callers, a step of a thread takes a permit, makes a call pending,
\* gives a timed call up, or changes nothing.
LEMMA ThreadStepImplements ==
  ASSUME SemaphoreInv, ExpiredAreTimed, NEW t \in Thread,
         (\E h \in BOOLEAN : acquirePermit(t, h)) \/ wokenAcquire(t) \/ timerFires(t) \/ reclaim(t) \/ late(t)
  PROVE  Abstract!Next \/ UNCHANGED Abstract!vars
<1>1. /\ stage \in [Thread -> Stages] /\ withTimeout \in [Thread -> BOOLEAN]
      /\ pendingCall = [u \in Thread |-> IF stage[u] = "idle" THEN "no"
                                         ELSE IF withTimeout[u] THEN "timed" ELSE "untimed"]
  BY DEF SemaphoreInv, SemaphoreTypeOK, pendingCall
<1>2. UNCHANGED <<initial, bounded>>
  BY DEF acquirePermit, wokenAcquire, timerFires, reclaim, late
<1>3. {"idle", "parked", "expired", "late"} \subseteq Stages
  BY DEF Stages
<1>4. ASSUME value > 0, value' = value - 1, pendingCall' = [pendingCall EXCEPT ![t] = "no"]
      PROVE  Abstract!Next
  BY <1>2, <1>4 DEF Abstract!Next, Abstract!take
<1>5. ASSUME pendingCall[t] = "no", value = 0, value' = value,
             NEW k \in {"untimed", "timed"}, pendingCall' = [pendingCall EXCEPT ![t] = k]
      PROVE  Abstract!Next
  BY <1>2, <1>5 DEF Abstract!Next, Abstract!wait
<1>6. ASSUME pendingCall[t] = "timed", value' = value,
             pendingCall' = [pendingCall EXCEPT ![t] = "no"]
      PROVE  Abstract!Next
  BY <1>2, <1>6 DEF Abstract!Next, Abstract!giveUp
<1>7. ASSUME value' = value, pendingCall' = [pendingCall EXCEPT ![t] = pendingCall[t]]
      PROVE  UNCHANGED Abstract!vars
  BY <1>1, <1>2, <1>7 DEF Abstract!vars
<1>8. ASSUME NEW h \in BOOLEAN, acquirePermit(t, h) PROVE Abstract!Next
  <2>1. stage[t] = "idle" /\ pendingCall[t] = "no"
    BY <1>1, <1>8 DEF acquirePermit
  <2>2. CASE take(t)
    <3>1. pendingCall' = [pendingCall EXCEPT ![t] = "no"]
      BY <1>3, <1>8, <2>2, PendingAfter DEF acquirePermit, take
    <3> QED BY <1>4, <2>2, <3>1 DEF take
  <2>3. CASE sleep(t)
    <3>1. pendingCall' = [pendingCall EXCEPT ![t] = IF h THEN "timed" ELSE "untimed"]
      BY <1>3, <1>8, <2>3, PendingAfter DEF acquirePermit, sleep
    <3> QED BY <1>5, <2>1, <2>3, <3>1 DEF sleep
  <2> QED BY <1>8, <2>2, <2>3 DEF acquirePermit
<1>9. CASE wokenAcquire(t)
  <2>1. stage[t] = "parked" /\ withTimeout' = withTimeout
    BY <1>9 DEF wokenAcquire
  <2>2. CASE take(t)
    <3>1. pendingCall' = [pendingCall EXCEPT ![t] = "no"]
      BY <1>3, <2>1, <2>2, PendingMoves DEF take
    <3> QED BY <1>4, <2>2, <3>1 DEF take
  <2>3. CASE sleep(t)
    <3>1. pendingCall' = [pendingCall EXCEPT ![t] = pendingCall[t]]
      BY <1>1, <1>3, <2>1, <2>3, PendingMoves DEF sleep
    <3> QED BY <1>7, <2>3, <3>1 DEF sleep
  <2>4. CASE withTimeout[t] /\ giveUp(t)
    <3>1. pendingCall' = [pendingCall EXCEPT ![t] = "no"] /\ pendingCall[t] = "timed"
      BY <1>1, <1>3, <2>1, <2>4, PendingMoves DEF giveUp
    <3> QED BY <1>6, <2>4, <3>1 DEF giveUp
  <2> QED BY <1>9, <2>2, <2>3, <2>4 DEF wokenAcquire
<1>10. CASE timerFires(t)
  <2>1. /\ stage' = [stage EXCEPT ![t] = "expired"] /\ withTimeout' = withTimeout /\ value' = value
        /\ pendingCall[t] = "timed" /\ withTimeout[t]
    BY <1>1, <1>10 DEF timerFires
  <2>2. pendingCall' = [pendingCall EXCEPT ![t] = pendingCall[t]]
    BY <1>3, <2>1, PendingMoves
  <2> QED BY <1>7, <2>1, <2>2
<1>11. CASE reclaim(t)
  <2>1. stage[t] = "expired" /\ withTimeout[t] /\ UNCHANGED <<withTimeout, value>> /\ pendingCall[t] = "timed"
    BY <1>1, <1>11 DEF reclaim, ExpiredAreTimed
  <2>2. CASE stage' = [stage EXCEPT ![t] = "idle"]
    <3>1. pendingCall' = [pendingCall EXCEPT ![t] = "no"]
      BY <1>3, <2>1, <2>2, PendingMoves
    <3> QED BY <1>6, <2>1, <3>1
  <2>3. CASE stage' = [stage EXCEPT ![t] = "late"]
    <3>1. pendingCall' = [pendingCall EXCEPT ![t] = pendingCall[t]]
      BY <1>3, <2>1, <2>3, PendingMoves
    <3> QED BY <1>7, <2>1, <3>1
  <2> QED BY <1>11, <2>2, <2>3 DEF reclaim
<1>12. CASE late(t)
  <2>1. stage[t] = "late" /\ withTimeout' = withTimeout /\ pendingCall[t] = "timed"
    BY <1>1, <1>12 DEF late, ExpiredAreTimed
  <2>2. pendingCall' = [pendingCall EXCEPT ![t] = "no"]
    BY <1>3, <1>12, <2>1, PendingMoves DEF late, take, giveUp
  <2>3. CASE take(t)
    BY <1>4, <2>2, <2>3 DEF take
  <2>4. CASE giveUp(t)
    BY <1>6, <2>1, <2>2, <2>4 DEF giveUp
  <2> QED BY <1>12, <2>3, <2>4 DEF late
<1> QED BY <1>8, <1>9, <1>10, <1>11, <1>12

\* The semaphore of channels and wait queues implements the atomic one: acquire
\* takes a permit, waits or gives up, and release adds permits, each at one
\* instant, for any number of threads.
THEOREM Implementation == SemaphoreSpec => ImplementsSemaphore
<1>1. SemaphoreInit => Abstract!Init
  BY DEF SemaphoreInit, Abstract!Init, pendingCall
<1>2. SemaphoreInv /\ ExpiredAreTimed /\ [SemaphoreNext]_semaphoreVars => [Abstract!Next]_(Abstract!vars)
  <2> SUFFICES ASSUME SemaphoreInv, ExpiredAreTimed, [SemaphoreNext]_semaphoreVars
               PROVE  Abstract!Next \/ UNCHANGED Abstract!vars
    OBVIOUS
  <2>1. CASE UNCHANGED semaphoreVars
    BY <2>1 DEF semaphoreVars, Abstract!vars, pendingCall
  <2>2. ASSUME NEW t \in Thread,
               (\E h \in BOOLEAN : acquirePermit(t, h)) \/ wokenAcquire(t) \/ timerFires(t)
                 \/ reclaim(t) \/ late(t)
        PROVE  Abstract!Next \/ UNCHANGED Abstract!vars
    BY <2>2, ThreadStepImplements
  <2>3. ASSUME NEW n \in 1..MaxN, releasePermits(n) PROVE Abstract!Next
    BY <2>3 DEF releasePermits, room, pendingCall, Abstract!Next, Abstract!release
  <2> QED BY <2>1, <2>2, <2>3 DEF SemaphoreNext
<1> QED BY SemaphoreInvariance, TimedInvariance, <1>1, <1>2, PTL DEF SemaphoreSpec, ImplementsSemaphore, Abstract!Spec
-----------------------------------------------------------------------------
\* LockExact, and what its induction needs of the thread between registering
\* in wait and giving the lock up.
LockInv == LockExact /\ \A t \in Thread : owner = t => depth[t] > 0

\* The inductive invariant.
ConditionInv == ConditionTypeOK /\ LockInv /\ WaitersExact /\ NoLostNotify

\* One step of a thread.
step(t) ==
  \/ \E h \in BOOLEAN : acquire(t, h) \/ waitFor(t, h)
  \/ acquireTimesOut(t) \/ takeInner(t) \/ storeOwner(t) \/ release(t) \/ freeInner(t)
  \/ condReleaseSave(t) \/ wakes(t) \/ timesOut(t) \/ condAcquireRestore(t)
  \/ produce(t) \/ \E n \in 1..Cardinality(Thread) : notify(t, n)
-----------------------------------------------------------------------------
\* removeWaiter leaves the other slots, in a queue without repetition.
LEMMA RemoveWaiterFacts ==
  ASSUME ConditionTypeOK, WaitersExact, NEW t \in Thread
  PROVE  /\ removeWaiter(t) \in Seq(Thread)
         /\ Range(removeWaiter(t)) = Range(waiters) \ {t}
         /\ IsInjective(removeWaiter(t))
         /\ removeWaiter(t) # <<>> => waiters # <<>>
<1>1. waiters \in Seq(Thread) /\ IsInjective(waiters)
  BY DEF ConditionTypeOK, WaitersExact
<1>2. CASE t \in Range(waiters)
  <2> DEFINE i == CHOOSE i \in DOMAIN waiters : waiters[i] = t
  <2>1. \E j \in 1..Len(waiters) : waiters[j] = t
    BY <1>1, <1>2, RangeFacts
  <2>2. DOMAIN waiters = 1..Len(waiters)
    BY <1>1
  <2>3. i \in 1..Len(waiters) /\ waiters[i] = t
    BY <2>1, <2>2
  <2>4. removeWaiter(t) = removeAt(waiters, i)
    BY <1>2 DEF removeWaiter
  <2> HIDE DEF i
  <2> QED BY <1>1, <2>3, <2>4, RemoveAtFacts
<1>3. CASE t \notin Range(waiters)
  BY <1>1, <1>3 DEF removeWaiter
<1> QED BY <1>2, <1>3

\* What a notify(n) pops.
LEMMA NotifyFacts ==
  ASSUME ConditionTypeOK, WaitersExact, NEW n \in Nat, notifyFirst(n)
  PROVE  \E P \in SUBSET Range(waiters) :
           /\ closed' = closed \cup P
           /\ waiters' \in Seq(Thread) /\ IsInjective(waiters')
           /\ Range(waiters') = Range(waiters) \ P
           /\ waiters' # <<>> /\ n # 0 => waiters # <<>> /\ P # {}
           /\ waiters' # <<>> => waiters # <<>>
<1>1. waiters \in Seq(Thread) /\ IsInjective(waiters) /\ Len(waiters) \in Nat
  BY DEF ConditionTypeOK, WaitersExact
<1> DEFINE k == Min({n, Len(waiters)})
           P == {waiters[i] : i \in 1..k}
<1>2. k = IF n <= Len(waiters) THEN n ELSE Len(waiters)
  BY <1>1, MinPair
<1>3. closed' = closed \cup P /\ waiters' = SubSeq(waiters, k + 1, Len(waiters))
  BY DEF notifyFirst
<1> HIDE DEF k
<1>4. k \in 0..Len(waiters)
  BY <1>1, <1>2
<1>5. /\ waiters' \in Seq(Thread) /\ IsInjective(waiters')
      /\ \A x : x \in Range(waiters') <=> x \in Range(waiters) /\ \A i \in 1..k : waiters[i] # x
      /\ waiters' # <<>> => k < Len(waiters)
  BY <1>1, <1>3, <1>4, PopFacts
<1>6. Range(waiters') = Range(waiters) \ P /\ P \subseteq Range(waiters)
  <2>1. \A i \in 1..k : waiters[i] \in Range(waiters)
    BY <1>1, <1>4, RangeFacts
  <2> QED BY <1>5, <2>1
<1>7. k < Len(waiters) => k = n /\ waiters # <<>>
  BY <1>1, <1>2
<1>8. k < Len(waiters) /\ n # 0 => waiters[1] \in P
  BY <1>4, <1>7
<1> QED BY <1>3, <1>5, <1>7, <1>8, <1>6

\* The queue a thread back from wait leaves: without its slot and out of the
\* call, or with a fresh one.
LEMMA RestoreMoves ==
  ASSUME NEW t \in Thread, condAcquireRestore(t)
  PROVE  /\ closed' = closed \ {t}
         /\ \/ waiters' = removeWaiter(t) /\ goto(t, "out")
            \/ waiters' = Append(removeWaiter(t), t) /\ goto(t, "registered")
         /\ \/ items > 0 /\ items' = items - 1 /\ waiters' = removeWaiter(t)
            \/ items = 0 /\ items' = 0
BY Zenon DEF condAcquireRestore, satisfied, register, expire, return

\* Every step preserves the types.
LEMMA TypeStep ==
  ASSUME ConditionTypeOK, LockInv, WaitersExact, NEW t \in Thread, step(t)
  PROVE  ConditionTypeOK'
<1>1. free' \in BOOLEAN
  BY DEF ConditionTypeOK, step, acquire, waitFor, acquireTimesOut, takeInner, storeOwner, release,
         freeInner, condReleaseSave, wakes, timesOut, condAcquireRestore, produce, notify, lock
<1>2. timed' \in [Thread -> BOOLEAN] /\ timeup' \in [Thread -> BOOLEAN]
  BY Zenon DEF ConditionTypeOK, step, acquire, waitFor, acquireTimesOut, takeInner, storeOwner, release,
         freeInner, condReleaseSave, wakes, timesOut, condAcquireRestore, produce, notify,
         satisfied, register, expire, return, call
<1>3. pc' \in [Thread -> PC]
  BY DEF ConditionTypeOK, step, acquire, waitFor, acquireTimesOut, takeInner, storeOwner, release,
         freeInner, condReleaseSave, wakes, timesOut, condAcquireRestore, produce, notify,
         satisfied, register, expire, return, goto, PC, InWait
<1>4. waiters' \in Seq(Thread) /\ closed' \subseteq Thread
  <2>0. waiters \in Seq(Thread) /\ closed \subseteq Thread
    BY DEF ConditionTypeOK
  <2>1. CASE UNCHANGED <<waiters, closed>>
    BY <2>1 DEF ConditionTypeOK
  <2>2. CASE \E n \in Nat : notifyFirst(n)
    <3>1. Range(waiters) \subseteq Thread
      BY RangeFacts DEF ConditionTypeOK
    <3> QED BY <2>2, <3>1, NotifyFacts DEF ConditionTypeOK
  <2>3. CASE condAcquireRestore(t)
    <3>1. removeWaiter(t) \in Seq(Thread)
      BY RemoveWaiterFacts
    <3>2. closed' = closed \ {t} /\ waiters' \in {removeWaiter(t), Append(removeWaiter(t), t)}
      BY <2>3, RestoreMoves
    <3> QED BY <2>0, <3>1, <3>2
  <2>4. CASE \E h \in BOOLEAN : waitFor(t, h)
    <3>1. waiters' \in {waiters, Append(waiters, t)} /\ closed' = closed
      BY <2>4, Zenon DEF waitFor, satisfied, register
    <3> QED BY <2>0, <3>1
  <2>5. \A n \in 1..Cardinality(Thread) : n \in Nat
    BY ThreadAssumption, FS_CardinalityType
  <2>6. CASE produce(t) \/ \E n \in 1..Cardinality(Thread) : notify(t, n)
    BY <2>2, <2>5, <2>6 DEF produce, notify
  <2> QED BY <2>1, <2>3, <2>4, <2>6 DEF step, acquire, acquireTimesOut, takeInner, storeOwner,
             release, freeInner, condReleaseSave, wakes, timesOut, cond
<1>5. owner' \in Thread \cup {nil} /\ items' \in Nat
  BY DEF ConditionTypeOK, step, acquire, waitFor, acquireTimesOut, takeInner, storeOwner, release,
         freeInner, condReleaseSave, wakes, timesOut, condAcquireRestore, produce, notify,
         satisfied, register, expire, lock
<1>6. owner = t => count = depth[t] /\ depth[t] > 0
  BY DEF LockInv, LockExact
<1>7. count' \in Nat /\ saved' \in [Thread -> Nat] /\ depth' \in [Thread -> Nat]
  BY <1>6 DEF ConditionTypeOK, step, acquire, waitFor, acquireTimesOut, takeInner, storeOwner, release,
         freeInner, condReleaseSave, wakes, timesOut, condAcquireRestore, produce, notify,
         satisfied, register, expire, return, lock, call
<1> QED BY <1>1, <1>2, <1>3, <1>4, <1>5, <1>7 DEF ConditionTypeOK

\* Every step keeps the token, the owner and the count of the RLock together.
LEMMA LockStep ==
  ASSUME ConditionTypeOK, LockInv, NEW t \in Thread, step(t)
  PROVE  LockInv'
<1>0. \A u \in Thread : u # nil /\ depth[u] \in Nat /\ pc[u] \in PC
  BY NilAssumption DEF ConditionTypeOK
<1>1. CASE \E h \in BOOLEAN : acquire(t, h)
  BY <1>0, <1>1 DEF acquire, goto, ConditionTypeOK, LockInv, LockExact, holders, cond, PC, InWait
<1>2. CASE acquireTimesOut(t)
  BY <1>0, <1>2 DEF acquireTimesOut, return, goto, ConditionTypeOK, LockInv, LockExact, holders, lock, PC, InWait
<1>3. CASE takeInner(t)
  BY <1>0, <1>3 DEF takeInner, goto, ConditionTypeOK, LockInv, LockExact, holders, call, PC, InWait
<1>4. CASE storeOwner(t)
  BY <1>0, <1>4 DEF storeOwner, return, goto, ConditionTypeOK, LockInv, LockExact, holders, PC, InWait
<1>5. CASE release(t)
  BY <1>0, <1>5 DEF release, goto, ConditionTypeOK, LockInv, LockExact, holders, call, PC, InWait
<1>6. CASE freeInner(t)
  <2>1. holders = {t} /\ owner # t
    BY <1>0, <1>6 DEF freeInner, ConditionTypeOK, LockInv, LockExact, holders
  <2>2. holders' = {}
    BY <1>6, <2>1 DEF freeInner, goto, ConditionTypeOK, holders
  <2> QED BY <1>0, <1>6, <2>1, <2>2 DEF freeInner, goto, call, ConditionTypeOK, LockInv, LockExact, InWait
<1>7. CASE condReleaseSave(t)
  <2>1. owner = t /\ pc[t] = "registered" /\ count = depth[t] /\ depth[t] > 0
    BY <1>7 DEF condReleaseSave, LockInv, LockExact
  <2>2. holders' = holders
    BY <1>0, <1>7, <2>1 DEF condReleaseSave, goto, ConditionTypeOK, LockInv, LockExact, holders
  <2> QED BY <1>0, <1>7, <2>1, <2>2
          DEF condReleaseSave, goto, ConditionTypeOK, LockInv, LockExact, PC, InWait
<1>8. CASE wakes(t) \/ timesOut(t)
  <2>1. holders' = holders
    BY <1>0, <1>8 DEF wakes, timesOut, goto, ConditionTypeOK, LockInv, LockExact, holders, lock
  <2> QED BY <1>0, <1>8, <2>1
          DEF wakes, timesOut, goto, ConditionTypeOK, LockInv, LockExact, lock, call, PC, InWait
<1>9. CASE condAcquireRestore(t)
  BY <1>0, <1>9 DEF condAcquireRestore, satisfied, register, expire, return, goto, ConditionTypeOK,
                    LockInv, LockExact, holders, PC, InWait
<1>10. CASE \E h \in BOOLEAN : waitFor(t, h)
  BY <1>0, <1>10 DEF waitFor, satisfied, register, return, goto, ConditionTypeOK, LockInv, LockExact,
                     holders, lock, PC, InWait
<1>11. CASE produce(t) \/ \E n \in 1..Cardinality(Thread) : notify(t, n)
  BY <1>11 DEF produce, notify, LockInv, LockExact, holders, lock, call
<1> QED BY <1>1, <1>2, <1>3, <1>4, <1>5, <1>6, <1>7, <1>8, <1>9, <1>10, <1>11 DEF step

\* A step that touches neither the queue nor the client's items, and moves no
\* thread into or out of wait.
LEMMA QuietStep ==
  ASSUME WaitersExact, NoLostNotify, UNCHANGED <<waiters, closed, items>>,
         \A u \in Thread : pc'[u] \in InWait <=> pc[u] \in InWait
  PROVE  WaitersExact' /\ NoLostNotify'
BY DEF WaitersExact, NoLostNotify

\* Every step keeps the waiter queue, and no notify of an item is lost.
LEMMA WaitersStep ==
  ASSUME ConditionInv, NEW t \in Thread, step(t)
  PROVE  WaitersExact' /\ NoLostNotify'
<1>1. /\ waiters \in Seq(Thread) /\ closed \subseteq Thread /\ items \in Nat
      /\ IsInjective(waiters) /\ Range(waiters) \subseteq Thread
      /\ pc \in [Thread -> PC]
      /\ \A u \in Thread : u \in Range(waiters) \cup closed <=> pc[u] \in InWait
      /\ Range(waiters) \cap closed = {}
      /\ waiters # <<>> => items <= Cardinality(closed)
  BY RangeFacts DEF ConditionInv, ConditionTypeOK, WaitersExact, NoLostNotify
<1>2. CASE \E h \in BOOLEAN : acquire(t, h)
  BY <1>1, <1>2, QuietStep DEF ConditionInv, acquire, goto, cond, InWait
<1>3. CASE acquireTimesOut(t) \/ storeOwner(t)
  BY <1>1, <1>3, QuietStep DEF ConditionInv, acquireTimesOut, storeOwner, return, goto, cond, InWait
<1>4. CASE takeInner(t) \/ freeInner(t) \/ release(t)
  BY <1>1, <1>4, QuietStep DEF ConditionInv, takeInner, freeInner, release, goto, cond, InWait
<1>5. CASE condReleaseSave(t) \/ wakes(t) \/ timesOut(t)
  BY <1>1, <1>5, QuietStep DEF ConditionInv, condReleaseSave, wakes, timesOut, goto, cond, InWait
<1>6. CASE \E h \in BOOLEAN : waitFor(t, h)
  <2>1. /\ pc[t] = "out" /\ closed' = closed
        /\ \/ waiters' = waiters /\ items' = items - 1 /\ items > 0 /\ goto(t, "out")
           \/ waiters' = Append(waiters, t) /\ items' = items /\ items = 0 /\ goto(t, "registered")
    BY <1>6, Zenon DEF waitFor, satisfied, register, return
  <2>2. t \notin Range(waiters) \cup closed
    BY <1>1, <2>1 DEF InWait
  <2>3. CASE waiters' = waiters /\ items' = items - 1 /\ items > 0 /\ goto(t, "out")
    <3>1. pc' = pc
      BY <1>1, <2>1, <2>3 DEF goto
    <3>2. Cardinality(closed) \in Nat
      BY <1>1, ThreadAssumption, FS_Subset, FS_CardinalityType
    <3> QED BY <1>1, <2>1, <2>3, <3>1, <3>2 DEF WaitersExact, NoLostNotify, ConditionInv
  <2>4. CASE waiters' = Append(waiters, t) /\ items' = items /\ items = 0 /\ goto(t, "registered")
    <3>1. Range(waiters') = Range(waiters) \cup {t} /\ IsInjective(waiters')
      BY <1>1, <2>2, <2>4, AppendFacts
    <3>2. Cardinality(closed) \in Nat
      BY <1>1, ThreadAssumption, FS_Subset, FS_CardinalityType
    <3>3. {u \in Thread : pc'[u] \in InWait} = {u \in Thread : pc[u] \in InWait} \cup {t}
      BY <1>1, <2>4 DEF goto, InWait
    <3> QED BY <1>1, <2>1, <2>2, <2>4, <3>1, <3>2, <3>3 DEF WaitersExact, NoLostNotify
  <2> QED BY <2>1, <2>3, <2>4
<1>7. CASE condAcquireRestore(t)
  <2> DEFINE q == removeWaiter(t)
  <2>1. q \in Seq(Thread) /\ Range(q) = Range(waiters) \ {t} /\ IsInjective(q)
        /\ (q # <<>> => waiters # <<>>)
    BY RemoveWaiterFacts DEF ConditionInv
  <2>2. /\ closed' = closed \ {t}
        /\ \/ waiters' = q /\ goto(t, "out")
           \/ waiters' = Append(q, t) /\ goto(t, "registered")
        /\ \/ items > 0 /\ items' = items - 1 /\ waiters' = q
           \/ items = 0 /\ items' = 0
    BY <1>7, RestoreMoves
  <2> HIDE DEF q
  <2>3. pc[t] \in InWait
    BY <1>7 DEF condAcquireRestore, InWait
  <2>4. NoLostNotify'
    <3>1. Cardinality(closed) - 1 <= Cardinality(closed') /\ Cardinality(closed') \in Nat
          /\ Cardinality(closed) \in Nat
      BY <1>1, <2>2, ThreadAssumption, CountFacts
    <3> QED BY <1>1, <2>1, <2>2, <3>1 DEF NoLostNotify
  <2>5. CASE waiters' = q /\ goto(t, "out")
    <3>1. {u \in Thread : pc'[u] \in InWait} = {u \in Thread : pc[u] \in InWait} \ {t}
      BY <1>1, <2>5 DEF goto, InWait
    <3> QED BY <1>1, <2>1, <2>2, <2>4, <2>5, <3>1 DEF WaitersExact
  <2>6. CASE waiters' = Append(q, t) /\ goto(t, "registered")
    <3>1. Range(waiters') = Range(waiters) \cup {t} /\ IsInjective(waiters')
      BY <2>1, <2>6, AppendFacts
    <3>2. {u \in Thread : pc'[u] \in InWait} = {u \in Thread : pc[u] \in InWait}
      BY <1>1, <2>3, <2>6 DEF goto, InWait
    <3> QED BY <1>1, <2>2, <2>3, <2>4, <3>1, <3>2 DEF WaitersExact
  <2> QED BY <2>2, <2>5, <2>6
<1>8. ASSUME NEW n \in Nat \ {0}, notifyFirst(n), pc' = pc,
             items' = items \/ items' = items + 1
      PROVE  WaitersExact' /\ NoLostNotify'
  <2>1. PICK P \in SUBSET Range(waiters) :
           /\ closed' = closed \cup P
           /\ IsInjective(waiters') /\ Range(waiters') = Range(waiters) \ P
           /\ waiters' # <<>> => waiters # <<>> /\ P # {}
    BY <1>8, NotifyFacts DEF ConditionInv
  <2>2. WaitersExact'
    BY <1>1, <1>8, <2>1 DEF WaitersExact
  <2>3. ASSUME waiters' # <<>> PROVE items' <= Cardinality(closed')
    <3>1. PICK x : x \in P
      BY <2>1, <2>3
    <3>2. closed \cup {x} \subseteq closed' /\ x \notin closed /\ closed' \in SUBSET Thread
      BY <1>1, <2>1, <3>1
    <3>3. Cardinality(closed) + 1 <= Cardinality(closed') /\ Cardinality(closed) \in Nat
          /\ Cardinality(closed') \in Nat
      BY <1>1, <3>2, ThreadAssumption, CountFacts
    <3> QED BY <1>1, <1>8, <2>1, <2>3, <3>3
  <2> QED BY <2>2, <2>3 DEF NoLostNotify
<1>9. CASE produce(t)
  BY <1>8, <1>9 DEF produce
<1>10. CASE \E n \in 1..Cardinality(Thread) : notify(t, n)
  <2>1. \A n \in 1..Cardinality(Thread) : n \in Nat \ {0}
    BY ThreadAssumption, FS_CardinalityType
  <2> QED BY <1>8, <1>10, <2>1 DEF notify
<1> QED BY <1>2, <1>3, <1>4, <1>5, <1>6, <1>7, <1>9, <1>10 DEF step

\* The inductive invariant holds of every state of the condition.
THEOREM ConditionInvariance == ConditionSpec => []ConditionInv
<1>1. ConditionInit => ConditionInv
  <2> SUFFICES ASSUME ConditionInit PROVE ConditionInv
    OBVIOUS
  <2>1. ConditionTypeOK /\ LockInv
    BY NilAssumption DEF ConditionInit, ConditionTypeOK, LockInv, LockExact, holders, PC, InWait
  <2>2. WaitersExact /\ NoLostNotify
    <3>1. Range(<<>>) = {} /\ IsInjective(<<>>)
      BY DEF Range, IsInjective
    <3> QED BY <3>1 DEF ConditionInit, WaitersExact, NoLostNotify, InWait
  <2> QED BY <2>1, <2>2 DEF ConditionInv
<1>2. ConditionInv /\ [ConditionNext]_conditionVars => ConditionInv'
  <2> SUFFICES ASSUME ConditionInv, [ConditionNext]_conditionVars PROVE ConditionInv'
    OBVIOUS
  <2>1. CASE UNCHANGED conditionVars
    BY <2>1 DEF conditionVars, ConditionInv, ConditionTypeOK, LockInv, LockExact, holders, WaitersExact, NoLostNotify
  <2>2. CASE \E t \in Thread : step(t)
    BY <2>2, TypeStep, LockStep, WaitersStep DEF ConditionInv
  <2> QED BY <2>1, <2>2 DEF ConditionNext, step
<1> QED BY <1>1, <1>2, PTL DEF ConditionSpec

\* The three stores of the RLock stay one lock, and a wait gives up and brings
\* back every level of recursion (lock.go:251-268).
THEOREM Lock == ConditionSpec => []LockExact
BY ConditionInvariance, PTL DEF ConditionInv, LockInv

\* notify closes each waiter's channel once, and only of calls in progress.
THEOREM Waiters == ConditionSpec => []WaitersExact
BY ConditionInvariance, PTL DEF ConditionInv

\* No notify is lost to a thread on its way to sleep or timing out
\* (cond.go:58-67), whatever the number of threads, levels and items.
THEOREM Notifies == ConditionSpec => []NoLostNotify
BY ConditionInvariance, PTL DEF ConditionInv
-----------------------------------------------------------------------------
\* The strengthening.
Distinct ==
  /\ \A t \in Thread : place[t] # "waiting" => mates[t] = {}
  /\ state = "filling" => \A t, u \in waiting : index[t] = index[u] => t = u

\* The inductive invariant.
BarrierInv == BarrierTypeOK /\ RoundsDoNotMix /\ NoMissedBroadcast /\ Distinct

\* The counted parties are finitely many.
LEMMA WaitingFacts ==
  ASSUME NEW t
  PROVE  /\ IsFiniteSet(waiting) /\ Cardinality(waiting) \in Nat
         /\ IsFiniteSet(waiting \cup {t}) /\ IsFiniteSet(waiting \ {t})
         /\ t \notin waiting => Cardinality(waiting \cup {t}) = Cardinality(waiting) + 1
         /\ t \in waiting => Cardinality(waiting \ {t}) = Cardinality(waiting) - 1
         /\ Cardinality(waiting) = 0 <=> waiting = {}
<1>1. IsFiniteSet(waiting)
  BY ThreadAssumption, FS_Subset DEF waiting
<1>2. Cardinality(waiting) \in Nat /\ (Cardinality(waiting) = 0 <=> waiting = {})
  BY <1>1, FS_CardinalityType, FS_EmptySet
<1>3. /\ IsFiniteSet(waiting \cup {t})
      /\ t \notin waiting => Cardinality(waiting \cup {t}) = Cardinality(waiting) + 1
  BY <1>1, FS_AddElement
<1>4. /\ IsFiniteSet(waiting \ {t})
      /\ t \in waiting => Cardinality(waiting \ {t}) = Cardinality(waiting) - 1
  BY <1>1, FS_RemoveElement
<1> QED BY <1>1, <1>2, <1>3, <1>4

\* A thread leaves a wait it was not counted in: nothing moves but its wake.
LEMMA UncountedLeaves ==
  ASSUME BarrierInv, NEW t \in Thread, t \notin waiting, state = "broken", getOut(t),
         woken' = woken \ {t}, UNCHANGED <<state, arrived, mates>>
  PROVE  BarrierInv'
<1>1. waiting' = waiting /\ parked' = parked \ {t}
  BY DEF BarrierInv, BarrierTypeOK, getOut, waiting, parked
<1>2. BarrierTypeOK'
  BY DEF BarrierInv, BarrierTypeOK, getOut
<1>3. RoundsDoNotMix' /\ Distinct'
  BY <1>1 DEF BarrierInv, BarrierTypeOK, getOut, RoundsDoNotMix, Distinct, waiting
<1>4. NoMissedBroadcast'
  BY <1>1 DEF BarrierInv, BarrierTypeOK, getOut, NoMissedBroadcast, waiting, parked
<1> QED BY <1>2, <1>3, <1>4 DEF BarrierInv

\* A newcomer parks behind a round that has yet to drain.
LEMMA EnterParks ==
  ASSUME BarrierInv, NEW t \in Thread, NEW h \in BOOLEAN, t \notin waiting,
         state \in {"resetting", "draining"}, place' = [place EXCEPT ![t] = "entering"],
         hasTimeout' = [hasTimeout EXCEPT ![t] = h], woken' = woken \ {t},
         UNCHANGED <<state, arrived, index, mates>>
  PROVE  BarrierInv'
<1>1. waiting' = waiting /\ parked' = parked \cup {t}
  BY DEF BarrierInv, BarrierTypeOK, waiting, parked
<1>2. BarrierTypeOK'
  BY DEF BarrierInv, BarrierTypeOK
<1>3. RoundsDoNotMix' /\ Distinct'
  BY <1>1 DEF BarrierInv, BarrierTypeOK, RoundsDoNotMix, Distinct, waiting
<1>4. NoMissedBroadcast'
  BY <1>1 DEF BarrierInv, BarrierTypeOK, NoMissedBroadcast, waiting, parked
<1> QED BY <1>2, <1>3, <1>4 DEF BarrierInv

\* A party is counted into a filling barrier.
LEMMA ParkStep ==
  ASSUME BarrierInv, NEW t \in Thread, NEW h \in BOOLEAN, t \notin waiting, state = "filling",
         park(t, h)
  PROVE  BarrierInv'
<1>1. waiting' = waiting \cup {t} /\ parked' = parked \cup {t}
  BY DEF BarrierInv, BarrierTypeOK, park, waiting, parked
<1>2. BarrierTypeOK'
  BY DEF BarrierInv, BarrierTypeOK, park
<1>3. arrived = Cardinality(waiting) /\ arrived < Parties /\ arrived \in Nat
  BY DEF BarrierInv, BarrierTypeOK, RoundsDoNotMix
<1>4. arrived' = Cardinality(waiting') /\ arrived' = arrived + 1 /\ arrived' < Parties
  <2>1. Cardinality(waiting \cup {t}) = Cardinality(waiting) + 1
    BY WaitingFacts
  <2>2. arrived' = arrived + 1 /\ arrived + 1 # Parties
    BY DEF park
  <2> QED BY <1>1, <1>3, <2>1, <2>2, PartiesAssumption
<1>5. index'[t] = arrived /\ \A u \in waiting : index'[u] = index[u]
  BY DEF BarrierInv, BarrierTypeOK, park, waiting
<1>6. {index[u] : u \in waiting} = 0..(arrived - 1)
  BY DEF BarrierInv, RoundsDoNotMix
<1>7. {index'[u] : u \in waiting'} = {index[u] : u \in waiting} \cup {arrived}
  BY <1>1, <1>5
<1>8. 0..(arrived - 1) \cup {arrived} = 0..(arrived' - 1)
  BY <1>3, <1>4
<1>9. \A u, v \in waiting' : index'[u] = index'[v] => u = v
  <2>1. \A u \in waiting : index[u] \in 0..(arrived - 1)
    BY <1>6
  <2>2. \A u \in waiting : index[u] # arrived
    BY <2>1, <1>3
  <2> QED BY <1>1, <1>5, <2>2 DEF BarrierInv, Distinct
<1>10. \A u \in waiting' : mates'[u] = {}
  BY <1>1 DEF BarrierInv, RoundsDoNotMix, Distinct, park, waiting
<1>11. RoundsDoNotMix'
  BY <1>4, <1>6, <1>7, <1>8, <1>10 DEF RoundsDoNotMix, park
<1>12. Distinct'
  BY <1>9 DEF BarrierInv, BarrierTypeOK, Distinct, park
<1>13. NoMissedBroadcast'
  BY <1>1 DEF BarrierInv, BarrierTypeOK, NoMissedBroadcast, park, waiting, parked
<1> QED BY <1>2, <1>11, <1>12, <1>13 DEF BarrierInv

\* The last party trips the barrier, or its action breaks it.
LEMMA ReleaseRoundStep ==
  ASSUME BarrierInv, NEW t \in Thread, t \notin waiting, state = "filling", releaseRound(t)
  PROVE  BarrierInv'
<1>1. waiting' = waiting /\ parked' = parked \ {t}
  BY DEF BarrierInv, BarrierTypeOK, releaseRound, getOut, waiting, parked
<1>2. BarrierTypeOK'
  <2>1. woken' \subseteq Thread /\ state' \in {"filling", "draining", "resetting", "broken"}
    BY DEF BarrierInv, BarrierTypeOK, releaseRound, exit, others, parked
  <2>2. mates' \in [Thread -> SUBSET Thread]
    BY DEF BarrierInv, BarrierTypeOK, releaseRound, waiting
  <2> QED BY <2>1, <2>2 DEF BarrierInv, BarrierTypeOK, releaseRound, getOut
<1>3. arrived = Cardinality(waiting) /\ arrived' = arrived /\ (arrived = 0 <=> waiting = {})
  BY WaitingFacts DEF BarrierInv, RoundsDoNotMix, releaseRound
<1>4. \A u \in waiting : index'[u] = index[u]
  BY DEF BarrierInv, BarrierTypeOK, releaseRound, getOut, waiting
<1>5. CASE exit(t, "draining", arrived) /\ mates' =
             [u \in Thread |-> IF u \in waiting THEN waiting \cup {t} ELSE {}]
  <2>1. \A u \in waiting : mates'[u] = waiting \cup {t}
    BY <1>5 DEF waiting
  <2>2. Cardinality(waiting \cup {t}) = Parties
    BY <1>3, WaitingFacts DEF releaseRound
  <2>3. woken' = parked \ {t} /\ state' = (IF arrived = 0 THEN "filling" ELSE "draining")
    BY <1>5 DEF exit, others
  <2>4. RoundsDoNotMix'
    <3>1. CASE arrived = 0
      <4>1. waiting' = {} /\ {index'[u] : u \in waiting'} = {} /\ 0..(arrived' - 1) = {}
        BY <3>1, <1>1, <1>3
      <4>2. state' = "filling" /\ arrived' = 0 /\ arrived' = Cardinality(waiting')
        BY <3>1, <1>1, <1>3, <2>3
      <4>3. 0 < Parties
        BY PartiesAssumption
      <4> QED BY ONLY <4>1, <4>2, <4>3 DEF RoundsDoNotMix
    <3>2. CASE arrived # 0
      <4>1. state' = "draining" /\ arrived' = Cardinality(waiting') /\ waiting' # {}
        BY <3>2, <1>1, <1>3, <2>3
      <4>2. \A u, v \in waiting' : index'[u] = index'[v] => u = v
        BY <1>1, <1>4 DEF BarrierInv, Distinct
      <4>3. \A u \in waiting' : mates'[u] = waiting \cup {t}
        BY <1>1, <2>1
      <4> QED BY ONLY <1>1, <2>2, <4>1, <4>2, <4>3 DEF RoundsDoNotMix
    <3> QED BY <3>1, <3>2
  <2>5. Distinct'
    BY <1>1, <1>3, <1>5, <2>3 DEF Distinct, waiting
  <2>6. NoMissedBroadcast'
    BY <1>1, <1>3, <2>3 DEF NoMissedBroadcast
  <2> QED BY <1>2, <2>4, <2>5, <2>6 DEF BarrierInv
<1>6. CASE exit(t, "broken", arrived) /\ UNCHANGED mates
  <2>1. woken' = parked \ {t} /\ state' = "broken"
    BY <1>6 DEF exit, others
  <2>2. RoundsDoNotMix'
    BY <1>1, <1>3, <2>1 DEF RoundsDoNotMix
  <2>3. Distinct'
    BY <1>6, <2>1 DEF BarrierInv, BarrierTypeOK, Distinct, releaseRound, getOut, waiting
  <2>4. NoMissedBroadcast'
    BY <1>1, <2>1 DEF NoMissedBroadcast
  <2> QED BY <1>2, <2>2, <2>3, <2>4 DEF BarrierInv
<1> QED BY <1>5, <1>6 DEF releaseRound

\* A newcomer, arriving or woken, at the head of enter's loop.
LEMMA EnterStep ==
  ASSUME BarrierInv, NEW t \in Thread, NEW h \in BOOLEAN, t \notin waiting, enter(t, h)
  PROVE  BarrierInv'
BY EnterParks, UncountedLeaves, ReleaseRoundStep, ParkStep DEF enter

\* A counted party leaves a round that is over, or that it breaks.
LEMMA LeaveStep ==
  ASSUME BarrierInv, NEW t \in Thread, t \in waiting,
         NEW s \in {"draining", "resetting", "broken"},
         s # state => s = "broken",
         leave(t, s)
  PROVE  BarrierInv'
<1>1. waiting' = waiting \ {t} /\ parked' = parked \ {t}
  BY DEF BarrierInv, BarrierTypeOK, leave, getOut, waiting, parked
<1>2. /\ arrived = Cardinality(waiting) /\ arrived' = arrived - 1 /\ arrived' = Cardinality(waiting')
      /\ arrived' \in Nat /\ (arrived' = 0 <=> waiting' = {})
  <2>1. arrived = Cardinality(waiting) /\ arrived' = arrived - 1 /\ arrived \in Nat
    BY DEF BarrierInv, BarrierTypeOK, RoundsDoNotMix, leave
  <2>2. Cardinality(waiting \ {t}) = Cardinality(waiting) - 1 /\ IsFiniteSet(waiting \ {t})
    BY WaitingFacts
  <2>3. /\ Cardinality(waiting \ {t}) \in Nat
        /\ Cardinality(waiting \ {t}) = 0 <=> waiting \ {t} = {}
    BY <2>2, FS_CardinalityType, FS_EmptySet
  <2> QED BY <1>1, <2>1, <2>2, <2>3
<1>3. \A u \in waiting' : index'[u] = index[u] /\ mates'[u] = mates[u]
  BY <1>1 DEF BarrierInv, BarrierTypeOK, leave, getOut, waiting
<1>4. /\ state' = (IF arrived' = 0 /\ s # "broken" THEN "filling" ELSE s)
      /\ woken' = (IF state' = state THEN woken \ {t} ELSE parked \ {t})
  BY <1>2 DEF leave, exit, others
<1>5. BarrierTypeOK'
  <2>1. woken' \subseteq Thread /\ state' \in {"filling", "draining", "resetting", "broken"}
    BY <1>4 DEF BarrierInv, BarrierTypeOK, parked
  <2> QED BY <1>2, <2>1 DEF BarrierInv, BarrierTypeOK, leave, getOut
<1>6. RoundsDoNotMix'
  <2>1. CASE state' = "filling"
    <3>1. arrived' = 0 /\ waiting' = {}
      BY <1>2, <1>4, <2>1
    <3>2. {index'[u] : u \in waiting'} = {} /\ 0..(arrived' - 1) = {}
      BY <3>1
    <3> QED BY <2>1, <3>1, <3>2, <1>2, PartiesAssumption DEF RoundsDoNotMix
  <2>2. CASE state' = "draining"
    <3>1. state = "draining" /\ waiting' # {}
      BY <1>2, <1>4, <2>2
    <3> QED BY <2>2, <3>1, <1>1, <1>2, <1>3 DEF BarrierInv, RoundsDoNotMix
  <2>3. CASE state' \notin {"filling", "draining"}
    BY <2>3, <1>2 DEF RoundsDoNotMix
  <2> QED BY <2>1, <2>2, <2>3
<1>7. Distinct'
  <2>1. state' = "filling" => waiting' = {}
    BY <1>2, <1>4
  <2>2. \A u \in Thread : place'[u] # "waiting" => mates'[u] = {}
    BY DEF BarrierInv, BarrierTypeOK, Distinct, leave, getOut
  <2> QED BY <2>1, <2>2 DEF Distinct
<1>8. NoMissedBroadcast'
  <2>1. CASE state' = state
    <3>1. \A u \in parked' : place'[u] = place[u] /\ u # t
      BY <1>1 DEF BarrierInv, BarrierTypeOK, leave, getOut, parked
    <3> QED BY <2>1, <3>1, <1>1, <1>4 DEF BarrierInv, NoMissedBroadcast
  <2>2. CASE state' # state
    BY <2>2, <1>1, <1>2, <1>4 DEF NoMissedBroadcast
  <2> QED BY <2>1, <2>2
<1> QED BY <1>5, <1>6, <1>7, <1>8 DEF BarrierInv

\* reset and abort move only the state and wake everybody.
LEMMA BroadcastStep ==
  ASSUME BarrierInv, reset \/ abort
  PROVE  BarrierInv'
<1>1. waiting' = waiting /\ parked' = parked /\ woken' = parked
  BY DEF reset, abort, waiting, parked
<1>2. /\ arrived' = arrived /\ arrived = Cardinality(waiting) /\ (arrived = 0 <=> waiting = {})
      /\ index' = index /\ mates' = mates /\ place' = place
  BY WaitingFacts DEF BarrierInv, RoundsDoNotMix, reset, abort
<1>3. /\ state' = "filling" => waiting' = {}
      /\ state' = "draining" => state = "draining"
      /\ state' \in {"filling", "draining", "resetting", "broken"}
  BY <1>1, <1>2 DEF BarrierInv, BarrierTypeOK, reset, abort
<1>4. BarrierTypeOK'
  BY <1>1, <1>3 DEF BarrierInv, BarrierTypeOK, reset, abort, parked
<1>5. RoundsDoNotMix'
  <2>1. CASE state' = "filling"
    <3>1. arrived' = 0 /\ waiting' = {} /\ {index'[u] : u \in waiting'} = {}
      BY <1>1, <1>2, <1>3, <2>1
    <3>2. 0..(arrived' - 1) = {}
      BY <3>1
    <3> QED BY <2>1, <3>1, <3>2, <1>1, <1>2, PartiesAssumption DEF RoundsDoNotMix
  <2>2. CASE state' # "filling"
    BY <2>2, <1>1, <1>2, <1>3 DEF BarrierInv, RoundsDoNotMix
  <2> QED BY <2>1, <2>2
<1>6. Distinct'
  BY <1>1, <1>2, <1>3 DEF BarrierInv, Distinct
<1>7. NoMissedBroadcast'
  BY <1>1, <1>3 DEF NoMissedBroadcast
<1> QED BY <1>4, <1>5, <1>6, <1>7 DEF BarrierInv

\* Every step of the barrier preserves the inductive invariant.
LEMMA Preserved == BarrierInv /\ [BarrierNext]_barrierVars => BarrierInv'
<1> SUFFICES ASSUME BarrierInv, [BarrierNext]_barrierVars PROVE BarrierInv'
  OBVIOUS
<1>1. CASE UNCHANGED barrierVars
  BY <1>1 DEF barrierVars, BarrierInv, BarrierTypeOK, RoundsDoNotMix, NoMissedBroadcast, Distinct, waiting, parked
<1>2. ASSUME NEW t \in Thread, NEW h \in BOOLEAN, wait(t, h) PROVE BarrierInv'
  BY <1>2, EnterStep DEF wait, waiting
<1>3. ASSUME NEW t \in Thread, reenter(t) PROVE BarrierInv'
  <2>1. hasTimeout[t] \in BOOLEAN
    BY DEF BarrierInv, BarrierTypeOK
  <2> QED BY <1>3, <2>1, EnterStep DEF reenter, waiting
<1>4. ASSUME NEW t \in Thread, drained(t) PROVE BarrierInv'
  BY <1>4, LeaveStep DEF drained, waiting, BarrierInv, BarrierTypeOK
<1>5. ASSUME NEW t \in Thread, waitTimesOut(t) PROVE BarrierInv'
  BY <1>5, LeaveStep DEF waitTimesOut, waiting, BarrierInv, BarrierTypeOK
<1> QED BY <1>1, <1>2, <1>3, <1>4, <1>5, BroadcastStep DEF BarrierNext

\* The inductive invariant holds of every state of the barrier.
THEOREM BarrierInvariance == BarrierSpec => []BarrierInv
<1>1. BarrierInit => BarrierInv
  <2> SUFFICES ASSUME BarrierInit PROVE BarrierInv
    OBVIOUS
  <2>1. waiting = {} /\ parked = {}
    BY DEF BarrierInit, waiting, parked
  <2>2. Cardinality({}) = 0 /\ 0..(0 - 1) = {}
    BY FS_EmptySet
  <2>3. RoundsDoNotMix
    <3>1. {index[t] : t \in waiting} = {}
      BY <2>1
    <3> QED BY <2>1, <2>2, <3>1, PartiesAssumption DEF BarrierInit, RoundsDoNotMix
  <2> QED BY <2>1, <2>3 DEF BarrierInit, BarrierInv, BarrierTypeOK, NoMissedBroadcast, Distinct
<1> QED BY <1>1, Preserved, PTL DEF BarrierSpec

\* No two rounds of the barrier mix (barrier.go:130-138, 170-190), whatever the
\* number of threads and parties.
THEOREM Rounds == BarrierSpec => []RoundsDoNotMix
BY BarrierInvariance, PTL DEF BarrierInv

\* No parked thread sleeps through the broadcast that ends its wait.
THEOREM Broadcasts == BarrierSpec => []NoMissedBroadcast
BY BarrierInvariance, PTL DEF BarrierInv
=============================================================================
