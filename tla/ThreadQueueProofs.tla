-------------------------- MODULE ThreadQueueProofs --------------------------
(***************************************************************************)
(* The safety properties of queue.Queue, LifoQueue and PriorityQueue, for  *)
(* any finite set of threads, any maxsize and any bounds.                  *)
(*                                                                         *)
(* The proof has two layers.  The waiter lists are exact whatever the rest *)
(* of the queue does (Lists, inductive by itself); on top of it the counts *)
(* of items, slots and tasks are compared with the threads in flight       *)
(* (Counts, inductive relative to Lists).                                  *)
(***************************************************************************)
EXTENDS ThreadQueue, WaiterLemmas

\* The first layer.
Lists == TypeOK /\ SleepersQueued

\* A thread at the head of put's loop, of get's loop or of join's loop: about
\* to run the critical section, its channel, if it has one, closed.
atPut(t) == pc[t] \in {"idle", "put late"} \/ (pc[t] = "put parked" /\ t \in closed)
atGet(t) == pc[t] \in {"idle", "get late"} \/ (pc[t] = "get parked" /\ t \in closed)

\* The three lists are sequences of threads without repetition.
LEMMA ListFacts ==
  ASSUME Lists
  PROVE  /\ notEmpty \in Seq(Thread) /\ notFull \in Seq(Thread) /\ allDone \in Seq(Thread)
         /\ IsInjective(notEmpty) /\ IsInjective(notFull) /\ IsInjective(allDone)
BY DEF Lists, TypeOK, SleepersQueued

\* wakeOneWaiter takes the front waiter off the list, if there is one.
LEMMA FrontFacts ==
  ASSUME NEW S, NEW s \in Seq(S), IsInjective(s)
  PROVE  /\ rest(s) \in Seq(S)
         /\ IsInjective(rest(s))
         /\ front(s) \subseteq Range(s)
         /\ Range(rest(s)) = Range(s) \ front(s)
         /\ s # <<>> => Head(s) \in Range(s) /\ front(s) = {Head(s)}
         /\ rest(s) # <<>> => s # <<>>
<1>1. CASE s = <<>>
  BY <1>1 DEF front, rest, Range
<1>2. CASE s # <<>>
  <2>1. rest(s) = SubSeq(s, 1 + 1, Len(s)) /\ 1 \in 0..Len(s) /\ Head(s) = s[1]
    BY <1>2 DEF rest
  <2>2. front(s) = {s[i] : i \in 1..1}
    BY <1>2, <2>1 DEF front
  <2>3. front(s) = {Head(s)}
    BY <1>2 DEF front
  <2>4. Head(s) \in Range(s)
    BY <1>2, <2>1, RangeFacts
  <2>5. /\ SubSeq(s, 1 + 1, Len(s)) \in Seq(S)
        /\ Range(SubSeq(s, 1 + 1, Len(s))) = Range(s) \ {s[i] : i \in 1..1}
        /\ IsInjective(SubSeq(s, 1 + 1, Len(s)))
    BY <2>1, PopFacts, Zenon
  <2> QED BY <1>2, <2>1, <2>2, <2>3, <2>4, <2>5, Zenon
<1> QED BY <1>1, <1>2

\* put with room keeps the lists exact.
LEMMA AddItemLists ==
  ASSUME Lists, NEW t \in Thread, atPut(t), addItem(t),
         UNCHANGED fixed, timed' \in [Thread -> BOOLEAN]
  PROVE  Lists'
<1> USE DEF Lists
<1>1. /\ rest(notEmpty) \in Seq(Thread)
      /\ IsInjective(rest(notEmpty))
      /\ front(notEmpty) \subseteq Range(notEmpty)
      /\ Range(rest(notEmpty)) = Range(notEmpty) \ front(notEmpty)
  BY FrontFacts DEF TypeOK, SleepersQueued
<1>2. Range(notEmpty) \subseteq Thread
  BY RangeFacts DEF TypeOK
<1>3. TypeOK'
  <2>1. comparesRaise' \in BOOLEAN /\ isShutdown' \in BOOLEAN
    BY Zenon DEF addItem, fixed, TypeOK
  <2>2. maxsize' \in Nat /\ size' \in Nat /\ unfinished' \in Nat /\ processing' \in Nat
    BY DEF addItem, fixed, TypeOK
  <2>3. notEmpty' \in Seq(Thread) /\ notFull' \in Seq(Thread) /\ allDone' \in Seq(Thread)
    BY <1>1 DEF addItem, TypeOK
  <2>4. closed' \subseteq Thread /\ pc' \in [Thread -> PC]
    BY <1>1, <1>2 DEF addItem, goto, TypeOK, PC
  <2> QED BY <2>1, <2>2, <2>3, <2>4, Zenon DEF TypeOK
<1>4. SleepersQueued'
  BY <1>1 DEF addItem, atPut, goto, TypeOK, SleepersQueued
<1> QED BY <1>3, <1>4

\* put without room parks the thread at the tail of notFull.
LEMMA AwaitRoomLists ==
  ASSUME Lists, NEW t \in Thread, atPut(t), awaitRoom(t),
         UNCHANGED fixed, timed' \in [Thread -> BOOLEAN]
  PROVE  Lists'
<1> USE DEF Lists
<1>1. t \notin Range(notFull)
  BY DEF atPut, SleepersQueued
<1>2. /\ notFull' \in Seq(Thread)
      /\ IsInjective(notFull')
      /\ Range(notFull') = Range(notFull) \cup {t}
  BY <1>1, ListFacts, AppendFacts DEF awaitRoom
<1>3. TypeOK'
  BY <1>2 DEF awaitRoom, goto, fixed, TypeOK, PC
<1>4. SleepersQueued'
  BY <1>2 DEF awaitRoom, atPut, goto, TypeOK, SleepersQueued
<1> QED BY <1>3, <1>4

\* A put or get that raises takes its thread out of flight.
LEMMA RaisesLists ==
  ASSUME Lists, NEW t \in Thread, atPut(t) \/ atGet(t), raises(t),
         UNCHANGED fixed, timed' \in [Thread -> BOOLEAN]
  PROVE  Lists'
<1> USE DEF Lists
<1>1. TypeOK'
  BY DEF raises, lists, goto, fixed, TypeOK, PC
<1>2. SleepersQueued'
  BY DEF raises, lists, atPut, atGet, goto, TypeOK, SleepersQueued
<1> QED BY <1>1, <1>2

\* get with an item keeps the lists exact.
LEMMA RemoveItemLists ==
  ASSUME Lists, NEW t \in Thread, atGet(t), removeItem(t),
         UNCHANGED fixed, timed' \in [Thread -> BOOLEAN]
  PROVE  Lists'
<1> USE DEF Lists
<1>1. /\ rest(notFull) \in Seq(Thread)
      /\ IsInjective(rest(notFull))
      /\ front(notFull) \subseteq Range(notFull)
      /\ Range(rest(notFull)) = Range(notFull) \ front(notFull)
  BY FrontFacts DEF TypeOK, SleepersQueued
<1>2. Range(notFull) \subseteq Thread
  BY RangeFacts DEF TypeOK
<1>3. TypeOK'
  <2>1. comparesRaise' \in BOOLEAN /\ isShutdown' \in BOOLEAN
    BY Zenon DEF removeItem, fixed, TypeOK
  <2>2. maxsize' \in Nat /\ size' \in Nat /\ unfinished' \in Nat /\ processing' \in Nat
    BY DEF removeItem, fixed, TypeOK
  <2>3. notEmpty' \in Seq(Thread) /\ notFull' \in Seq(Thread) /\ allDone' \in Seq(Thread)
    BY <1>1 DEF removeItem, TypeOK
  <2>4. closed' \subseteq Thread /\ pc' \in [Thread -> PC]
    BY <1>1, <1>2 DEF removeItem, goto, TypeOK, PC
  <2> QED BY <2>1, <2>2, <2>3, <2>4, Zenon DEF TypeOK
<1>4. SleepersQueued'
  BY <1>1 DEF removeItem, atGet, goto, TypeOK, SleepersQueued
<1> QED BY <1>3, <1>4

\* get without an item parks the thread at the tail of notEmpty.
LEMMA AwaitItemLists ==
  ASSUME Lists, NEW t \in Thread, atGet(t), awaitItem(t),
         UNCHANGED fixed, timed' \in [Thread -> BOOLEAN]
  PROVE  Lists'
<1> USE DEF Lists
<1>1. t \notin Range(notEmpty)
  BY DEF atGet, SleepersQueued
<1>2. /\ notEmpty' \in Seq(Thread)
      /\ IsInjective(notEmpty')
      /\ Range(notEmpty') = Range(notEmpty) \cup {t}
  BY <1>1, ListFacts, AppendFacts DEF awaitItem
<1>3. TypeOK'
  BY <1>2 DEF awaitItem, goto, fixed, TypeOK, PC
<1>4. SleepersQueued'
  BY <1>2 DEF awaitItem, atGet, goto, TypeOK, SleepersQueued
<1> QED BY <1>3, <1>4

\* The timer of queuePark fires.
LEMMA TimerLists ==
  ASSUME Lists, NEW t \in Thread, timerFires(t)
  PROVE  Lists'
<1> USE DEF Lists
<1>1. TypeOK'
  <2>1. comparesRaise' \in BOOLEAN /\ isShutdown' \in BOOLEAN /\ timed' \in [Thread -> BOOLEAN]
    BY Zenon DEF timerFires, fixed, TypeOK
  <2> QED BY <2>1 DEF timerFires, lists, goto, fixed, TypeOK, PC
<1>2. SleepersQueued'
  BY DEF timerFires, lists, goto, TypeOK, SleepersQueued
<1> QED BY <1>1, <1>2

\* reclaim takes an expired thread out of its list, or finds it popped.
LEMMA ReclaimLists ==
  ASSUME Lists, NEW t \in Thread, reclaim(t)
  PROVE  Lists'
<1> USE DEF Lists
<1>1. ASSUME NEW s \in Seq(Thread), IsInjective(s), NEW i \in DOMAIN s, s[i] = t
      PROVE  /\ removeAt(s, i) \in Seq(Thread)
             /\ IsInjective(removeAt(s, i))
             /\ Range(removeAt(s, i)) = Range(s) \ {t}
             /\ t \in Range(s)
  <2>1. i \in 1..Len(s)
    BY <1>1
  <2> QED BY <1>1, <2>1, RemoveAtFacts, RangeFacts
<1>2. CASE pc[t] = "put expired"
  <2>0. /\ goto(t, IF t \in Range(notFull) THEN "idle" ELSE "put late")
        /\ UNCHANGED <<notEmpty, allDone>>
        /\ \/ \E i \in DOMAIN notFull : notFull[i] = t /\ notFull' = removeAt(notFull, i)
           \/ t \notin Range(notFull) /\ UNCHANGED notFull
    BY <1>2 DEF reclaim
  <2>1. /\ notFull' \in Seq(Thread)
        /\ IsInjective(notFull')
        /\ Range(notFull') = Range(notFull) \ {t}
    BY <1>1, <2>0, ListFacts
  <2>2. TypeOK'
    BY <2>0, <2>1 DEF reclaim, goto, fixed, TypeOK, PC
  <2>3. SleepersQueued'
    BY <1>2, <2>0, <2>1 DEF reclaim, goto, TypeOK, SleepersQueued
  <2> QED BY <2>2, <2>3
<1>3. CASE pc[t] = "get expired"
  <2>0. /\ goto(t, IF t \in Range(notEmpty) THEN "idle" ELSE "get late")
        /\ UNCHANGED <<notFull, allDone>>
        /\ \/ \E i \in DOMAIN notEmpty : notEmpty[i] = t /\ notEmpty' = removeAt(notEmpty, i)
           \/ t \notin Range(notEmpty) /\ UNCHANGED notEmpty
    BY <1>3 DEF reclaim
  <2>1. /\ notEmpty' \in Seq(Thread)
        /\ IsInjective(notEmpty')
        /\ Range(notEmpty') = Range(notEmpty) \ {t}
    BY <1>1, <2>0, ListFacts
  <2>2. TypeOK'
    BY <2>0, <2>1 DEF reclaim, goto, fixed, TypeOK, PC
  <2>3. SleepersQueued'
    BY <1>3, <2>0, <2>1 DEF reclaim, goto, TypeOK, SleepersQueued
  <2> QED BY <2>2, <2>3
<1> QED BY <1>2, <1>3 DEF reclaim

\* Balancing k drained items against the unfinished count stops at zero.
LEMMA BalancedFacts ==
  ASSUME unfinished \in Nat, NEW k \in Nat
  PROVE  /\ balanced(k) = IF k <= unfinished THEN unfinished - k ELSE 0
         /\ balanced(k) \in Nat
         /\ balanced(k) <= unfinished
<1> DEFINE S == {0, unfinished - k}
           x == IF k <= unfinished THEN unfinished - k ELSE 0
<1>1. x \in S /\ \A y \in S : x >= y
  OBVIOUS
<1>2. \A z \in S : (\A y \in S : z >= y) => z = x
  OBVIOUS
<1>3. Max(S) = x
  BY <1>1, <1>2 DEF Max
<1> QED BY <1>3 DEF balanced

\* task_done wakes all joiners or none.
LEMMA TaskDoneLists ==
  ASSUME Lists, taskDone
  PROVE  Lists'
<1> USE DEF Lists
<1>1. Range(allDone) \subseteq Thread /\ <<>> \in Seq(Thread)
  BY ListFacts, RangeFacts
<1>2. Range(<<>>) = {} /\ IsInjective(<<>>)
  BY DEF Range, IsInjective
<1>3. TypeOK'
  <2>1. comparesRaise' \in BOOLEAN /\ isShutdown' \in BOOLEAN /\ timed' \in [Thread -> BOOLEAN]
    BY Zenon DEF taskDone, fixed, TypeOK
  <2>2. maxsize' \in Nat /\ size' \in Nat /\ unfinished' \in Nat /\ processing' \in Nat
    BY DEF taskDone, fixed, TypeOK
  <2>3. notEmpty' \in Seq(Thread) /\ notFull' \in Seq(Thread) /\ allDone' \in Seq(Thread)
    BY <1>1, Zenon DEF taskDone, TypeOK
  <2>4. closed' \subseteq Thread /\ pc' \in [Thread -> PC]
    BY <1>1 DEF taskDone, TypeOK
  <2> QED BY <2>1, <2>2, <2>3, <2>4, Zenon DEF TypeOK
<1>4. SleepersQueued'
  BY <1>2 DEF taskDone, TypeOK, SleepersQueued
<1> QED BY <1>3, <1>4

\* join parks its thread, for the first time or again.
LEMMA JoinLists ==
  ASSUME Lists, NEW t \in Thread, join(t)
  PROVE  Lists'
<1> USE DEF Lists
<1>1. t \notin Range(allDone)
  BY DEF join, SleepersQueued
<1>2. /\ allDone' \in Seq(Thread)
      /\ IsInjective(allDone')
      /\ Range(allDone') = Range(allDone) \cup {t}
  BY <1>1, ListFacts, AppendFacts DEF join
<1>3. TypeOK'
  BY <1>2 DEF join, goto, fixed, TypeOK, PC
<1>4. SleepersQueued'
  BY <1>2 DEF join, goto, TypeOK, SleepersQueued
<1> QED BY <1>3, <1>4

\* A woken joiner with nothing unfinished leaves.
LEMMA JoinReturnsLists ==
  ASSUME Lists, NEW t \in Thread, joinReturns(t)
  PROVE  Lists'
<1> USE DEF Lists
<1>1. TypeOK'
  BY DEF joinReturns, lists, goto, fixed, TypeOK, PC
<1>2. SleepersQueued'
  BY DEF joinReturns, lists, goto, TypeOK, SleepersQueued
<1> QED BY <1>1, <1>2

\* The two shutdowns that reach their wakes empty the lists they wake.
LEMMA ShutdownLists ==
  ASSUME Lists, shutdown \/ shutdownImmediate
  PROVE  Lists'
<1> USE DEF Lists
<1>1. /\ Range(allDone) \subseteq Thread /\ Range(notEmpty) \subseteq Thread
      /\ Range(notFull) \subseteq Thread /\ <<>> \in Seq(Thread)
  BY ListFacts, RangeFacts
<1>2. Range(<<>>) = {} /\ IsInjective(<<>>)
  BY DEF Range, IsInjective
<1>3. balanced(size) \in Nat
  BY BalancedFacts DEF TypeOK
<1>4. TypeOK'
  <2>1. comparesRaise' \in BOOLEAN /\ isShutdown' \in BOOLEAN /\ timed' \in [Thread -> BOOLEAN]
    BY Zenon DEF shutdown, shutdownImmediate, fixed, TypeOK
  <2>2. maxsize' \in Nat /\ size' \in Nat /\ unfinished' \in Nat /\ processing' \in Nat
    BY <1>3 DEF shutdown, shutdownImmediate, fixed, TypeOK
  <2>3. notEmpty' \in Seq(Thread) /\ notFull' \in Seq(Thread) /\ allDone' \in Seq(Thread)
    BY <1>1, Zenon DEF shutdown, shutdownImmediate, TypeOK
  <2>4. closed' \subseteq Thread /\ pc' \in [Thread -> PC]
    BY <1>1 DEF shutdown, shutdownImmediate, TypeOK
  <2> QED BY <2>1, <2>2, <2>3, <2>4, Zenon DEF TypeOK
<1>5. CASE shutdown
  BY <1>2, <1>4, <1>5 DEF shutdown, TypeOK, SleepersQueued
<1>6. CASE shutdownImmediate
  BY <1>2, <1>4, <1>6 DEF shutdownImmediate, TypeOK, SleepersQueued
<1> QED BY <1>5, <1>6

\* The shutdown a comparison cuts short leaves the lists alone.
LEMMA ShutdownRaisesLists ==
  ASSUME Lists, shutdownImmediateRaises
  PROVE  Lists'
<1> USE DEF Lists
<1>1. PICK k \in 0..(size - 3) : size' = size - k - 1 /\ unfinished' = balanced(k)
  BY DEF shutdownImmediateRaises
<1>2. k \in Nat /\ size' \in Nat /\ unfinished' \in Nat
  BY <1>1, BalancedFacts DEF TypeOK
<1>3. comparesRaise' \in BOOLEAN /\ isShutdown' \in BOOLEAN
  BY Zenon DEF shutdownImmediateRaises, fixed, TypeOK
<1>4. TypeOK'
  BY <1>2, <1>3 DEF shutdownImmediateRaises, lists, fixed, TypeOK
<1>5. SleepersQueued'
  BY DEF shutdownImmediateRaises, lists, SleepersQueued
<1> QED BY <1>4, <1>5

\* Every step of the queue keeps the waiter lists exact.
LEMMA ListsStep ==
  ASSUME Lists, [Next]_vars
  PROVE  Lists'
<1>0. CASE UNCHANGED vars
  BY <1>0 DEF vars, fixed, lists, Lists, TypeOK, SleepersQueued
<1>1. ASSUME NEW t \in Thread, NEW h \in BOOLEAN, put(t, h) PROVE Lists'
  <2>1. /\ atPut(t) /\ UNCHANGED fixed /\ timed' \in [Thread -> BOOLEAN]
        /\ addItem(t) \/ awaitRoom(t)
    BY <1>1 DEF put, atPut, Lists, TypeOK
  <2> QED BY <2>1, AddItemLists, AwaitRoomLists
<1>2. ASSUME NEW t \in Thread, putWoken(t) \/ putLate(t) PROVE Lists'
  <2>1. /\ atPut(t) /\ UNCHANGED fixed /\ timed' \in [Thread -> BOOLEAN]
        /\ addItem(t) \/ awaitRoom(t) \/ raises(t)
    BY <1>2 DEF putWoken, putLate, atPut, Lists, TypeOK
  <2> QED BY <2>1, AddItemLists, AwaitRoomLists, RaisesLists
<1>3. ASSUME NEW t \in Thread, NEW h \in BOOLEAN, get(t, h) PROVE Lists'
  <2>1. /\ atGet(t) /\ UNCHANGED fixed /\ timed' \in [Thread -> BOOLEAN]
        /\ removeItem(t) \/ awaitItem(t)
    BY <1>3 DEF get, atGet, Lists, TypeOK
  <2> QED BY <2>1, RemoveItemLists, AwaitItemLists
<1>4. ASSUME NEW t \in Thread, getWoken(t) \/ getLate(t) PROVE Lists'
  <2>1. /\ atGet(t) /\ UNCHANGED fixed /\ timed' \in [Thread -> BOOLEAN]
        /\ removeItem(t) \/ awaitItem(t) \/ raises(t)
    BY <1>4 DEF getWoken, getLate, atGet, Lists, TypeOK
  <2> QED BY <2>1, RemoveItemLists, AwaitItemLists, RaisesLists
<1>5. ASSUME NEW t \in Thread, timerFires(t) \/ reclaim(t) PROVE Lists'
  BY <1>5, TimerLists, ReclaimLists
<1>6. ASSUME NEW t \in Thread, join(t) \/ joinReturns(t) PROVE Lists'
  BY <1>6, JoinLists, JoinReturnsLists
<1>7. CASE taskDone \/ shutdown \/ shutdownImmediate \/ shutdownImmediateRaises
  BY <1>7, TaskDoneLists, ShutdownLists, ShutdownRaisesLists
<1> QED BY <1>0, <1>1, <1>2, <1>3, <1>4, <1>5, <1>6, <1>7 DEF Next
-----------------------------------------------------------------------------
(* The second layer. *)

Counts ==
  /\ CapacityRespected /\ UnfinishedExact /\ JoinersHaveWork /\ ShutdownWakesAll
  /\ NoLostItem /\ NoLostSlot

\* The threads in flight are sets of threads.
LEMMA InFlightThreads ==
  /\ gettersInFlight \subseteq Thread /\ puttersInFlight \subseteq Thread
  /\ gettersInFlight' \subseteq Thread /\ puttersInFlight' \subseteq Thread
BY DEF gettersInFlight, puttersInFlight

\* put with room: one item more and one more getter in flight, and the putter
\* that filled the slot is out of flight.
LEMMA AddItemCounts ==
  ASSUME Lists, Counts, NEW t \in Thread, atPut(t), addItem(t), UNCHANGED fixed
  PROVE  Counts'
<1> USE DEF Lists, Counts
<1>1. CapacityRespected'
  BY DEF addItem, atCapacity, fixed, TypeOK, CapacityRespected
<1> SUFFICES ASSUME ~comparesRaise
             PROVE  UnfinishedExact' /\ JoinersHaveWork' /\ ShutdownWakesAll'
                      /\ NoLostItem' /\ NoLostSlot'
  BY <1>1 DEF fixed, UnfinishedExact, JoinersHaveWork, ShutdownWakesAll, NoLostItem, NoLostSlot
<1>2. /\ size' = size + 1 /\ unfinished' = unfinished + 1
      /\ notEmpty' = rest(notEmpty)
      /\ closed' = (closed \ {t}) \cup front(notEmpty)
      /\ pc' = [pc EXCEPT ![t] = "idle"]
      /\ UNCHANGED <<isShutdown, notFull, allDone, processing, maxsize>>
  BY DEF addItem, goto, fixed
<1>3. UnfinishedExact' /\ JoinersHaveWork'
  BY <1>2 DEF TypeOK, UnfinishedExact, JoinersHaveWork
<1>4. ShutdownWakesAll'
  BY <1>2 DEF ShutdownWakesAll, fixed, rest
<1>5. /\ notEmpty # <<>> => Head(notEmpty) \in Range(notEmpty) /\ front(notEmpty) = {Head(notEmpty)}
      /\ notEmpty' # <<>> => notEmpty # <<>>
      /\ front(notEmpty) \subseteq Range(notEmpty)
  BY <1>2, ListFacts, FrontFacts
<1>6. ASSUME notEmpty' # <<>> PROVE size' <= Cardinality(gettersInFlight')
  <2> DEFINE h == Head(notEmpty)
  <2>1. notEmpty # <<>> /\ h \in Range(notEmpty) /\ front(notEmpty) = {h}
    BY <1>5, <1>6
  <2> HIDE DEF h
  <2>2. h \in Thread /\ h \notin closed /\ pc[h] \in {"get parked", "get expired"}
    BY <2>1 DEF SleepersQueued
  <2>3. h \notin gettersInFlight
    BY <2>2 DEF gettersInFlight
  <2>4. gettersInFlight \cup {h} \subseteq gettersInFlight'
    BY <1>2, <2>1, <2>2 DEF gettersInFlight, atPut, TypeOK
  <2>5. /\ Cardinality(gettersInFlight) \in Nat /\ Cardinality(gettersInFlight') \in Nat
        /\ Cardinality(gettersInFlight) + 1 <= Cardinality(gettersInFlight')
    BY <2>3, <2>4, InFlightThreads, ThreadAssumption, CountFacts
  <2>6. size <= Cardinality(gettersInFlight)
    BY <2>1 DEF NoLostItem
  <2> QED BY <1>2, <2>5, <2>6 DEF TypeOK
<1>7. ASSUME notFull' # <<>> PROVE maxsize' - size' <= Cardinality(puttersInFlight')
  <2>1. puttersInFlight \ {t} \subseteq puttersInFlight'
    BY <1>2, <1>5 DEF puttersInFlight, TypeOK, SleepersQueued
  <2>2. /\ Cardinality(puttersInFlight) \in Nat /\ Cardinality(puttersInFlight') \in Nat
        /\ Cardinality(puttersInFlight) - 1 <= Cardinality(puttersInFlight')
    BY <2>1, InFlightThreads, ThreadAssumption, CountFacts
  <2>3. maxsize - size <= Cardinality(puttersInFlight)
    BY <1>2, <1>7 DEF NoLostSlot
  <2> QED BY <1>2, <2>2, <2>3 DEF TypeOK
<1> QED BY <1>3, <1>4, <1>6, <1>7 DEF NoLostItem, NoLostSlot

\* get with an item: one slot more and one more putter in flight, and the getter
\* that took the item is out of flight.
LEMMA RemoveItemCounts ==
  ASSUME Lists, Counts, NEW t \in Thread, atGet(t), removeItem(t), UNCHANGED fixed
  PROVE  Counts'
<1> USE DEF Lists, Counts
<1>1. CapacityRespected'
  BY DEF removeItem, fixed, TypeOK, CapacityRespected
<1> SUFFICES ASSUME ~comparesRaise
             PROVE  UnfinishedExact' /\ JoinersHaveWork' /\ ShutdownWakesAll'
                      /\ NoLostItem' /\ NoLostSlot'
  BY <1>1 DEF fixed, UnfinishedExact, JoinersHaveWork, ShutdownWakesAll, NoLostItem, NoLostSlot
<1>2. /\ size > 0 /\ size' = size - 1 /\ processing' = processing + 1
      /\ notFull' = rest(notFull)
      /\ closed' = (closed \ {t}) \cup front(notFull)
      /\ pc' = [pc EXCEPT ![t] = "idle"]
      /\ UNCHANGED <<isShutdown, notEmpty, allDone, unfinished, maxsize>>
  BY DEF removeItem, goto, fixed
<1>3. UnfinishedExact' /\ JoinersHaveWork'
  BY <1>2 DEF TypeOK, UnfinishedExact, JoinersHaveWork
<1>4. ShutdownWakesAll'
  BY <1>2 DEF ShutdownWakesAll, fixed, rest
<1>5. /\ notFull # <<>> => Head(notFull) \in Range(notFull) /\ front(notFull) = {Head(notFull)}
      /\ notFull' # <<>> => notFull # <<>>
      /\ front(notFull) \subseteq Range(notFull)
  BY <1>2, ListFacts, FrontFacts
<1>6. ASSUME notFull' # <<>> PROVE maxsize' - size' <= Cardinality(puttersInFlight')
  <2> DEFINE h == Head(notFull)
  <2>1. notFull # <<>> /\ h \in Range(notFull) /\ front(notFull) = {h}
    BY <1>5, <1>6
  <2> HIDE DEF h
  <2>2. h \in Thread /\ h \notin closed /\ pc[h] \in {"put parked", "put expired"}
    BY <2>1 DEF SleepersQueued
  <2>3. h \notin puttersInFlight
    BY <2>2 DEF puttersInFlight
  <2>4. puttersInFlight \cup {h} \subseteq puttersInFlight'
    BY <1>2, <2>1, <2>2 DEF puttersInFlight, atGet, TypeOK
  <2>5. /\ Cardinality(puttersInFlight) \in Nat /\ Cardinality(puttersInFlight') \in Nat
        /\ Cardinality(puttersInFlight) + 1 <= Cardinality(puttersInFlight')
    BY <2>3, <2>4, InFlightThreads, ThreadAssumption, CountFacts
  <2>6. maxsize - size <= Cardinality(puttersInFlight)
    BY <2>1 DEF NoLostSlot
  <2> QED BY <1>2, <2>5, <2>6 DEF TypeOK
<1>7. ASSUME notEmpty' # <<>> PROVE size' <= Cardinality(gettersInFlight')
  <2>1. gettersInFlight \ {t} \subseteq gettersInFlight'
    BY <1>2, <1>5 DEF gettersInFlight, TypeOK, SleepersQueued
  <2>2. /\ Cardinality(gettersInFlight) \in Nat /\ Cardinality(gettersInFlight') \in Nat
        /\ Cardinality(gettersInFlight) - 1 <= Cardinality(gettersInFlight')
    BY <2>1, InFlightThreads, ThreadAssumption, CountFacts
  <2>3. size <= Cardinality(gettersInFlight)
    BY <1>2, <1>7 DEF NoLostItem
  <2> QED BY <1>2, <2>2, <2>3 DEF TypeOK
<1> QED BY <1>3, <1>4, <1>6, <1>7 DEF NoLostItem, NoLostSlot

\* A step that leaves the counts and the lists of a side alone, and the threads
\* in flight on it, keeps what is said of that side.
LEMMA QuietCounts ==
  ASSUME Counts,
         UNCHANGED <<comparesRaise, maxsize, size, unfinished, isShutdown, processing>>,
         allDone' # <<>> => allDone # <<>> \/ unfinished > 0,
         notEmpty' # <<>> =>
           \/ notEmpty # <<>> /\ gettersInFlight' = gettersInFlight
           \/ ~isShutdown /\ size <= Cardinality(gettersInFlight'),
         notFull' # <<>> =>
           \/ notFull # <<>> /\ puttersInFlight' = puttersInFlight
           \/ ~isShutdown /\ maxsize - size <= Cardinality(puttersInFlight')
  PROVE  Counts'
<1> USE DEF Counts
<1>1. CapacityRespected' /\ UnfinishedExact' /\ JoinersHaveWork'
  BY DEF CapacityRespected, UnfinishedExact, JoinersHaveWork
<1>2. ShutdownWakesAll'
  BY DEF ShutdownWakesAll
<1>3. NoLostItem' /\ NoLostSlot'
  BY DEF NoLostItem, NoLostSlot
<1> QED BY <1>1, <1>2, <1>3

\* A set of threads in flight has a size.
LEMMA InFlightCount ==
  /\ Cardinality(gettersInFlight) \in Nat /\ Cardinality(puttersInFlight) \in Nat
  /\ Cardinality(gettersInFlight') \in Nat /\ Cardinality(puttersInFlight') \in Nat
BY InFlightThreads, ThreadAssumption, CountFacts

\* put without room: it goes to sleep beside no free slot.
LEMMA AwaitRoomCounts ==
  ASSUME Lists, Counts, NEW t \in Thread, atPut(t), ~isShutdown, awaitRoom(t), UNCHANGED fixed
  PROVE  Counts'
<1>1. gettersInFlight' = gettersInFlight
  BY DEF awaitRoom, goto, atPut, Lists, TypeOK, gettersInFlight
<1>2. maxsize - size <= Cardinality(puttersInFlight')
  <2>1. maxsize \in Nat /\ size \in Nat /\ size >= maxsize
    BY DEF awaitRoom, atCapacity, Lists, TypeOK
  <2> QED BY <2>1, InFlightCount
<1> QED BY <1>1, <1>2, QuietCounts DEF awaitRoom, fixed

\* get without an item: it goes to sleep beside no item.
LEMMA AwaitItemCounts ==
  ASSUME Lists, Counts, NEW t \in Thread, atGet(t), ~isShutdown, awaitItem(t), UNCHANGED fixed
  PROVE  Counts'
<1>1. puttersInFlight' = puttersInFlight
  BY DEF awaitItem, goto, atGet, Lists, TypeOK, puttersInFlight
<1>2. size <= Cardinality(gettersInFlight')
  <2>1. size = 0
    BY DEF awaitItem
  <2> QED BY <2>1, InFlightCount
<1> QED BY <1>1, <1>2, QuietCounts DEF awaitItem, fixed

\* A put that raises does so with the queue shut down or full ...
LEMMA PutRaisesCounts ==
  ASSUME Lists, Counts, NEW t \in Thread, atPut(t), raises(t), UNCHANGED fixed,
         isShutdown \/ atCapacity
  PROVE  Counts'
<1>1. gettersInFlight' = gettersInFlight
  BY DEF raises, goto, atPut, Lists, TypeOK, gettersInFlight
<1>2. CASE ~isShutdown
  <2>1. maxsize - size <= Cardinality(puttersInFlight')
    BY <1>2, InFlightCount DEF atCapacity, Lists, TypeOK
  <2> QED BY <1>1, <1>2, <2>1, QuietCounts DEF raises, lists, fixed
<1>3. CASE isShutdown
  BY <1>3 DEF Counts, raises, lists, fixed, CapacityRespected, UnfinishedExact,
              JoinersHaveWork, ShutdownWakesAll, NoLostItem, NoLostSlot
<1> QED BY <1>2, <1>3

\* ... and a get that raises with the queue empty.
LEMMA GetRaisesCounts ==
  ASSUME Lists, Counts, NEW t \in Thread, atGet(t), raises(t), UNCHANGED fixed, size = 0
  PROVE  Counts'
<1>1. puttersInFlight' = puttersInFlight
  BY DEF raises, goto, atGet, Lists, TypeOK, puttersInFlight
<1>2. CASE ~isShutdown
  <2>1. size <= Cardinality(gettersInFlight')
    BY InFlightCount
  <2> QED BY <1>1, <1>2, <2>1, QuietCounts DEF raises, lists, fixed
<1>3. CASE isShutdown
  BY <1>3 DEF Counts, raises, lists, fixed, CapacityRespected, UnfinishedExact,
              JoinersHaveWork, ShutdownWakesAll, NoLostItem, NoLostSlot
<1> QED BY <1>2, <1>3

\* A timer, a reclaim, a join: nobody enters or leaves flight.
LEMMA QuietStep ==
  ASSUME Lists, Counts, NEW t \in Thread,
         timerFires(t) \/ reclaim(t) \/ join(t) \/ joinReturns(t)
  PROVE  Counts'
<1> USE DEF Lists
<1>1. CASE timerFires(t)
  <2>1. gettersInFlight' = gettersInFlight /\ puttersInFlight' = puttersInFlight
    BY <1>1 DEF timerFires, goto, TypeOK, gettersInFlight, puttersInFlight
  <2> QED BY <1>1, <2>1, QuietCounts DEF timerFires, lists, fixed
<1>2. CASE reclaim(t)
  <2>1. gettersInFlight' = gettersInFlight /\ puttersInFlight' = puttersInFlight
    <3>1. closed' = closed \ {t} /\ closed \subseteq Thread /\ pc \in [Thread -> PC]
      BY <1>2 DEF reclaim, TypeOK
    <3>2. CASE pc[t] = "put expired"
      <4>1. pc' = [pc EXCEPT ![t] = IF t \in closed THEN "put late" ELSE "idle"]
        BY <1>2, <3>2 DEF reclaim, goto, SleepersQueued
      <4> QED BY <3>1, <3>2, <4>1 DEF gettersInFlight, puttersInFlight
    <3>3. CASE pc[t] = "get expired"
      <4>1. pc' = [pc EXCEPT ![t] = IF t \in closed THEN "get late" ELSE "idle"]
        BY <1>2, <3>3 DEF reclaim, goto, SleepersQueued
      <4> QED BY <3>1, <3>3, <4>1 DEF gettersInFlight, puttersInFlight
    <3> QED BY <1>2, <3>2, <3>3 DEF reclaim
  <2>2. (notEmpty' # <<>> => notEmpty # <<>>) /\ (notFull' # <<>> => notFull # <<>>)
    <3>1. \A i : i \notin DOMAIN <<>>
      OBVIOUS
    <3> QED BY <1>2, <3>1, Zenon DEF reclaim
  <2> QED BY <1>2, <2>1, <2>2, QuietCounts DEF reclaim, fixed
<1>3. CASE join(t)
  <2>1. gettersInFlight' = gettersInFlight /\ puttersInFlight' = puttersInFlight
    BY <1>3 DEF join, goto, TypeOK, gettersInFlight, puttersInFlight
  <2> QED BY <1>3, <2>1, QuietCounts DEF join, fixed
<1>4. CASE joinReturns(t)
  <2>1. gettersInFlight' = gettersInFlight /\ puttersInFlight' = puttersInFlight
    BY <1>4 DEF joinReturns, goto, TypeOK, gettersInFlight, puttersInFlight
  <2> QED BY <1>4, <2>1, QuietCounts DEF joinReturns, lists, fixed
<1> QED BY <1>1, <1>2, <1>3, <1>4

\* task_done: one item less being processed, one task less unfinished, and the
\* joiners, who are nobody else, are woken when none is left.
LEMMA TaskDoneCounts ==
  ASSUME Lists, Counts, taskDone
  PROVE  Counts'
<1> USE DEF Lists, Counts
<1>1. /\ processing' = processing - 1 /\ unfinished' = unfinished - 1
      /\ UNCHANGED <<comparesRaise, maxsize, size, isShutdown, notEmpty, notFull, pc>>
  BY DEF taskDone, fixed
<1>2. CapacityRespected' /\ UnfinishedExact' /\ ShutdownWakesAll'
  BY <1>1 DEF TypeOK, CapacityRespected, UnfinishedExact, ShutdownWakesAll
<1>3. JoinersHaveWork'
  BY DEF taskDone, TypeOK, JoinersHaveWork
<1>4. gettersInFlight' = gettersInFlight /\ puttersInFlight' = puttersInFlight
  <2>1. \A t \in closed' : t \in closed \/ t \in Range(allDone)
    BY DEF taskDone
  <2>2. closed \subseteq closed'
    BY DEF taskDone
  <2> QED BY <1>1, <2>1, <2>2 DEF SleepersQueued, gettersInFlight, puttersInFlight
<1>5. NoLostItem' /\ NoLostSlot'
  BY <1>1, <1>4 DEF NoLostItem, NoLostSlot
<1> QED BY <1>2, <1>3, <1>5

\* shutdown: nobody is left asleep in put or get; the immediate one drops the
\* items with their share of the unfinished count.
LEMMA ShutdownCounts ==
  ASSUME Lists, Counts, shutdown \/ shutdownImmediate
  PROVE  Counts'
<1> USE DEF Lists, Counts
<1>1. NoLostItem' /\ NoLostSlot' /\ ShutdownWakesAll'
  BY DEF shutdown, shutdownImmediate, NoLostItem, NoLostSlot, ShutdownWakesAll
<1>2. CASE shutdown
  BY <1>1, <1>2 DEF shutdown, fixed, CapacityRespected, UnfinishedExact, JoinersHaveWork
<1>3. CASE shutdownImmediate
  <2>1. balanced(size) = IF size <= unfinished THEN unfinished - size ELSE 0
    BY BalancedFacts DEF TypeOK
  <2>2. CapacityRespected' /\ JoinersHaveWork'
    BY <1>3 DEF shutdownImmediate, fixed, TypeOK, CapacityRespected, JoinersHaveWork
  <2>3. UnfinishedExact'
    BY <1>3, <2>1 DEF shutdownImmediate, fixed, TypeOK, UnfinishedExact
  <2> QED BY <1>1, <2>2, <2>3
<1> QED BY <1>2, <1>3

\* The shutdown a comparison cuts short: the queue still fits its size.
LEMMA ShutdownRaisesCounts ==
  ASSUME Lists, Counts, shutdownImmediateRaises
  PROVE  Counts'
<1> USE DEF Lists, Counts
<1>1. comparesRaise' = comparesRaise /\ comparesRaise /\ maxsize' = maxsize
  BY DEF shutdownImmediateRaises, fixed
<1>2. size' <= size /\ size' \in Int
  BY DEF shutdownImmediateRaises, TypeOK
<1>3. CapacityRespected'
  BY <1>1, <1>2 DEF TypeOK, CapacityRespected
<1> QED BY <1>1, <1>3 DEF UnfinishedExact, JoinersHaveWork, ShutdownWakesAll, NoLostItem, NoLostSlot

\* Every step keeps the counts.
LEMMA CountsStep ==
  ASSUME Lists, Counts, [Next]_vars
  PROVE  Counts'
<1>0. CASE UNCHANGED vars
  BY <1>0 DEF vars, fixed, lists, Counts, CapacityRespected, UnfinishedExact, JoinersHaveWork,
              ShutdownWakesAll, NoLostItem, NoLostSlot, gettersInFlight, puttersInFlight
<1>1. ASSUME NEW t \in Thread,
             (\E h \in BOOLEAN : put(t, h)) \/ putWoken(t) \/ putLate(t)
      PROVE  Counts'
  <2>1. /\ atPut(t) /\ UNCHANGED fixed
        /\ \/ addItem(t)
           \/ ~isShutdown /\ awaitRoom(t)
           \/ raises(t) /\ (isShutdown \/ atCapacity)
    BY <1>1 DEF put, putWoken, putLate, atPut
  <2> QED BY <2>1, AddItemCounts, AwaitRoomCounts, PutRaisesCounts
<1>2. ASSUME NEW t \in Thread,
             (\E h \in BOOLEAN : get(t, h)) \/ getWoken(t) \/ getLate(t)
      PROVE  Counts'
  <2>1. /\ atGet(t) /\ UNCHANGED fixed
        /\ \/ removeItem(t)
           \/ ~isShutdown /\ awaitItem(t)
           \/ raises(t) /\ size = 0
    BY <1>2 DEF get, getWoken, getLate, atGet, awaitItem
  <2> QED BY <2>1, RemoveItemCounts, AwaitItemCounts, GetRaisesCounts
<1>3. ASSUME NEW t \in Thread, timerFires(t) \/ reclaim(t) \/ join(t) \/ joinReturns(t)
      PROVE  Counts'
  BY <1>3, QuietStep
<1>4. CASE taskDone \/ shutdown \/ shutdownImmediate \/ shutdownImmediateRaises
  BY <1>4, TaskDoneCounts, ShutdownCounts, ShutdownRaisesCounts
<1> QED BY <1>0, <1>1, <1>2, <1>3, <1>4 DEF Next
-----------------------------------------------------------------------------
\* Both layers hold in every reachable state.
THEOREM Invariance == Spec => [](Lists /\ Counts)
<1>1. Init => Lists /\ Counts
  <2> SUFFICES ASSUME Init PROVE Lists /\ Counts
    OBVIOUS
  <2>1. Range(<<>>) = {} /\ IsInjective(<<>>) /\ <<>> \in Seq(Thread)
    BY DEF Range, IsInjective
  <2>2. TypeOK
    <3>1. comparesRaise \in BOOLEAN /\ isShutdown \in BOOLEAN
      BY Zenon DEF Init
    <3>2. notEmpty \in Seq(Thread) /\ notFull \in Seq(Thread) /\ allDone \in Seq(Thread)
      BY <2>1, Zenon DEF Init
    <3> QED BY <3>1, <3>2, SizeAssumption DEF Init, TypeOK, PC
  <2>3. SleepersQueued
    BY <2>1 DEF Init, SleepersQueued
  <2>4. CapacityRespected /\ UnfinishedExact
    BY SizeAssumption DEF Init, CapacityRespected, UnfinishedExact
  <2>5. JoinersHaveWork /\ ShutdownWakesAll /\ NoLostItem /\ NoLostSlot
    BY DEF Init, JoinersHaveWork, ShutdownWakesAll, NoLostItem, NoLostSlot
  <2> QED BY <2>2, <2>3, <2>4, <2>5 DEF Lists, Counts
<1>2. (Lists /\ Counts) /\ [Next]_vars => (Lists /\ Counts)'
  BY ListsStep, CountsStep
<1> QED BY <1>1, <1>2, PTL DEF Spec

\* The fields of the queue keep their types; no count goes negative.
THEOREM TypeCorrect == Spec => []TypeOK
<1>1. Lists /\ Counts => TypeOK
  BY DEF Lists
<1> QED BY Invariance, <1>1, PTL

\* A parked thread is queued once in its list or woken, never both.
THEOREM SleepersAreQueued == Spec => []SleepersQueued
<1>1. Lists /\ Counts => SleepersQueued
  BY DEF Lists
<1> QED BY Invariance, <1>1, PTL

\* One wake per put is enough: no item waits beside a sleeping getter unless a
\* woken getter is on its way to it.
THEOREM NoItemIsLost == Spec => []NoLostItem
<1>1. Lists /\ Counts => NoLostItem
  BY DEF Counts
<1> QED BY Invariance, <1>1, PTL

\* One wake per get is enough: no free slot waits beside a sleeping putter
\* unless a woken putter is on its way to it.
THEOREM NoSlotIsLost == Spec => []NoLostSlot
<1>1. Lists /\ Counts => NoLostSlot
  BY DEF Counts
<1> QED BY Invariance, <1>1, PTL

\* A bounded queue never exceeds maxsize.
THEOREM CapacityIsRespected == Spec => []CapacityRespected
<1>1. Lists /\ Counts => CapacityRespected
  BY DEF Counts
<1> QED BY Invariance, <1>1, PTL

\* task_done and join see exactly the outstanding work.
THEOREM UnfinishedIsExact == Spec => []UnfinishedExact
<1>1. Lists /\ Counts => UnfinishedExact
  BY DEF Counts
<1> QED BY Invariance, <1>1, PTL

\* Nobody sleeps in join beside a zero count.
THEOREM JoinersWaitForWork == Spec => []JoinersHaveWork
<1>1. Lists /\ Counts => JoinersHaveWork
  BY DEF Counts
<1> QED BY Invariance, <1>1, PTL

\* After shutdown nobody sleeps in put or get.
THEOREM ShutdownWakesEverybody == Spec => []ShutdownWakesAll
<1>1. Lists /\ Counts => ShutdownWakesAll
  BY DEF Counts
<1> QED BY Invariance, <1>1, PTL

\* Shutdown is final: the flag stays, and no item or task is added after it,
\* not even by a put that was parked when it happened.
THEOREM ShutdownStays == Spec => ShutdownIsFinal
<1> DEFINE A == isShutdown => isShutdown' /\ size' <= size /\ unfinished' <= unfinished
<1>1. Lists /\ [Next]_vars => [A]_vars
  <2> SUFFICES ASSUME Lists, Next, isShutdown
               PROVE  isShutdown' /\ size' <= size /\ unfinished' <= unfinished
    OBVIOUS
  <2>0. size \in Nat /\ unfinished \in Nat
    BY DEF Lists, TypeOK
  <2>1. ASSUME NEW t \in Thread,
               (\E h \in BOOLEAN : put(t, h) \/ get(t, h)) \/ putWoken(t) \/ putLate(t)
                 \/ getWoken(t) \/ getLate(t)
        PROVE  isShutdown' /\ size' <= size /\ unfinished' <= unfinished
    <3>1. removeItem(t) \/ awaitItem(t) \/ raises(t)
      BY <2>1 DEF put, get, putWoken, putLate, getWoken, getLate
    <3>2. isShutdown' = isShutdown /\ unfinished' = unfinished
      BY <3>1 DEF removeItem, awaitItem, raises
    <3>3. size' = size - 1 \/ size' = size
      BY <3>1, Zenon DEF removeItem, awaitItem, raises
    <3> QED BY <2>0, <3>2, <3>3
  <2>2. ASSUME NEW t \in Thread, timerFires(t) \/ reclaim(t) \/ join(t) \/ joinReturns(t)
        PROVE  isShutdown' /\ size' <= size /\ unfinished' <= unfinished
    <3>1. isShutdown' = isShutdown /\ size' = size /\ unfinished' = unfinished
      BY <2>2 DEF timerFires, reclaim, join, joinReturns
    <3> QED BY <2>0, <3>1
  <2>3. CASE taskDone
    BY <2>0, <2>3 DEF taskDone
  <2>4. CASE shutdown
    BY <2>0, <2>4 DEF shutdown
  <2>5. CASE shutdownImmediate
    BY <2>0, <2>5, BalancedFacts DEF shutdownImmediate
  <2>6. CASE shutdownImmediateRaises
    <3>1. PICK k \in 0..(size - 3) : size' = size - k - 1 /\ unfinished' = balanced(k)
      BY <2>6 DEF shutdownImmediateRaises
    <3>2. k \in Nat /\ size' <= size /\ unfinished' <= unfinished
      BY <2>0, <3>1, BalancedFacts
    <3> QED BY <2>6, <3>2 DEF shutdownImmediateRaises
  <2> QED BY <2>1, <2>2, <2>3, <2>4, <2>5, <2>6 DEF Next
<1> QED BY Invariance, <1>1, PTL DEF Spec, ShutdownIsFinal
-----------------------------------------------------------------------------
(* The refinement *)

\* Only a put or get with a timeout meets its deadline.
ExpiredAreTimed ==
  \A t \in Thread :
    pc[t] \in {"put expired", "put late", "get expired", "get late"} => timed[t]

\* ... and no step breaks that.
LEMMA TimedStep ==
  ASSUME Lists, ExpiredAreTimed, [Next]_vars
  PROVE  ExpiredAreTimed'
<1>1. pc \in [Thread -> PC] /\ timed \in [Thread -> BOOLEAN]
  BY DEF Lists, TypeOK
<1>2. CASE UNCHANGED vars
  BY <1>2 DEF vars, ExpiredAreTimed
<1>3. ASSUME NEW t \in Thread, NEW h \in BOOLEAN, put(t, h) \/ get(t, h)
      PROVE  ExpiredAreTimed'
  <2>1. pc' = [pc EXCEPT ![t] = pc'[t]] /\ pc'[t] \in {"idle", "put parked", "get parked"}
    BY <1>1, <1>3 DEF put, get, addItem, awaitRoom, removeItem, awaitItem, goto
  <2>2. timed' = [timed EXCEPT ![t] = h]
    BY <1>3 DEF put, get
  <2> QED BY <1>1, <2>1, <2>2 DEF ExpiredAreTimed
<1>4. ASSUME NEW t \in Thread, putWoken(t) \/ putLate(t) \/ getWoken(t) \/ getLate(t)
      PROVE  ExpiredAreTimed'
  <2>1. pc' = [pc EXCEPT ![t] = pc'[t]] /\ pc'[t] \in {"idle", "put parked", "get parked"}
    BY <1>1, <1>4 DEF putWoken, putLate, getWoken, getLate, addItem, awaitRoom, removeItem,
                      awaitItem, raises, goto
  <2>2. timed' = timed
    BY <1>4 DEF putWoken, putLate, getWoken, getLate
  <2> QED BY <1>1, <2>1, <2>2 DEF ExpiredAreTimed
<1>5. ASSUME NEW t \in Thread, timerFires(t) \/ reclaim(t) PROVE ExpiredAreTimed'
  BY <1>1, <1>5 DEF timerFires, reclaim, goto, ExpiredAreTimed
<1>6. ASSUME NEW t \in Thread, join(t) \/ joinReturns(t) PROVE ExpiredAreTimed'
  BY <1>1, <1>6 DEF join, joinReturns, goto, ExpiredAreTimed
<1>7. CASE taskDone \/ shutdown \/ shutdownImmediate \/ shutdownImmediateRaises
  BY <1>7 DEF taskDone, shutdown, shutdownImmediate, shutdownImmediateRaises, ExpiredAreTimed
<1> QED BY <1>2, <1>3, <1>4, <1>5, <1>6, <1>7 DEF Next

\* What the callers see when a thread moves and its timeout is set.
LEMMA PendingAfter ==
  ASSUME Lists, NEW t \in Thread, NEW p \in PC, NEW h \in BOOLEAN,
         pc' = [pc EXCEPT ![t] = p], timed' = [timed EXCEPT ![t] = h]
  PROVE  pendingCall' = [pendingCall EXCEPT ![t] = callAt(p, h)]
BY DEF Lists, TypeOK, pendingCall

\* The same when the timeout stays.
LEMMA PendingMoves ==
  ASSUME Lists, NEW t \in Thread, NEW p \in PC,
         pc' = [pc EXCEPT ![t] = p], timed' = timed
  PROVE  pendingCall' = [pendingCall EXCEPT ![t] = callAt(p, timed[t])]
BY DEF Lists, TypeOK, pendingCall

\* The exits of the loops of put and get, as the callers see them.
LEMMA ExitsImplement ==
  ASSUME NEW t \in Thread, UNCHANGED fixed,
         pendingCall' = [pendingCall EXCEPT ![t] = "none"]
  PROVE  /\ addItem(t) /\ ~isShutdown /\ pendingCall[t] \in {"none", "put", "timed put"}
             => Abstract!put(t)
         /\ removeItem(t) /\ pendingCall[t] \in {"none", "get", "timed get"} => Abstract!get(t)
         /\ raises(t) /\ pendingCall[t] \in {"timed put", "timed get"} => Abstract!gives(t)
         /\ raises(t) /\ isShutdown /\ pendingCall[t] \in {"put", "get", "timed put", "timed get"}
             => Abstract!gives(t)
<1>1. ASSUME addItem(t), ~isShutdown, pendingCall[t] \in {"none", "put", "timed put"}
      PROVE  Abstract!put(t)
  BY <1>1, Zenon DEF addItem, atCapacity, fixed, Abstract!put, Abstract!full, Abstract!ends,
                     Abstract!putting, Abstract!fixed
<1>2. ASSUME removeItem(t), pendingCall[t] \in {"none", "get", "timed get"}
      PROVE  Abstract!get(t)
  BY <1>2, Zenon DEF removeItem, fixed, Abstract!get, Abstract!ends, Abstract!getting,
                     Abstract!fixed
<1>3. ASSUME raises(t), pendingCall[t] \in {"timed put", "timed get"}
      PROVE  Abstract!gives(t)
  BY <1>3, Zenon DEF raises, fixed, Abstract!gives, Abstract!ends, Abstract!fixed
<1>4. ASSUME raises(t), isShutdown, pendingCall[t] \in {"put", "get", "timed put", "timed get"}
      PROVE  Abstract!gives(t)
  BY <1>4, Zenon DEF raises, fixed, Abstract!gives, Abstract!ends, Abstract!fixed,
                     Abstract!putting, Abstract!getting
<1> QED BY <1>1, <1>2, <1>3, <1>4

\* A thread that goes on waiting in the same call is not seen to move.
LEMMA StillWaits ==
  ASSUME Lists, NEW t \in Thread, NEW p \in PC, goto(t, p), timed' = timed,
         callAt(p, timed[t]) = callAt(pc[t], timed[t]),
         UNCHANGED <<fixed, size, unfinished, isShutdown, processing>>
  PROVE  UNCHANGED Abstract!vars
<1>1. pendingCall' = [pendingCall EXCEPT ![t] = callAt(pc[t], timed[t])]
  BY PendingMoves DEF goto
<1>2. pendingCall' = pendingCall
  BY <1>1 DEF pendingCall
<1> QED BY <1>2 DEF fixed, Abstract!vars, Abstract!fixed

\* Seen by the callers, a step of a thread is the effect, the wait or the end of
\* one call, or nothing.
LEMMA ThreadStepImplements ==
  ASSUME Lists, ExpiredAreTimed, NEW t \in Thread,
         \/ \E h \in BOOLEAN : put(t, h) \/ get(t, h)
         \/ putWoken(t) \/ putLate(t) \/ getWoken(t) \/ getLate(t)
         \/ timerFires(t) \/ reclaim(t) \/ join(t) \/ joinReturns(t)
  PROVE  Abstract!Next \/ UNCHANGED Abstract!vars
<1>1. pc[t] \in PC /\ timed[t] \in BOOLEAN /\ pendingCall[t] = callAt(pc[t], timed[t])
  BY DEF Lists, TypeOK, pendingCall
<1>2. UNCHANGED fixed
  BY DEF put, get, putWoken, putLate, getWoken, getLate, timerFires, reclaim, join, joinReturns
<1>3. {"idle", "put parked", "put expired", "put late", "get parked", "get expired", "get late",
       "join parked"} = PC
  BY DEF PC
<1>4. ASSUME goto(t, "idle"), timed' = timed
      PROVE  pendingCall' = [pendingCall EXCEPT ![t] = "none"]
  BY <1>3, <1>4, PendingMoves DEF goto, callAt
<1>5. ASSUME NEW h \in BOOLEAN, goto(t, "idle"), timed' = [timed EXCEPT ![t] = h]
      PROVE  pendingCall' = [pendingCall EXCEPT ![t] = "none"]
  BY <1>3, <1>5, PendingAfter DEF goto, callAt
<1>6. ASSUME \/ Abstract!put(t) \/ Abstract!get(t) \/ Abstract!waits(t)
             \/ Abstract!gives(t) \/ Abstract!joins(t)
      PROVE  Abstract!Next
  BY <1>6 DEF Abstract!Next
<1>7. ASSUME NEW h \in BOOLEAN, put(t, h) PROVE Abstract!Next
  <2>1. pendingCall[t] = "none" /\ ~isShutdown /\ timed' = [timed EXCEPT ![t] = h]
    BY <1>1, <1>7 DEF put, callAt
  <2>2. CASE addItem(t)
    BY <1>2, <1>5, <1>6, <2>1, <2>2, ExitsImplement DEF addItem
  <2>3. CASE awaitRoom(t)
    <3>1. pendingCall' = [pendingCall EXCEPT ![t] = IF h THEN "timed put" ELSE "put"]
      BY <1>3, <2>1, <2>3, PendingAfter DEF awaitRoom, goto, callAt
    <3>2. Abstract!waits(t)
      BY <1>2, <2>1, <2>3, <3>1, Zenon
         DEF awaitRoom, atCapacity, fixed, Abstract!waits, Abstract!full, Abstract!putting,
             Abstract!fixed
    <3> QED BY <1>6, <3>2
  <2> QED BY <1>7, <2>2, <2>3 DEF put
<1>8. ASSUME NEW h \in BOOLEAN, get(t, h) PROVE Abstract!Next
  <2>1. pendingCall[t] = "none" /\ timed' = [timed EXCEPT ![t] = h]
    BY <1>1, <1>8 DEF get, callAt
  <2>2. CASE removeItem(t)
    BY <1>2, <1>5, <1>6, <2>1, <2>2, ExitsImplement DEF removeItem
  <2>3. CASE awaitItem(t)
    <3>1. pendingCall' = [pendingCall EXCEPT ![t] = IF h THEN "timed get" ELSE "get"]
      BY <1>3, <2>1, <2>3, PendingAfter DEF awaitItem, goto, callAt
    <3>2. ~isShutdown
      BY <1>8, <2>3 DEF get, awaitItem
    <3>3. Abstract!waits(t)
      BY <1>2, <2>1, <2>3, <3>1, <3>2, Zenon
         DEF awaitItem, fixed, Abstract!waits, Abstract!getting, Abstract!fixed
    <3> QED BY <1>6, <3>3
  <2> QED BY <1>8, <2>2, <2>3 DEF get
<1>9. CASE putWoken(t) \/ putLate(t)
  <2>1. /\ pc[t] \in {"put parked", "put late"} /\ timed' = timed
        /\ pendingCall[t] = IF timed[t] THEN "timed put" ELSE "put"
    BY <1>1, <1>9 DEF putWoken, putLate, callAt
  <2>2. CASE ~isShutdown /\ addItem(t)
    BY <1>2, <1>4, <1>6, <2>1, <2>2, ExitsImplement DEF addItem
  <2>3. CASE raises(t) /\ isShutdown
    BY <1>2, <1>4, <1>6, <2>1, <2>3, ExitsImplement DEF raises
  <2>4. CASE raises(t) /\ timed[t]
    BY <1>2, <1>4, <1>6, <2>1, <2>4, ExitsImplement DEF raises
  <2>5. CASE awaitRoom(t)
    BY <1>2, <1>3, <2>1, <2>5, StillWaits DEF awaitRoom, callAt
  <2> QED BY <1>9, <2>2, <2>3, <2>4, <2>5 DEF putWoken, putLate, ExpiredAreTimed
<1>10. CASE getWoken(t) \/ getLate(t)
  <2>1. /\ pc[t] \in {"get parked", "get late"} /\ timed' = timed
        /\ pendingCall[t] = IF timed[t] THEN "timed get" ELSE "get"
    BY <1>1, <1>10 DEF getWoken, getLate, callAt
  <2>2. CASE removeItem(t)
    BY <1>2, <1>4, <1>6, <2>1, <2>2, ExitsImplement DEF removeItem
  <2>3. CASE raises(t) /\ isShutdown
    BY <1>2, <1>4, <1>6, <2>1, <2>3, ExitsImplement DEF raises
  <2>4. CASE raises(t) /\ timed[t]
    BY <1>2, <1>4, <1>6, <2>1, <2>4, ExitsImplement DEF raises
  <2>5. CASE awaitItem(t)
    BY <1>2, <1>3, <2>1, <2>5, StillWaits DEF awaitItem, callAt
  <2> QED BY <1>10, <2>2, <2>3, <2>4, <2>5 DEF getWoken, getLate, ExpiredAreTimed
<1>11. CASE timerFires(t)
  <2>1. CASE pc[t] = "put parked" /\ goto(t, "put expired")
    BY <1>2, <1>3, <1>11, <2>1, StillWaits DEF timerFires, callAt
  <2>2. CASE pc[t] = "get parked" /\ goto(t, "get expired")
    BY <1>2, <1>3, <1>11, <2>2, StillWaits DEF timerFires, callAt
  <2> QED BY <1>11, <2>1, <2>2 DEF timerFires
<1>12. CASE reclaim(t)
  <2>1. /\ pc[t] \in {"put expired", "get expired"} /\ timed[t]
        /\ UNCHANGED <<timed, size, unfinished, isShutdown, processing>>
    BY <1>12 DEF reclaim, ExpiredAreTimed
  <2>2. pendingCall[t] \in {"timed put", "timed get"}
    BY <1>1, <2>1 DEF callAt
  <2>3. CASE goto(t, "idle")
    <3>1. Abstract!gives(t)
      BY <1>2, <1>4, <2>1, <2>2, <2>3, Zenon
         DEF fixed, Abstract!gives, Abstract!ends, Abstract!fixed
    <3> QED BY <1>6, <3>1
  <2>4. CASE pc[t] = "put expired" /\ goto(t, "put late")
    BY <1>2, <1>3, <2>1, <2>4, StillWaits DEF callAt
  <2>5. CASE pc[t] = "get expired" /\ goto(t, "get late")
    BY <1>2, <1>3, <2>1, <2>5, StillWaits DEF callAt
  <2> QED BY <1>12, <2>3, <2>4, <2>5 DEF reclaim
<1>13. CASE join(t)
  <2>1. UNCHANGED <<timed, size, unfinished, isShutdown, processing>> /\ goto(t, "join parked")
    BY <1>13 DEF join
  <2>2. CASE pc[t] = "idle"
    <3>1. pendingCall[t] = "none" /\ unfinished > 0
      BY <1>1, <1>13, <2>2 DEF join, callAt
    <3>2. pendingCall' = [pendingCall EXCEPT ![t] = "join"]
      BY <1>3, <2>1, PendingMoves DEF goto, callAt
    <3>3. Abstract!waits(t)
      BY <1>2, <2>1, <3>1, <3>2, Zenon DEF fixed, Abstract!waits, Abstract!fixed
    <3> QED BY <1>6, <3>3
  <2>3. CASE pc[t] = "join parked"
    BY <1>2, <1>3, <2>1, <2>3, StillWaits DEF callAt
  <2> QED BY <1>13, <2>2, <2>3 DEF join
<1>14. CASE joinReturns(t)
  <2>1. /\ pendingCall[t] = "join" /\ unfinished = 0 /\ goto(t, "idle")
        /\ UNCHANGED <<timed, size, unfinished, isShutdown, processing>>
    BY <1>1, <1>14 DEF joinReturns, callAt
  <2>2. Abstract!joins(t)
    BY <1>2, <1>4, <2>1, Zenon DEF fixed, Abstract!joins, Abstract!ends, Abstract!fixed
  <2> QED BY <1>6, <2>2
<1> QED BY <1>7, <1>8, <1>9, <1>10, <1>11, <1>12, <1>13, <1>14

\* The queue of waiter lists and channels implements the atomic one, for any
\* number of threads and any maxsize: each put, get, join, task_done and shutdown
\* takes effect at one instant or not at all.
THEOREM Implementation == Spec => ImplementsTaskQueue
<1>1. Init => Abstract!Init
  BY DEF Init, Abstract!Init, pendingCall, callAt
<1>2. Lists /\ ExpiredAreTimed /\ [Next]_vars => [Abstract!Next]_(Abstract!vars)
  <2> SUFFICES ASSUME Lists, ExpiredAreTimed, [Next]_vars
               PROVE  Abstract!Next \/ UNCHANGED Abstract!vars
    OBVIOUS
  <2>1. CASE UNCHANGED vars
    BY <2>1 DEF vars, fixed, Abstract!vars, Abstract!fixed, pendingCall
  <2>2. ASSUME NEW t \in Thread,
               \/ \E h \in BOOLEAN : put(t, h) \/ get(t, h)
               \/ putWoken(t) \/ putLate(t) \/ getWoken(t) \/ getLate(t)
               \/ timerFires(t) \/ reclaim(t) \/ join(t) \/ joinReturns(t)
        PROVE  Abstract!Next \/ UNCHANGED Abstract!vars
    BY <2>2, ThreadStepImplements
  <2>3. CASE taskDone
    <3>1. pendingCall' = pendingCall
      BY <2>3 DEF taskDone, pendingCall
    <3>2. Abstract!taskDone
      BY <2>3, <3>1, Zenon DEF taskDone, fixed, Abstract!taskDone, Abstract!fixed
    <3> QED BY <3>2 DEF Abstract!Next
  <2>4. CASE shutdown \/ shutdownImmediate \/ shutdownImmediateRaises
    <3>1. pendingCall' = pendingCall
      BY <2>4 DEF shutdown, shutdownImmediate, shutdownImmediateRaises, pendingCall
    <3>2. \A S : Max(S) = Abstract!Max(S)
      BY Zenon DEF Max, Abstract!Max
    <3>3. ASSUME shutdown PROVE Abstract!shutdown
      BY <3>1, <3>3, Zenon DEF shutdown, fixed, Abstract!shutdown, Abstract!fixed
    <3>4. ASSUME shutdownImmediate PROVE Abstract!shutdown
      BY <3>1, <3>2, <3>4, Zenon
         DEF shutdownImmediate, balanced, fixed, Abstract!shutdown, Abstract!fixed
    <3>5. ASSUME shutdownImmediateRaises PROVE Abstract!shutdown
      BY <3>1, <3>2, <3>5, Zenon
         DEF shutdownImmediateRaises, balanced, fixed, Abstract!shutdown, Abstract!fixed
    <3>6. Abstract!shutdown
      BY <2>4, <3>3, <3>4, <3>5
    <3> QED BY <3>6 DEF Abstract!Next
  <2> QED BY <2>1, <2>2, <2>3, <2>4 DEF Next
<1>3. Init => ExpiredAreTimed
  BY DEF Init, ExpiredAreTimed
<1>4. Lists /\ Counts => Lists
  OBVIOUS
<1> QED BY Invariance, TimedStep, <1>1, <1>2, <1>3, <1>4, PTL
        DEF Spec, ImplementsTaskQueue, Abstract!Spec
=============================================================================
