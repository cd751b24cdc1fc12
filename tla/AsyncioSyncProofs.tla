------------------------- MODULE AsyncioSyncProofs --------------------------
(***************************************************************************)
(* The steps of the asyncio Lock and Semaphore: what each keeps of its     *)
(* invariant, and that to the loop and to the other primitives it is one   *)
(* of the few steps module EventLoopProofs allows.  Then the invariant of  *)
(* the Queue and the wakes its steps are made of.                          *)
(***************************************************************************)
EXTENDS EventLoopProofs, AsyncioSemaphore, AsyncioQueue

\* acquire after its await.
LEMMA LockResumeStep ==
  ASSUME LoopInv, LockInv, NEW t \in Task, lockResume(t)
  PROVE  LockInv' /\ touches({"lock"})
<1> DEFINE q == lockWaiters
           r == removeFirst(q, t)
<1>0. /\ Types /\ listOf(q, "lock") /\ awaits[t] = "lock" /\ step(t)
      /\ awaits' = [awaits EXCEPT ![t] = "none"] /\ fut' = [fut EXCEPT ![t] = "none"]
      /\ ready' = ready /\ q' = r
  BY DEF LoopInv, LockInv, lockResume, step
<1>1. /\ q \in Seq(Task) /\ IsInjective(q) /\ DOMAIN q = 1..Len(q) /\ Len(q) \in Nat
      /\ \A i \in DOMAIN q : q[i] \in Task /\ q[i] \in Range(q) /\ awaits[q[i]] = "lock"
      /\ \A i \in DOMAIN q : fut[q[i]] \in {"pending", "result", "cancelled"}
      /\ t \in Range(q) /\ \E i \in DOMAIN q : q[i] = t
  BY <1>0, ListFacts DEF Calls
<1>2. r \in Seq(Task) /\ Range(r) = Range(q) \ {t} /\ IsInjective(r)
  BY <1>1, RemoveFirstFacts
<1>3. listOf(q, "lock")'
  BY <1>0, <1>2 DEF listOf, Types
<1>4. \A u \in Range(r) : u \in Range(q) /\ u # t /\ fut'[u] = fut[u]
  BY <1>0, <1>2 DEF listOf, Types
<1>5. \A i \in DOMAIN r : r[i] \in Range(r)
  BY <1>2 DEF Range
<1>6. \A i, j \in DOMAIN r :
        fut'[r[j]] = "result" =>
          /\ i < j => fut'[r[i]] = "cancelled"
          /\ i > j => fut'[r[i]] # "result"
  <2> SUFFICES ASSUME NEW i \in DOMAIN r, NEW j \in DOMAIN r, fut'[r[j]] = "result"
               PROVE  /\ i < j => fut'[r[i]] = "cancelled"
                      /\ i > j => fut'[r[i]] # "result"
    OBVIOUS
  <2>1. fut'[r[i]] = fut[r[i]] /\ fut'[r[j]] = fut[r[j]]
    BY <1>4, <1>5
  <2>2. PICK k \in DOMAIN q, l \in DOMAIN q : r[i] = q[k] /\ r[j] = q[l] /\ (i < j <=> k < l)
    BY <1>1, RemovedOrder
  <2>3. i > j => k > l
    <3>1. ASSUME i > j PROVE k # l
      BY <1>2, <2>2, <3>1 DEF IsInjective
    <3>2. i \in Int /\ j \in Int /\ k \in Int /\ l \in Int
      BY <1>1, <1>2
    <3> HIDE DEF r, q
    <3> QED BY <2>2, <3>1, <3>2
  <2> HIDE DEF r
  <2> QED BY <2>1, <2>2, <2>3 DEF LockInv, LockHandover
<1>7. wokenWaiters' = wokenWaiters \ {t}
  BY <1>0, <1>2, <1>4 DEF wokenWaiters
<1>8. t \in stepping /\ fut[t] # "pending"
  <2>1. t \in stepping
    BY <1>0, RunsQueued DEF step
  <2> QED BY <2>1 DEF LoopInv, TasksInv, TaskInv
<1>9. ASSUME raised(t) PROVE LockInv'
  <2>1. dropped' = (dropped \/ ~locked) /\ locked' = locked /\ holder' = holder
    BY <1>9 DEF lockResume
  <2>2. dropped' \in BOOLEAN /\ (~locked => dropped')
    BY <2>1 DEF LockInv
  <2>3. LockHandover'
    <3>1. (locked <=> holder # nil) /\ (locked => wokenWaiters = {})
      BY DEF LockInv, LockHandover
    <3>2. (locked' <=> holder' # nil) /\ (locked' => wokenWaiters' = {})
      BY <1>7, <2>1, <3>1
    <3> HIDE DEF r
    <3> QED BY <1>0, <1>6, <2>1, <2>2, <3>2 DEF LockHandover
  <2> QED BY <1>3, <2>1, <2>2, <2>3 DEF LockInv
<1>10. ASSUME ~raised(t) PROVE LockInv'
  <2>1. locked' = TRUE /\ holder' = t /\ dropped' = dropped
    BY <1>10 DEF lockResume
  <2>2. fut[t] = "result"
    BY <1>1, <1>8, <1>10 DEF raised
  <2>3. wokenWaiters' = {}
    <3>1. PICK k \in DOMAIN q : q[k] = t
      BY <1>1
    <3>2. ASSUME NEW u \in Range(r), fut'[u] = "result" PROVE FALSE
      <4>1. PICK i \in DOMAIN q : q[i] = u /\ i # k
        BY <1>4, <3>1, <3>2 DEF Range
      <4>2. fut[q[i]] = "result" /\ fut[q[k]] = "result"
        BY <1>4, <2>2, <3>1, <3>2, <4>1
      <4>3. i < k \/ i > k
        BY <1>1, <4>1
      <4> QED BY <4>2, <4>3 DEF LockInv, LockHandover
    <3>3. wokenWaiters' = {u \in Range(r) : fut'[u] = "result"}
      BY <1>0 DEF wokenWaiters, Range
    <3> HIDE DEF r
    <3> QED BY <3>2, <3>3
  <2>4. LockHandover'
    BY <1>0, <1>6, <2>1, <2>3, MainAssumption DEF LockHandover
  <2> QED BY <1>3, <2>1, <2>4 DEF LockInv
<1>11. resumes(t, {})
  <2>1. [fut EXCEPT ![t] = "none"] \in [Task -> {"none", "pending", "result", "cancelled"}]
    BY <1>0 DEF Types
  <2>2. wakes([fut EXCEPT ![t] = "none"], {})
    BY <1>0, <2>1, NoWakes
  <2> QED BY <1>0, <2>2 DEF resumes
<1>12. touches({"lock"})
  BY <1>0, <1>11 DEF touches
<1> QED BY <1>9, <1>10, <1>12

\* The first pending waiter of a list.
LEMMA FirstPending ==
  ASSUME NEW q \in Seq(Task), NEW F, pendingAt(q, F) # {}
  PROVE  \E m \in DOMAIN q :
           /\ m = Min(pendingAt(q, F)) /\ F[q[m]] = "pending" /\ q[m] \in Task /\ q[m] \in Range(q)
           /\ \A i \in DOMAIN q : i < m => F[q[i]] # "pending"
<1> DEFINE P == pendingAt(q, F)
<1>1. P \in SUBSET Nat /\ P # {}
  BY DEF pendingAt
<1>2. Min(P) \in P /\ \A i \in P : Min(P) <= i
  <2> HIDE DEF P
  <2> QED BY <1>1, MinFacts
<1>3. PICK m \in P : m = Min(P)
  BY <1>2
<1>4. m \in DOMAIN q /\ F[q[m]] = "pending" /\ q[m] \in Task /\ q[m] \in Range(q)
  <2>1. m \in DOMAIN q /\ F[q[m]] = "pending"
    BY DEF pendingAt
  <2> QED BY <2>1 DEF Range
<1>5. \A i \in DOMAIN q : i < m => F[q[i]] # "pending"
  <2>1. ASSUME NEW i \in DOMAIN q, i < m, F[q[i]] = "pending" PROVE FALSE
    <3>1. i \in P /\ m <= i /\ i \in Nat /\ m \in Nat
      BY <1>1, <1>2, <1>3, <2>1 DEF pendingAt
    <3> QED BY <2>1, <3>1
  <2> QED BY <2>1
<1> QED BY <1>3, <1>4, <1>5

\* release.
LEMMA LockReleaseStep ==
  ASSUME LoopInv, LockInv, NEW t \in Task, lockRelease(t)
  PROVE  LockInv' /\ touches({"lock"})
<1> DEFINE q == lockWaiters
<1>0. /\ Types /\ listOf(q, "lock") /\ current = t /\ UNCHANGED <<loop, offLoop, task, awaits>>
      /\ q' = q /\ locked' = FALSE /\ holder' = nil /\ dropped' = dropped /\ wakeFirst
  BY DEF LoopInv, LockInv, lockRelease, task
<1> USE <1>0
<1>1. /\ q \in Seq(Task) /\ \A i \in DOMAIN q : q[i] \in Task /\ q[i] \in Range(q) /\ awaits[q[i]] = "lock"
      /\ \A i, j \in DOMAIN q : q[i] = q[j] => i = j
      /\ \A i \in DOMAIN q : fut[q[i]] \in {"pending", "result", "cancelled"}
  BY ListFacts DEF Calls
<1>2. listOf(q, "lock")'
  BY DEF listOf
<1>3. \A i \in DOMAIN q : fut[q[i]] # "result"
  <2>1. locked
    BY MainAssumption DEF LockInv, LockHandover, lockRelease
  <2> QED BY <1>1, <2>1 DEF LockInv, LockHandover, wokenWaiters
<1>4. CASE pendingAt(q, fut) = {}
  <2>1. fut' = fut /\ ready' = ready
    BY <1>4 DEF wakeFirst
  <2>2. LockHandover'
    BY <1>3, <1>4, <2>1 DEF LockHandover, pendingAt
  <2>3. acts(t, {})
    BY <2>1, NoWakes DEF acts, Types
  <2>4. LockInv'
    BY Zenon, <1>2, <2>2 DEF LockInv
  <2> QED BY <2>3, <2>4 DEF touches
<1>5. CASE pendingAt(q, fut) # {}
  <2>1. PICK m \in DOMAIN q :
          /\ m = Min(pendingAt(q, fut)) /\ fut[q[m]] = "pending" /\ q[m] \in Task /\ q[m] \in Range(q)
          /\ \A i \in DOMAIN q : i < m => fut[q[i]] # "pending"
    BY <1>1, <1>5, FirstPending
  <2>2. settle(fut, q[m], "result")
    BY <1>5, <2>1 DEF wakeFirst
  <2>3. \A i \in DOMAIN q : fut'[q[i]] = IF i = m THEN "result" ELSE fut[q[i]]
    BY <1>1, <2>1, <2>2 DEF settle, Types
  <2>4. \A i, j \in DOMAIN q :
          fut'[q[j]] = "result" =>
            /\ i < j => fut'[q[i]] = "cancelled"
            /\ i > j => fut'[q[i]] # "result"
    <3> SUFFICES ASSUME NEW i \in DOMAIN q, NEW j \in DOMAIN q, fut'[q[j]] = "result"
                 PROVE  /\ i < j => fut'[q[i]] = "cancelled"
                        /\ i > j => fut'[q[i]] # "result"
      OBVIOUS
    <3>1. j = m
      BY <1>3, <2>3
    <3>2. i < m \/ i > m => i # m
      BY <1>1
    <3> HIDE DEF q
    <3> QED BY <1>1, <1>3, <2>1, <2>3, <3>1, <3>2
  <2>5. q[m] \in wokenWaiters'
    BY <2>1, <2>3 DEF wokenWaiters
  <2>6. LockHandover'
    BY <2>4, <2>5 DEF LockHandover
  <2>7. acts(t, {q[m]}) /\ \A w \in {q[m]} : awaits[w] \in {"lock"}
    <3>1. wakes(fut, {q[m]})
      BY <2>1, <2>2, SettleWakes DEF Types
    <3> QED BY <1>1, <3>1 DEF acts
  <2>8. LockInv'
    BY <1>2, <2>6 DEF LockInv
  <2> QED BY <2>7, <2>8 DEF touches
<1> QED BY <1>4, <1>5

-----------------------------------------------------------------------------
\* Tasks woken in a call and not resumed are finitely many.
LEMMA WokenFacts ==
  ASSUME LoopInv, NEW c \in Calls
  PROVE  IsFiniteSet(wokenIn(c)) /\ Cardinality(wokenIn(c)) \in Nat
<1>1. wokenIn(c) \subseteq live /\ IsFiniteSet(live)
  <2>1. c # "start"
    BY DEF Calls
  <2> QED BY <2>1 DEF wokenIn, LoopInv, Types, TasksInv, TaskInv
<1>2. IsFiniteSet(wokenIn(c))
  BY <1>1, FS_Subset
<1> QED BY <1>2, FS_CardinalityType

\* The inductive invariant of the semaphore.
SemInv ==
  /\ value \in Nat /\ leaked \in Nat /\ semDropped \in BOOLEAN
  /\ held \in SUBSET Task /\ IsFiniteSet(held) /\ \A t \in held : awaits[t] # "sem"
  /\ listOf(semWaiters, "sem")
  /\ PermitsAccounted

\* The granted waiters are those woken in acquire.
LEMMA GrantedFacts ==
  ASSUME LoopInv, SemInv
  PROVE  /\ granted = wokenIn("sem")
         /\ IsFiniteSet(granted) /\ Cardinality(granted) \in Nat /\ Cardinality(held) \in Nat
         /\ "sem" \in Calls
<1>1. "sem" \in Calls
  BY DEF Calls
<1>2. granted = wokenIn("sem")
  BY DEF granted, wokenIn, SemInv, listOf
<1>3. Cardinality(held) \in Nat
  BY FS_CardinalityType DEF SemInv
<1> QED BY <1>1, <1>2, <1>3, WokenFacts

\* A step of something else.
LEMMA SemFrame ==
  ASSUME LoopInv, SemInv, UNCHANGED semVars, frame("sem")
  PROVE  SemInv'
<1>1. UNCHANGED <<value, semWaiters, held, leaked, semDropped>>
  BY DEF semVars
<1> USE <1>1
<1>2. listOf(semWaiters, "sem")' /\ \A t \in held : awaits'[t] # "sem"
  BY DEF listOf, SemInv, frame
<1>3. \A t \in Range(semWaiters) :
        fut'[t] = fut[t] \/ (fut[t] = "pending" /\ fut'[t] = "cancelled")
  BY DEF SemInv, listOf, frame
<1>4. granted' = granted
  BY <1>3 DEF granted
<1>5. ASSUME value > 0, pendingAt(semWaiters, fut)' # {}
      PROVE  granted # {} \/ semDropped \/ \E t \in Range(semWaiters) : fut'[t] = "cancelled"
  <2>1. \A i \in DOMAIN semWaiters : semWaiters[i] \in Range(semWaiters)
    BY DEF Range
  <2>2. pendingAt(semWaiters, fut) # {}
    BY <1>3, <1>5, <2>1 DEF pendingAt
  <2> QED BY <1>3, <1>5, <2>2 DEF SemInv, PermitsAccounted
<1>6. PermitsAccounted'
  BY <1>4, <1>5 DEF SemInv, PermitsAccounted
<1> QED BY <1>2, <1>6 DEF SemInv

\* A free permit goes to the first pending waiter.
grants(v, q, F) ==
  \/ pendingAt(q, F) = {} /\ value' = v /\ fut' = F /\ wakes(F, {})
  \/ \E w \in Range(q) : F[w] = "pending" /\ value' = v - 1 /\ wakes(F, {w})
                         /\ fut' = [F EXCEPT ![w] = "result"]

\* That is what wakeUpNext does (asyncio_semaphore.go:123-131).
LEMMA WakeUpNextFacts ==
  ASSUME LoopInv, NEW v, NEW q \in Seq(Task), NEW F,
         F \in [Task -> {"none", "pending", "result", "cancelled"}], wakeUpNext(v, q, F)
  PROVE  grants(v, q, F)
<1>1. CASE pendingAt(q, F) = {}
  BY <1>1, NoWakes DEF wakeUpNext, grants
<1>2. CASE pendingAt(q, F) # {}
  <2>1. PICK m \in DOMAIN q :
          m = Min(pendingAt(q, F)) /\ F[q[m]] = "pending" /\ q[m] \in Task /\ q[m] \in Range(q)
    BY <1>2, FirstPending
  <2>2. value' = v - 1 /\ settle(F, q[m], "result")
    BY <1>2, <2>1 DEF wakeUpNext
  <2>3. wakes(F, {q[m]})
    BY <2>1, <2>2, SettleWakes
  <2> QED BY <2>1, <2>2, <2>3 DEF settle, grants
<1> QED BY <1>1, <1>2

\* acquire up to its await.
LEMMA SemAcquireStep ==
  ASSUME LoopInv, SemInv, NEW t \in Task, semAcquire(t)
  PROVE  SemInv' /\ touches({"sem"})
<1> DEFINE q == semWaiters
<1> /\ Types /\ listOf(q, "sem") /\ current = t /\ awaits[t] = "none" /\ t \notin held
    /\ leaked' = leaked /\ semDropped' = semDropped /\ UNCHANGED <<loop, offLoop>>
  BY Busy DEF LoopInv, SemInv, semAcquire
<1> /\ granted = wokenIn("sem") /\ Cardinality(granted) \in Nat /\ Cardinality(held) \in Nat
  BY GrantedFacts
<1> /\ value \in Nat /\ leaked \in Nat /\ Permits \in Nat /\ IsFiniteSet(held)
    /\ value + Cardinality(held) + Cardinality(granted) + leaked = Permits
  BY PermitsAssumption DEF SemInv, PermitsAccounted
<1>1. ASSUME ~semLocked, value' = value - 1, held' = held \cup {t}, UNCHANGED <<q, ready, fut, task>>
      PROVE  SemInv' /\ touches({"sem"})
  <2> UNCHANGED <<q, fut, awaits>> /\ value # 0 /\ q = <<>>
    BY <1>1 DEF task, semLocked
  <2>1. granted' = granted /\ pendingAt(q, fut)' = {}
    BY DEF granted, pendingAt
  <2>2. IsFiniteSet(held') /\ Cardinality(held') = Cardinality(held) + 1
    BY Zenon, <1>1, FS_AddElement
  <2>3. PermitsAccounted'
    BY <1>1, <2>1, <2>2 DEF PermitsAccounted
  <2>4. SemInv'
    BY <1>1, <2>2, <2>3 DEF SemInv, listOf
  <2>5. acts(t, {})
    BY <1>1, NoWakes DEF acts, Types
  <2> QED BY <2>4, <2>5 DEF touches
<1>2. ASSUME semLocked, q' = Append(q, t), suspend(t, "sem"), UNCHANGED <<value, held>>
      PROVE  SemInv' /\ touches({"sem"})
  <2> /\ awaits' = [awaits EXCEPT ![t] = "sem"] /\ fut' = [fut EXCEPT ![t] = "pending"]
      /\ value' = value /\ held' = held
    BY <1>2 DEF suspend
  <2> q \in Seq(Task) /\ IsInjective(q) /\ t \notin Range(q)
    BY DEF listOf
  <2> q' \in Seq(Task) /\ Range(q') = Range(q) \cup {t} /\ IsInjective(q')
    BY <1>2, AppendFacts
  <2> fut'[t] = "pending" /\ \A u \in Range(q) : fut'[u] = fut[u]
    BY DEF Types, listOf
  <2>1. listOf(q, "sem")'
    BY DEF listOf, Types
  <2>2. granted' = granted
    BY DEF granted
  <2>3. ASSUME value > 0
        PROVE  granted # {} \/ semDropped \/ \E u \in Range(q') : fut'[u] = "cancelled"
    <3>1. PICK i \in DOMAIN q : TRUE
      BY <1>2, <2>3 DEF semLocked
    <3>2. fut[q[i]] \in {"pending", "result", "cancelled"} /\ q[i] \in Range(q)
      BY ListFacts DEF Calls
    <3>3. CASE fut[q[i]] = "pending"
      <4>1. pendingAt(q, fut) # {}
        BY <3>3 DEF pendingAt
      <4> QED BY <2>3, <4>1 DEF SemInv, PermitsAccounted
    <3> QED BY <3>2, <3>3 DEF granted
  <2>4. PermitsAccounted'
    BY <2>2, <2>3 DEF PermitsAccounted
  <2>5. SemInv'
    BY <2>1, <2>4 DEF SemInv, Types
  <2>6. parks(t, "sem")
    BY <1>2 DEF parks
  <2> QED BY <2>5, <2>6 DEF touches
<1> QED BY <1>1, <1>2 DEF semAcquire

\* What a grant does to the waiters of the list q.
resultsIn(q, F) == {u \in Range(q) : F[u] = "result"}

\* One more of them has a permit on its way.
LEMMA GrantFacts ==
  ASSUME NEW q, NEW F, F \in [Task -> {"none", "pending", "result", "cancelled"}],
         NEW w \in Range(q), w \in Task, F[w] = "pending", fut' = [F EXCEPT ![w] = "result"],
         IsFiniteSet(resultsIn(q, F))
  PROVE  /\ w \in resultsIn(q, fut')
         /\ Cardinality(resultsIn(q, fut')) = Cardinality(resultsIn(q, F)) + 1
<1>1. /\ resultsIn(q, fut') = resultsIn(q, F) \cup {w} /\ w \notin resultsIn(q, F)
  BY DEF resultsIn
<1>2. Cardinality(resultsIn(q, F) \cup {w}) = Cardinality(resultsIn(q, F)) + 1
  BY <1>1, FS_AddElement
<1> QED BY Zenon, <1>1, <1>2

\* release.
LEMMA SemReleaseStep ==
  ASSUME LoopInv, SemInv, NEW t \in Task, semRelease(t)
  PROVE  SemInv' /\ touches({"sem"})
<1> DEFINE q == semWaiters
<1> /\ Types /\ listOf(q, "sem") /\ current = t /\ t \in held /\ held' = held \ {t}
    /\ leaked' = leaked /\ semDropped' = semDropped /\ UNCHANGED <<q, loop, offLoop, task, awaits>>
  BY DEF LoopInv, SemInv, semRelease, task
<1> /\ IsFiniteSet(granted) /\ Cardinality(granted) \in Nat /\ Cardinality(held) \in Nat
  BY GrantedFacts
<1> /\ value \in Nat /\ leaked \in Nat /\ Permits \in Nat /\ IsFiniteSet(held)
    /\ value + Cardinality(held) + Cardinality(granted) + leaked = Permits
  BY PermitsAssumption DEF SemInv, PermitsAccounted
<1> IsFiniteSet(held') /\ Cardinality(held') = Cardinality(held) - 1
  BY FS_RemoveElement
<1> listOf(q, "sem")' /\ q \in Seq(Task) /\ \A w \in Range(q) : w \in Task /\ awaits[w] \in {"sem"}
  BY DEF listOf
<1> fut \in [Task -> {"none", "pending", "result", "cancelled"}]
  BY DEF Types
<1>1. PICK v : v = value + 1 /\ wakeUpNext(v, q, fut)
  BY DEF semRelease
<1>2. grants(v, q, fut)
  BY <1>1, WakeUpNextFacts
<1>3. ASSUME pendingAt(q, fut) = {}, value' = v, fut' = fut, wakes(fut, {})
      PROVE  SemInv' /\ touches({"sem"})
  <2>1. granted' = granted /\ pendingAt(q, fut)' = {}
    BY <1>3 DEF granted
  <2>2. PermitsAccounted'
    BY <1>1, <1>3, <2>1 DEF PermitsAccounted
  <2>3. SemInv'
    BY <1>1, <1>3, <2>2 DEF SemInv
  <2>4. acts(t, {})
    BY <1>3 DEF acts
  <2> QED BY <2>3, <2>4 DEF touches
<1>4. ASSUME NEW w \in Range(q), fut[w] = "pending", value' = v - 1, wakes(fut, {w}),
             fut' = [fut EXCEPT ![w] = "result"]
      PROVE  SemInv' /\ touches({"sem"})
  <2>1. w \in granted' /\ Cardinality(granted') = Cardinality(granted) + 1
    <3>1. granted = resultsIn(q, fut) /\ granted' = resultsIn(q, fut')
      BY DEF granted, resultsIn
    <3> QED BY Zenon, <1>4, <3>1, GrantFacts
  <2>2. PermitsAccounted'
    BY <1>1, <1>4, <2>1 DEF PermitsAccounted
  <2>3. SemInv'
    BY <1>1, <1>4, <2>2 DEF SemInv
  <2>4. acts(t, {w})
    BY <1>4 DEF acts
  <2> QED BY <2>3, <2>4 DEF touches
<1> QED BY <1>2, <1>3, <1>4 DEF grants

\* acquire after its await.
LEMMA SemResumeStep ==
  ASSUME LoopInv, SemInv, NEW t \in Task, semResume(t)
  PROVE  SemInv' /\ touches({"sem"})
<1> DEFINE q == semWaiters
           r == removeFirst(q, t)
           F == [fut EXCEPT ![t] = "none"]
           G == resultsIn(r, F)
<1> /\ Types /\ listOf(q, "sem") /\ awaits[t] = "sem" /\ t \notin held
    /\ q \in Seq(Task) /\ IsInjective(q) /\ t \in Range(q)
    /\ F \in [Task -> {"none", "pending", "result", "cancelled"}]
  BY DEF LoopInv, SemInv, semResume, Types, listOf
<1> step(t) /\ awaits' = [awaits EXCEPT ![t] = "none"] /\ q' = r
  BY DEF semResume, step
<1> r \in Seq(Task) /\ Range(r) = Range(q) \ {t} /\ IsInjective(r)
  BY RemoveFirstFacts
<1> listOf(q, "sem")' /\ \A w \in Range(r) : w \in Task /\ awaits[w] \in {"sem"} /\ F[w] = fut[w]
  BY DEF listOf, Types
<1> /\ IsFiniteSet(granted) /\ Cardinality(granted) \in Nat /\ Cardinality(held) \in Nat
  BY GrantedFacts
<1> /\ value \in Nat /\ leaked \in Nat /\ Permits \in Nat /\ IsFiniteSet(held)
    /\ value + Cardinality(held) + Cardinality(granted) + leaked = Permits
  BY PermitsAssumption DEF SemInv, PermitsAccounted
<1>1. /\ G = granted \ {t} /\ (t \in granted <=> fut[t] = "result")
      /\ IsFiniteSet(G) /\ Cardinality(G) \in Nat
      /\ fut[t] = "result" => Cardinality(G) = Cardinality(granted) - 1
      /\ fut[t] # "result" => Cardinality(G) = Cardinality(granted)
  <2>1. G = granted \ {t} /\ (t \in granted <=> fut[t] = "result")
    BY DEF granted, resultsIn
  <2> HIDE DEF G
  <2>2. /\ IsFiniteSet(G)
        /\ Cardinality(G) = IF t \in granted THEN Cardinality(granted) - 1 ELSE Cardinality(granted)
    BY ONLY IsFiniteSet(granted), <2>1, FS_RemoveElement
  <2>3. Cardinality(G) \in Nat
    BY ONLY <2>2, FS_CardinalityType
  <2> QED BY ONLY <2>1, <2>2, <2>3
<1>2. t \in stepping /\ fut[t] \in {"result", "cancelled"}
  <2>1. t \in stepping
    BY RunsQueued DEF step
  <2> QED BY Zenon, <2>1 DEF LoopInv, TasksInv, TaskInv, Types
<1>3. ASSUME NEW W \in SUBSET Range(r), resumes(t, W) PROVE touches({"sem"})
  <2>1. awaits[t] \notin Calls \ {"sem"} /\ \A w \in W : awaits[w] \in {"sem"}
    BY <1>3
  <2> QED BY ONLY t \in Task, <1>3, <2>1 DEF touches
<1>4. ASSUME raised(t) PROVE SemInv' /\ touches({"sem"})
  <2>1. /\ leaked' = leaked + (IF fut[t] = "result" THEN 1 ELSE 0)
        /\ semDropped' = (semDropped \/ value > 0 \/ fut[t] = "result")
        /\ fut' = F /\ value' = value /\ held' = held /\ ready' = ready
    BY <1>4 DEF semResume
  <2>2. granted' = G
    BY <2>1 DEF granted, resultsIn
  <2> HIDE DEF G, F, r
  <2>3. PermitsAccounted'
    <3>1. value' > 0 \/ fut[t] = "result" => semDropped'
      BY <2>1
    <3>2. value' + Cardinality(held') + Cardinality(granted') + leaked' = Permits
      <4> DEFINE g == Cardinality(granted)
                 h == Cardinality(held)
                 n == Cardinality(G)
      <4>1. /\ g \in Nat /\ h \in Nat /\ n \in Nat /\ value \in Nat /\ leaked \in Nat
            /\ value + h + g + leaked = Permits
        BY Zenon, <1>1
      <4>2. value' = value /\ Cardinality(held') = h /\ Cardinality(granted') = n
        BY Zenon, <2>1, <2>2
      <4>3. /\ fut[t] = "result" => n = g - 1 /\ leaked' = leaked + 1
            /\ fut[t] # "result" => n = g /\ leaked' = leaked + 0
        BY Zenon, <1>1, <2>1
      <4> HIDE DEF g, h, n
      <4> QED BY ONLY <4>1, <4>2, <4>3
    <3> QED BY <2>1, <3>1, <3>2 DEF PermitsAccounted
  <2>4. SemInv'
    BY <2>1, <2>3 DEF SemInv, Types
  <2>5. resumes(t, {})
    <3>1. wakes(F, {})
      BY <2>1, NoWakes
    <3> QED BY <3>1 DEF resumes, F
  <2> QED BY <1>3, <2>4, <2>5
<1>5. ASSUME ~raised(t) PROVE SemInv' /\ touches({"sem"})
  <2> /\ held' = held \cup {t} /\ leaked' = leaked /\ semDropped' = semDropped /\ fut[t] = "result"
    BY <1>2, <1>5 DEF semResume, raised
  <2> IsFiniteSet(held') /\ Cardinality(held') = Cardinality(held) + 1
    BY FS_AddElement
  <2> Cardinality(G) = Cardinality(granted) - 1 /\ IsFiniteSet(G)
    BY <1>1
  <2>1. CASE value > 0
    <3>1. grants(value, r, F)
      <4>1. wakeUpNext(value, r, F)
        BY <1>5, <2>1 DEF semResume
      <4> HIDE DEF F, r
      <4> QED BY <4>1, WakeUpNextFacts
    <3>2. ASSUME pendingAt(r, F) = {}, value' = value, fut' = F, wakes(F, {})
          PROVE  SemInv' /\ touches({"sem"})
      <4>1. granted' = G /\ pendingAt(q, fut)' = {}
        BY <3>2 DEF granted, resultsIn
      <4> HIDE DEF G, F, r
      <4>2. PermitsAccounted'
        BY <1>1, <3>2, <4>1 DEF PermitsAccounted
      <4>3. SemInv'
        BY <3>2, <4>2 DEF SemInv, Types
      <4>4. resumes(t, {})
        BY Zenon, <3>2 DEF resumes, F
      <4> QED BY Zenon, <1>3, <4>3, <4>4
    <3>3. ASSUME NEW w \in Range(r), F[w] = "pending", value' = value - 1, wakes(F, {w}),
                 fut' = [F EXCEPT ![w] = "result"]
          PROVE  SemInv' /\ touches({"sem"})
      <4>1. w \in granted' /\ Cardinality(granted') = Cardinality(G) + 1
        <5>1. granted' = resultsIn(r, fut')
          BY Zenon DEF granted, resultsIn
        <5> HIDE DEF F, r
        <5> QED BY Zenon, <3>3, <5>1, GrantFacts DEF G
      <4> HIDE DEF G, F, r
      <4>2. PermitsAccounted'
        BY <1>1, <2>1, <3>3, <4>1 DEF PermitsAccounted
      <4>3. SemInv'
        BY <2>1, <3>3, <4>2 DEF SemInv, Types
      <4>4. resumes(t, {w})
        BY Zenon, <3>3 DEF resumes, F
      <4> QED BY <1>3, <4>3, <4>4
    <3> HIDE DEF F, r
    <3> QED BY Zenon, <3>1, <3>2, <3>3 DEF grants
  <2>2. CASE ~(value > 0)
    <3>1. fut' = F /\ value' = value /\ ready' = ready
      BY <1>5, <2>2 DEF semResume
    <3>2. granted' = G
      BY <3>1 DEF granted, resultsIn
    <3> HIDE DEF G, F, r
    <3>3. PermitsAccounted'
      BY <1>1, <2>2, <3>1, <3>2 DEF PermitsAccounted
    <3>4. SemInv'
      BY <3>1, <3>3 DEF SemInv, Types
    <3>5. resumes(t, {})
      <4>1. wakes(F, {})
        BY <3>1, NoWakes
      <4> QED BY Zenon, <4>1 DEF resumes, F
    <3> QED BY <1>3, <3>4, <3>5
  <2> QED BY <2>1, <2>2
<1> QED BY <1>4, <1>5
-----------------------------------------------------------------------------
\* The tasks that await c with the outcome o, with the awaits A and the futures F.
at(c, o, A, F) == {t \in Task : A[t] = c /\ F[t] = o}

\* A waiter list of the queue: of those that await c, every pending one, no woken
\* one, and perhaps cancelled ones.
parked(q, c, A, F) ==
  /\ q \in Seq(Task) /\ IsInjective(q)
  /\ \A t \in Range(q) : A[t] = c /\ F[t] # "result"
  /\ \A t \in Task : A[t] = c /\ F[t] = "pending" => t \in Range(q)

\* The waiter list of join: each task that awaits it, once.
listed(q, c, A) == q \in Seq(Task) /\ IsInjective(q) /\ Range(q) = {t \in Task : A[t] = c}

\* The queue with the awaits A and the futures F, where a woken getter (dg) or
\* putter (dp) may just have left to look at it.
standing(A, F, dg, dp) ==
  /\ items \in Nat /\ unfinished \in Nat /\ got \in Nat
  /\ isShutdown \in BOOLEAN /\ swallowed \in BOOLEAN
  /\ parked(getters, "get", A, F) /\ parked(putters, "put", A, F) /\ listed(joiners, "join", A)
  /\ at("get", "pending", A, F) # {} =>
       ~isShutdown /\ (swallowed \/ items <= Cardinality(at("get", "result", A, F)) + dg)
  /\ at("put", "pending", A, F) # {} =>
       ~isShutdown /\ (swallowed \/ QueueSize - items <= Cardinality(at("put", "result", A, F)) + dp)
  /\ at("join", "pending", A, F) # {} => unfinished > 0
  /\ unfinished = items + got

\* The inductive invariant of the queue.
QueueInv == standing(awaits, fut, 0, 0)

\* A list shows whether anybody is pending.
LEMMA PendingFacts ==
  ASSUME NEW q \in Seq(Task), NEW c, NEW A, NEW F, \A t \in Range(q) : A[t] = c,
         \A t \in Task : A[t] = c /\ F[t] = "pending" => t \in Range(q)
  PROVE  pendingAt(q, F) # {} <=> at(c, "pending", A, F) # {}
<1>1. \A i \in DOMAIN q : q[i] \in Range(q) /\ q[i] \in Task
  BY DEF Range
<1>2. ASSUME NEW i \in pendingAt(q, F) PROVE q[i] \in at(c, "pending", A, F)
  BY <1>1, <1>2 DEF pendingAt, at
<1>3. ASSUME NEW t \in at(c, "pending", A, F) PROVE \E i \in DOMAIN q : i \in pendingAt(q, F)
  BY <1>3 DEF pendingAt, at, Range
<1> QED BY <1>2, <1>3

\* The invariant says what QueueWaitsJust says.
LEMMA QueueJust ==
  ASSUME LoopInv, QueueInv
  PROVE  QueueWaitsJust
<1> USE DEF QueueInv, standing
<1>1. pendingAt(getters, fut) # {} <=> at("get", "pending", awaits, fut) # {}
  BY Zenon, PendingFacts DEF parked
<1>2. pendingAt(putters, fut) # {} <=> at("put", "pending", awaits, fut) # {}
  BY Zenon, PendingFacts DEF parked
<1>3. pendingAt(joiners, fut) # {} <=> at("join", "pending", awaits, fut) # {}
  <2>1. joiners \in Seq(Task) /\ \A t \in Task : t \in Range(joiners) <=> awaits[t] = "join"
    BY DEF listed
  <2>2. \A t \in Range(joiners) : awaits[t] = "join"
    BY Zenon DEF listed
  <2> QED BY <2>1, <2>2, PendingFacts
<1>4. \A c : wokenIn(c) = at(c, "result", awaits, fut)
  BY DEF wokenIn, at
<1>5. Cardinality(wokenIn("get")) \in Nat /\ Cardinality(wokenIn("put")) \in Nat
  BY Zenon, WokenFacts DEF Calls
<1> QED BY <1>1, <1>2, <1>3, <1>4, <1>5, QueueAssumption DEF QueueWaitsJust

\* wakeupNext takes the first pending waiter, and the cancelled ones ahead of it,
\* off the list.
LEMMA FirstInFacts ==
  ASSUME NEW q, NEW c, NEW A, NEW F, parked(q, c, A, F), NEW W, W = Range(firstIn(q, F)),
         NEW G, G = [t \in Task |-> IF t \in W THEN "result" ELSE F[t]]
  PROVE  /\ \/ W = {} /\ at(c, "pending", A, F) = {}
            \/ \E w \in at(c, "pending", A, F) : W = {w}
         /\ firstIn(q, F) \in Seq(Task) /\ IsInjective(firstIn(q, F))
         /\ parked(afterFirst(q, F), c, A, G)
<1> /\ q \in Seq(Task) /\ IsInjective(q) /\ DOMAIN q = 1..Len(q) /\ Len(q) \in Nat
    /\ \A t \in Range(q) : A[t] = c /\ F[t] # "result"
    /\ \A t \in Task : A[t] = c /\ F[t] = "pending" => t \in Range(q)
  BY DEF parked
<1> \A i \in DOMAIN q : q[i] \in Task /\ q[i] \in Range(q)
  BY DEF Range
<1>1. CASE pendingAt(q, F) = {}
  <2>1. firstIn(q, F) = <<>> /\ afterFirst(q, F) = <<>> /\ W = {}
    BY <1>1 DEF firstIn, afterFirst, Range
  <2>2. at(c, "pending", A, F) = {}
    BY Zenon, <1>1, PendingFacts
  <2>3. Range(<<>>) = {} /\ IsInjective(<<>>) /\ <<>> \in Seq(Task)
    BY EmptyFacts
  <2>4. parked(<<>>, c, A, G)
    BY <2>1, <2>2, <2>3 DEF parked, at
  <2> QED BY Zenon, <2>1, <2>2, <2>3, <2>4
<1>2. CASE pendingAt(q, F) # {}
  <2>1. PICK m \in DOMAIN q :
          /\ m = Min(pendingAt(q, F)) /\ F[q[m]] = "pending"
          /\ \A i \in DOMAIN q : i < m => F[q[i]] # "pending"
    BY Zenon, <1>2, FirstPending
  <2> DEFINE r == SubSeq(q, m + 1, Len(q))
  <2>2. firstIn(q, F) = <<q[m]>> /\ afterFirst(q, F) = r
    BY <1>2, <2>1 DEF firstIn, afterFirst
  <2>3. W = {q[m]} /\ <<q[m]>> \in Seq(Task) /\ IsInjective(<<q[m]>>)
    BY Zenon, <2>2, SingleFacts
  <2>4. q[m] \in at(c, "pending", A, F)
    BY Zenon, <2>1 DEF at
  <2>5. r \in Seq(Task) /\ IsInjective(r) /\ Range(r) = Range(q) \ {q[i] : i \in 1..m}
    <3>1. m \in 0..Len(q)
      OBVIOUS
    <3> QED BY Zenon, <3>1, PopFacts
  <2> HIDE DEF r
  <2>6. \A t \in Range(r) : t \in Range(q) /\ t \in Task /\ t # q[m]
    <3>1. q[m] \in {q[i] : i \in 1..m}
      OBVIOUS
    <3>2. Range(q) \subseteq Task
      BY Zenon, RangeFacts
    <3> QED BY ONLY <2>5, <3>1, <3>2
  <2>7. \A t \in Range(q) : F[t] = "pending" /\ t # q[m] => t \in Range(r)
    <3>1. ASSUME NEW i \in 1..m, F[q[i]] = "pending" PROVE i = m
      BY <2>1, <3>1
    <3> QED BY Zenon, <2>5, <3>1
  <2>8. parked(r, c, A, G)
    <3>1. \A t \in Range(r) : A[t] = c /\ G[t] # "result"
      BY <2>3, <2>6
    <3>2. \A t \in Task : A[t] = c /\ G[t] = "pending" => t \in Range(r)
      BY <2>3, <2>7
    <3> QED BY <2>5, <3>1, <3>2 DEF parked
  <2> QED BY Zenon, <2>2, <2>3, <2>4, <2>8
<1> QED BY Zenon, <1>1, <1>2

\* The pending waiters of a list, in order.
LEMMA AllInFacts ==
  ASSUME NEW q \in Seq(Task), IsInjective(q), NEW F, NEW p \in allIn(q, F)
  PROVE  p \in Seq(Task) /\ IsInjective(p) /\ Range(p) = {t \in Range(q) : F[t] = "pending"}
<1> DOMAIN q = 1..Len(q) /\ Len(q) \in Nat /\ \A i \in DOMAIN q : q[i] \in Task
  OBVIOUS
<1>1. IsFiniteSet(pendingAt(q, F)) /\ pendingAt(q, F) \subseteq DOMAIN q
  <2>1. pendingAt(q, F) \subseteq 1..Len(q)
    BY DEF pendingAt
  <2>2. IsFiniteSet(1..Len(q))
    BY FS_Interval
  <2> QED BY <2>1, <2>2, FS_Subset
<1>2. PICK f \in orders(pendingAt(q, F)) : p = [i \in DOMAIN f |-> q[f[i]]]
  BY DEF allIn
<1>3. f \in Seq(pendingAt(q, F)) /\ IsInjective(f) /\ Range(f) = pendingAt(q, F)
  BY <1>1, OrdersFacts
<1> /\ DOMAIN f = 1..Len(f) /\ Len(f) \in Nat /\ DOMAIN p = DOMAIN f
    /\ \A i \in DOMAIN f : f[i] \in pendingAt(q, F) /\ f[i] \in DOMAIN q /\ p[i] = q[f[i]]
  BY <1>1, <1>2, <1>3
<1>4. p \in Seq(Task)
  <2>1. p \in [1..Len(f) -> Task]
    BY Zenon, <1>2
  <2> QED BY <2>1
<1>5. IsInjective(p)
  BY <1>3 DEF IsInjective
<1>6. ASSUME NEW t \in Range(p) PROVE t \in Range(q) /\ F[t] = "pending"
  BY <1>6 DEF Range, pendingAt
<1>7. ASSUME NEW t \in Range(q), F[t] = "pending" PROVE t \in Range(p)
  <2>1. PICK k \in DOMAIN q : q[k] = t
    BY DEF Range
  <2>2. k \in Range(f)
    BY <1>3, <1>7, <2>1 DEF pendingAt
  <2> QED BY <2>1, <2>2 DEF Range
<1> QED BY <1>4, <1>5, <1>6, <1>7

\* Waiters that are resolved in turn are woken.
LEMMA SettleAllWakes ==
  ASSUME LoopInv, NEW F, NEW p \in Seq(Task), IsInjective(p), \A t \in Range(p) : F[t] = "pending",
         settleAll(F, p)
  PROVE  wakes(F, Range(p))
<1>1. Range(p) \subseteq Task
  BY DEF Range
<1>2. Adds(callbacks(Range(p), {}, {}))
  BY AddsFacts DEF settleAll, LoopInv
<1> QED BY <1>1, <1>2 DEF wakes, settleAll

\* Awaits that only live tasks have, so that they can be counted.
among(A) == \A t \in Task : A[t] \in Calls => t \in live

\* Those that await c with one outcome are finitely many.
LEMMA AwaitersFinite ==
  ASSUME LoopInv, NEW A, among(A), NEW c \in Calls, NEW o, NEW F
  PROVE  IsFiniteSet(at(c, o, A, F)) /\ Cardinality(at(c, o, A, F)) \in Nat
<1>1. at(c, o, A, F) \subseteq live /\ IsFiniteSet(live)
  BY DEF LoopInv, Types, among, at
<1>2. IsFiniteSet(at(c, o, A, F))
  BY <1>1, FS_Subset
<1>3. Cardinality(at(c, o, A, F)) \in Nat
  BY <1>2, FS_CardinalityType
<1> QED BY <1>2, <1>3

\* Only live tasks await a primitive.
LEMMA AmongFacts ==
  ASSUME LoopInv
  PROVE  among(awaits)
BY Zenon DEF LoopInv, TasksInv, TaskInv, among, Calls

\* A step of something else.
LEMMA QueueFrame ==
  ASSUME LoopInv, QueueInv, UNCHANGED queueVars, frame("get"), frame("put"), frame("join")
  PROVE  QueueInv'
<1> UNCHANGED <<items, unfinished, isShutdown, getters, putters, joiners, got, swallowed>>
  BY DEF queueVars
<1>1. ASSUME NEW q, NEW c, parked(q, c, awaits, fut), frame(c) PROVE parked(q, c, awaits', fut')
  <2>1. q \in Seq(Task)
    BY <1>1 DEF parked
  <2>2. \A t \in Range(q) : t \in Task
    BY ONLY <2>1, RangeFacts
  <2> QED BY Zenon, <1>1, <2>2 DEF parked, frame
<1>2. ASSUME NEW c, frame(c)
      PROVE  /\ at(c, "result", awaits', fut') = at(c, "result", awaits, fut)
             /\ at(c, "pending", awaits', fut') \subseteq at(c, "pending", awaits, fut)
  BY Zenon, <1>2 DEF at, frame
<1>3. listed(joiners, "join", awaits) => listed(joiners, "join", awaits')
  BY DEF listed, frame
<1>4. parked(getters, "get", awaits', fut') /\ parked(putters, "put", awaits', fut')
        /\ listed(joiners, "join", awaits')
  BY <1>1, <1>3 DEF QueueInv, standing
<1>5. \A c \in {"get", "put", "join"} :
        /\ at(c, "result", awaits', fut') = at(c, "result", awaits, fut)
        /\ at(c, "pending", awaits', fut') # {} => at(c, "pending", awaits, fut) # {}
  BY <1>2
<1> QED BY <1>4, <1>5 DEF QueueInv, standing

\* A woken getter or putter leaves to look at the queue.
leaves(t, A, F) ==
  /\ F \in [Task -> {"none", "pending", "result", "cancelled"}] /\ among(A)
  /\ \A c \in Calls :
       /\ at(c, "pending", A, F) = at(c, "pending", awaits, fut)
       /\ at(c, "result", A, F) = at(c, "result", awaits, fut) \ {t}
       /\ \A q : parked(q, c, awaits, fut) /\ t \notin Range(q) => parked(q, c, A, F)

\* A task whose future is not pending any more leaves so.
LEMMA LeaveFacts ==
  ASSUME LoopInv, QueueInv, NEW t \in Task, fut[t] # "pending", awaits[t] \in Calls,
         NEW A, A = [awaits EXCEPT ![t] = "none"], NEW F, F = [fut EXCEPT ![t] = "none"]
  PROVE  leaves(t, A, F)
<1> Types /\ "none" \notin Calls
  BY DEF LoopInv, Calls
<1>1. F \in [Task -> {"none", "pending", "result", "cancelled"}] /\ among(A)
  BY AmongFacts DEF Types, among
<1>2. \A u \in Task : u # t => A[u] = awaits[u] /\ F[u] = fut[u]
  BY DEF Types
<1>3. A[t] = "none" /\ F[t] = "none"
  BY DEF Types
<1>4. ASSUME NEW c \in Calls
      PROVE  /\ at(c, "pending", A, F) = at(c, "pending", awaits, fut)
             /\ at(c, "result", A, F) = at(c, "result", awaits, fut) \ {t}
  BY <1>2, <1>3 DEF at
<1>5. ASSUME NEW c \in Calls, NEW q, parked(q, c, awaits, fut), t \notin Range(q)
      PROVE  parked(q, c, A, F)
  <2>1. \A u \in Range(q) : u \in Task /\ u # t
    BY <1>5 DEF parked, Range
  <2> QED BY <1>2, <1>3, <1>5, <2>1 DEF parked
<1> QED BY <1>1, <1>4, <1>5 DEF leaves

\* It is counted out.
LEMMA LeftCount ==
  ASSUME NEW R, IsFiniteSet(R), NEW t, NEW S, S = R \ {t}
  PROVE  /\ IsFiniteSet(S) /\ Cardinality(S) \in Nat /\ Cardinality(R) \in Nat
         /\ t \in R => Cardinality(R) = Cardinality(S) + 1
         /\ t \notin R => Cardinality(R) = Cardinality(S)
<1>1. IsFiniteSet(R \ {t}) /\ Cardinality(R \ {t}) = IF t \in R THEN Cardinality(R) - 1 ELSE Cardinality(R)
  BY FS_RemoveElement
<1>2. Cardinality(R) \in Nat /\ Cardinality(R \ {t}) \in Nat
  BY Zenon, <1>1, FS_CardinalityType
<1> QED BY <1>1, <1>2

\* The queue stands while the woken getter or putter looks at it.
LEMMA LeftStands ==
  ASSUME LoopInv, QueueInv, NEW t \in Task, fut[t] = "result", awaits[t] \in {"get", "put"},
         NEW A, NEW F, leaves(t, A, F), listed(joiners, "join", A)
  PROVE  /\ awaits[t] = "get" => standing(A, F, 1, 0)
         /\ awaits[t] = "put" => standing(A, F, 0, 1)
<1> {"get", "put", "join"} \subseteq Calls
  BY DEF Calls
<1>1. t \notin Range(getters) /\ t \notin Range(putters)
  BY Zenon DEF QueueInv, standing, parked
<1>2. parked(getters, "get", A, F) /\ parked(putters, "put", A, F)
  BY <1>1 DEF QueueInv, standing, leaves
<1>3. /\ at("get", "pending", A, F) = at("get", "pending", awaits, fut)
      /\ at("put", "pending", A, F) = at("put", "pending", awaits, fut)
      /\ at("join", "pending", A, F) = at("join", "pending", awaits, fut)
      /\ at("get", "result", A, F) = at("get", "result", awaits, fut) \ {t}
      /\ at("put", "result", A, F) = at("put", "result", awaits, fut) \ {t}
  BY Zenon DEF leaves
<1> DEFINE g == Cardinality(at("get", "result", A, F))
           p == Cardinality(at("put", "result", A, F))
           g0 == Cardinality(at("get", "result", awaits, fut))
           p0 == Cardinality(at("put", "result", awaits, fut))
<1>4. /\ IsFiniteSet(at("get", "result", awaits, fut)) /\ IsFiniteSet(at("put", "result", awaits, fut))
      /\ t \in at("get", "result", awaits, fut) <=> awaits[t] = "get"
      /\ t \in at("put", "result", awaits, fut) <=> awaits[t] = "put"
  <2>1. among(awaits)
    BY Zenon, AmongFacts
  <2>2. IsFiniteSet(at("get", "result", awaits, fut)) /\ IsFiniteSet(at("put", "result", awaits, fut))
    BY Zenon, <2>1, AwaitersFinite
  <2> QED BY Zenon, <2>2 DEF at
<1>5. /\ g \in Nat /\ g0 \in Nat
      /\ awaits[t] = "get" => g0 = g + 1
      /\ awaits[t] # "get" => g0 = g
  <2> DEFINE R == at("get", "result", awaits, fut)
             S == at("get", "result", A, F)
  <2>1. IsFiniteSet(R) /\ S = R \ {t} /\ (t \in R <=> awaits[t] = "get")
    BY Zenon, <1>3, <1>4
  <2> HIDE DEF R, S
  <2>2. /\ Cardinality(S) \in Nat /\ Cardinality(R) \in Nat
        /\ awaits[t] = "get" => Cardinality(R) = Cardinality(S) + 1
        /\ awaits[t] # "get" => Cardinality(R) = Cardinality(S)
    BY ONLY Zenon, <2>1, LeftCount
  <2> QED BY <2>2 DEF R, S
<1>6. /\ p \in Nat /\ p0 \in Nat
      /\ awaits[t] = "put" => p0 = p + 1
      /\ awaits[t] # "put" => p0 = p
  <2> DEFINE R == at("put", "result", awaits, fut)
             S == at("put", "result", A, F)
  <2>1. IsFiniteSet(R) /\ S = R \ {t} /\ (t \in R <=> awaits[t] = "put")
    BY Zenon, <1>3, <1>4
  <2> HIDE DEF R, S
  <2>2. /\ Cardinality(S) \in Nat /\ Cardinality(R) \in Nat
        /\ awaits[t] = "put" => Cardinality(R) = Cardinality(S) + 1
        /\ awaits[t] # "put" => Cardinality(R) = Cardinality(S)
    BY ONLY <2>1, LeftCount
  <2> QED BY <2>2 DEF R, S
<1> HIDE DEF g, p, g0, p0
<1>7. CASE awaits[t] = "get"
  <2>1. g0 + 0 = g + 1 /\ p0 + 0 = p + 0
    BY ONLY <1>5, <1>6, <1>7
  <2> QED BY Zenon, <1>2, <1>3, <1>7, <2>1 DEF QueueInv, standing, g, p, g0, p0
<1>8. CASE awaits[t] = "put"
  <2>1. g0 + 0 = g + 0 /\ p0 + 0 = p + 1
    BY ONLY <1>5, <1>6, <1>8
  <2> QED BY Zenon, <1>2, <1>3, <1>8, <2>1 DEF QueueInv, standing, g, p, g0, p0
<1> QED BY <1>7, <1>8

\* The same from the assignments of a resumed call (asyncio_queue.go:239-241, :265-267).
LEMMA LeftFacts ==
  ASSUME LoopInv, QueueInv, NEW t \in Task, fut[t] = "result", awaits[t] \in {"get", "put"},
         NEW A, A = [awaits EXCEPT ![t] = "none"], NEW F, F = [fut EXCEPT ![t] = "none"]
  PROVE  /\ F \in [Task -> {"none", "pending", "result", "cancelled"}] /\ among(A)
         /\ awaits[t] = "get" => standing(A, F, 1, 0)
         /\ awaits[t] = "put" => standing(A, F, 0, 1)
<1>1. fut[t] # "pending" /\ awaits[t] \in Calls
  BY DEF Calls
<1>2. leaves(t, A, F)
  BY <1>1, LeaveFacts
<1>3. listed(joiners, "join", A)
  <2>1. \A u \in Task : awaits[u] = "join" <=> A[u] = "join"
    BY DEF LoopInv, Types
  <2> QED BY <2>1 DEF QueueInv, standing, listed
<1>4. /\ awaits[t] = "get" => standing(A, F, 1, 0)
      /\ awaits[t] = "put" => standing(A, F, 0, 1)
  BY <1>2, <1>3, LeftStands
<1> QED BY Zenon, <1>2, <1>4 DEF leaves

\* What wakeupNext does to those that await c, with the list q, and to the others.
wokeNext(q, c, A, F) ==
  /\ \E W : wakes(F, W) /\ \A w \in W : A[w] = c
  /\ parked(afterFirst(q, F), c, A, fut')
  /\ \A d, o : d # c => at(d, o, A, fut') = at(d, o, A, F)
  /\ \A d, r : d # c /\ parked(r, d, A, F) => parked(r, d, A, fut')
  /\ at(c, "pending", A, fut') # {} =>
       /\ at(c, "pending", A, F) # {}
       /\ Cardinality(at(c, "result", A, fut')) = Cardinality(at(c, "result", A, F)) + 1

\* That is what wakeupNext does (asyncio_queue.go:345-354).
LEMMA WakeNext ==
  ASSUME LoopInv, NEW q, NEW c \in Calls, NEW A, NEW F, among(A), parked(q, c, A, F),
         settleAll(F, firstIn(q, F))
  PROVE  wokeNext(q, c, A, F)
<1> DEFINE W == Range(firstIn(q, F))
<1>1. fut' = [t \in Task |-> IF t \in W THEN "result" ELSE F[t]]
  BY DEF settleAll
<1> HIDE DEF W
<1>2. /\ \/ W = {} /\ at(c, "pending", A, F) = {}
         \/ \E w \in at(c, "pending", A, F) : W = {w}
      /\ firstIn(q, F) \in Seq(Task) /\ IsInjective(firstIn(q, F))
      /\ parked(afterFirst(q, F), c, A, fut')
  BY <1>1, FirstInFacts DEF W
<1>3. \A w \in W : w \in Task /\ A[w] = c /\ F[w] = "pending"
  BY Zenon, <1>2 DEF at
<1>4. wakes(F, W)
  BY Zenon, <1>2, <1>3, SettleAllWakes DEF W
<1>5. \A t \in Task : A[t] # c => fut'[t] = F[t]
  BY Zenon, <1>1, <1>3
<1>6. ASSUME NEW d, NEW o, d # c PROVE at(d, o, A, fut') = at(d, o, A, F)
  BY Zenon, <1>5, <1>6 DEF at
<1>7. ASSUME NEW d, NEW r, d # c, parked(r, d, A, F) PROVE parked(r, d, A, fut')
  <2>1. \A t \in Range(r) : t \in Task
    BY <1>7 DEF parked, Range
  <2> QED BY <1>5, <1>7, <2>1 DEF parked
<1>8. ASSUME at(c, "pending", A, fut') # {}
      PROVE  /\ at(c, "pending", A, F) # {}
             /\ Cardinality(at(c, "result", A, fut')) = Cardinality(at(c, "result", A, F)) + 1
  <2>1. PICK u \in Task : A[u] = c /\ fut'[u] = "pending"
    BY Zenon, <1>8 DEF at
  <2>2. u \in at(c, "pending", A, F)
    BY <1>1, <2>1 DEF at
  <2>3. PICK w \in at(c, "pending", A, F) : W = {w}
    BY Zenon, <1>2, <2>2
  <2>4. at(c, "result", A, fut') = at(c, "result", A, F) \cup {w} /\ w \notin at(c, "result", A, F)
    BY <1>1, <2>3 DEF at
  <2>5. IsFiniteSet(at(c, "result", A, F))
    BY AwaitersFinite
  <2>6. Cardinality(at(c, "result", A, F) \cup {w}) = Cardinality(at(c, "result", A, F)) + 1
    BY <2>4, <2>5, FS_AddElement
  <2> QED BY Zenon, <2>2, <2>4, <2>6
<1> QED BY Zenon, <1>2, <1>3, <1>4, <1>6, <1>7, <1>8 DEF wokeNext

\* put_nowait, by a running task or by a putter that has just left.
LEMMA PutNoWaitFacts ==
  ASSUME LoopInv, NEW A, NEW F, among(A), NEW d \in {0, 1}, standing(A, F, 0, d),
         awaits' = A, putNoWait(F, putters)
  PROVE  QueueInv' /\ \E W : wakes(F, W) /\ \A w \in W : A[w] = "get"
<1>1. /\ items' = items + 1 /\ unfinished' = unfinished + 1 /\ putters' = putters /\ ~isShutdown
      /\ getters' = afterFirst(getters, F) /\ settleAll(F, firstIn(getters, F))
      /\ isShutdown' = isShutdown /\ joiners' = joiners /\ got' = got /\ swallowed' = swallowed
  BY DEF putNoWait
<1>2. wokeNext(getters, "get", A, F)
  BY Zenon, <1>1, WakeNext DEF standing, Calls
<1>3. /\ parked(getters', "get", A, fut') /\ parked(putters', "put", A, fut')
      /\ listed(joiners', "join", A)
  BY <1>1, <1>2 DEF standing, wokeNext
<1>4. /\ at("put", "pending", A, fut') = at("put", "pending", A, F)
      /\ at("put", "result", A, fut') = at("put", "result", A, F)
      /\ at("join", "pending", A, fut') = at("join", "pending", A, F)
  BY <1>2 DEF wokeNext
<1>5. /\ Cardinality(at("get", "result", A, F)) \in Nat
      /\ Cardinality(at("get", "result", A, fut')) \in Nat
      /\ Cardinality(at("put", "result", A, F)) \in Nat
  BY Zenon, AwaitersFinite DEF Calls
<1>6. at("get", "pending", A, fut') # {} =>
        swallowed \/ items' <= Cardinality(at("get", "result", A, fut')) + 0
  BY <1>1, <1>2, <1>5 DEF standing, wokeNext
<1>7. at("put", "pending", A, fut') # {} =>
        swallowed \/ QueueSize - items' <= Cardinality(at("put", "result", A, fut')) + 0
  BY <1>1, <1>4, <1>5, QueueAssumption DEF standing
<1>8. QueueInv'
  BY <1>1, <1>3, <1>4, <1>6, <1>7 DEF QueueInv, standing
<1> QED BY <1>2, <1>8 DEF wokeNext

\* get_nowait.
LEMMA GetNoWaitFacts ==
  ASSUME LoopInv, NEW A, NEW F, among(A), NEW d \in {0, 1}, standing(A, F, d, 0),
         awaits' = A, getNoWait(F, getters)
  PROVE  QueueInv' /\ \E W : wakes(F, W) /\ \A w \in W : A[w] = "put"
<1>1. /\ items > 0 /\ items' = items - 1 /\ got' = got + 1 /\ getters' = getters
      /\ putters' = afterFirst(putters, F) /\ settleAll(F, firstIn(putters, F))
      /\ isShutdown' = isShutdown /\ joiners' = joiners /\ unfinished' = unfinished
      /\ swallowed' = swallowed
  BY DEF getNoWait
<1>2. wokeNext(putters, "put", A, F)
  BY Zenon, <1>1, WakeNext DEF standing, Calls
<1>3. /\ parked(getters', "get", A, fut') /\ parked(putters', "put", A, fut')
      /\ listed(joiners', "join", A)
  BY <1>1, <1>2 DEF standing, wokeNext
<1>4. /\ at("get", "pending", A, fut') = at("get", "pending", A, F)
      /\ at("get", "result", A, fut') = at("get", "result", A, F)
      /\ at("join", "pending", A, fut') = at("join", "pending", A, F)
  BY <1>2 DEF wokeNext
<1>5. /\ Cardinality(at("put", "result", A, F)) \in Nat
      /\ Cardinality(at("put", "result", A, fut')) \in Nat
      /\ Cardinality(at("get", "result", A, F)) \in Nat
  BY Zenon, AwaitersFinite DEF Calls
<1>6. at("put", "pending", A, fut') # {} =>
        ~isShutdown
        /\ (swallowed \/ QueueSize - items' <= Cardinality(at("put", "result", A, fut')) + 0)
  BY <1>1, <1>2, <1>5, QueueAssumption DEF standing, wokeNext
<1>7. at("get", "pending", A, fut') # {} =>
        ~isShutdown /\ (swallowed \/ items' <= Cardinality(at("get", "result", A, fut')) + 0)
  BY <1>1, <1>4, <1>5 DEF standing
<1>8. QueueInv'
  BY <1>1, <1>3, <1>4, <1>6, <1>7 DEF QueueInv, standing
<1> QED BY <1>2, <1>8 DEF wokeNext

queueCalls == {"get", "put", "join"}
=============================================================================
