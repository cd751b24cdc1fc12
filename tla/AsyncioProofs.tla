--------------------------- MODULE AsyncioProofs ----------------------------
(***************************************************************************)
(* The safety properties of the event loop and of the Lock, the Semaphore  *)
(* and the Queue that run on it, for any tasks, programs and completions:  *)
(* the steps of the Queue, then all the steps together.                    *)
(***************************************************************************)
EXTENDS AsyncioSyncProofs, Asyncio

\* A task whose step runs has been resolved or cancelled.
LEMMA Resumed ==
  ASSUME LoopInv, NEW t \in Task, runs(stepOf(t)), awaits[t] \in Calls
  PROVE  /\ fut[t] \in {"result", "cancelled"} /\ fut[t] # "pending"
         /\ ~raised(t) => fut[t] = "result"
<1>1. t \in stepping
  BY RunsQueued
<1>2. awaits[t] # "start" /\ awaits[t] # "none"
  BY DEF Calls
<1> QED BY <1>1, <1>2 DEF LoopInv, TasksInv, TaskInv, Types, raised

\* A call that ends without a look at the queue.
LEMMA CallEnds ==
  ASSUME LoopInv, QueueInv, NEW t \in Task, awaits[t] \in queueCalls, step(t), UNCHANGED ready,
         fut' = [fut EXCEPT ![t] = "none"],
         getters' = removeFirst(getters, t), putters' = removeFirst(putters, t),
         joiners' = removeFirst(joiners, t),
         swallowed' \in BOOLEAN, swallowed => swallowed',
         fut[t] = "result" /\ awaits[t] # "join" => swallowed' \/ isShutdown,
         UNCHANGED <<items, unfinished, isShutdown, got>>
  PROVE  QueueInv' /\ touches(queueCalls)
<1> Types /\ queueCalls \subseteq Calls /\ awaits[t] \in Calls /\ "none" \notin Calls
  BY DEF LoopInv, Calls, queueCalls
<1>1. fut[t] # "pending"
  BY Resumed DEF step
<1>2. PICK A : A = [awaits EXCEPT ![t] = "none"]
  BY Zenon
<1>3. PICK F : F = [fut EXCEPT ![t] = "none"]
  OBVIOUS
<1>4. leaves(t, A, F) /\ awaits' = A /\ fut' = F
  BY <1>1, <1>2, <1>3, LeaveFacts DEF step
<1>5. \A u \in Task : u # t => A[u] = awaits[u] /\ F[u] = fut[u]
  BY <1>2, <1>3 DEF Types
<1>6. A[t] = "none" /\ F[t] = "none"
  BY <1>2, <1>3 DEF Types
<1>7. ASSUME NEW c \in queueCalls, NEW q, parked(q, c, awaits, fut)
      PROVE  parked(removeFirst(q, t), c, A, F)
  <2>1. q \in Seq(Task) /\ IsInjective(q)
    BY <1>7 DEF parked
  <2>2. PICK r : r = removeFirst(q, t)
    OBVIOUS
  <2>3. r \in Seq(Task) /\ IsInjective(r) /\ Range(r) = Range(q) \ {t}
    BY <2>1, <2>2, RemoveFirstFacts
  <2>4. \A u \in Range(r) : u \in Task /\ u # t /\ u \in Range(q)
    BY <2>3, RangeFacts
  <2>5. parked(r, c, A, F)
    BY <1>5, <1>6, <1>7, <2>3, <2>4 DEF parked
  <2> QED BY <2>2, <2>5
<1>8. listed(joiners', "join", A)
  <2>1. joiners \in Seq(Task) /\ IsInjective(joiners) /\ Range(joiners) = {u \in Task : awaits[u] = "join"}
    BY DEF QueueInv, standing, listed
  <2>2. joiners' \in Seq(Task) /\ IsInjective(joiners') /\ Range(joiners') = Range(joiners) \ {t}
    BY <2>1, RemoveFirstFacts
  <2> QED BY <1>5, <1>6, <2>1, <2>2 DEF listed
<1>9. parked(getters', "get", A, F) /\ parked(putters', "put", A, F)
  BY <1>7 DEF QueueInv, standing, queueCalls
<1>10. \A c \in queueCalls :
         /\ at(c, "pending", A, F) = at(c, "pending", awaits, fut)
         /\ at(c, "result", A, F) = at(c, "result", awaits, fut) \ {t}
  BY <1>4 DEF leaves
<1>11. ASSUME ~swallowed', ~isShutdown
       PROVE  /\ at("get", "result", A, F) = at("get", "result", awaits, fut)
              /\ at("put", "result", A, F) = at("put", "result", awaits, fut)
  <2>1. t \notin at("get", "result", awaits, fut) /\ t \notin at("put", "result", awaits, fut)
    BY <1>11 DEF at
  <2> QED BY <1>10, <2>1 DEF queueCalls
<1>12. /\ at("get", "pending", A, F) # {} =>
            ~isShutdown /\ (swallowed' \/ items <= Cardinality(at("get", "result", A, F)) + 0)
       /\ at("put", "pending", A, F) # {} =>
            ~isShutdown
            /\ (swallowed' \/ QueueSize - items <= Cardinality(at("put", "result", A, F)) + 0)
       /\ at("join", "pending", A, F) # {} => unfinished > 0
  BY <1>10, <1>11 DEF QueueInv, standing, queueCalls
<1>13. QueueInv'
  BY <1>4, <1>8, <1>9, <1>12 DEF QueueInv, standing
<1>14. resumes(t, {})
  <2>1. wakes(F, {})
    BY <1>4, NoWakes DEF leaves
  <2> QED BY <1>3, <2>1 DEF resumes
<1> QED BY <1>13, <1>14 DEF touches

\* The await raised.
LEMMA CallCancelledStep ==
  ASSUME LoopInv, QueueInv, NEW t \in Task, awaits[t] \in queueCalls, callCancelled(t)
  PROVE  QueueInv' /\ touches(queueCalls)
<1>1. /\ swallowed' \in BOOLEAN /\ (swallowed => swallowed')
      /\ (fut[t] = "result" /\ awaits[t] # "join" => swallowed' \/ isShutdown)
  BY DEF callCancelled, QueueInv, standing
<1> QED BY Zenon, <1>1, CallEnds DEF callCancelled

\* A task that is in no list is not missed there.
LEMMA NotListed ==
  ASSUME LoopInv, QueueInv, NEW t \in Task
  PROVE  /\ awaits[t] # "get" \/ fut[t] = "result" => removeFirst(getters, t) = getters
         /\ awaits[t] # "put" \/ fut[t] = "result" => removeFirst(putters, t) = putters
         /\ awaits[t] # "join" => removeFirst(joiners, t) = joiners
<1>1. ASSUME NEW q, NEW c, parked(q, c, awaits, fut), awaits[t] # c \/ fut[t] = "result"
      PROVE  removeFirst(q, t) = q
  BY <1>1, RemoveFirstFacts DEF parked
<1>2. awaits[t] # "join" => removeFirst(joiners, t) = joiners
  BY Zenon, RemoveFirstFacts DEF QueueInv, standing, listed
<1> QED BY <1>1, <1>2 DEF QueueInv, standing

\* t joins the list q of the call c; the other lists do not notice.
LEMMA ParkFacts ==
  ASSUME LoopInv, NEW t \in Task, NEW c \in queueCalls,
         awaits[t] = "none" \/ (awaits[t] = c /\ fut[t] = "result"),
         awaits' = [awaits EXCEPT ![t] = c], fut' = [fut EXCEPT ![t] = "pending"]
  PROVE  /\ \A q : parked(q, c, awaits, fut) => parked(Append(q, t), c, awaits', fut')
         /\ \A d \in queueCalls : d # c =>
              /\ \A q : parked(q, d, awaits, fut) => parked(q, d, awaits', fut')
              /\ \A q : listed(q, d, awaits) => listed(q, d, awaits')
              /\ \A o : at(d, o, awaits', fut') = at(d, o, awaits, fut)
         /\ among(awaits')
<1> Types /\ queueCalls \subseteq Calls /\ "none" \notin Calls /\ "start" \notin Calls
  BY DEF LoopInv, Calls, queueCalls
<1> awaits'[t] = c /\ fut'[t] = "pending"
  BY DEF Types
<1> \A u \in Task : u # t => awaits'[u] = awaits[u] /\ fut'[u] = fut[u]
  BY DEF Types
<1>1. ASSUME NEW q, parked(q, c, awaits, fut) PROVE parked(Append(q, t), c, awaits', fut')
  <2>1. q \in Seq(Task) /\ IsInjective(q) /\ t \notin Range(q)
    BY <1>1 DEF parked
  <2>2. PICK r : r = Append(q, t)
    OBVIOUS
  <2>3. r \in Seq(Task) /\ IsInjective(r) /\ Range(r) = Range(q) \cup {t}
    BY <2>1, <2>2, AppendFacts
  <2>4. \A u \in Range(q) : u \in Task /\ u # t
    BY <2>1 DEF Range
  <2> QED BY <1>1, <2>2, <2>3, <2>4 DEF parked
<1>2. ASSUME NEW d \in queueCalls, d # c
      PROVE  \A u \in Task : /\ awaits'[u] = d <=> awaits[u] = d
                             /\ awaits[u] = d => fut'[u] = fut[u]
  BY <1>2
<1>3. ASSUME NEW d \in queueCalls, d # c, NEW q, parked(q, d, awaits, fut)
      PROVE  parked(q, d, awaits', fut')
  <2>1. \A u \in Range(q) : u \in Task
    BY <1>3 DEF parked, Range
  <2> QED BY <1>2, <1>3, <2>1 DEF parked
<1>4. ASSUME NEW d \in queueCalls, d # c, NEW q, listed(q, d, awaits) PROVE listed(q, d, awaits')
  BY <1>2, <1>4 DEF listed
<1>5. ASSUME NEW d \in queueCalls, d # c, NEW o PROVE at(d, o, awaits', fut') = at(d, o, awaits, fut)
  BY <1>2, <1>5 DEF at
<1>6. among(awaits')
  <2>1. t \in live
    BY MainAssumption DEF LoopInv, TasksInv, TaskInv
  <2> QED BY <2>1, AmongFacts DEF among
<1> QED BY <1>1, <1>3, <1>4, <1>5, <1>6

\* put finds the queue full and parks, at first or again.
LEMMA PutParks ==
  ASSUME LoopInv, QueueInv, NEW t \in Task, full, ~isShutdown,
         awaits[t] = "none" \/ (awaits[t] = "put" /\ fut[t] = "result"),
         awaits' = [awaits EXCEPT ![t] = "put"], fut' = [fut EXCEPT ![t] = "pending"],
         putters' = Append(putters, t),
         UNCHANGED <<items, unfinished, isShutdown, getters, joiners, got, swallowed>>
  PROVE  QueueInv'
<1>1. PICK c \in queueCalls : c = "put"
  BY DEF queueCalls
<1>2. /\ \A q : parked(q, c, awaits, fut) => parked(Append(q, t), c, awaits', fut')
      /\ \A d \in queueCalls : d # c =>
           /\ \A q : parked(q, d, awaits, fut) => parked(q, d, awaits', fut')
           /\ \A q : listed(q, d, awaits) => listed(q, d, awaits')
           /\ \A o : at(d, o, awaits', fut') = at(d, o, awaits, fut)
      /\ among(awaits')
  BY <1>1, ParkFacts
<1>3. /\ parked(getters', "get", awaits', fut') /\ parked(putters', "put", awaits', fut')
      /\ listed(joiners', "join", awaits')
  BY Zenon, <1>1, <1>2 DEF QueueInv, standing, queueCalls
<1>4. /\ at("get", "pending", awaits', fut') = at("get", "pending", awaits, fut)
      /\ at("get", "result", awaits', fut') = at("get", "result", awaits, fut)
      /\ at("join", "pending", awaits', fut') = at("join", "pending", awaits, fut)
  BY <1>1, <1>2 DEF queueCalls
<1>5. QueueSize - items <= Cardinality(at("put", "result", awaits', fut')) + 0
  <2>1. Cardinality(at("put", "result", awaits', fut')) \in Nat
    BY Zenon, <1>2, AwaitersFinite DEF Calls
  <2> QED BY <2>1, QueueAssumption DEF full, QueueInv, standing
<1> QED BY Zenon, <1>3, <1>4, <1>5 DEF QueueInv, standing

\* get finds it empty and parks.
LEMMA GetParks ==
  ASSUME LoopInv, QueueInv, NEW t \in Task, items = 0, ~isShutdown,
         awaits[t] = "none" \/ (awaits[t] = "get" /\ fut[t] = "result"),
         awaits' = [awaits EXCEPT ![t] = "get"], fut' = [fut EXCEPT ![t] = "pending"],
         getters' = Append(getters, t),
         UNCHANGED <<items, unfinished, isShutdown, putters, joiners, got, swallowed>>
  PROVE  QueueInv'
<1>1. PICK c \in queueCalls : c = "get"
  BY DEF queueCalls
<1>2. /\ \A q : parked(q, c, awaits, fut) => parked(Append(q, t), c, awaits', fut')
      /\ \A d \in queueCalls : d # c =>
           /\ \A q : parked(q, d, awaits, fut) => parked(q, d, awaits', fut')
           /\ \A q : listed(q, d, awaits) => listed(q, d, awaits')
           /\ \A o : at(d, o, awaits', fut') = at(d, o, awaits, fut)
      /\ among(awaits')
  BY Zenon, <1>1, ParkFacts
<1>3. /\ parked(getters', "get", awaits', fut') /\ parked(putters', "put", awaits', fut')
      /\ listed(joiners', "join", awaits')
  BY <1>1, <1>2 DEF QueueInv, standing, queueCalls
<1>4. /\ at("put", "pending", awaits', fut') = at("put", "pending", awaits, fut)
      /\ at("put", "result", awaits', fut') = at("put", "result", awaits, fut)
      /\ at("join", "pending", awaits', fut') = at("join", "pending", awaits, fut)
  BY Zenon, <1>1, <1>2 DEF queueCalls
<1>5. items <= Cardinality(at("get", "result", awaits', fut')) + 0
  <2>1. Cardinality(at("get", "result", awaits', fut')) \in Nat
    BY <1>2, AwaitersFinite DEF Calls
  <2> QED BY <2>1
<1> QED BY <1>3, <1>4, <1>5 DEF QueueInv, standing

\* join parks while items are unreported.
LEMMA JoinStep ==
  ASSUME LoopInv, QueueInv, NEW t \in Task, join(t)
  PROVE  QueueInv' /\ touches(queueCalls)
<1>1. /\ current = t /\ unfinished > 0 /\ joiners' = Append(joiners, t) /\ awaits[t] = "none"
      /\ awaits' = [awaits EXCEPT ![t] = "join"] /\ fut' = [fut EXCEPT ![t] = "pending"]
      /\ UNCHANGED <<items, unfinished, isShutdown, getters, putters, got, swallowed>>
  BY Busy DEF join, suspend
<1>2. PICK c \in queueCalls : c = "join"
  BY DEF queueCalls
<1>3. \A d \in queueCalls : d # c =>
           /\ \A q : parked(q, d, awaits, fut) => parked(q, d, awaits', fut')
           /\ \A o : at(d, o, awaits', fut') = at(d, o, awaits, fut)
  BY Zenon, <1>1, <1>2, ParkFacts
<1>4. parked(getters', "get", awaits', fut') /\ parked(putters', "put", awaits', fut')
  BY <1>1, <1>2, <1>3 DEF QueueInv, standing, queueCalls
<1>5. listed(joiners', "join", awaits')
  <2>1. /\ joiners \in Seq(Task) /\ IsInjective(joiners)
        /\ Range(joiners) = {u \in Task : awaits[u] = "join"} /\ t \notin Range(joiners)
    BY <1>1 DEF QueueInv, standing, listed
  <2>2. joiners' \in Seq(Task) /\ IsInjective(joiners') /\ Range(joiners') = Range(joiners) \cup {t}
    BY <1>1, <2>1, AppendFacts
  <2> QED BY <1>1, <2>1, <2>2 DEF listed, LoopInv, Types
<1>6. /\ \A o : at("put", o, awaits', fut') = at("put", o, awaits, fut)
      /\ \A o : at("get", o, awaits', fut') = at("get", o, awaits, fut)
  BY <1>2, <1>3 DEF queueCalls
<1>7. QueueInv'
  BY <1>1, <1>4, <1>5, <1>6 DEF QueueInv, standing
<1>8. parks(t, "join") /\ "join" \in queueCalls
  BY <1>1 DEF parks, join, queueCalls
<1> QED BY <1>7, <1>8 DEF touches

\* put up to its first await.
LEMMA PutStep ==
  ASSUME LoopInv, QueueInv, NEW t \in Task, put(t)
  PROVE  QueueInv' /\ touches(queueCalls)
<1> current = t /\ UNCHANGED <<loop, offLoop>>
  BY DEF put
<1>1. ASSUME putNoWait(fut, putters), UNCHANGED task PROVE QueueInv' /\ touches(queueCalls)
  <2>1. awaits' = awaits /\ among(awaits) /\ standing(awaits, fut, 0, 0)
    BY <1>1, AmongFacts DEF task, QueueInv
  <2>2. QueueInv' /\ \E W : wakes(fut, W) /\ \A w \in W : awaits[w] = "get"
    BY <1>1, <2>1, PutNoWaitFacts
  <2>3. PICK W : wakes(fut, W) /\ \A w \in W : awaits[w] = "get"
    BY <2>2
  <2>4. acts(t, W) /\ \A w \in W : awaits[w] \in queueCalls
    BY <1>1, <2>3 DEF acts, queueCalls
  <2> QED BY <2>2, <2>4 DEF touches
<1>2. ASSUME full, ~isShutdown, putters' = Append(putters, t), suspend(t, "put"),
             UNCHANGED <<items, unfinished, isShutdown, getters, joiners, got, swallowed>>
      PROVE  QueueInv' /\ touches(queueCalls)
  <2>1. awaits[t] = "none"
    BY Busy
  <2>2. QueueInv'
    BY <1>2, <2>1, PutParks DEF suspend
  <2>3. parks(t, "put") /\ "put" \in queueCalls
    BY <1>2 DEF parks, queueCalls
  <2> QED BY <2>2, <2>3 DEF touches
<1> QED BY <1>1, <1>2 DEF put

\* get up to its first await.
LEMMA GetStep ==
  ASSUME LoopInv, QueueInv, NEW t \in Task, get(t)
  PROVE  QueueInv' /\ touches(queueCalls)
<1> current = t /\ UNCHANGED <<loop, offLoop>>
  BY DEF get
<1>1. ASSUME getNoWait(fut, getters), UNCHANGED task PROVE QueueInv' /\ touches(queueCalls)
  <2>1. awaits' = awaits /\ among(awaits) /\ standing(awaits, fut, 0, 0)
    BY <1>1, AmongFacts DEF task, QueueInv
  <2>2. QueueInv' /\ \E W : wakes(fut, W) /\ \A w \in W : awaits[w] = "put"
    BY <1>1, <2>1, GetNoWaitFacts
  <2>3. PICK W : wakes(fut, W) /\ \A w \in W : awaits[w] = "put"
    BY <2>2
  <2>4. acts(t, W) /\ \A w \in W : awaits[w] \in queueCalls
    BY <1>1, <2>3 DEF acts, queueCalls
  <2> QED BY <2>2, <2>4 DEF touches
<1>2. ASSUME items = 0, ~isShutdown, getters' = Append(getters, t), suspend(t, "get"),
             UNCHANGED <<items, unfinished, isShutdown, putters, joiners, got, swallowed>>
      PROVE  QueueInv' /\ touches(queueCalls)
  <2>1. awaits[t] = "none"
    BY Busy
  <2>2. QueueInv'
    BY <1>2, <2>1, GetParks DEF suspend
  <2>3. parks(t, "get") /\ "get" \in queueCalls
    BY <1>2 DEF parks, queueCalls
  <2> QED BY <2>2, <2>3 DEF touches
<1> QED BY <1>1, <1>2 DEF get

\* A woken call that resumes and wakes others in W.
LEMMA ResumeTouches ==
  ASSUME LoopInv, NEW t \in Task, awaits[t] \in queueCalls, step(t),
         NEW A, A = [awaits EXCEPT ![t] = "none"], NEW F, F = [fut EXCEPT ![t] = "none"],
         NEW W, wakes(F, W), \A w \in W : A[w] \in queueCalls
  PROVE  touches(queueCalls)
<1>1. \A w \in W : awaits[w] \in queueCalls
  <2>1. W \subseteq Task /\ "none" \notin queueCalls
    BY DEF wakes, queueCalls
  <2> QED BY <2>1 DEF LoopInv, Types
<1>2. resumes(t, W) /\ awaits[t] \notin Calls \ queueCalls
  BY DEF resumes
<1> QED BY <1>1, <1>2 DEF touches

\* put after an await.
LEMMA PutResumeStep ==
  ASSUME LoopInv, QueueInv, NEW t \in Task, putResume(t)
  PROVE  QueueInv' /\ touches(queueCalls)
<1> awaits[t] = "put" /\ awaits[t] \in queueCalls /\ awaits[t] \in Calls
  BY DEF putResume, queueCalls, Calls
<1>1. ASSUME callCancelled(t) PROVE QueueInv' /\ touches(queueCalls)
  BY <1>1, CallCancelledStep
<1>2. ASSUME step(t), ~raised(t), putNoWait([fut EXCEPT ![t] = "none"], putters)
      PROVE  QueueInv' /\ touches(queueCalls)
  <2>1. fut[t] = "result"
    BY <1>2, Resumed DEF step
  <2>2. PICK A : A = [awaits EXCEPT ![t] = "none"]
    BY Zenon
  <2>3. PICK F : F = [fut EXCEPT ![t] = "none"]
    OBVIOUS
  <2>4. among(A) /\ standing(A, F, 0, 1) /\ awaits' = A /\ putNoWait(F, putters)
    BY <1>2, <2>1, <2>2, <2>3, LeftFacts DEF step
  <2>5. QueueInv' /\ \E W : wakes(F, W) /\ \A w \in W : A[w] = "get"
    BY <2>4, PutNoWaitFacts
  <2>6. PICK W : wakes(F, W) /\ \A w \in W : A[w] \in queueCalls
    BY <2>5 DEF queueCalls
  <2>7. touches(queueCalls)
    BY <1>2, <2>2, <2>3, <2>6, ResumeTouches
  <2> QED BY <2>5, <2>7
<1>3. ASSUME step(t), ~raised(t), isShutdown, fut' = [fut EXCEPT ![t] = "none"],
             UNCHANGED <<ready, queueVars>>
      PROVE  QueueInv' /\ touches(queueCalls)
  <2>1. fut[t] = "result"
    BY <1>3, Resumed DEF step
  <2>2. UNCHANGED <<items, unfinished, isShutdown, getters, putters, joiners, got, swallowed>>
    BY <1>3 DEF queueVars
  <2>3. /\ getters' = removeFirst(getters, t) /\ putters' = removeFirst(putters, t)
        /\ joiners' = removeFirst(joiners, t)
    BY <2>1, <2>2, NotListed
  <2>4. swallowed' \in BOOLEAN /\ (swallowed => swallowed')
    BY <2>2 DEF QueueInv, standing
  <2> QED BY Zenon, <1>3, <2>2, <2>3, <2>4, CallEnds
<1>4. ASSUME full, ~isShutdown, parksAgain(t), putters' = Append(putters, t), UNCHANGED getters
      PROVE  QueueInv' /\ touches(queueCalls)
  <2>1. fut[t] = "result" /\ awaits' = awaits
    BY <1>4, Resumed DEF parksAgain, task
  <2>2. awaits' = [awaits EXCEPT ![t] = "put"]
    BY <2>1 DEF LoopInv, Types
  <2>3. QueueInv'
    BY <1>4, <2>1, <2>2, PutParks DEF parksAgain
  <2>4. reparks(t)
    BY <1>4 DEF reparks, parksAgain
  <2> QED BY <2>3, <2>4 DEF touches
<1> QED BY <1>1, <1>2, <1>3, <1>4 DEF putResume

\* get after an await.
LEMMA GetResumeStep ==
  ASSUME LoopInv, QueueInv, NEW t \in Task, getResume(t)
  PROVE  QueueInv' /\ touches(queueCalls)
<1> awaits[t] = "get" /\ awaits[t] \in queueCalls /\ awaits[t] \in Calls
  BY DEF getResume, queueCalls, Calls
<1>1. ASSUME callCancelled(t) PROVE QueueInv' /\ touches(queueCalls)
  BY <1>1, CallCancelledStep
<1>2. ASSUME step(t), ~raised(t), getNoWait([fut EXCEPT ![t] = "none"], getters)
      PROVE  QueueInv' /\ touches(queueCalls)
  <2>1. fut[t] = "result"
    BY <1>2, Resumed DEF step
  <2>2. PICK A : A = [awaits EXCEPT ![t] = "none"]
    BY Zenon
  <2>3. PICK F : F = [fut EXCEPT ![t] = "none"]
    OBVIOUS
  <2>4. among(A) /\ standing(A, F, 1, 0) /\ awaits' = A /\ getNoWait(F, getters)
    BY <1>2, <2>1, <2>2, <2>3, LeftFacts DEF step
  <2>5. QueueInv' /\ \E W : wakes(F, W) /\ \A w \in W : A[w] = "put"
    BY <2>4, GetNoWaitFacts
  <2>6. PICK W : wakes(F, W) /\ \A w \in W : A[w] \in queueCalls
    BY <2>5 DEF queueCalls
  <2>7. touches(queueCalls)
    BY <1>2, <2>2, <2>3, <2>6, ResumeTouches
  <2> QED BY <2>5, <2>7
<1>3. ASSUME step(t), ~raised(t), isShutdown, fut' = [fut EXCEPT ![t] = "none"],
             UNCHANGED <<ready, queueVars>>
      PROVE  QueueInv' /\ touches(queueCalls)
  <2>1. fut[t] = "result"
    BY <1>3, Resumed DEF step
  <2>2. UNCHANGED <<items, unfinished, isShutdown, getters, putters, joiners, got, swallowed>>
    BY <1>3 DEF queueVars
  <2>3. /\ getters' = removeFirst(getters, t) /\ putters' = removeFirst(putters, t)
        /\ joiners' = removeFirst(joiners, t)
    BY <2>1, <2>2, NotListed
  <2>4. swallowed' \in BOOLEAN /\ (swallowed => swallowed')
    BY <2>2 DEF QueueInv, standing
  <2> QED BY Zenon, <1>3, <2>2, <2>3, <2>4, CallEnds
<1>4. ASSUME items = 0, ~isShutdown, parksAgain(t), getters' = Append(getters, t), UNCHANGED putters
      PROVE  QueueInv' /\ touches(queueCalls)
  <2>1. fut[t] = "result" /\ awaits' = awaits
    BY <1>4, Resumed DEF parksAgain, task
  <2>2. awaits' = [awaits EXCEPT ![t] = "get"]
    BY <2>1 DEF LoopInv, Types
  <2>3. QueueInv'
    BY <1>4, <2>1, <2>2, GetParks DEF parksAgain
  <2>4. reparks(t)
    BY <1>4 DEF reparks, parksAgain
  <2> QED BY <2>3, <2>4 DEF touches
<1> QED BY <1>1, <1>2, <1>3, <1>4 DEF getResume

\* join after its await.
LEMMA JoinResumeStep ==
  ASSUME LoopInv, QueueInv, NEW t \in Task, joinResume(t)
  PROVE  QueueInv' /\ touches(queueCalls)
<1> awaits[t] = "join" /\ awaits[t] \in queueCalls
  BY DEF joinResume, queueCalls
<1>1. ASSUME callCancelled(t) PROVE QueueInv' /\ touches(queueCalls)
  BY <1>1, CallCancelledStep
<1>2. ASSUME ~callCancelled(t) PROVE QueueInv' /\ touches(queueCalls)
  <2>1. /\ step(t) /\ joiners' = removeFirst(joiners, t) /\ fut' = [fut EXCEPT ![t] = "none"]
        /\ UNCHANGED <<ready, items, unfinished, isShutdown, getters, putters, got, swallowed>>
    BY <1>2 DEF joinResume
  <2>2. getters' = removeFirst(getters, t) /\ putters' = removeFirst(putters, t)
    BY <2>1, NotListed
  <2>3. swallowed' \in BOOLEAN /\ (swallowed => swallowed')
    BY Zenon, <2>1 DEF QueueInv, standing
  <2> QED BY Zenon, <2>1, <2>2, <2>3, CallEnds
<1> QED BY <1>1, <1>2

\* Every waiter of a list.
LEMMA AllWaiters ==
  ASSUME NEW q \in Seq(Task), IsInjective(q), NEW c, \A t \in Range(q) : awaits[t] = c,
         \A t \in Task : awaits[t] = c /\ fut[t] = "pending" => t \in Range(q),
         NEW p \in allIn(q, fut)
  PROVE  /\ p \in Seq(Task) /\ IsInjective(p)
         /\ \A t \in Range(p) : t \in Task /\ awaits[t] = c /\ fut[t] = "pending"
         /\ at(c, "pending", awaits, fut) \subseteq Range(p)
<1>1. p \in Seq(Task) /\ IsInjective(p) /\ Range(p) = {t \in Range(q) : fut[t] = "pending"}
  BY AllInFacts
<1>2. Range(q) \subseteq Task
  BY RangeFacts
<1> QED BY <1>1, <1>2 DEF at

\* Every waiter of a list, or none.
LEMMA WakeAllFacts ==
  ASSUME NEW q \in Seq(Task), IsInjective(q), NEW c, \A t \in Range(q) : awaits[t] = c,
         \A t \in Task : awaits[t] = c /\ fut[t] = "pending" => t \in Range(q),
         NEW all \in BOOLEAN, NEW p \in (IF all THEN allIn(q, fut) ELSE {<<>>})
  PROVE  /\ p \in Seq(Task) /\ IsInjective(p)
         /\ \A t \in Range(p) : t \in Task /\ awaits[t] = c /\ fut[t] = "pending"
         /\ all => at(c, "pending", awaits, fut) \subseteq Range(p)
<1>1. CASE all
  BY <1>1, AllWaiters
<1>2. CASE ~all
  <2>1. p = <<>>
    BY <1>2
  <2> QED BY <1>2, <2>1, EmptyFacts
<1> QED BY <1>1, <1>2

\* task_done.
LEMMA TaskDoneStep ==
  ASSUME LoopInv, QueueInv, NEW t \in Task, taskDone(t)
  PROVE  QueueInv' /\ touches(queueCalls)
<1> /\ current = t /\ got > 0 /\ unfinished > 0 /\ got' = got - 1 /\ unfinished' = unfinished - 1
    /\ UNCHANGED <<items, isShutdown, getters, putters, joiners, swallowed, task, loop, offLoop, awaits>>
  BY DEF taskDone, task
<1> /\ joiners \in Seq(Task) /\ IsInjective(joiners) /\ \A u \in Range(joiners) : awaits[u] = "join"
    /\ \A u \in Task : awaits[u] = "join" => u \in Range(joiners)
  BY DEF QueueInv, standing, listed
<1>1. PICK all \in BOOLEAN : all <=> unfinished' = 0
  BY Zenon
<1>2. PICK p \in (IF all THEN allIn(joiners, fut) ELSE {<<>>}) : settleAll(fut, p)
  BY <1>1 DEF taskDone
<1>3. /\ p \in Seq(Task) /\ IsInjective(p)
      /\ \A u \in Range(p) : u \in Task /\ awaits[u] = "join" /\ fut[u] = "pending"
      /\ all => at("join", "pending", awaits, fut) \subseteq Range(p)
  BY ONLY joiners \in Seq(Task), IsInjective(joiners), \A u \in Range(joiners) : awaits[u] = "join",
          \A u \in Task : awaits[u] = "join" => u \in Range(joiners), <1>1, <1>2, WakeAllFacts
<1>4. wakes(fut, Range(p))
  BY <1>2, <1>3, SettleAllWakes
<1>5. fut' = [u \in Task |-> IF u \in Range(p) THEN "result" ELSE fut[u]]
  BY <1>2 DEF settleAll
<1>6. \A u \in Task : awaits[u] # "join" => fut'[u] = fut[u]
  BY Zenon, <1>3, <1>5
<1>7. ASSUME NEW c, c # "join", NEW q, parked(q, c, awaits, fut) PROVE parked(q, c, awaits, fut')
  <2>1. \A u \in Range(q) : u \in Task
    BY <1>7 DEF parked, Range
  <2> QED BY <1>6, <1>7, <2>1 DEF parked
<1>8. ASSUME NEW c, c # "join", NEW o PROVE at(c, o, awaits, fut') = at(c, o, awaits, fut)
  BY <1>6, <1>8 DEF at
<1>9. at("join", "pending", awaits, fut') # {} => unfinished' > 0
  <2>1. ASSUME NEW u \in at("join", "pending", awaits, fut')
        PROVE  u \in at("join", "pending", awaits, fut) /\ u \notin Range(p)
    BY <1>5 DEF at
  <2>2. at("join", "pending", awaits, fut') # {} => ~all
    BY <1>3, <2>1
  <2> QED BY <1>1, <2>2 DEF QueueInv, standing
<1>10. QueueInv'
  <2>1. parked(getters, "get", awaits, fut') /\ parked(putters, "put", awaits, fut')
    BY <1>7 DEF QueueInv, standing
  <2>2. /\ \A o : at("get", o, awaits, fut') = at("get", o, awaits, fut)
        /\ \A o : at("put", o, awaits, fut') = at("put", o, awaits, fut)
    BY <1>8
  <2> QED BY <1>9, <2>1, <2>2 DEF QueueInv, standing
<1>11. acts(t, Range(p)) /\ \A w \in Range(p) : awaits[w] \in queueCalls
  BY <1>3, <1>4 DEF acts, queueCalls
<1> QED BY <1>10, <1>11 DEF touches

\* The larger of two numbers.
LEMMA MaxFacts ==
  ASSUME NEW n \in Nat
  PROVE  Max({0, n}) = n
<1> DEFINE isMax(x) == x \in {0, n} /\ \A y \in {0, n} : x >= y
<1>1. isMax(n) /\ \A x : isMax(x) => x = n
  OBVIOUS
<1>2. Max({0, n}) = CHOOSE x : isMax(x)
  BY Zenon DEF Max
<1> HIDE DEF isMax
<1> QED BY <1>1, <1>2

\* shutdown.
LEMMA ShutdownStep ==
  ASSUME LoopInv, QueueInv, NEW t \in Task, NEW immediate \in BOOLEAN, shutdown(t, immediate)
  PROVE  QueueInv' /\ touches(queueCalls)
<1> /\ current = t /\ isShutdown' = TRUE /\ getters' = <<>> /\ putters' = <<>>
    /\ items' = (IF immediate THEN 0 ELSE items)
    /\ UNCHANGED <<joiners, got, swallowed, task, loop, offLoop, awaits>>
  BY DEF shutdown, task
<1> /\ joiners \in Seq(Task) /\ IsInjective(joiners) /\ \A u \in Range(joiners) : awaits[u] = "join"
    /\ \A u \in Task : awaits[u] = "join" => u \in Range(joiners)
  BY DEF QueueInv, standing, listed
<1> parked(getters, "get", awaits, fut) /\ parked(putters, "put", awaits, fut)
  BY DEF QueueInv, standing
<1>1. unfinished' = items' + got' /\ unfinished' \in Nat /\ items' \in Nat
  <2>1. unfinished - items = got /\ got \in Nat
    BY DEF QueueInv, standing
  <2>2. Max({0, unfinished - items}) = got
    BY <2>1, MaxFacts
  <2> QED BY <2>1, <2>2 DEF shutdown, QueueInv, standing
<1>2. PICK all \in BOOLEAN : all <=> (immediate /\ unfinished' = 0)
  BY Zenon
<1>3. PICK j \in (IF all THEN allIn(joiners, fut) ELSE {<<>>}),
           g \in allIn(getters, fut), p \in allIn(putters, fut) : settleAll(fut, j \o g \o p)
  BY Zenon, <1>2 DEF shutdown
<1>4. /\ j \in Seq(Task) /\ IsInjective(j)
      /\ \A u \in Range(j) : u \in Task /\ awaits[u] = "join" /\ fut[u] = "pending"
      /\ all => at("join", "pending", awaits, fut) \subseteq Range(j)
  BY ONLY joiners \in Seq(Task), IsInjective(joiners), \A u \in Range(joiners) : awaits[u] = "join",
          \A u \in Task : awaits[u] = "join" => u \in Range(joiners), <1>2, <1>3, WakeAllFacts
<1>5. ASSUME NEW q, NEW c, parked(q, c, awaits, fut), NEW r \in allIn(q, fut)
      PROVE  /\ r \in Seq(Task) /\ IsInjective(r)
             /\ \A u \in Range(r) : u \in Task /\ awaits[u] = c /\ fut[u] = "pending"
             /\ at(c, "pending", awaits, fut) \subseteq Range(r)
  <2>1. /\ q \in Seq(Task) /\ IsInjective(q) /\ \A u \in Range(q) : awaits[u] = c
        /\ \A u \in Task : awaits[u] = c /\ fut[u] = "pending" => u \in Range(q)
    BY Zenon, <1>5 DEF parked
  <2> QED BY ONLY Zenon, r \in allIn(q, fut), <2>1, AllWaiters
<1>6. /\ g \in Seq(Task) /\ IsInjective(g)
      /\ \A u \in Range(g) : u \in Task /\ awaits[u] = "get" /\ fut[u] = "pending"
      /\ at("get", "pending", awaits, fut) \subseteq Range(g)
  BY Zenon, <1>3, <1>5
<1>7. /\ p \in Seq(Task) /\ IsInjective(p)
      /\ \A u \in Range(p) : u \in Task /\ awaits[u] = "put" /\ fut[u] = "pending"
      /\ at("put", "pending", awaits, fut) \subseteq Range(p)
  BY <1>3, <1>5
<1>8. PICK s : s = j \o g \o p
  OBVIOUS
<1>9. s \in Seq(Task) /\ IsInjective(s) /\ Range(s) = Range(j) \cup Range(g) \cup Range(p)
  <2>1. PICK r : r = j \o g
    BY Zenon
  <2>2. Range(j) \cap Range(g) = {}
    <3>1. ASSUME NEW u \in Range(j), u \in Range(g) PROVE FALSE
      BY ONLY <1>4, <1>6, <3>1
    <3> QED BY ONLY <3>1
  <2>3. r \in Seq(Task) /\ IsInjective(r) /\ Range(r) = Range(j) \cup Range(g)
    BY ONLY <1>4, <1>6, <2>1, <2>2, ConcatFacts
  <2>4. Range(r) \cap Range(p) = {}
    <3>1. ASSUME NEW u \in Range(r), u \in Range(p) PROVE FALSE
      BY ONLY <1>4, <1>6, <1>7, <2>3, <3>1
    <3> QED BY ONLY Zenon, <3>1
  <2>5. s = r \o p
    BY Zenon, <1>8, <2>1
  <2>6. s \in Seq(Task) /\ IsInjective(s) /\ Range(s) = Range(r) \cup Range(p)
    BY ONLY <1>7, <2>3, <2>4, <2>5, ConcatFacts
  <2> QED BY Zenon, <2>3, <2>6
<1>10. \A u \in Range(s) : u \in Task /\ awaits[u] \in queueCalls /\ fut[u] = "pending"
  BY Zenon, <1>4, <1>6, <1>7, <1>9 DEF queueCalls
<1>11. wakes(fut, Range(s))
  BY Zenon, <1>3, <1>8, <1>9, <1>10, SettleAllWakes
<1>12. fut' = [u \in Task |-> IF u \in Range(s) THEN "result" ELSE fut[u]]
  BY Zenon, <1>3, <1>8 DEF settleAll
<1>13. ASSUME NEW c, NEW u \in at(c, "pending", awaits, fut')
       PROVE  u \in at(c, "pending", awaits, fut) /\ u \notin Range(s)
  BY Zenon, <1>12, <1>13 DEF at
<1>14. at("get", "pending", awaits, fut') = {} /\ at("put", "pending", awaits, fut') = {}
  BY Zenon, <1>6, <1>7, <1>9, <1>13
<1>15. at("join", "pending", awaits, fut') # {} => unfinished' > 0
  <2>1. at("join", "pending", awaits, fut') # {} => ~all /\ at("join", "pending", awaits, fut) # {}
    BY <1>4, <1>9, <1>13
  <2>2. ~immediate => unfinished' = unfinished
    BY Zenon DEF shutdown
  <2> QED BY <1>1, <1>2, <2>1, <2>2 DEF QueueInv, standing
<1>16. parked(<<>>, "get", awaits, fut') /\ parked(<<>>, "put", awaits, fut')
  <2>1. <<>> \in Seq(Task) /\ IsInjective(<<>>) /\ Range(<<>>) = {}
    BY Zenon, EmptyFacts
  <2> QED BY <1>14, <2>1 DEF parked, at
<1>17. QueueInv'
  BY <1>1, <1>14, <1>15, <1>16 DEF QueueInv, standing
<1>18. acts(t, Range(s))
  BY <1>11 DEF acts
<1> QED BY <1>10, <1>17, <1>18 DEF touches

-----------------------------------------------------------------------------
\* The inductive invariant of the whole.
IInv == LoopInv /\ LockInv /\ SemInv /\ QueueInv

\* It holds at the start.
LEMMA InitStep ==
  ASSUME Init
  PROVE  IInv
<1> LoopInit /\ LockInit /\ SemInit /\ QueueInit
  BY DEF Init
<1> Main \in Task /\ nil \notin Task
  BY MainAssumption
<1>1. <<>> \in Seq(Task) /\ IsInjective(<<>>) /\ Range(<<>>) = {}
  BY EmptyFacts
<1>2. /\ awaits = [t \in Task |-> "start"] /\ fut = [t \in Task |-> "none"] /\ live = {Main}
      /\ done = {} /\ current = nil /\ mustCancel = [t \in Task |-> FALSE] /\ asked = {}
      /\ lpc = "running" /\ timers = {} /\ helper = [o \in Op |-> "none"]
  BY DEF LoopInit
<1>3. \A t \in Task, c \in Calls : awaits[t] # c
  BY <1>2 DEF Calls
<1>4. Types
  <2>1. IsFiniteSet({}) /\ IsFiniteSet({Main})
    BY FS_EmptySet, FS_Singleton
  <2> QED BY <2>1 DEF Types, LoopInit
<1>5. /\ Queues /\ stepping = {Main} /\ resolving = {} /\ creating = {}
  <2>1. /\ ready = <<stepOf(Main)>> /\ batch = <<>>
    BY DEF LoopInit
  <2>2. ready \in Seq(Callback) /\ batch \in Seq(Callback)
    BY <2>1, CallbackFacts
  <2>3. Range(ready) = {stepOf(Main)} /\ Range(batch) = {} /\ IsInjective(ready) /\ IsInjective(batch)
    BY <2>1 DEF Range, IsInjective
  <2>4. line = {stepOf(Main)}
    BY <2>3 DEF line
  <2> QED BY <2>2, <2>3, <2>4, CallbackFacts DEF Queues, stepping, resolving, creating
<1>6. Marks
  <2>1. helping = {}
    BY <1>2 DEF helping
  <2>2. pending = 0
    BY DEF LoopInit
  <2> QED BY <2>1, <2>2, FS_EmptySet DEF Marks
<1>7. OpsInv /\ TasksInv /\ Modes /\ CancelReachesTask /\ NoLostCallback
  BY <1>2, <1>5 DEF OpsInv, OpInv, TasksInv, TaskInv, waitsFor, Modes, CancelReachesTask, raised,
     NoLostCallback
<1>8. LoopInv
  BY <1>4, <1>5, <1>6, <1>7 DEF LoopInv
<1>9. LockInv
  <2>1. listOf(<<>>, "lock")
    BY <1>1, <1>3 DEF listOf, Calls
  <2>2. wokenWaiters = {} /\ pendingAt(lockWaiters, fut) = {} /\ DOMAIN lockWaiters = {}
    BY <1>1 DEF wokenWaiters, pendingAt, LockInit
  <2> QED BY <2>1, <2>2 DEF LockInv, LockInit, LockHandover
<1>10. SemInv
  <2>1. listOf(<<>>, "sem")
    BY <1>1, <1>3 DEF listOf, Calls
  <2>2. granted = {} /\ pendingAt(semWaiters, fut) = {}
    BY <1>1 DEF granted, pendingAt, SemInit
  <2>3. IsFiniteSet({}) /\ Cardinality({}) = 0
    BY FS_EmptySet
  <2>4. value = Permits /\ semWaiters = <<>> /\ held = {} /\ leaked = 0 /\ semDropped = FALSE
    BY DEF SemInit
  <2>5. PermitsAccounted
    BY <2>2, <2>3, <2>4, PermitsAssumption DEF PermitsAccounted
  <2> QED BY <2>1, <2>3, <2>4, <2>5, PermitsAssumption DEF SemInv
<1>11. QueueInv
  <2>1. listed(<<>>, "join", awaits) /\ parked(<<>>, "get", awaits, fut) /\ parked(<<>>, "put", awaits, fut)
    BY <1>1, <1>3 DEF listed, parked, Calls
  <2>2. \A c \in queueCalls : at(c, "pending", awaits, fut) = {}
    BY <1>3 DEF at, queueCalls, Calls
  <2>3. /\ items = 0 /\ unfinished = 0 /\ got = 0 /\ isShutdown = FALSE /\ swallowed = FALSE
        /\ getters = <<>> /\ putters = <<>> /\ joiners = <<>>
    BY DEF QueueInit
  <2>4. /\ at("get", "pending", awaits, fut) = {} /\ at("put", "pending", awaits, fut) = {}
        /\ at("join", "pending", awaits, fut) = {}
    BY <2>2 DEF queueCalls
  <2>5. /\ parked(getters, "get", awaits, fut) /\ parked(putters, "put", awaits, fut)
        /\ listed(joiners, "join", awaits)
    BY <2>1, <2>3
  <2>6. items \in Nat /\ unfinished \in Nat /\ got \in Nat /\ unfinished = items + got
    BY <2>3
  <2>7. isShutdown \in BOOLEAN /\ swallowed \in BOOLEAN
    BY <2>3
  <2> QED BY Zenon, <2>4, <2>5, <2>6, <2>7 DEF QueueInv, standing
<1> QED BY <1>8, <1>9, <1>10, <1>11 DEF IInv

\* A step of the loop or of a thread that no primitive notices.
LEMMA QuietStep ==
  ASSUME IInv, LoopInv', quiet, UNCHANGED <<lockVars, semVars, queueVars>>
  PROVE  IInv'
<1>1. frame("lock") /\ frame("sem") /\ frame("get") /\ frame("put") /\ frame("join")
  BY DEF quiet, Calls
<1> QED BY <1>1, LockFrame, SemFrame, QueueFrame DEF IInv

\* A step of one primitive.
LEMMA PrimitiveStep ==
  ASSUME IInv
  PROVE  /\ LockInv' /\ touches({"lock"}) /\ UNCHANGED <<semVars, queueVars>> => IInv'
         /\ SemInv' /\ touches({"sem"}) /\ UNCHANGED <<lockVars, queueVars>> => IInv'
         /\ QueueInv' /\ touches(queueCalls) /\ UNCHANGED <<lockVars, semVars>> => IInv'
<1>1. ASSUME LockInv', touches({"lock"}), UNCHANGED <<semVars, queueVars>> PROVE IInv'
  <2>1. PICK C \in SUBSET Calls : C = {"lock"}
    BY DEF Calls
  <2>2. LoopInv' /\ \A c \in Calls \ C : frame(c)
    BY <1>1, <2>1, TouchLoop DEF IInv
  <2>3. frame("sem") /\ frame("get") /\ frame("put") /\ frame("join")
    BY <2>1, <2>2 DEF Calls
  <2> QED BY <1>1, <2>2, <2>3, SemFrame, QueueFrame DEF IInv
<1>2. ASSUME SemInv', touches({"sem"}), UNCHANGED <<lockVars, queueVars>> PROVE IInv'
  <2>1. PICK C \in SUBSET Calls : C = {"sem"}
    BY DEF Calls
  <2>2. LoopInv' /\ \A c \in Calls \ C : frame(c)
    BY <1>2, <2>1, TouchLoop DEF IInv
  <2>3. frame("lock") /\ frame("get") /\ frame("put") /\ frame("join")
    BY <2>1, <2>2 DEF Calls
  <2> QED BY <1>2, <2>2, <2>3, LockFrame, QueueFrame DEF IInv
<1>3. ASSUME QueueInv', touches(queueCalls), UNCHANGED <<lockVars, semVars>> PROVE IInv'
  <2>1. queueCalls \in SUBSET Calls
    BY DEF Calls, queueCalls
  <2>2. LoopInv' /\ \A c \in Calls \ queueCalls : frame(c)
    BY <1>3, <2>1, TouchLoop DEF IInv
  <2>3. frame("lock") /\ frame("sem")
    BY <2>2 DEF Calls, queueCalls
  <2> QED BY <1>3, <2>2, <2>3, LockFrame, SemFrame DEF IInv
<1> QED BY <1>1, <1>2, <1>3

\* The loop's steps.
LEMMA LoopStep ==
  ASSUME IInv, loopStep
  PROVE  IInv'
<1> LoopInv /\ LockInv /\ SemInv /\ QueueInv
  BY DEF IInv
<1>1. ASSUME iterate \/ runReturns \/ wakesUp \/ timerFires, UNCHANGED <<lockVars, semVars, queueVars>>
      PROVE  IInv'
  <2>1. LoopInv' /\ UNCHANGED <<fut, awaits, live>>
    BY <1>1, TopLoop
  <2>2. quiet
    BY <2>1 DEF quiet, frame
  <2> QED BY <1>1, <2>1, <2>2, QuietStep
<1>2. ASSUME NEW o \in Op, resolve(o), UNCHANGED <<lockVars, semVars, queueVars>> PROVE IInv'
  BY <1>2, ResolveLoop, QuietStep
<1>3. ASSUME NEW t \in Task, createSubmitted(t), UNCHANGED <<lockVars, semVars, queueVars>>
      PROVE  IInv'
  BY <1>3, CreateLoop, QuietStep
<1>4. ASSUME NEW t \in Task, plainStep(t), UNCHANGED <<lockVars, semVars, queueVars>> PROVE IInv'
  BY <1>4, PlainStepLoop, QuietStep
<1>5. ASSUME NEW t \in Task, lockResume(t), UNCHANGED <<semVars, queueVars>> PROVE IInv'
  BY <1>5, LockResumeStep, PrimitiveStep
<1>6. ASSUME NEW t \in Task, semResume(t), UNCHANGED <<lockVars, queueVars>> PROVE IInv'
  BY <1>6, SemResumeStep, PrimitiveStep
<1>7. ASSUME NEW t \in Task, putResume(t) \/ getResume(t) \/ joinResume(t),
             UNCHANGED <<lockVars, semVars>>
      PROVE  IInv'
  BY Zenon, <1>7, PutResumeStep, GetResumeStep, JoinResumeStep, PrimitiveStep
<1> QED BY <1>1, <1>2, <1>3, <1>4, <1>5, <1>6, <1>7 DEF loopStep

\* The steps of a coroutine.
LEMMA CoroutineStep ==
  ASSUME IInv, NEW t \in Task, coroutineStep(t)
  PROVE  IInv'
<1> LoopInv /\ LockInv /\ SemInv /\ QueueInv
  BY DEF IInv
<1>1. ASSUME finish(t) \/ yieldOnce(t) \/ submitFails(t) \/ stopLoop(t),
             UNCHANGED <<lockVars, semVars, queueVars>>
      PROVE  IInv'
  BY <1>1, PlainLoop, QuietStep
<1>2. ASSUME NEW o \in Op, runInExecutor(t, o) \/ sleep(t, o), UNCHANGED <<lockVars, semVars, queueVars>>
      PROVE  IInv'
  BY <1>2, AwaitLoop, QuietStep
<1>3. ASSUME NEW u \in Task, createTask(t, u), UNCHANGED <<lockVars, semVars, queueVars>> PROVE IInv'
  BY <1>3, CreateLoop, QuietStep
<1>4. ASSUME NEW u \in Cancellable, cancel(t, u), UNCHANGED <<lockVars, semVars, queueVars>> PROVE IInv'
  <2>1. u \in Task
    BY <1>4 DEF cancel, LoopInv, Types
  <2> QED BY <1>4, <2>1, CancelLoop, QuietStep
<1>5. ASSUME lockAcquire(t) \/ lockRelease(t), UNCHANGED <<semVars, queueVars>> PROVE IInv'
  BY <1>5, LockAcquireStep, LockReleaseStep, PrimitiveStep
<1>6. ASSUME semAcquire(t) \/ semRelease(t), UNCHANGED <<lockVars, queueVars>> PROVE IInv'
  BY <1>6, SemAcquireStep, SemReleaseStep, PrimitiveStep
<1>7. ASSUME put(t) \/ get(t) \/ taskDone(t) \/ join(t), UNCHANGED <<lockVars, semVars>> PROVE IInv'
  BY <1>7, PutStep, GetStep, TaskDoneStep, JoinStep, PrimitiveStep
<1>8. ASSUME NEW immediate \in BOOLEAN, shutdown(t, immediate), UNCHANGED <<lockVars, semVars>>
      PROVE  IInv'
  BY <1>8, ShutdownStep, PrimitiveStep
<1> QED BY <1>1, <1>2, <1>3, <1>4, <1>5, <1>6, <1>7, <1>8 DEF coroutineStep

\* A step that changes nothing.
LEMMA Stutter ==
  ASSUME IInv, UNCHANGED vars
  PROVE  IInv'
<1>1. UNCHANGED <<ready, fut, batch, inBatch, wakeup, pending, timers, idleBlocks, stopping, lpc,
                  helper, wakers, current, live, done, awaits, mustCancel, asked>>
  BY DEF vars, evars, loop, offLoop, task
<1>2. UNCHANGED <<lockVars, semVars, queueVars>>
  BY DEF vars
<1>3. quiet
  BY <1>1 DEF quiet, frame
<1>4. LoopInv'
  <2>1. UNCHANGED <<line, stepping, resolving, creating, helping>>
    BY Zenon, <1>1 DEF line, stepping, resolving, creating, helping
  <2>2. Types' /\ Queues' /\ Marks' /\ Modes'
    BY Zenon, <1>1, <2>1 DEF IInv, LoopInv, Types, Queues, Marks, Modes
  <2>3. OpsInv' /\ TasksInv'
    BY Zenon, <1>1, <2>1 DEF IInv, LoopInv, OpsInv, OpInv, waitsFor, TasksInv, TaskInv
  <2>4. CancelReachesTask' /\ NoLostCallback'
    BY <1>1 DEF IInv, LoopInv, CancelReachesTask, raised, NoLostCallback
  <2> QED BY <2>2, <2>3, <2>4 DEF LoopInv
<1> QED BY <1>2, <1>3, <1>4, QuietStep

\* What the loop, the tasks, the lock, the semaphore and the queue keep between
\* them, whatever the coroutines do and however the threads interleave.
THEOREM Invariance == Spec => []IInv
<1>1. Init => IInv
  BY InitStep
<1>2. IInv /\ [Next]_vars => IInv'
  <2>1. ASSUME IInv, threadStep PROVE IInv'
    <3>1. aside /\ UNCHANGED <<lockVars, semVars, queueVars>>
      BY <2>1, SubmittedAssumption DEF threadStep, helperStep, aside
    <3> QED BY <2>1, <3>1, ThreadLoop, QuietStep DEF IInv
  <2> QED BY <2>1, LoopStep, CoroutineStep, Stutter DEF Next
<1> QED BY <1>1, <1>2, PTL DEF Spec

\* No callback waits for a loop that nobody wakes (asyncio.go:262-270).
THEOREM CallbacksKept == Spec => []NoLostCallback
<1>1. IInv => NoLostCallback
  BY Zenon DEF IInv, LoopInv
<1> QED BY <1>1, Invariance, PTL

\* The loop reports a deadlock only when no result is under way
\* (asyncio.go:302-307, asyncio_executor.go:93-116).
THEOREM StopsRightly == Spec => []NoPrematureStop
<1>1. IInv => NoPrematureStop
  <2> SUFFICES ASSUME IInv, lpc = "stopped"
               PROVE  /\ \A t \in live \ done : awaits[t] \in Calls /\ fut[t] = "pending"
                      /\ \A o \in Op : helper[o] = "none" /\ o \notin timers
    BY DEF NoPrematureStop
  <2>1. current = nil /\ helping = {} /\ timers = {} /\ stepping = {} /\ resolving = {}
    BY DEF IInv, LoopInv, Modes
  <2>2. \A o \in Op : helper[o] = "none" /\ o \notin timers
    BY <2>1 DEF helping
  <2>3. ASSUME NEW t \in live \ done PROVE awaits[t] \in Calls /\ fut[t] = "pending"
    <3>1. t \in Task /\ awaits[t] \in Calls \cup Op \cup {"start", "none"}
      BY Zenon DEF IInv, LoopInv, Types
    <3>2. fut[t] = "pending" /\ awaits[t] \notin {"start", "none"}
      BY Zenon, <2>1, <3>1, MainAssumption DEF IInv, LoopInv, TasksInv, TaskInv
    <3>3. awaits[t] \notin Op
      BY <2>1, <2>2, <3>1, <3>2 DEF IInv, LoopInv, OpsInv, OpInv, waitsFor
    <3> QED BY <3>1, <3>2, <3>3
  <2> QED BY <2>2, <2>3
<1> QED BY <1>1, Invariance, PTL

\* A cancel reaches its task, and once (asyncio.go:738-753).
THEOREM CancelReaches == Spec => []CancelReachesTask
<1>1. IInv => CancelReachesTask
  BY DEF IInv, LoopInv
<1> QED BY <1>1, Invariance, PTL

\* The lock passes to the waiter that has waited longest, and to no one else.
THEOREM LockPasses == Spec => []LockHandover
<1>1. IInv => LockHandover
  BY DEF IInv, LockInv
<1> QED BY <1>1, Invariance, PTL

\* No permit is minted, and none is lost but with a cancelled waiter.
THEOREM PermitsKept == Spec => []PermitsAccounted
<1>1. IInv => PermitsAccounted
  BY DEF IInv, SemInv
<1> QED BY <1>1, Invariance, PTL

\* A task waits for the queue only while it has to.
THEOREM QueueWaits == Spec => []QueueWaitsJust
<1>1. IInv => QueueWaitsJust
  BY QueueJust DEF IInv
<1> QED BY <1>1, Invariance, PTL
=============================================================================
