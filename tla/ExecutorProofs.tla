--------------------------- MODULE ExecutorProofs ----------------------------
(***************************************************************************)
(* The safety properties of ThreadPoolExecutor and of the futures it hands *)
(* out, for any number of futures, callbacks and workers.                  *)
(*                                                                         *)
(* The properties are proved together with what makes them inductive:      *)
(* `Pool`, on the order in which workers are born and on why they die, and *)
(* `Places`, that an unsettled future is in exactly one place, the queue   *)
(* or the hands of one worker, and in the state that place expects.        *)
(***************************************************************************)
EXTENDS Executor, WaiterLemmas

\* What every method of Future preserves, whoever calls it.

\* The runs owed of a callback.
owed(f, cb) == {c \in calls : c.fut = f /\ c.cb = cb}

FutureTypes ==
  /\ state \in [Fut -> FutureState]
  /\ outcome \in [Fut -> {"none", "value", "exception"}]
  /\ callbacks \in [Fut -> SUBSET Callback]
  /\ ran \in [Fut \X Callback -> Nat]

\* Where a registration may be: CallbacksOnce without its cardinality.
Unregistered(f, cb) ==
  <<f, cb>> \notin added /\ cb \notin callbacks[f] /\ owed(f, cb) = {} /\ ran[<<f, cb>>] = 0
Attached(f, cb) ==
  <<f, cb>> \in added /\ cb \in callbacks[f] /\ owed(f, cb) = {} /\ ran[<<f, cb>>] = 0
Owed(f, cb) ==
  /\ <<f, cb>> \in added /\ cb \notin callbacks[f] /\ ran[<<f, cb>>] = 0
  /\ \E c : owed(f, cb) = {c}
Ran(f, cb) ==
  <<f, cb>> \in added /\ cb \notin callbacks[f] /\ owed(f, cb) = {} /\ ran[<<f, cb>>] = 1

CallbackPlaces ==
  \A f \in Fut, cb \in Callback :
    \/ Unregistered(f, cb)
    \/ Attached(f, cb) /\ ~terminal(f)
    \/ (Owed(f, cb) \/ Ran(f, cb)) /\ terminal(f)

\* The inductive invariant of the futures.
FutureInv == FutureTypes /\ DoneIffTerminal /\ CallbackPlaces

\* The places are what CallbacksOnce counts.
LEMMA PlacesCount ==
  ASSUME FutureTypes, CallbackPlaces
  PROVE  CallbacksOnce
<1> SUFFICES ASSUME NEW f \in Fut, NEW cb \in Callback
             PROVE  LET attached == IF cb \in callbacks[f] THEN 1 ELSE 0
                        n == Cardinality(owed(f, cb))
                    IN /\ attached + n + ran[<<f, cb>>] = IF <<f, cb>> \in added THEN 1 ELSE 0
                       /\ terminal(f) => attached = 0
                       /\ ~terminal(f) => n + ran[<<f, cb>>] = 0
  BY DEF CallbacksOnce, owed
<1>1. Cardinality({}) = 0 /\ \A c : Cardinality({c}) = 1
  BY FS_EmptySet, FS_Singleton
<1>2. CASE Unregistered(f, cb)
  BY <1>1, <1>2 DEF Unregistered
<1>3. CASE Attached(f, cb) /\ ~terminal(f)
  BY <1>1, <1>3 DEF Attached
<1>4. CASE Owed(f, cb) /\ terminal(f)
  <2>1. Cardinality(owed(f, cb)) = 1
    BY <1>1, <1>4, Zenon DEF Owed
  <2> QED BY <1>4, <2>1 DEF Owed
<1>5. CASE Ran(f, cb) /\ terminal(f)
  BY <1>1, <1>5 DEF Ran
<1> QED BY <1>2, <1>3, <1>4, <1>5 DEF CallbackPlaces

\* finish settles futures that were not settled, and detaches their callbacks.
LEMMA FinishStep ==
  ASSUME FutureInv, NEW F \in SUBSET Fut, \A f \in F : ~terminal(f),
         NEW s \in {"cancelled", "finished"}, NEW by, finish(F, s, by)
  PROVE  /\ state' \in [Fut -> FutureState] /\ callbacks' \in [Fut -> SUBSET Callback]
         /\ ran' = ran
         /\ \A f \in Fut : state'[f] = IF f \in F THEN s ELSE state[f]
         /\ \A f \in Fut : terminal(f)' <=> terminal(f) \/ f \in F
         /\ done' = {f \in Fut : terminal(f)'}
         /\ CallbackPlaces'
<1>1. /\ state' \in [Fut -> FutureState] /\ callbacks' \in [Fut -> SUBSET Callback]
      /\ ran' = ran /\ added' = added
      /\ \A f \in Fut : state'[f] = IF f \in F THEN s ELSE state[f]
      /\ \A f \in Fut : callbacks'[f] = IF f \in F THEN {} ELSE callbacks[f]
  BY DEF FutureInv, FutureTypes, FutureState, finish
<1>2. \A f \in Fut : terminal(f)' <=> terminal(f) \/ f \in F
  BY <1>1 DEF terminal, cancelledState
<1>3. done' = {f \in Fut : terminal(f)'}
  BY <1>2 DEF FutureInv, DoneIffTerminal, finish
<1>4. \A f \in Fut, cb \in Callback :
        owed(f, cb)' = owed(f, cb) \cup
          (IF f \in F /\ cb \in callbacks[f] THEN {[by |-> by, fut |-> f, cb |-> cb]} ELSE {})
  <2>1. calls' = calls \cup UNION {[by : {by}, fut : {f}, cb : callbacks[f]] : f \in F}
    BY DEF finish
  <2>2. \A c : c \in calls' <=> c \in calls \/
          \E g \in F : \E d \in callbacks[g] : c = [by |-> by, fut |-> g, cb |-> d]
    BY <2>1
  <2> TAKE f \in Fut, cb \in Callback
  <2>3. \A c : c \in owed(f, cb)' <=> c \in owed(f, cb) \/
          (f \in F /\ cb \in callbacks[f] /\ c = [by |-> by, fut |-> f, cb |-> cb])
    BY <2>2 DEF owed
  <2> QED BY <2>3
<1>5. CallbackPlaces'
  <2> SUFFICES ASSUME NEW f \in Fut, NEW cb \in Callback
               PROVE  \/ Unregistered(f, cb)'
                      \/ Attached(f, cb)' /\ ~terminal(f)'
                      \/ (Owed(f, cb)' \/ Ran(f, cb)') /\ terminal(f)'
    BY DEF CallbackPlaces
  <2>1. CASE f \notin F
    <3>1. owed(f, cb)' = owed(f, cb) /\ callbacks'[f] = callbacks[f]
      BY <1>1, <1>4, <2>1
    <3>2. terminal(f)' <=> terminal(f)
      BY <1>2, <2>1, Zenon
    <3>3. /\ Unregistered(f, cb) => Unregistered(f, cb)'
          /\ Attached(f, cb) => Attached(f, cb)'
          /\ Owed(f, cb) => Owed(f, cb)'
          /\ Ran(f, cb) => Ran(f, cb)'
      BY <1>1, <3>1, Zenon DEF Unregistered, Attached, Owed, Ran
    <3> QED BY <3>2, <3>3, Zenon DEF FutureInv, CallbackPlaces
  <2>2. CASE f \in F /\ Attached(f, cb)
    <3>1. owed(f, cb)' = {[by |-> by, fut |-> f, cb |-> cb]}
      BY <1>4, <2>2 DEF Attached
    <3> QED BY <1>1, <1>2, <2>2, <3>1 DEF Attached, Owed
  <2>3. CASE f \in F /\ Unregistered(f, cb)
    <3>1. owed(f, cb)' = {}
      BY <1>4, <2>3 DEF Unregistered
    <3> QED BY <1>1, <2>3, <3>1 DEF Unregistered
  <2> QED BY <2>1, <2>2, <2>3 DEF FutureInv, CallbackPlaces
<1> QED BY <1>1, <1>2, <1>3, <1>5

\* A step that leaves the futures alone.
LEMMA FutureStutter ==
  ASSUME FutureInv, UNCHANGED fvars
  PROVE  FutureInv' /\ \A f \in Fut : terminal(f)' <=> terminal(f)
<1> USE DEF fvars
<1>1. FutureTypes'
  BY DEF FutureInv, FutureTypes
<1>2. \A f \in Fut : terminal(f)' <=> terminal(f)
  BY DEF terminal, cancelledState
<1>3. DoneIffTerminal'
  BY <1>2 DEF FutureInv, DoneIffTerminal
<1>4. \A f \in Fut, cb \in Callback :
        /\ Unregistered(f, cb)' <=> Unregistered(f, cb)
        /\ Attached(f, cb)' <=> Attached(f, cb)
        /\ Owed(f, cb)' <=> Owed(f, cb)
        /\ Ran(f, cb)' <=> Ran(f, cb)
  BY DEF Unregistered, Attached, Owed, Ran, owed
<1>5. CallbackPlaces'
  BY <1>2, <1>4 DEF FutureInv, CallbackPlaces
<1> QED BY <1>1, <1>2, <1>3, <1>5 DEF FutureInv

\* setResult and setException.
LEMMA ResolveStep ==
  ASSUME FutureInv, NEW f \in Fut, NEW kind \in {"value", "exception"}, NEW by,
         resolve(f, kind, by)
  PROVE  /\ FutureInv'
         /\ terminal(f)'
         /\ \A g \in Fut \ {f} : state'[g] = state[g] /\ outcome'[g] = outcome[g]
         /\ terminal(f) => UNCHANGED fvars
<1>1. CASE terminal(f)
  <2>1. UNCHANGED fvars
    BY <1>1 DEF resolve
  <2>2. FutureInv' /\ terminal(f)'
    BY <1>1, <2>1, FutureStutter
  <2> QED BY <2>1, <2>2 DEF fvars
<1>2. CASE ~terminal(f)
  <2>1. outcome' = [outcome EXCEPT ![f] = kind] /\ finish({f}, "finished", by)
    BY <1>2 DEF resolve
  <2>2. /\ state' \in [Fut -> FutureState] /\ callbacks' \in [Fut -> SUBSET Callback]
        /\ ran' = ran
        /\ \A g \in Fut : state'[g] = IF g \in {f} THEN "finished" ELSE state[g]
        /\ \A g \in Fut : terminal(g)' <=> terminal(g) \/ g \in {f}
        /\ done' = {g \in Fut : terminal(g)'}
        /\ CallbackPlaces'
    BY <1>2, <2>1, FinishStep
  <2>3. FutureTypes'
    BY <2>1, <2>2 DEF FutureInv, FutureTypes
  <2>4. \A g \in Fut : (state'[g] = "finished") <=> (outcome'[g] # "none")
    BY <2>1, <2>2 DEF FutureInv, FutureTypes, DoneIffTerminal
  <2>5. DoneIffTerminal'
    BY <2>2, <2>4 DEF DoneIffTerminal
  <2> QED BY <1>2, <2>1, <2>2, <2>3, <2>5 DEF FutureInv, FutureTypes
<1> QED BY <1>1, <1>2

\* cancel, and doShutdown's cancelling of a whole queue.
LEMMA CancelStep ==
  ASSUME FutureInv, NEW F \in SUBSET Fut, NEW by, cancel(F, by)
  PROVE  /\ FutureInv'
         /\ outcome' = outcome
         /\ \A f \in Fut : state'[f] =
              IF f \in F /\ state[f] = "pending" THEN "cancelled" ELSE state[f]
<1> DEFINE P == {f \in F : state[f] = "pending"}
<1>1. P \in SUBSET Fut /\ \A f \in P : ~terminal(f)
  BY DEF terminal, cancelledState
<1>2. finish(P, "cancelled", by) /\ outcome' = outcome
  BY DEF cancel
<1> HIDE DEF P
<1>3. /\ state' \in [Fut -> FutureState] /\ callbacks' \in [Fut -> SUBSET Callback]
      /\ ran' = ran
      /\ \A f \in Fut : state'[f] = IF f \in P THEN "cancelled" ELSE state[f]
      /\ done' = {f \in Fut : terminal(f)'}
      /\ CallbackPlaces'
  BY <1>1, <1>2, FinishStep
<1>4. \A f \in Fut : state'[f] = IF f \in F /\ state[f] = "pending" THEN "cancelled" ELSE state[f]
  BY <1>3 DEF P
<1>5. DoneIffTerminal'
  BY <1>2, <1>3, <1>4 DEF FutureInv, DoneIffTerminal
<1> QED BY <1>2, <1>3, <1>4, <1>5 DEF FutureInv, FutureTypes

\* The pre-run transition.
LEMMA StartStep ==
  ASSUME FutureInv, NEW f \in Fut, setRunningOrNotifyCancel(f)
  PROVE  /\ FutureInv'
         /\ outcome' = outcome
         /\ \A g \in Fut \ {f} : state'[g] = state[g]
         /\ state'[f] = IF state[f] = "pending" THEN "running"
                        ELSE IF state[f] = "cancelled" THEN "cancelled notified" ELSE state[f]
<1>1. /\ state' \in [Fut -> FutureState]
      /\ \A g \in Fut \ {f} : state'[g] = state[g]
      /\ state'[f] = IF state[f] = "pending" THEN "running"
                     ELSE IF state[f] = "cancelled" THEN "cancelled notified" ELSE state[f]
      /\ UNCHANGED <<outcome, done, callbacks, calls, added, ran>>
  BY DEF FutureInv, FutureTypes, FutureState, setRunningOrNotifyCancel
<1>2. \A g \in Fut : terminal(g)' <=> terminal(g)
  BY <1>1 DEF terminal, cancelledState
<1>3. \A g \in Fut, cb \in Callback :
        /\ Unregistered(g, cb)' <=> Unregistered(g, cb)
        /\ Attached(g, cb)' <=> Attached(g, cb)
        /\ Owed(g, cb)' <=> Owed(g, cb)
        /\ Ran(g, cb)' <=> Ran(g, cb)
  BY <1>1 DEF Unregistered, Attached, Owed, Ran, owed
<1>4. CallbackPlaces'
  BY <1>2, <1>3 DEF FutureInv, CallbackPlaces
<1>5. DoneIffTerminal'
  BY <1>1, <1>2 DEF FutureInv, DoneIffTerminal
<1> QED BY <1>1, <1>4, <1>5 DEF FutureInv, FutureTypes

\* add_done_callback: attached to a live future, owed at once on a settled one.
LEMMA AddCallbackStep ==
  ASSUME FutureInv, NEW f \in Fut, NEW cb \in Callback, NEW by, addCallback(f, cb, by)
  PROVE  FutureInv' /\ state' = state /\ outcome' = outcome
<1>1. /\ <<f, cb>> \notin added /\ added' = added \cup {<<f, cb>>}
      /\ UNCHANGED <<state, outcome, done, ran>>
  BY DEF addCallback
<1>2. \A g \in Fut : terminal(g)' <=> terminal(g)
  BY <1>1 DEF terminal, cancelledState
<1>3. DoneIffTerminal'
  BY <1>1, <1>2 DEF FutureInv, DoneIffTerminal
<1>4. Unregistered(f, cb)
  BY <1>1 DEF FutureInv, CallbackPlaces, Attached, Owed, Ran
<1>5. callbacks' \in [Fut -> SUBSET Callback] /\ FutureTypes'
  BY <1>1 DEF FutureInv, FutureTypes, addCallback
<1>6. CASE terminal(f)
  <2>1. callbacks' = callbacks /\ calls' = calls \cup {[by |-> by, fut |-> f, cb |-> cb]}
    BY <1>6 DEF addCallback
  <2>2. owed(f, cb)' = owed(f, cb) \cup {[by |-> by, fut |-> f, cb |-> cb]}
    BY <2>1 DEF owed
  <2>3. owed(f, cb)' = {[by |-> by, fut |-> f, cb |-> cb]}
    BY <1>4, <2>2 DEF Unregistered
  <2>4. Owed(f, cb)'
    BY <1>1, <1>4, <2>1, <2>3 DEF Unregistered, Owed
  <2>5. ASSUME NEW g \in Fut, NEW d \in Callback, ~(g = f /\ d = cb)
        PROVE  /\ Unregistered(g, d) => Unregistered(g, d)'
               /\ Attached(g, d) => Attached(g, d)'
               /\ Owed(g, d) => Owed(g, d)'
               /\ Ran(g, d) => Ran(g, d)'
    <3>1. owed(g, d)' = owed(g, d)
      BY <2>1, <2>5 DEF owed
    <3>2. <<g, d>> \in added' <=> <<g, d>> \in added
      BY <1>1, <2>5
    <3> QED BY <1>1, <2>1, <3>1, <3>2, Zenon DEF Unregistered, Attached, Owed, Ran
  <2>6. CallbackPlaces'
    BY <1>2, <1>6, <2>4, <2>5, Zenon DEF FutureInv, CallbackPlaces
  <2> QED BY <1>1, <1>3, <1>5, <2>6 DEF FutureInv
<1>7. CASE ~terminal(f)
  <2>1. calls' = calls /\ callbacks' = [callbacks EXCEPT ![f] = @ \cup {cb}]
    BY <1>7 DEF addCallback
  <2>2. \A g \in Fut, d \in Callback : owed(g, d)' = owed(g, d)
    BY <2>1 DEF owed
  <2>3. cb \in callbacks'[f] /\ \A g \in Fut, d \in Callback :
          ~(g = f /\ d = cb) => (d \in callbacks'[g] <=> d \in callbacks[g])
    BY <2>1 DEF FutureInv, FutureTypes
  <2>4. Attached(f, cb)'
    BY <1>1, <1>4, <2>2, <2>3 DEF Unregistered, Attached
  <2>5. ASSUME NEW g \in Fut, NEW d \in Callback, ~(g = f /\ d = cb)
        PROVE  /\ Unregistered(g, d) => Unregistered(g, d)'
               /\ Attached(g, d) => Attached(g, d)'
               /\ Owed(g, d) => Owed(g, d)'
               /\ Ran(g, d) => Ran(g, d)'
    <3>1. <<g, d>> \in added' <=> <<g, d>> \in added
      BY <1>1, <2>5
    <3> QED BY <1>1, <2>2, <2>3, <2>5, <3>1, Zenon DEF Unregistered, Attached, Owed, Ran
  <2>6. CallbackPlaces'
    BY <1>2, <1>7, <2>4, <2>5, Zenon DEF FutureInv, CallbackPlaces
  <2> QED BY <1>1, <1>3, <1>5, <2>6 DEF FutureInv
<1> QED BY <1>6, <1>7

\* One owed callback runs.
LEMMA InvokeStep ==
  ASSUME FutureInv, NEW c \in calls, c.fut \in Fut, c.cb \in Callback,
         invokeFutureCallback(c)
  PROVE  FutureInv' /\ state' = state /\ outcome' = outcome
<1>1. /\ calls' = calls \ {c} /\ ran' = [ran EXCEPT ![<<c.fut, c.cb>>] = @ + 1]
      /\ UNCHANGED <<state, outcome, done, callbacks, added>>
  BY DEF invokeFutureCallback
<1>2. \A g \in Fut : terminal(g)' <=> terminal(g)
  BY <1>1 DEF terminal, cancelledState
<1>3. DoneIffTerminal' /\ FutureTypes'
  BY <1>1, <1>2 DEF FutureInv, DoneIffTerminal, FutureTypes
<1>4. c \in owed(c.fut, c.cb)
  BY DEF owed
<1>5. Owed(c.fut, c.cb) /\ terminal(c.fut)
  BY <1>4 DEF FutureInv, CallbackPlaces, Unregistered, Attached, Ran
<1>6. Ran(c.fut, c.cb)'
  <2>1. owed(c.fut, c.cb)' = {}
    BY <1>1, <1>4, <1>5 DEF Owed, owed
  <2>2. ran'[<<c.fut, c.cb>>] = 1
    BY <1>1, <1>5 DEF FutureInv, FutureTypes, Owed
  <2> QED BY <1>1, <1>5, <2>1, <2>2 DEF Owed, Ran
<1>7. ASSUME NEW g \in Fut, NEW d \in Callback, ~(g = c.fut /\ d = c.cb)
      PROVE  /\ Unregistered(g, d) => Unregistered(g, d)'
             /\ Attached(g, d) => Attached(g, d)'
             /\ Owed(g, d) => Owed(g, d)'
             /\ Ran(g, d) => Ran(g, d)'
  <2>1. owed(g, d)' = owed(g, d) /\ ran'[<<g, d>>] = ran[<<g, d>>]
    BY <1>1, <1>7 DEF FutureInv, FutureTypes, owed
  <2> QED BY <1>1, <2>1, Zenon DEF Unregistered, Attached, Owed, Ran
<1>8. CallbackPlaces'
  <2> SUFFICES ASSUME NEW g \in Fut, NEW d \in Callback
               PROVE  \/ Unregistered(g, d)'
                      \/ Attached(g, d)' /\ ~terminal(g)'
                      \/ (Owed(g, d)' \/ Ran(g, d)') /\ terminal(g)'
    BY DEF CallbackPlaces
  <2>1. CASE g = c.fut /\ d = c.cb
    BY <1>2, <1>5, <1>6, <2>1, Zenon
  <2>2. CASE ~(g = c.fut /\ d = c.cb)
    BY <1>2, <1>7, <2>2, Zenon DEF FutureInv, CallbackPlaces
  <2> QED BY <2>1, <2>2
<1> QED BY <1>1, <1>3, <1>8 DEF FutureInv
-----------------------------------------------------------------------------
\* The futures a worker holds.
held(w) == {f \in Fut : item[w] = f \/ f \in Range(failing[w])}

awake(w) == wpc[w] \notin {"unborn", "dead", "parked"}

Pool ==
  /\ \E n \in 0..MaxWorkers : \A w \in Worker : wpc[w] # "unborn" <=> w <= n
  /\ \A w \in Worker : wpc[w] = "dead" => shutdown \/ broken
  /\ \A w \in Worker : wpc[w] = "breaking" => broken
  /\ closer # "none" => shutdown

Places ==
  /\ IsInjective(queue) /\ \A w \in Worker : IsInjective(failing[w])
  /\ \A w \in Worker : \A f \in held(w) :
       f \notin Range(queue) /\ \A v \in Worker : f \in held(v) => v = w
  /\ \A w \in Worker :
       /\ item[w] # nil <=> wpc[w] \in {"run", "call"}
       /\ wpc[w] # "breaking" => failing[w] = <<>>
       /\ wpc[w] = "run" => state[item[w]] \in {"pending", "cancelled"}
       /\ wpc[w] = "call" => state[item[w]] = "running"
  /\ \A f \in Range(queue) : state[f] \in {"pending", "cancelled"}

\* Nothing is forgotten: an unsettled future of a client is somewhere.
Tracked ==
  /\ Range(queue) \subseteq submitted /\ \A w \in Worker : held(w) \subseteq submitted
  /\ \A f \in Fut \ submitted : state[f] = "pending"
  /\ \A f \in submitted :
       terminal(f) \/ f \in Range(queue) \/ \E w \in Worker : f \in held(w)

\* The inductive invariant.
Inv ==
  /\ TypeOK /\ FutureInv /\ IdleExact /\ Pool /\ NoStrandedWork
  /\ Places /\ Tracked /\ ShutdownSettlesAll
-----------------------------------------------------------------------------
\* The workers are finitely many.
LEMMA WorkerFinite == IsFiniteSet(Worker)
BY FS_Interval, MaxWorkersAssumption DEF Worker

\* The workers in cond.Wait.
inWait == {w \in Worker : wpc[w] \in {"parked", "signalled"}}

\* Counting them: one more when a worker parks, one less when it leaves.
LEMMA InWaitFacts ==
  ASSUME NEW w
  PROVE  /\ Cardinality(inWait) \in Nat
         /\ w \in inWait => Cardinality(inWait \ {w}) = Cardinality(inWait) - 1
         /\ w \notin inWait => Cardinality(inWait \cup {w}) = Cardinality(inWait) + 1
         /\ Cardinality(inWait) = 0 <=> inWait = {}
<1>1. IsFiniteSet(inWait)
  BY WorkerFinite, FS_Subset DEF inWait
<1> QED BY <1>1, FS_CardinalityType, FS_RemoveElement, FS_AddElement, FS_EmptySet

\* The worker spawnWorker creates.
LEMMA NewWorker ==
  ASSUME Pool
  PROVE  /\ numWorkers \in 0..MaxWorkers
         /\ \A w \in Worker : wpc[w] # "unborn" <=> w <= numWorkers
<1>1. PICK n \in 0..MaxWorkers : \A w \in Worker : wpc[w] # "unborn" <=> w <= n
  BY DEF Pool
<1>2. {w \in Worker : wpc[w] # "unborn"} = 1..n
  BY <1>1, MaxWorkersAssumption DEF Worker
<1>3. Cardinality(1..n) = n
  <2>1. Cardinality(1..n) = IF 1 <= n THEN n - 1 + 1 ELSE 0
    BY FS_Interval
  <2> QED BY <2>1
<1>4. numWorkers = n
  BY <1>2, <1>3 DEF numWorkers
<1> QED BY <1>1, <1>4

\* cond.Signal: the oldest sleeper leaves the list.
LEMMA SignalFacts ==
  ASSUME TypeOK, IdleExact, Signal
  PROVE  /\ wpc' \in [Worker -> WPC] /\ notifyList' \in Seq(Worker)
         /\ IsInjective(notifyList')
         /\ Range(notifyList') = {w \in Worker : wpc'[w] = "parked"}
         /\ \A w \in Worker : wpc'[w] # wpc[w] => wpc[w] = "parked" /\ wpc'[w] = "signalled"
         /\ notifyList # <<>> => \E w \in Worker : wpc'[w] = "signalled"
<1>1. /\ wpc \in [Worker -> WPC] /\ notifyList \in Seq(Worker) /\ IsInjective(notifyList)
      /\ Range(notifyList) = {w \in Worker : wpc[w] = "parked"}
  BY DEF TypeOK, IdleExact
<1>2. CASE notifyList = <<>>
  BY <1>1, <1>2 DEF Signal
<1>3. CASE notifyList # <<>>
  <2> DEFINE h == Head(notifyList)
  <2>1. wpc' = [wpc EXCEPT ![h] = "signalled"] /\ notifyList' = Tail(notifyList)
    BY <1>3 DEF Signal
  <2>2. /\ h \in Worker /\ h \in Range(notifyList)
        /\ Tail(notifyList) \in Seq(Worker)
        /\ Range(Tail(notifyList)) = Range(notifyList) \ {h}
        /\ IsInjective(Tail(notifyList))
    BY <1>1, <1>3, TailFacts
  <2> HIDE DEF h
  <2>3. wpc[h] = "parked" /\ wpc'[h] = "signalled" /\ \A w \in Worker \ {h} : wpc'[w] = wpc[w]
    BY <1>1, <2>1, <2>2
  <2>4. {w \in Worker : wpc'[w] = "parked"} = {w \in Worker : wpc[w] = "parked"} \ {h}
    BY <2>2, <2>3
  <2> QED BY <1>1, <2>1, <2>2, <2>3, <2>4 DEF WPC
<1> QED BY <1>2, <1>3

\* cond.Broadcast: every sleeper leaves the list.
LEMMA BroadcastFacts ==
  ASSUME TypeOK, IdleExact, NEW pcs \in [Worker -> WPC],
         \A w \in Worker : pcs[w] = "parked" <=> wpc[w] = "parked"
  PROVE  /\ broadcastTo(pcs) \in [Worker -> WPC]
         /\ \A w \in Worker :
              broadcastTo(pcs)[w] = IF wpc[w] = "parked" THEN "signalled" ELSE pcs[w]
BY DEF broadcastTo, IdleExact, WPC
-----------------------------------------------------------------------------
(* The condition variable and the idle count *)

CondInv ==
  /\ wpc \in [Worker -> WPC] /\ notifyList \in Seq(Worker) /\ idle \in Nat
  /\ IdleExact

\* A step that moves nobody into or out of cond.Wait.
LEMMA CondQuiet ==
  ASSUME CondInv, wpc' \in [Worker -> WPC], idle' = idle,
         \A w \in Worker : wpc'[w] \in {"parked", "signalled"} <=> wpc[w] \in {"parked", "signalled"},
         notifyList' \in Seq(Worker), IsInjective(notifyList'),
         Range(notifyList') = {w \in Worker : wpc'[w] = "parked"}
  PROVE  CondInv'
<1>1. inWait' = inWait
  BY DEF inWait
<1> QED BY <1>1 DEF CondInv, IdleExact, inWait

\* Nobody is left in the list after a broadcast.
LEMMA CondBroadcast ==
  ASSUME TypeOK, CondInv, NEW pcs \in [Worker -> WPC],
         \A w \in Worker : pcs[w] \in {"parked", "signalled"} <=> wpc[w] \in {"parked", "signalled"},
         \A w \in Worker : pcs[w] = "parked" <=> wpc[w] = "parked",
         wpc' = broadcastTo(pcs), notifyList' = <<>>, idle' = idle
  PROVE  CondInv'
<1>1. /\ wpc' \in [Worker -> WPC]
      /\ \A w \in Worker : wpc'[w] = IF wpc[w] = "parked" THEN "signalled" ELSE pcs[w]
  BY BroadcastFacts DEF CondInv
<1>2. Range(<<>>) = {} /\ IsInjective(<<>>) /\ <<>> \in Seq(Worker)
  BY DEF Range, IsInjective
<1>3. {w \in Worker : wpc'[w] = "parked"} = {}
  BY <1>1
<1>4. \A w \in Worker : wpc'[w] \in {"parked", "signalled"} <=> wpc[w] \in {"parked", "signalled"}
  BY <1>1
<1> QED BY <1>1, <1>2, <1>3, <1>4, CondQuiet

\* A worker's passage through workerLoop's critical section.
LEMMA CondFetch ==
  ASSUME CondInv, NEW w \in Worker, fetch(w)
  PROVE  CondInv'
<1> DEFINE back == IF wpc[w] = "signalled" THEN idle - 1 ELSE idle
<1>1. /\ wpc \in [Worker -> WPC] /\ notifyList \in Seq(Worker) /\ IsInjective(notifyList)
      /\ idle = Cardinality(inWait)
      /\ Range(notifyList) = {v \in Worker : wpc[v] = "parked"}
      /\ wpc[w] \in {"loop", "signalled"}
  BY DEF CondInv, IdleExact, inWait, fetch
<1>2. back = Cardinality(inWait \ {w}) /\ back \in Nat
  <2>1. inWait \ {w} = IF wpc[w] = "signalled" THEN inWait \ {w} ELSE inWait
    BY <1>1 DEF inWait
  <2>2. wpc[w] = "signalled" => w \in inWait
    BY DEF inWait
  <2>3. IsFiniteSet(inWait \ {w})
    BY WorkerFinite, FS_Subset DEF inWait
  <2>4. Cardinality(inWait \ {w}) \in Nat
    BY <2>3, FS_CardinalityType
  <2> QED BY <1>1, <2>1, <2>2, <2>4, InWaitFacts
<1>3. CASE queue = <<>> /\ ~shutdown
  <2>1. /\ idle' = back + 1 /\ wpc' = [wpc EXCEPT ![w] = "parked"]
        /\ notifyList' = Append(notifyList, w)
    BY <1>3 DEF fetch
  <2>2. w \notin Range(notifyList)
    BY <1>1
  <2>3. /\ notifyList' \in Seq(Worker) /\ IsInjective(notifyList')
        /\ Range(notifyList') = Range(notifyList) \cup {w}
    BY <1>1, <2>1, <2>2, AppendFacts
  <2>4. inWait' = (inWait \ {w}) \cup {w}
    BY <1>1, <2>1 DEF inWait
  <2>5. Cardinality(inWait') = Cardinality(inWait \ {w}) + 1
    <3>1. IsFiniteSet(inWait \ {w}) /\ w \notin inWait \ {w}
      BY WorkerFinite, FS_Subset DEF inWait
    <3> QED BY <2>4, <3>1, FS_AddElement
  <2>6. idle' \in Nat /\ idle' = Cardinality(inWait')
    BY <1>2, <2>1, <2>5
  <2>7. wpc' \in [Worker -> WPC] /\ Range(notifyList') = {v \in Worker : wpc'[v] = "parked"}
    BY <1>1, <2>1, <2>3 DEF WPC
  <2> QED BY <2>3, <2>6, <2>7 DEF CondInv, IdleExact, inWait
<1>4. CASE ~(queue = <<>> /\ ~shutdown)
  <2>1. PICK l \in {"dead", "run"} : wpc' = [wpc EXCEPT ![w] = l]
    BY <1>4 DEF fetch
  <2>2. idle' = back /\ notifyList' = notifyList
    BY <1>4 DEF fetch
  <2>3. inWait' = inWait \ {w}
    BY <1>1, <2>1 DEF inWait
  <2>4. wpc' \in [Worker -> WPC] /\ Range(notifyList') = {v \in Worker : wpc'[v] = "parked"}
    BY <1>1, <2>1, <2>2 DEF WPC
  <2> QED BY <1>1, <1>2, <2>2, <2>3, <2>4 DEF CondInv, IdleExact, inWait
<1> QED BY <1>3, <1>4

\* Every step keeps e.idle and the notify list exact.
LEMMA CondStep ==
  ASSUME TypeOK, Pool, IdleExact, [Next]_vars
  PROVE  CondInv'
<1>0. CondInv
  BY DEF TypeOK, CondInv
<1>1. /\ wpc \in [Worker -> WPC] /\ notifyList \in Seq(Worker) /\ IsInjective(notifyList)
      /\ Range(notifyList) = {w \in Worker : wpc[w] = "parked"}
  BY DEF TypeOK, IdleExact
<1>2. CASE UNCHANGED <<wpc, notifyList, idle>>
  BY <1>0, <1>2 DEF CondInv, IdleExact
<1>3. ASSUME NEW f \in Fut, submit(f) PROVE CondInv'
  <2>1. idle' = idle
    BY <1>3 DEF submit
  <2>2. CASE idle = 0 /\ numWorkers < MaxWorkers
    <3>1. wpc' = [wpc EXCEPT ![numWorkers + 1] = "init"] /\ notifyList' = notifyList
      BY <1>3, <2>2 DEF submit, spawnWorker
    <3>2. numWorkers + 1 \in Worker /\ wpc[numWorkers + 1] = "unborn"
      BY <2>2, NewWorker, MaxWorkersAssumption DEF Worker
    <3>3. wpc' \in [Worker -> WPC] /\ \A w \in Worker : wpc'[w] # wpc[w] =>
            wpc'[w] = "init" /\ wpc[w] = "unborn"
      BY <1>1, <3>1, <3>2 DEF WPC
    <3>4. Range(notifyList') = {w \in Worker : wpc'[w] = "parked"}
      BY <1>1, <3>1, <3>3
    <3> QED BY <1>0, <1>1, <2>1, <3>1, <3>3, <3>4, CondQuiet
  <2>3. CASE Signal
    <3>1. /\ wpc' \in [Worker -> WPC] /\ notifyList' \in Seq(Worker)
          /\ IsInjective(notifyList')
          /\ Range(notifyList') = {w \in Worker : wpc'[w] = "parked"}
          /\ \A w \in Worker : wpc'[w] # wpc[w] => wpc[w] = "parked" /\ wpc'[w] = "signalled"
      BY <2>3, SignalFacts
    <3> QED BY <1>0, <2>1, <3>1, CondQuiet
  <2> QED BY <1>3, <2>2, <2>3 DEF submit
<1>4. ASSUME NEW w \in Worker, NEW l \in {"loop", "dead", "call"},
             wpc[w] \in {"init", "breaking", "run", "call"},
             wpc' = [wpc EXCEPT ![w] = l], UNCHANGED <<notifyList, idle>>
      PROVE  CondInv'
  <2>1. wpc' \in [Worker -> WPC] /\ Range(notifyList') = {v \in Worker : wpc'[v] = "parked"}
    BY <1>1, <1>4 DEF WPC
  <2> QED BY <1>0, <1>1, <1>4, <2>1, CondQuiet
<1>5. ASSUME NEW w \in Worker, initialize(w) PROVE CondInv'
  BY <1>4, <1>5 DEF initialize
<1>6. ASSUME NEW w \in Worker, breakPool(w) PROVE CondInv'
  <2> DEFINE pcs == [wpc EXCEPT ![w] = "breaking"]
  <2>1. pcs \in [Worker -> WPC] /\ \A v \in Worker : pcs[v] # wpc[v] =>
          pcs[v] = "breaking" /\ wpc[v] = "init"
    BY <1>1, <1>6 DEF breakPool, WPC
  <2>2. wpc' = broadcastTo(pcs) /\ notifyList' = <<>> /\ idle' = idle
    BY <1>6 DEF breakPool
  <2> HIDE DEF pcs
  <2> QED BY <1>0, <2>1, <2>2, CondBroadcast
<1>7. ASSUME NEW w \in Worker, failQueued(w) PROVE CondInv'
  BY <1>2, <1>4, <1>7 DEF failQueued
<1>8. ASSUME NEW w \in Worker, start(w) \/ complete(w) PROVE CondInv'
  BY <1>4, <1>8 DEF start, complete
<1>9. ASSUME NEW a \in BOOLEAN, NEW c \in BOOLEAN, doShutdown(a, c) PROVE CondInv'
  <2>1. wpc' = broadcastTo(wpc) /\ notifyList' = <<>> /\ idle' = idle
    BY <1>9 DEF doShutdown
  <2> QED BY <1>0, <1>1, <2>1, CondBroadcast
<1>10. ASSUME NEW f \in Fut, clientCancel(f) PROVE CondInv'
  BY <1>2, <1>10 DEF clientCancel, evars
<1>11. ASSUME NEW r \in Registrations, clientAddCallback(r[1], r[2]) PROVE CondInv'
  BY <1>2, <1>11 DEF clientAddCallback, evars
<1>12. CASE invoke \/ shutdownReturns \/ UNCHANGED vars
  BY <1>2, <1>12 DEF invoke, shutdownReturns, vars, evars
<1> QED BY <1>0, <1>3, <1>5, <1>6, <1>7, <1>8, <1>9, <1>10, <1>11, <1>12, CondFetch DEF Next
-----------------------------------------------------------------------------
(* The futures *)

\* What a step may do to a settled future.
settledOnce ==
  \A f \in Fut :
    terminal(f) =>
      /\ outcome'[f] = outcome[f]
      /\ \/ state'[f] = state[f]
         \/ state[f] = "cancelled" /\ state'[f] = "cancelled notified"

\* Every step of the executor goes through a method of Future, or leaves the
\* futures alone.
LEMMA FutureStep ==
  ASSUME TypeOK, FutureInv, Places, [Next]_vars
  PROVE  FutureInv' /\ settledOnce
<1>1. CASE UNCHANGED fvars
  BY <1>1, FutureStutter DEF fvars, settledOnce
<1>2. ASSUME NEW f \in Fut, NEW kind \in {"value", "exception"}, NEW by, resolve(f, kind, by)
      PROVE  FutureInv' /\ settledOnce
  <2>1. /\ FutureInv'
        /\ \A g \in Fut \ {f} : state'[g] = state[g] /\ outcome'[g] = outcome[g]
        /\ terminal(f) => UNCHANGED fvars
    BY <1>2, ResolveStep
  <2> QED BY <2>1 DEF settledOnce, fvars
<1>3. ASSUME NEW F \in SUBSET Fut, NEW by, cancel(F, by) PROVE FutureInv' /\ settledOnce
  <2>1. /\ FutureInv' /\ outcome' = outcome
        /\ \A f \in Fut : state'[f] =
             IF f \in F /\ state[f] = "pending" THEN "cancelled" ELSE state[f]
    BY <1>3, CancelStep
  <2> QED BY <2>1 DEF settledOnce, terminal, cancelledState
<1>4. ASSUME NEW w \in Worker, failQueued(w) PROVE FutureInv' /\ settledOnce
  <2>1. CASE failing[w] = <<>>
    BY <1>1, <1>4, <2>1 DEF failQueued
  <2>2. CASE failing[w] # <<>>
    <3>1. failing[w] \in Seq(Fut)
      BY DEF TypeOK
    <3>2. Head(failing[w]) \in Fut
      BY <2>2, <3>1
    <3>3. resolve(Head(failing[w]), "exception", w)
      BY <1>4, <2>2 DEF failQueued
    <3> QED BY <1>2, <3>2, <3>3
  <2> QED BY <2>1, <2>2
<1>5. ASSUME NEW w \in Worker, wpc[w] \in {"run", "call"} PROVE item[w] \in Fut
  BY <1>5 DEF TypeOK, Places
<1>6. ASSUME NEW w \in Worker, start(w) PROVE FutureInv' /\ settledOnce
  <2>1. item[w] \in Fut /\ setRunningOrNotifyCancel(item[w])
    BY <1>5, <1>6 DEF start
  <2>2. /\ FutureInv' /\ outcome' = outcome
        /\ \A g \in Fut \ {item[w]} : state'[g] = state[g]
        /\ state'[item[w]] = IF state[item[w]] = "pending" THEN "running"
             ELSE IF state[item[w]] = "cancelled" THEN "cancelled notified" ELSE state[item[w]]
    BY <2>1, StartStep
  <2> QED BY <2>2 DEF settledOnce, terminal, cancelledState
<1>7. ASSUME NEW w \in Worker, complete(w) PROVE FutureInv' /\ settledOnce
  BY <1>2, <1>5, <1>7 DEF complete
<1>8. ASSUME NEW f \in Fut, clientCancel(f) PROVE FutureInv' /\ settledOnce
  BY <1>3, <1>8 DEF clientCancel
<1>9. ASSUME NEW r \in Registrations, clientAddCallback(r[1], r[2])
      PROVE  FutureInv' /\ settledOnce
  <2>1. r[1] \in Fut /\ r[2] \in Callback
    BY RegistrationAssumption
  <2>2. FutureInv' /\ state' = state /\ outcome' = outcome
    BY <1>9, <2>1, AddCallbackStep DEF clientAddCallback
  <2> QED BY <2>2 DEF settledOnce
<1>10. CASE invoke
  <2>1. PICK c \in calls : invokeFutureCallback(c)
    BY <1>10 DEF invoke
  <2>2. c.fut \in Fut /\ c.cb \in Callback
    BY DEF TypeOK
  <2>3. FutureInv' /\ state' = state /\ outcome' = outcome
    BY <2>1, <2>2, InvokeStep
  <2> QED BY <2>3 DEF settledOnce
<1>11. ASSUME NEW a \in BOOLEAN, NEW c \in BOOLEAN, doShutdown(a, c)
       PROVE  FutureInv' /\ settledOnce
  <2>1. Range(queue) \in SUBSET Fut
    BY RangeFacts DEF TypeOK
  <2>2. cancel(Range(queue), Closer) \/ UNCHANGED fvars
    BY <1>11 DEF doShutdown, fvars
  <2> QED BY <1>1, <1>3, <2>1, <2>2
<1>12. ASSUME NEW f \in Fut, submit(f) PROVE FutureInv' /\ settledOnce
  BY <1>1, <1>12 DEF submit
<1>13. ASSUME NEW w \in Worker, initialize(w) \/ breakPool(w) \/ fetch(w)
       PROVE  FutureInv' /\ settledOnce
  BY <1>1, <1>13 DEF initialize, breakPool, fetch
<1>14. CASE shutdownReturns \/ UNCHANGED vars
  BY <1>1, <1>14 DEF shutdownReturns, vars
<1> QED BY <1>4, <1>6, <1>7, <1>8, <1>9, <1>10, <1>11, <1>12, <1>13, <1>14 DEF Next
-----------------------------------------------------------------------------
(* The workers *)

PoolInv == Pool /\ NoStrandedWork

\* A step in which nobody is born, parks or dies.
LEMMA PoolQuiet ==
  ASSUME PoolInv,
         \A w \in Worker : wpc'[w] = "unborn" <=> wpc[w] = "unborn",
         \A w \in Worker : wpc'[w] = "dead" => wpc[w] = "dead",
         \A w \in Worker : awake(w) => awake(w)',
         \A w \in Worker : wpc'[w] = "breaking" => wpc[w] = "breaking" \/ broken',
         broken => broken', shutdown => shutdown', closer' # "none" => shutdown',
         queue' # <<>> => queue # <<>> /\ ~broken'
  PROVE  PoolInv'
<1>1. Pool'
  BY DEF PoolInv, Pool
<1>2. NoStrandedWork'
  BY DEF PoolInv, NoStrandedWork, awake
<1> QED BY <1>1, <1>2 DEF PoolInv

\* Every step keeps the workers' lives in order and leaves no work stranded.
LEMMA PoolStep ==
  ASSUME TypeOK, IdleExact, Pool, NoStrandedWork, [Next]_vars
  PROVE  PoolInv'
<1>0. PoolInv /\ wpc \in [Worker -> WPC] /\ queue \in Seq(Fut)
  BY DEF TypeOK, PoolInv
<1>1. CASE UNCHANGED evars
  BY <1>0, <1>1 DEF evars, PoolInv, Pool, NoStrandedWork
<1>2. ASSUME NEW f \in Fut, submit(f) PROVE PoolInv'
  <2>1. /\ ~broken /\ ~shutdown /\ queue' # <<>>
        /\ UNCHANGED <<shutdown, broken, closer>>
    BY <1>0, <1>2 DEF submit
  <2>2. CASE idle = 0 /\ numWorkers < MaxWorkers
    <3>1. wpc' = [wpc EXCEPT ![numWorkers + 1] = "init"]
      BY <1>2, <2>2 DEF submit, spawnWorker
    <3>2. /\ numWorkers \in 0..MaxWorkers /\ numWorkers + 1 \in Worker
          /\ \A w \in Worker : wpc[w] # "unborn" <=> w <= numWorkers
      BY <2>2, NewWorker, MaxWorkersAssumption DEF Worker
    <3>3. wpc'[numWorkers + 1] = "init" /\ \A w \in Worker \ {numWorkers + 1} : wpc'[w] = wpc[w]
      BY <1>0, <3>1, <3>2
    <3>4. numWorkers + 1 \in 0..MaxWorkers /\
          \A w \in Worker : wpc'[w] # "unborn" <=> w <= numWorkers + 1
      BY <2>2, <3>2, <3>3, MaxWorkersAssumption DEF Worker
    <3>5. Pool'
      BY <2>1, <3>3, <3>4 DEF Pool
    <3>6. NoStrandedWork'
      BY <2>1, <3>2, <3>3 DEF NoStrandedWork
    <3> QED BY <3>5, <3>6 DEF PoolInv
  <2>3. CASE ~(idle = 0 /\ numWorkers < MaxWorkers)
    <3>1. Signal
      BY <1>2, <2>3 DEF submit
    <3>2. /\ \A w \in Worker : wpc'[w] # wpc[w] => wpc[w] = "parked" /\ wpc'[w] = "signalled"
          /\ notifyList # <<>> => \E w \in Worker : wpc'[w] = "signalled"
      BY <3>1, SignalFacts
    <3>3. Pool'
      BY <2>1, <3>2 DEF Pool
    <3>4. \E w \in Worker : wpc'[w] \notin {"unborn", "dead", "parked"}
      <4>1. CASE notifyList # <<>>
        BY <3>2, <4>1
      <4>2. CASE notifyList = <<>>
        <5>1. \A w \in Worker : wpc[w] # "parked"
          BY <4>2, EmptyFacts DEF IdleExact
        <5>2. CASE idle # 0
          <6>1. PICK w : w \in inWait
            BY <5>2, InWaitFacts DEF IdleExact, inWait
          <6> QED BY <3>2, <5>1, <6>1 DEF inWait
        <5>3. CASE numWorkers >= MaxWorkers
          <6>1. 1 \in Worker /\ wpc[1] # "unborn"
            BY <5>3, NewWorker, MaxWorkersAssumption DEF Worker
          <6>2. wpc[1] # "dead"
            BY <2>1, <6>1 DEF Pool
          <6> QED BY <3>2, <5>1, <6>1, <6>2
        <5>4. numWorkers \in 0..MaxWorkers
          BY NewWorker
        <5> QED BY <2>3, <5>2, <5>3, <5>4, MaxWorkersAssumption
      <4> QED BY <4>1, <4>2
    <3> QED BY <2>1, <3>3, <3>4 DEF PoolInv, NoStrandedWork
  <2> QED BY <2>2, <2>3
<1>3. ASSUME NEW w \in Worker, initialize(w) PROVE PoolInv'
  BY <1>0, <1>3, PoolQuiet DEF initialize, PoolInv, Pool, NoStrandedWork, awake
<1>4. ASSUME NEW w \in Worker, breakPool(w) PROVE PoolInv'
  <2> DEFINE pcs == [wpc EXCEPT ![w] = "breaking"]
  <2>1. /\ wpc[w] = "init" /\ pcs \in [Worker -> WPC]
        /\ \A v \in Worker : pcs[v] = IF v = w THEN "breaking" ELSE wpc[v]
    BY <1>0, <1>4 DEF breakPool, WPC
  <2>2. wpc' = broadcastTo(pcs) /\ broken' = TRUE /\ queue' = <<>> /\ UNCHANGED <<shutdown, closer>>
    BY <1>4 DEF breakPool
  <2> HIDE DEF pcs
  <2>3. \A v \in Worker : wpc'[v] = IF wpc[v] = "parked" THEN "signalled" ELSE pcs[v]
    BY <2>1, <2>2, BroadcastFacts
  <2> QED BY <1>0, <2>1, <2>2, <2>3, PoolQuiet DEF PoolInv, Pool, awake
<1>5. ASSUME NEW w \in Worker, failQueued(w) PROVE PoolInv'
  <2>1. broken /\ UNCHANGED <<shutdown, broken, queue, closer>>
    BY <1>5 DEF failQueued, Pool
  <2>2. queue = <<>>
    BY <2>1 DEF NoStrandedWork
  <2>3. wpc[w] = "breaking" /\ (wpc' = wpc \/ wpc' = [wpc EXCEPT ![w] = "dead"])
    BY <1>5 DEF failQueued
  <2> QED BY <1>0, <2>1, <2>2, <2>3 DEF PoolInv, Pool, NoStrandedWork
<1>6. ASSUME NEW w \in Worker, fetch(w) PROVE PoolInv'
  <2>1. wpc[w] \in {"loop", "signalled"} /\ UNCHANGED <<shutdown, broken, closer>>
    BY <1>6 DEF fetch
  <2>2. CASE queue = <<>> /\ ~shutdown
    <3>1. wpc' = [wpc EXCEPT ![w] = "parked"] /\ queue' = <<>>
      BY <1>6, <2>2 DEF fetch
    <3> QED BY <1>0, <2>1, <3>1 DEF PoolInv, Pool, NoStrandedWork
  <2>3. CASE queue = <<>> /\ shutdown
    <3>1. wpc' = [wpc EXCEPT ![w] = "dead"] /\ queue' = <<>>
      BY <1>6, <2>3 DEF fetch
    <3> QED BY <1>0, <2>1, <2>3, <3>1 DEF PoolInv, Pool, NoStrandedWork
  <2>4. CASE queue # <<>>
    <3>1. wpc' = [wpc EXCEPT ![w] = "run"]
      BY <1>6, <2>4 DEF fetch
    <3> QED BY <1>0, <2>1, <2>4, <3>1, PoolQuiet DEF PoolInv, Pool, NoStrandedWork, awake
  <2> QED BY <2>2, <2>3, <2>4
<1>7. ASSUME NEW w \in Worker, start(w) \/ complete(w) PROVE PoolInv'
  <2>1. /\ wpc[w] \in {"run", "call"} /\ UNCHANGED <<shutdown, broken, queue, closer>>
        /\ \E l \in {"call", "loop"} : wpc' = [wpc EXCEPT ![w] = l]
    BY <1>7 DEF start, complete
  <2> QED BY <1>0, <2>1, PoolQuiet DEF PoolInv, Pool, NoStrandedWork, awake
<1>8. ASSUME NEW a \in BOOLEAN, NEW c \in BOOLEAN, doShutdown(a, c) PROVE PoolInv'
  <2>1. /\ shutdown' = TRUE /\ wpc' = broadcastTo(wpc) /\ broken' = broken
        /\ queue' # <<>> => queue # <<>>
    BY <1>8 DEF doShutdown
  <2>2. \A v \in Worker : wpc'[v] = IF wpc[v] = "parked" THEN "signalled" ELSE wpc[v]
    BY <1>0, <2>1, BroadcastFacts
  <2> QED BY <1>0, <2>1, <2>2, PoolQuiet DEF PoolInv, Pool, NoStrandedWork, awake
<1>9. ASSUME NEW f \in Fut, clientCancel(f) PROVE PoolInv'
  BY <1>1, <1>9 DEF clientCancel
<1>10. ASSUME NEW r \in Registrations, clientAddCallback(r[1], r[2]) PROVE PoolInv'
  BY <1>1, <1>10 DEF clientAddCallback
<1>11. CASE shutdownReturns
  BY <1>0, <1>11 DEF shutdownReturns, PoolInv, Pool, NoStrandedWork
<1>12. CASE invoke \/ UNCHANGED vars
  BY <1>1, <1>12 DEF invoke, vars
<1> QED BY <1>2, <1>3, <1>4, <1>5, <1>6, <1>7, <1>8, <1>9, <1>10, <1>11, <1>12 DEF Next
-----------------------------------------------------------------------------
(* The places of a future *)

WorkTypes ==
  /\ queue \in Seq(Fut) /\ submitted \subseteq Fut
  /\ item \in [Worker -> Fut \cup {nil}] /\ failing \in [Worker -> Seq(Fut)]
  /\ wpc \in [Worker -> WPC] /\ state \in [Fut -> FutureState]

WorkInv == WorkTypes /\ Places /\ Tracked

\* The types after a step: the state's and the workers' are known.
Typed == wpc' \in [Worker -> WPC] /\ state' \in [Fut -> FutureState]

\* A step that moves no work: at most it cancels pending futures.
LEMMA WorkQuiet ==
  ASSUME WorkInv, Typed, UNCHANGED <<queue, item, failing, submitted>>,
         \A w \in Worker : wpc'[w] # wpc[w] => {wpc[w], wpc'[w]} \cap {"run", "call"} = {},
         \A w \in Worker : wpc'[w] # "breaking" => failing[w] = <<>>,
         \A f \in Fut : state'[f] # state[f] =>
           f \in submitted /\ state[f] = "pending" /\ state'[f] = "cancelled"
  PROVE  WorkInv'
<1>1. \A w \in Worker : held(w)' = held(w)
  BY DEF held
<1>2. \A f \in Fut : terminal(f) => terminal(f)'
  BY DEF terminal, cancelledState
<1>3. Range(queue) \subseteq Fut /\ Range(queue') = Range(queue)
  BY RangeFacts DEF WorkInv, WorkTypes
<1>4. WorkTypes'
  BY DEF WorkInv, WorkTypes, Typed
<1>5. \A w \in Worker : item[w] # nil => item[w] \in Fut
  BY DEF WorkInv, WorkTypes
<1>6. \A w \in Worker : wpc[w] \in {"run", "call"} \/ wpc'[w] \in {"run", "call"} => wpc'[w] = wpc[w]
  OBVIOUS
<1>7. Places'
  <2>1. \A w \in Worker : \A f \in held(w)' :
          f \notin Range(queue') /\ \A v \in Worker : f \in held(v)' => v = w
    BY <1>1, <1>3 DEF WorkInv, Places
  <2>2. \A w \in Worker :
          /\ item'[w] # nil <=> wpc'[w] \in {"run", "call"}
          /\ wpc'[w] # "breaking" => failing'[w] = <<>>
          /\ wpc'[w] = "run" => state'[item'[w]] \in {"pending", "cancelled"}
          /\ wpc'[w] = "call" => state'[item'[w]] = "running"
    BY <1>5, <1>6 DEF WorkInv, Places
  <2>3. \A f \in Range(queue') : state'[f] \in {"pending", "cancelled"}
    BY <1>3 DEF WorkInv, Places
  <2> QED BY <2>1, <2>2, <2>3 DEF WorkInv, Places
<1>8. Tracked'
  BY <1>1, <1>2, <1>3 DEF WorkInv, WorkTypes, Tracked
<1> QED BY <1>4, <1>7, <1>8 DEF WorkInv

\* submit puts a fresh, pending future at the end of the queue.
LEMMA WorkSubmit ==
  ASSUME WorkInv, Typed, NEW f \in Fut, f \notin submitted,
         submitted' = submitted \cup {f}, queue' = Append(queue, f),
         UNCHANGED <<item, failing, state>>,
         \A w \in Worker : wpc'[w] # wpc[w] =>
           {wpc[w], wpc'[w]} \cap {"run", "call", "breaking"} = {}
  PROVE  WorkInv'
<1>1. \A w \in Worker : held(w)' = held(w) /\ f \notin held(w)
  BY DEF held, WorkInv, Tracked
<1>2. \A g \in Fut : terminal(g) => terminal(g)'
  BY DEF terminal, cancelledState
<1>3. /\ f \notin Range(queue) /\ state[f] = "pending"
      /\ queue \in Seq(Fut) /\ IsInjective(queue)
  BY DEF WorkInv, WorkTypes, Tracked, Places
<1>4. queue' \in Seq(Fut) /\ IsInjective(queue') /\ Range(queue') = Range(queue) \cup {f}
  BY <1>3, AppendFacts
<1>5. WorkTypes'
  BY <1>4 DEF WorkInv, WorkTypes, Typed
<1>6. Places'
  <2>1. \A w \in Worker : \A g \in held(w)' :
          g \notin Range(queue') /\ \A v \in Worker : g \in held(v)' => v = w
    BY <1>1, <1>4 DEF WorkInv, Places
  <2>2. \A w \in Worker :
          /\ item'[w] # nil <=> wpc'[w] \in {"run", "call"}
          /\ wpc'[w] # "breaking" => failing'[w] = <<>>
          /\ wpc'[w] = "run" => state'[item'[w]] \in {"pending", "cancelled"}
          /\ wpc'[w] = "call" => state'[item'[w]] = "running"
    BY DEF WorkInv, Places
  <2> QED BY <1>3, <1>4, <2>1, <2>2 DEF WorkInv, Places
<1>7. Tracked'
  <2>1. Range(queue') \subseteq submitted' /\ \A w \in Worker : held(w)' \subseteq submitted'
    BY <1>1, <1>4 DEF WorkInv, Tracked
  <2>2. \A g \in Fut \ submitted' : state'[g] = "pending"
    BY DEF WorkInv, Tracked
  <2>3. ASSUME NEW g \in submitted'
        PROVE  terminal(g)' \/ g \in Range(queue') \/ \E w \in Worker : g \in held(w)'
    BY <1>1, <1>2, <1>4, <2>3 DEF WorkInv, WorkTypes, Tracked
  <2> QED BY <2>1, <2>2, <2>3 DEF Tracked
<1> QED BY <1>5, <1>6, <1>7 DEF WorkInv

\* breakPool moves the whole queue into one worker's hands.
LEMMA WorkBreak ==
  ASSUME WorkInv, Typed, NEW w \in Worker, wpc[w] = "init", wpc'[w] = "breaking",
         failing' = [failing EXCEPT ![w] = queue], queue' = <<>>,
         UNCHANGED <<item, submitted, state>>,
         \A v \in Worker \ {w} : wpc'[v] # wpc[v] =>
           {wpc[v], wpc'[v]} \cap {"run", "call", "breaking"} = {}
  PROVE  WorkInv'
<1>0. Range(<<>>) = {} /\ IsInjective(<<>>) /\ <<>> \in Seq(Fut) /\ Range(queue) \subseteq Fut
  BY RangeFacts DEF Range, IsInjective, WorkInv, WorkTypes
<1>1. /\ failing[w] = <<>> /\ item[w] = nil /\ failing'[w] = queue
      /\ \A v \in Worker \ {w} : failing'[v] = failing[v]
  <2>1. failing[w] = <<>> /\ item[w] = nil
    BY DEF WorkInv, Places
  <2>2. failing \in [Worker -> Seq(Fut)]
    BY DEF WorkInv, WorkTypes
  <2> QED BY <2>1, <2>2
<1>2. held(w) = {} /\ held(w)' = Range(queue) /\ \A v \in Worker \ {w} : held(v)' = held(v)
  BY <1>0, <1>1, NilAssumption DEF held
<1>3. \A g \in Fut : terminal(g) => terminal(g)'
  BY DEF terminal, cancelledState
<1>4. WorkTypes'
  BY <1>0 DEF WorkInv, WorkTypes, Typed
<1>5. Places'
  <2>1. \A v \in Worker : \A g \in held(v)' :
          g \notin Range(queue') /\ \A u \in Worker : g \in held(u)' => u = v
    BY <1>0, <1>2 DEF WorkInv, Places
  <2>2. \A v \in Worker :
          /\ item'[v] # nil <=> wpc'[v] \in {"run", "call"}
          /\ wpc'[v] # "breaking" => failing'[v] = <<>>
          /\ wpc'[v] = "run" => state'[item'[v]] \in {"pending", "cancelled"}
          /\ wpc'[v] = "call" => state'[item'[v]] = "running"
    <3>1. item'[w] = nil /\ wpc'[w] = "breaking"
      BY <1>1
    <3>2. \A v \in Worker \ {w} :
            /\ item'[v] = item[v] /\ failing'[v] = failing[v] /\ state' = state
            /\ \/ wpc'[v] = wpc[v]
               \/ /\ wpc[v] \notin {"run", "call", "breaking"}
                  /\ wpc'[v] \notin {"run", "call", "breaking"}
      BY <1>1
    <3> QED BY <3>1, <3>2 DEF WorkInv, Places
  <2> QED BY <1>0, <1>1, <2>1, <2>2 DEF WorkInv, Places
<1>6. Tracked'
  <2>1. Range(queue') \subseteq submitted' /\ \A v \in Worker : held(v)' \subseteq submitted'
    BY <1>0, <1>2 DEF WorkInv, Tracked
  <2>2. \A g \in Fut \ submitted' : state'[g] = "pending"
    BY DEF WorkInv, Tracked
  <2>3. ASSUME NEW g \in submitted'
        PROVE  terminal(g)' \/ g \in Range(queue') \/ \E v \in Worker : g \in held(v)'
    <3>1. CASE terminal(g)
      BY <1>3, <2>3, <3>1 DEF WorkInv, WorkTypes
    <3>2. CASE g \in Range(queue)
      BY <1>2, <3>2
    <3>3. ASSUME NEW v \in Worker, g \in held(v) PROVE g \in held(v)'
      BY <1>2, <3>3
    <3> QED BY <2>3, <3>1, <3>2, <3>3 DEF WorkInv, Tracked
  <2> QED BY <2>1, <2>2, <2>3 DEF Tracked
<1> QED BY <1>4, <1>5, <1>6 DEF WorkInv

\* A worker settles, or finds settled, the future it holds and lets go of it: the
\* head of a failed queue, or the item in its hands.
LEMMA WorkSettle ==
  ASSUME WorkInv, Typed, NEW w \in Worker, NEW f \in held(w), terminal(f)',
         UNCHANGED <<queue, submitted>>,
         item' \in [Worker -> Fut \cup {nil}], failing' \in [Worker -> Seq(Fut)],
         held(w)' = held(w) \ {f},
         \A v \in Worker \ {w} :
           item'[v] = item[v] /\ failing'[v] = failing[v] /\ wpc'[v] = wpc[v],
         IsInjective(failing'[w]), wpc'[w] \notin {"run", "call"}, item'[w] = nil,
         wpc'[w] # "breaking" => failing'[w] = <<>>,
         \A g \in Fut \ {f} : state'[g] = state[g]
  PROVE  WorkInv'
<1>0. f \in Fut /\ f \notin Range(queue) /\ Range(queue) \subseteq Fut
  BY RangeFacts DEF held, WorkInv, WorkTypes, Places
<1>1. \A v \in Worker \ {w} : held(v)' = held(v) /\ f \notin held(v)
  <2>1. \A v \in Worker \ {w} : held(v)' = held(v)
    BY DEF held
  <2> QED BY <2>1 DEF WorkInv, Places
<1>2. \A g \in Fut : terminal(g) => terminal(g)'
  <2>1. \A g \in Fut \ {f} : terminal(g) => terminal(g)'
    BY DEF terminal, cancelledState
  <2> QED BY <2>1
<1>3. WorkTypes'
  BY DEF WorkInv, WorkTypes, Typed
<1>4. Places'
  <2>1. \A v \in Worker : \A g \in held(v)' :
          g \notin Range(queue') /\ \A u \in Worker : g \in held(u)' => u = v
    <3>1. \A v \in Worker : held(v)' \subseteq held(v)
      BY <1>1
    <3> QED BY <3>1 DEF WorkInv, Places
  <2>2. \A v \in Worker \ {w} :
          /\ item'[v] # nil <=> wpc'[v] \in {"run", "call"}
          /\ wpc'[v] # "breaking" => failing'[v] = <<>>
          /\ wpc'[v] = "run" => state'[item'[v]] \in {"pending", "cancelled"}
          /\ wpc'[v] = "call" => state'[item'[v]] = "running"
    <3> TAKE v \in Worker \ {w}
    <3>1. item[v] # nil => item[v] \in Fut /\ item[v] # f
      BY <1>1 DEF held, WorkInv, WorkTypes
    <3>2. item[v] # nil => state'[item[v]] = state[item[v]]
      BY <3>1
    <3> QED BY <3>2 DEF WorkInv, Places
  <2>3. \A g \in Range(queue') : state'[g] \in {"pending", "cancelled"}
    BY <1>0 DEF WorkInv, Places
  <2>4. IsInjective(queue') /\ \A v \in Worker : IsInjective(failing'[v])
    BY DEF WorkInv, Places
  <2> QED BY <2>1, <2>2, <2>3, <2>4 DEF Places
<1>5. Tracked'
  <2>1. Range(queue') \subseteq submitted' /\ \A v \in Worker : held(v)' \subseteq submitted'
    BY <1>1 DEF WorkInv, Tracked
  <2>2. \A g \in Fut \ submitted' : state'[g] = "pending"
    BY DEF WorkInv, Tracked
  <2>3. ASSUME NEW g \in submitted'
        PROVE  terminal(g)' \/ g \in Range(queue') \/ \E v \in Worker : g \in held(v)'
    <3>1. CASE terminal(g)
      BY <1>2, <2>3, <3>1 DEF WorkInv, WorkTypes
    <3>2. CASE g \in Range(queue)
      BY <3>2
    <3>3. ASSUME NEW v \in Worker, g \in held(v), g # f PROVE g \in held(v)'
      BY <1>1, <3>3
    <3> QED BY <2>3, <3>1, <3>2, <3>3 DEF WorkInv, Tracked
  <2> QED BY <2>1, <2>2, <2>3 DEF Tracked
<1> QED BY <1>3, <1>4, <1>5 DEF WorkInv

\* A worker takes the head of the queue.
LEMMA WorkFetch ==
  ASSUME WorkInv, Typed, NEW w \in Worker, wpc[w] \in {"loop", "signalled"}, queue # <<>>,
         item' = [item EXCEPT ![w] = Head(queue)], queue' = Tail(queue),
         wpc' = [wpc EXCEPT ![w] = "run"], UNCHANGED <<failing, submitted, state>>
  PROVE  WorkInv'
<1> DEFINE f == Head(queue)
<1>1. /\ f \in Fut /\ f \in Range(queue) /\ queue' \in Seq(Fut)
      /\ Range(queue') = Range(queue) \ {f} /\ IsInjective(queue')
  BY TailFacts DEF WorkInv, WorkTypes, Places
<1>2. /\ item[w] = nil /\ failing[w] = <<>> /\ item'[w] = f
      /\ \A v \in Worker \ {w} : item'[v] = item[v] /\ wpc'[v] = wpc[v]
      /\ wpc'[w] = "run"
  BY DEF WorkInv, WorkTypes, Places
<1> HIDE DEF f
<1>3. Range(<<>>) = {}
  BY DEF Range
<1>4. held(w) = {} /\ held(w)' = {f} /\ \A v \in Worker \ {w} : held(v)' = held(v)
  BY <1>1, <1>2, <1>3, NilAssumption DEF held
<1>5. \A g \in Fut : terminal(g) => terminal(g)'
  BY DEF terminal, cancelledState
<1>6. WorkTypes'
  BY <1>1 DEF WorkInv, WorkTypes, Typed, f
<1>7. Places'
  <2>1. \A v \in Worker : \A g \in held(v)' :
          g \notin Range(queue') /\ \A u \in Worker : g \in held(u)' => u = v
    BY <1>1, <1>4 DEF WorkInv, Places
  <2>2. \A v \in Worker :
          /\ item'[v] # nil <=> wpc'[v] \in {"run", "call"}
          /\ wpc'[v] # "breaking" => failing'[v] = <<>>
          /\ wpc'[v] = "run" => state'[item'[v]] \in {"pending", "cancelled"}
          /\ wpc'[v] = "call" => state'[item'[v]] = "running"
    BY <1>1, <1>2, NilAssumption DEF WorkInv, Places
  <2> QED BY <1>1, <2>1, <2>2 DEF WorkInv, Places
<1>8. Tracked'
  <2>1. Range(queue') \subseteq submitted' /\ \A v \in Worker : held(v)' \subseteq submitted'
    BY <1>1, <1>4 DEF WorkInv, Tracked
  <2>2. \A g \in Fut \ submitted' : state'[g] = "pending"
    BY DEF WorkInv, Tracked
  <2>3. ASSUME NEW g \in submitted'
        PROVE  terminal(g)' \/ g \in Range(queue') \/ \E v \in Worker : g \in held(v)'
    <3>1. CASE terminal(g)
      BY <1>5, <2>3, <3>1 DEF WorkInv, WorkTypes
    <3>2. CASE g \in Range(queue)
      BY <1>1, <1>4, <3>2
    <3>3. ASSUME NEW v \in Worker, g \in held(v) PROVE g \in held(v)'
      BY <1>4, <3>3
    <3> QED BY <2>3, <3>1, <3>2, <3>3 DEF WorkInv, Tracked
  <2> QED BY <2>1, <2>2, <2>3 DEF Tracked
<1> QED BY <1>6, <1>7, <1>8 DEF WorkInv

\* A worker starts the pending item it holds.
LEMMA WorkCall ==
  ASSUME WorkInv, Typed, NEW w \in Worker, wpc[w] = "run",
         wpc' = [wpc EXCEPT ![w] = "call"], UNCHANGED <<queue, item, failing, submitted>>,
         state'[item[w]] = "running", \A g \in Fut \ {item[w]} : state'[g] = state[g],
         state[item[w]] = "pending"
  PROVE  WorkInv'
<1>0. /\ item[w] \in Fut /\ item[w] \in held(w) /\ item[w] \notin Range(queue)
      /\ item[w] \in submitted /\ Range(queue) \subseteq Fut
  <2>1. item[w] \in Fut /\ Range(queue) \subseteq Fut
    BY RangeFacts DEF WorkInv, WorkTypes, Places
  <2>2. item[w] \in held(w)
    BY <2>1 DEF held
  <2> QED BY <2>1, <2>2 DEF WorkInv, Places, Tracked
<1>1. \A v \in Worker : held(v)' = held(v)
  BY DEF held
<1>2. wpc'[w] = "call" /\ \A v \in Worker \ {w} : wpc'[v] = wpc[v]
  BY DEF WorkInv, WorkTypes
<1>3. \A g \in Fut : terminal(g) => terminal(g)'
  BY DEF terminal, cancelledState
<1>4. WorkTypes'
  BY DEF WorkInv, WorkTypes, Typed
<1>5. Places'
  <2>1. \A v \in Worker : \A g \in held(v)' :
          g \notin Range(queue') /\ \A u \in Worker : g \in held(u)' => u = v
    BY <1>1 DEF WorkInv, Places
  <2>2. \A v \in Worker \ {w} :
          /\ item'[v] # nil <=> wpc'[v] \in {"run", "call"}
          /\ wpc'[v] # "breaking" => failing'[v] = <<>>
          /\ wpc'[v] = "run" => state'[item'[v]] \in {"pending", "cancelled"}
          /\ wpc'[v] = "call" => state'[item'[v]] = "running"
    <3> TAKE v \in Worker \ {w}
    <3>1. item[v] # nil => item[v] \in Fut /\ item[v] # item[w]
      <4>1. item[v] # nil => item[v] \in Fut /\ item[v] \in held(v)
        BY DEF held, WorkInv, WorkTypes
      <4> QED BY <1>0, <4>1 DEF WorkInv, Places
    <3>2. item[v] # nil => state'[item[v]] = state[item[v]]
      BY <3>1
    <3> QED BY <1>2, <3>2 DEF WorkInv, Places
  <2>3. \A g \in Range(queue') : state'[g] \in {"pending", "cancelled"}
    BY <1>0 DEF WorkInv, Places
  <2>4. /\ item'[w] # nil <=> wpc'[w] \in {"run", "call"}
        /\ failing'[w] = <<>> /\ wpc'[w] = "call" /\ state'[item'[w]] = "running"
    BY <1>0, <1>2, NilAssumption DEF WorkInv, Places
  <2> QED BY <2>1, <2>2, <2>3, <2>4 DEF WorkInv, Places
<1>6. Tracked'
  <2>1. \A g \in Fut \ submitted' : state'[g] = "pending"
    BY <1>0 DEF WorkInv, Tracked
  <2>2. ASSUME NEW g \in submitted'
        PROVE  terminal(g)' \/ g \in Range(queue') \/ \E v \in Worker : g \in held(v)'
    <3>1. terminal(g) => terminal(g)'
      BY <1>3, <2>2 DEF WorkInv, WorkTypes
    <3> QED BY <1>1, <2>2, <3>1 DEF WorkInv, Tracked
  <2> QED BY <1>1, <2>1, <2>2 DEF WorkInv, Tracked
<1> QED BY <1>4, <1>5, <1>6 DEF WorkInv

\* shutdown(cancel_futures=True) settles the whole queue.
LEMMA WorkCancelled ==
  ASSUME WorkInv, Typed, queue' = <<>>, UNCHANGED <<item, failing, submitted>>,
         \A w \in Worker : wpc'[w] # wpc[w] =>
           {wpc[w], wpc'[w]} \cap {"run", "call", "breaking"} = {},
         \A f \in Fut : state'[f] =
           IF f \in Range(queue) /\ state[f] = "pending" THEN "cancelled" ELSE state[f]
  PROVE  WorkInv'
<1>0. Range(<<>>) = {} /\ IsInjective(<<>>) /\ <<>> \in Seq(Fut)
  BY DEF Range, IsInjective
<1>1. \A w \in Worker : held(w)' = held(w)
  BY DEF held
<1>2. \A g \in Fut : terminal(g) => terminal(g)'
  BY DEF terminal, cancelledState
<1>3. \A g \in Range(queue) : g \in Fut /\ terminal(g)'
  <2>1. \A g \in Range(queue) : g \in Fut /\ state'[g] = "cancelled"
    BY RangeFacts DEF WorkInv, WorkTypes, Places
  <2> QED BY <2>1 DEF terminal, cancelledState
<1>4. WorkTypes'
  BY <1>0 DEF WorkInv, WorkTypes, Typed
<1>5. Places'
  <2>1. \A w \in Worker : \A g \in held(w)' :
          g \notin Range(queue') /\ \A v \in Worker : g \in held(v)' => v = w
    BY <1>0, <1>1 DEF WorkInv, Places
  <2>2. \A w \in Worker :
          /\ item'[w] # nil <=> wpc'[w] \in {"run", "call"}
          /\ wpc'[w] # "breaking" => failing'[w] = <<>>
          /\ wpc'[w] = "run" => state'[item'[w]] \in {"pending", "cancelled"}
          /\ wpc'[w] = "call" => state'[item'[w]] = "running"
    <3> TAKE w \in Worker
    <3>1. item[w] # nil => item[w] \in Fut
      BY DEF WorkInv, WorkTypes
    <3> QED BY <3>1 DEF WorkInv, Places
  <2> QED BY <1>0, <2>1, <2>2 DEF WorkInv, Places
<1>6. Tracked'
  <2>1. \A g \in Fut \ submitted' : state'[g] = "pending"
    BY DEF WorkInv, Tracked
  <2>2. ASSUME NEW g \in submitted'
        PROVE  terminal(g)' \/ \E v \in Worker : g \in held(v)'
    <3>1. terminal(g) => terminal(g)'
      BY <1>2, <2>2 DEF WorkInv, WorkTypes
    <3> QED BY <1>1, <1>3, <2>2, <3>1 DEF WorkInv, Tracked
  <2> QED BY <1>0, <1>1, <2>1, <2>2 DEF WorkInv, Tracked
<1> QED BY <1>4, <1>5, <1>6 DEF WorkInv

\* Every step of the pool moves its futures from one place to the next.
LEMMA WorkStep ==
  ASSUME TypeOK, FutureInv, Pool, IdleExact, Places, Tracked, [Next]_vars
  PROVE  WorkInv'
<1>0. /\ WorkInv /\ wpc \in [Worker -> WPC] /\ failing \in [Worker -> Seq(Fut)]
      /\ item \in [Worker -> Fut \cup {nil}] /\ Range(queue) \subseteq Fut
  BY RangeFacts DEF TypeOK, WorkInv, WorkTypes
<1>1. Typed
  <2>1. CondInv' /\ FutureInv'
    BY CondStep, FutureStep
  <2> QED BY <2>1 DEF Typed, CondInv, FutureInv, FutureTypes
<1>2. ASSUME UNCHANGED <<queue, item, failing, submitted, state>>,
             \A w \in Worker : wpc'[w] # wpc[w] => failing[w] = <<>>
               /\ {wpc[w], wpc'[w]} \cap {"run", "call"} = {}
      PROVE  WorkInv'
  <2>1. \A w \in Worker : wpc'[w] # wpc[w] => {wpc[w], wpc'[w]} \cap {"run", "call"} = {}
    BY <1>2
  <2>2. \A w \in Worker : wpc'[w] # "breaking" => failing[w] = <<>>
    BY <1>2 DEF Places
  <2>3. \A g \in Fut : state'[g] # state[g] =>
          g \in submitted /\ state[g] = "pending" /\ state'[g] = "cancelled"
    BY <1>2
  <2> QED BY <1>0, <1>1, <1>2, <2>1, <2>2, <2>3, WorkQuiet
<1>3. ASSUME NEW f \in Fut, submit(f) PROVE WorkInv'
  <2>1. /\ f \notin submitted /\ submitted' = submitted \cup {f} /\ queue' = Append(queue, f)
        /\ UNCHANGED <<item, failing, state>>
    BY <1>3 DEF submit, fvars
  <2>2. \A w \in Worker : wpc'[w] # wpc[w] =>
          {wpc[w], wpc'[w]} \cap {"run", "call", "breaking"} = {}
    <3>1. CASE idle = 0 /\ numWorkers < MaxWorkers
      <4>1. wpc' = [wpc EXCEPT ![numWorkers + 1] = "init"]
        BY <1>3, <3>1 DEF submit, spawnWorker
      <4>2. numWorkers + 1 \in Worker /\ wpc[numWorkers + 1] = "unborn"
        BY <3>1, NewWorker, MaxWorkersAssumption DEF Worker
      <4> QED BY <1>0, <4>1, <4>2
    <3>2. CASE Signal
      <4>1. \A w \in Worker : wpc'[w] # wpc[w] => wpc[w] = "parked" /\ wpc'[w] = "signalled"
        BY <3>2, SignalFacts
      <4> QED BY <4>1
    <3> QED BY <1>3, <3>1, <3>2 DEF submit
  <2> QED BY <1>0, <1>1, <2>1, <2>2, WorkSubmit
<1>4. ASSUME NEW w \in Worker, initialize(w) PROVE WorkInv'
  <2>1. /\ wpc[w] = "init" /\ wpc' = [wpc EXCEPT ![w] = "loop"]
        /\ UNCHANGED <<queue, item, failing, submitted, state>>
    BY <1>4 DEF initialize, fvars
  <2>2. failing[w] = <<>>
    BY <2>1 DEF Places
  <2> QED BY <1>0, <1>2, <2>1, <2>2
<1>5. ASSUME NEW w \in Worker, breakPool(w) PROVE WorkInv'
  <2> DEFINE pcs == [wpc EXCEPT ![w] = "breaking"]
  <2>1. /\ wpc[w] = "init" /\ pcs \in [Worker -> WPC]
        /\ \A v \in Worker : pcs[v] = IF v = w THEN "breaking" ELSE wpc[v]
    BY <1>0, <1>5 DEF breakPool, WPC
  <2>2. /\ wpc' = broadcastTo(pcs) /\ failing' = [failing EXCEPT ![w] = queue]
        /\ queue' = <<>> /\ UNCHANGED <<item, submitted, state>>
    BY <1>5 DEF breakPool, fvars
  <2> HIDE DEF pcs
  <2>3. \A v \in Worker : wpc'[v] = IF wpc[v] = "parked" THEN "signalled" ELSE pcs[v]
    BY <2>1, <2>2, BroadcastFacts
  <2>4. /\ wpc'[w] = "breaking"
        /\ \A v \in Worker \ {w} : wpc'[v] # wpc[v] =>
             {wpc[v], wpc'[v]} \cap {"run", "call", "breaking"} = {}
    BY <2>1, <2>3
  <2> QED BY <1>0, <1>1, <2>1, <2>2, <2>4, WorkBreak
<1>6. ASSUME NEW w \in Worker, failQueued(w) PROVE WorkInv'
  <2>1. wpc[w] = "breaking" /\ item[w] = nil /\ UNCHANGED <<queue, item, submitted>>
    BY <1>6 DEF failQueued, Places
  <2>2. CASE failing[w] = <<>>
    <3>1. wpc' = [wpc EXCEPT ![w] = "dead"] /\ UNCHANGED <<failing, state>>
      BY <1>6, <2>2 DEF failQueued, fvars
    <3> QED BY <1>0, <1>2, <2>1, <2>2, <3>1
  <2>3. CASE failing[w] # <<>>
    <3>2. failing[w] \in Seq(Fut) /\ IsInjective(failing[w])
      BY <1>0 DEF Places
    <3>0. PICK f \in Fut : f = Head(failing[w])
      BY <2>3, <3>2
    <3>1. /\ resolve(f, "exception", w) /\ failing' = [failing EXCEPT ![w] = Tail(@)]
          /\ wpc' = wpc
      BY <1>6, <2>3, <3>0 DEF failQueued
    <3>3. /\ f \in Fut /\ f \in Range(failing[w]) /\ Tail(failing[w]) \in Seq(Fut)
          /\ Range(Tail(failing[w])) = Range(failing[w]) \ {f}
          /\ IsInjective(Tail(failing[w]))
      BY <2>3, <3>0, <3>2, TailFacts
    <3>4. terminal(f)' /\ \A g \in Fut \ {f} : state'[g] = state[g]
      BY <3>1, <3>3, ResolveStep
    <3>5. /\ failing'[w] = Tail(failing[w]) /\ failing' \in [Worker -> Seq(Fut)]
          /\ \A v \in Worker \ {w} : failing'[v] = failing[v]
      BY <1>0, <3>1, <3>3
    <3>6. f \in held(w) /\ held(w)' = held(w) \ {f}
      BY <2>1, <3>3, <3>5, NilAssumption DEF held
    <3> QED BY <1>0, <1>1, <2>1, <3>1, <3>3, <3>4, <3>5, <3>6, WorkSettle
  <2> QED BY <2>2, <2>3
<1>7. ASSUME NEW w \in Worker, fetch(w) PROVE WorkInv'
  <2>1. wpc[w] \in {"loop", "signalled"} /\ UNCHANGED <<failing, submitted, state>>
    BY <1>7 DEF fetch, fvars
  <2>2. CASE queue = <<>>
    <3>1. UNCHANGED <<queue, item>> /\ \E l \in {"parked", "dead"} : wpc' = [wpc EXCEPT ![w] = l]
      BY <1>7, <2>2 DEF fetch
    <3>2. failing[w] = <<>>
      BY <2>1 DEF Places
    <3> QED BY <1>0, <1>2, <2>1, <3>1, <3>2
  <2>3. CASE queue # <<>>
    <3>1. /\ item' = [item EXCEPT ![w] = Head(queue)] /\ queue' = Tail(queue)
          /\ wpc' = [wpc EXCEPT ![w] = "run"]
      BY <1>7, <2>3 DEF fetch
    <3> QED BY <1>0, <1>1, <2>1, <2>3, <3>1, WorkFetch
  <2> QED BY <2>2, <2>3
<1>8. ASSUME NEW w \in Worker, NEW f \in Fut, item[w] = f, wpc[w] \in {"run", "call"},
             terminal(f)', \A g \in Fut \ {f} : state'[g] = state[g],
             wpc' = [wpc EXCEPT ![w] = "loop"], item' = [item EXCEPT ![w] = nil],
             UNCHANGED <<queue, failing, submitted>>
      PROVE  WorkInv'
  <2>1. failing[w] = <<>> /\ Range(<<>>) = {}
    <3>1. Range(<<>>) = {}
      BY DEF Range
    <3>2. failing[w] = <<>>
      BY <1>8 DEF Places
    <3> QED BY <3>1, <3>2
  <2>2. /\ item'[w] = nil /\ wpc'[w] = "loop"
        /\ \A v \in Worker \ {w} : item'[v] = item[v] /\ wpc'[v] = wpc[v]
    BY <1>0, <1>8
  <2>3. f \in held(w) /\ held(w)' = held(w) \ {f}
    BY <1>8, <2>1, <2>2, NilAssumption DEF held
  <2>4. item' \in [Worker -> Fut \cup {nil}]
    BY <1>0, <1>8
  <2>5. IsInjective(failing'[w])
    BY <1>8 DEF Places
  <2> QED BY <1>0, <1>1, <1>8, <2>1, <2>2, <2>3, <2>4, <2>5, WorkSettle
<1>9. ASSUME NEW w \in Worker, start(w) PROVE WorkInv'
  <2>1. PICK f \in Fut : item[w] = f
    BY <1>0, <1>9 DEF start, Places
  <2>2. /\ wpc[w] = "run" /\ state[f] \in {"pending", "cancelled"}
        /\ UNCHANGED <<queue, failing, submitted>> /\ setRunningOrNotifyCancel(f)
    BY <1>9, <2>1 DEF start, Places
  <2>3. /\ \A g \in Fut \ {f} : state'[g] = state[g]
        /\ state'[f] = IF state[f] = "pending" THEN "running"
                       ELSE IF state[f] = "cancelled" THEN "cancelled notified" ELSE state[f]
    BY <2>2, StartStep
  <2>4. CASE state[f] = "pending"
    <3>1. wpc' = [wpc EXCEPT ![w] = "call"] /\ item' = item
      BY <1>9, <2>1, <2>4 DEF start
    <3>2. state'[f] = "running"
      BY <2>3, <2>4
    <3> QED BY <1>0, <1>1, <2>1, <2>2, <2>3, <2>4, <3>1, <3>2, WorkCall
  <2>5. CASE state[f] = "cancelled"
    <3>1. wpc' = [wpc EXCEPT ![w] = "loop"] /\ item' = [item EXCEPT ![w] = nil]
      BY <1>9, <2>1, <2>5 DEF start
    <3>2. terminal(f)'
      BY <2>3, <2>5 DEF terminal, cancelledState
    <3> QED BY <1>8, <2>1, <2>2, <2>3, <3>1, <3>2
  <2> QED BY <2>2, <2>4, <2>5
<1>10. ASSUME NEW w \in Worker, complete(w) PROVE WorkInv'
  <2>1. PICK f \in Fut : item[w] = f
    BY <1>0, <1>10 DEF complete, Places
  <2>2. /\ wpc[w] = "call" /\ UNCHANGED <<queue, failing, submitted>>
        /\ wpc' = [wpc EXCEPT ![w] = "loop"] /\ item' = [item EXCEPT ![w] = nil]
    BY <1>10 DEF complete
  <2>3. \E kind \in {"value", "exception"} : resolve(f, kind, w)
    BY <1>10, <2>1 DEF complete
  <2>4. terminal(f)' /\ \A g \in Fut \ {f} : state'[g] = state[g]
    BY <2>3, ResolveStep
  <2> QED BY <1>8, <2>1, <2>2, <2>4
<1>11. ASSUME NEW f \in Fut, clientCancel(f) PROVE WorkInv'
  <2>1. f \in submitted /\ {f} \in SUBSET Fut /\ cancel({f}, Client)
    BY <1>11 DEF clientCancel
  <2>2. UNCHANGED <<queue, item, failing, submitted, wpc>>
    BY <1>11 DEF clientCancel, evars
  <2>3. \A g \in Fut : state'[g] =
          IF g \in {f} /\ state[g] = "pending" THEN "cancelled" ELSE state[g]
    BY <2>1, CancelStep
  <2>4. \A w \in Worker : wpc'[w] # wpc[w] => {wpc[w], wpc'[w]} \cap {"run", "call"} = {}
    BY <2>2
  <2>5. \A w \in Worker : wpc'[w] # "breaking" => failing[w] = <<>>
    BY <2>2 DEF Places
  <2>6. \A g \in Fut : state'[g] # state[g] =>
          g \in submitted /\ state[g] = "pending" /\ state'[g] = "cancelled"
    BY <2>1, <2>3
  <2> QED BY <1>0, <1>1, <2>2, <2>4, <2>5, <2>6, WorkQuiet
<1>12. ASSUME NEW r \in Registrations, clientAddCallback(r[1], r[2]) PROVE WorkInv'
  <2>1. UNCHANGED <<queue, item, failing, submitted, wpc, state>>
    BY <1>12 DEF clientAddCallback, addCallback, evars
  <2> QED BY <1>2, <2>1
<1>13. CASE invoke
  <2>1. UNCHANGED <<queue, item, failing, submitted, wpc, state>>
    BY <1>13 DEF invoke, invokeFutureCallback, evars
  <2> QED BY <1>2, <2>1
<1>14. ASSUME NEW a \in BOOLEAN, NEW c \in BOOLEAN, doShutdown(a, c) PROVE WorkInv'
  <2>1. wpc' = broadcastTo(wpc) /\ UNCHANGED <<item, failing, submitted>>
    BY <1>14 DEF doShutdown
  <2>2. \A v \in Worker : wpc'[v] = IF wpc[v] = "parked" THEN "signalled" ELSE wpc[v]
    BY <1>0, <2>1, BroadcastFacts
  <2>3. CASE c
    <3>1. cancel(Range(queue), Closer) /\ queue' = <<>>
      BY <1>14, <2>3 DEF doShutdown
    <3>2. \A f \in Fut : state'[f] =
            IF f \in Range(queue) /\ state[f] = "pending" THEN "cancelled" ELSE state[f]
      BY <1>0, <3>1, CancelStep
    <3> QED BY <1>0, <1>1, <2>1, <2>2, <3>1, <3>2, WorkCancelled
  <2>4. CASE ~c
    <3>1. UNCHANGED <<queue, state>>
      BY <1>14, <2>4 DEF doShutdown, fvars
    <3>2. \A v \in Worker : wpc[v] = "parked" => failing[v] = <<>>
      BY DEF Places
    <3> QED BY <1>2, <2>1, <2>2, <3>1, <3>2
  <2> QED BY <2>3, <2>4
<1>15. CASE shutdownReturns
  <2>1. UNCHANGED <<queue, item, failing, submitted, wpc, state>>
    BY <1>15 DEF shutdownReturns, fvars
  <2> QED BY <1>2, <2>1
<1>16. CASE UNCHANGED vars
  <2>1. UNCHANGED <<queue, item, failing, submitted, wpc, state>>
    BY <1>16 DEF vars, fvars, evars
  <2> QED BY <1>2, <2>1
<1> QED BY <1>3, <1>4, <1>5, <1>6, <1>7, <1>9, <1>10, <1>11, <1>12, <1>13, <1>14, <1>15, <1>16 DEF Next
-----------------------------------------------------------------------------
(* The remaining types, and shutdown *)

Flags == hasInitializer \in BOOLEAN /\ shutdown \in BOOLEAN /\ broken \in BOOLEAN

\* The flags stay Boolean.
LEMMA FlagStep ==
  ASSUME Flags, [Next]_vars
  PROVE  Flags'
<1>1. CASE UNCHANGED evars
  BY <1>1, Zenon DEF evars, Flags
<1>2. ASSUME NEW f \in Fut, submit(f) PROVE Flags'
  BY <1>2, Zenon DEF submit, Flags
<1>3. ASSUME NEW w \in Worker,
             initialize(w) \/ breakPool(w) \/ failQueued(w) \/ fetch(w) \/ start(w) \/ complete(w)
      PROVE  Flags'
  BY <1>3, Zenon DEF initialize, breakPool, failQueued, fetch, start, complete, Flags
<1>4. ASSUME NEW a \in BOOLEAN, NEW c \in BOOLEAN, doShutdown(a, c) PROVE Flags'
  BY <1>4, Zenon DEF doShutdown, Flags
<1>5. CASE shutdownReturns
  BY <1>5, Zenon DEF shutdownReturns, Flags
<1>6. ASSUME NEW f \in Fut, clientCancel(f) PROVE Flags'
  BY <1>1, <1>6 DEF clientCancel
<1>7. ASSUME NEW r \in Registrations, clientAddCallback(r[1], r[2]) PROVE Flags'
  BY <1>1, <1>7 DEF clientAddCallback
<1>8. CASE invoke \/ UNCHANGED vars
  BY <1>1, <1>8 DEF invoke, vars
<1> QED BY <1>2, <1>3, <1>4, <1>5, <1>6, <1>7, <1>8 DEF Next

Actor == Worker \cup {Client, Closer}
CallTypes ==
  /\ calls \subseteq [by : Actor, fut : Fut, cb : Callback]
  /\ added \subseteq Fut \X Callback

\* A callback run is owed by an actor, on a registration of a future.
LEMMA CallStep ==
  ASSUME TypeOK, Places, [Next]_vars
  PROVE  CallTypes'
<1>0. /\ CallTypes /\ callbacks \in [Fut -> SUBSET Callback]
      /\ failing \in [Worker -> Seq(Fut)] /\ item \in [Worker -> Fut \cup {nil}]
  BY DEF TypeOK, CallTypes, Actor
<1>1. CASE UNCHANGED <<calls, added>>
  BY <1>0, <1>1 DEF CallTypes
<1>2. ASSUME NEW F \in SUBSET Fut, NEW s, NEW by \in Actor, finish(F, s, by) PROVE CallTypes'
  <2>1. calls' = calls \cup UNION {[by : {by}, fut : {f}, cb : callbacks[f]] : f \in F}
    BY <1>2 DEF finish
  <2>2. \A f \in F : [by : {by}, fut : {f}, cb : callbacks[f]] \subseteq
          [by : Actor, fut : Fut, cb : Callback]
    BY <1>0
  <2> QED BY <1>0, <1>2, <2>1, <2>2 DEF finish, CallTypes
<1>3. ASSUME NEW f \in Fut, NEW kind, NEW by \in Actor, resolve(f, kind, by) PROVE CallTypes'
  BY <1>1, <1>2, <1>3 DEF resolve, fvars
<1>4. ASSUME NEW F \in SUBSET Fut, NEW by \in Actor, cancel(F, by) PROVE CallTypes'
  <2>1. {f \in F : state[f] = "pending"} \in SUBSET Fut
    OBVIOUS
  <2> QED BY <1>2, <1>4, <2>1 DEF cancel
<1>5. ASSUME NEW w \in Worker, failQueued(w) PROVE CallTypes'
  <2>1. CASE failing[w] = <<>>
    BY <1>1, <1>5, <2>1 DEF failQueued, fvars
  <2>2. CASE failing[w] # <<>>
    <3>1. failing[w] \in Seq(Fut)
      BY <1>0
    <3>2. Head(failing[w]) \in Fut
      BY <2>2, <3>1
    <3>3. resolve(Head(failing[w]), "exception", w)
      BY <1>5, <2>2 DEF failQueued
    <3> QED BY <1>3, <3>2, <3>3 DEF Actor
  <2> QED BY <2>1, <2>2
<1>6. ASSUME NEW w \in Worker, complete(w) PROVE CallTypes'
  <2>1. item[w] \in Fut
    BY <1>0, <1>6 DEF complete, Places
  <2> QED BY <1>3, <1>6, <2>1 DEF complete, Actor
<1>7. ASSUME NEW f \in Fut, clientCancel(f) PROVE CallTypes'
  BY <1>4, <1>7 DEF clientCancel, Actor
<1>8. ASSUME NEW r \in Registrations, clientAddCallback(r[1], r[2]) PROVE CallTypes'
  <2>1. r[1] \in Fut /\ r[2] \in Callback
    BY RegistrationAssumption
  <2>2. [by |-> Client, fut |-> r[1], cb |-> r[2]] \in [by : Actor, fut : Fut, cb : Callback]
    BY <2>1 DEF Actor
  <2> QED BY <1>0, <1>8, <2>1, <2>2 DEF clientAddCallback, addCallback, CallTypes
<1>9. CASE invoke
  BY <1>0, <1>9 DEF invoke, invokeFutureCallback, CallTypes
<1>10. ASSUME NEW a \in BOOLEAN, NEW c \in BOOLEAN, doShutdown(a, c) PROVE CallTypes'
  <2>1. Range(queue) \in SUBSET Fut
    BY RangeFacts DEF TypeOK
  <2>2. cancel(Range(queue), Closer) \/ UNCHANGED <<calls, added>>
    BY <1>10 DEF doShutdown, fvars
  <2> QED BY <1>1, <1>4, <2>1, <2>2 DEF Actor
<1>11. ASSUME NEW f \in Fut, submit(f) PROVE CallTypes'
  BY <1>1, <1>11 DEF submit, fvars
<1>12. ASSUME NEW w \in Worker, initialize(w) \/ breakPool(w) \/ fetch(w) \/ start(w)
       PROVE  CallTypes'
  BY <1>1, <1>12 DEF initialize, breakPool, fetch, start, setRunningOrNotifyCancel, fvars
<1>13. CASE shutdownReturns \/ UNCHANGED vars
  BY <1>1, <1>13 DEF shutdownReturns, vars, fvars
<1> QED BY <1>5, <1>6, <1>7, <1>8, <1>9, <1>10, <1>11, <1>12, <1>13 DEF Next

\* The types of everything, put together.
LEMMA TypeStep ==
  ASSUME Inv, [Next]_vars
  PROVE  TypeOK'
<1>1. CondInv'
  BY CondStep DEF Inv
<1>2. FutureInv'
  BY FutureStep DEF Inv
<1>3. WorkInv'
  BY WorkStep DEF Inv
<1>4. CallTypes'
  BY CallStep DEF Inv
<1>5. Flags'
  BY FlagStep DEF Inv, TypeOK, Flags
<1>6. (closer \in {"none", "waiting", "returned"})'
  <2>1. closer \in {"none", "waiting", "returned"}
    BY DEF Inv, TypeOK
  <2>2. CASE closer' = closer
    BY <2>1, <2>2
  <2>3. ASSUME NEW a \in BOOLEAN, NEW c \in BOOLEAN, doShutdown(a, c)
        PROVE  closer' \in {"none", "waiting", "returned"}
    BY <2>3 DEF doShutdown
  <2>4. CASE shutdownReturns
    BY <2>4 DEF shutdownReturns
  <2> QED BY <2>2, <2>3, <2>4 DEF Next, vars, evars, submit, clientCancel, clientAddCallback,
             invoke, initialize, breakPool, failQueued, fetch, start, complete
<1>7. (done \subseteq Fut)'
  BY <1>2 DEF FutureInv, DoneIffTerminal
<1> QED BY <1>1, <1>2, <1>3, <1>4, <1>5, <1>6, <1>7, Zenon
        DEF TypeOK, CondInv, FutureInv, FutureTypes, WorkInv, WorkTypes, CallTypes, Actor, Flags

\* shutdown() returns to settled futures, and nobody submits after it.
LEMMA ShutdownStep ==
  ASSUME Inv, [Next]_vars
  PROVE  ShutdownSettlesAll'
<1>0. \A f \in Fut : terminal(f) => terminal(f)'
  <2>1. settledOnce
    BY FutureStep DEF Inv
  <2> QED BY <2>1 DEF settledOnce, terminal, cancelledState
<1>1. CASE shutdownReturns
  <2>1. /\ \A w \in Worker : wpc[w] \in {"unborn", "dead"}
        /\ submitted' = submitted
    BY <1>1 DEF shutdownReturns
  <2>2. queue = <<>>
    BY <2>1 DEF Inv, NoStrandedWork
  <2>3. \A w \in Worker : item[w] = nil /\ failing[w] = <<>>
    BY <2>1 DEF Inv, Places
  <2>4. Range(<<>>) = {}
    BY DEF Range
  <2>5. \A w \in Worker : held(w) = {}
    BY <2>3, <2>4, NilAssumption DEF held
  <2>6. \A f \in submitted : f \in Fut /\ terminal(f)
    BY <2>2, <2>4, <2>5 DEF Inv, Tracked, TypeOK
  <2>7. \A f \in submitted : terminal(f)'
    BY <1>0, <2>6
  <2> QED BY <2>1, <2>7 DEF ShutdownSettlesAll
<1>2. ASSUME submitted' = submitted, closer' = "returned" => closer = "returned"
      PROVE  ShutdownSettlesAll'
  <2>1. ASSUME closer' = "returned" PROVE \A f \in submitted : terminal(f)'
    <3>1. \A f \in submitted : f \in Fut /\ terminal(f)
      BY <1>2, <2>1 DEF Inv, ShutdownSettlesAll, TypeOK
    <3> QED BY <1>0, <3>1
  <2> QED BY <1>2, <2>1 DEF ShutdownSettlesAll
<1>3. ASSUME NEW f \in Fut, submit(f) PROVE ShutdownSettlesAll'
  <2>1. closer = "none" /\ closer' = closer
    BY <1>3 DEF submit, Inv, Pool
  <2> QED BY <2>1 DEF ShutdownSettlesAll
<1>4. ASSUME NEW a \in BOOLEAN, NEW c \in BOOLEAN, doShutdown(a, c) PROVE ShutdownSettlesAll'
  <2>1. closer' # "returned"
    BY <1>4 DEF doShutdown
  <2> QED BY <2>1 DEF ShutdownSettlesAll
<1>5. CASE UNCHANGED <<submitted, closer>>
  BY <1>2, <1>5
<1> QED BY <1>1, <1>3, <1>4, <1>5 DEF Next, vars, evars, clientCancel, clientAddCallback,
           invoke, initialize, breakPool, failQueued, fetch, start, complete
-----------------------------------------------------------------------------
\* The empty pool satisfies the invariant.
LEMMA Initially == Init => Inv
<1> SUFFICES ASSUME Init PROVE Inv
  OBVIOUS
<1>0. Range(<<>>) = {} /\ IsInjective(<<>>) /\ <<>> \in Seq(Fut) /\ <<>> \in Seq(Worker)
  BY DEF Range, IsInjective
<1>1. /\ state = [f \in Fut |-> "pending"] /\ outcome = [f \in Fut |-> "none"] /\ done = {}
      /\ callbacks = [f \in Fut |-> {}] /\ calls = {} /\ added = {}
      /\ ran = [r \in Fut \X Callback |-> 0]
  BY DEF Init, FutureInit
<1>2. /\ queue = <<>> /\ idle = 0 /\ notifyList = <<>> /\ wpc = [w \in Worker |-> "unborn"]
      /\ item = [w \in Worker |-> nil] /\ failing = [w \in Worker |-> <<>>]
      /\ submitted = {} /\ closer = "none"
  BY DEF Init
<1>3. FutureInv
  <2>1. FutureTypes
    BY <1>1 DEF FutureTypes, FutureState
  <2>2. \A f \in Fut : ~terminal(f)
    BY <1>1 DEF terminal, cancelledState
  <2>3. DoneIffTerminal
    BY <1>1, <2>2 DEF DoneIffTerminal
  <2>4. CallbackPlaces
    BY <1>1 DEF CallbackPlaces, Unregistered, owed
  <2> QED BY <2>1, <2>3, <2>4 DEF FutureInv
<1>4. TypeOK
  <2>1. Flags
    BY Zenon DEF Init, Flags
  <2>2. CallTypes
    BY <1>1 DEF CallTypes
  <2>3. /\ queue \in Seq(Fut) /\ idle \in Nat /\ notifyList \in Seq(Worker)
        /\ wpc \in [Worker -> WPC] /\ item \in [Worker -> Fut \cup {nil}]
        /\ failing \in [Worker -> Seq(Fut)] /\ submitted \subseteq Fut
        /\ closer \in {"none", "waiting", "returned"} /\ done \subseteq Fut
    BY <1>0, <1>1, <1>2 DEF WPC
  <2> QED BY <1>3, <2>1, <2>2, <2>3, Zenon
          DEF TypeOK, FutureInv, FutureTypes, CallTypes, Actor, Flags
<1>5. IdleExact
  <2>1. inWait = {} /\ {w \in Worker : wpc[w] = "parked"} = {}
    BY <1>2 DEF inWait
  <2>2. idle = Cardinality(inWait)
    BY <1>2, <2>1, FS_EmptySet
  <2> QED BY <1>0, <1>2, <2>1, <2>2 DEF IdleExact, inWait
<1>6. Pool
  <2>1. 0 \in 0..MaxWorkers /\ \A w \in Worker : wpc[w] # "unborn" <=> w <= 0
    BY <1>2, MaxWorkersAssumption DEF Worker
  <2> QED BY <1>2, <2>1 DEF Pool
<1>7. NoStrandedWork /\ ShutdownSettlesAll
  BY <1>2 DEF NoStrandedWork, ShutdownSettlesAll
<1>8. \A w \in Worker : held(w) = {}
  BY <1>0, <1>2, NilAssumption DEF held
<1>9. Places /\ Tracked
  BY <1>0, <1>1, <1>2, <1>8 DEF Places, Tracked
<1> QED BY <1>3, <1>4, <1>5, <1>6, <1>7, <1>9 DEF Inv

\* Every step of the pool keeps the invariant.
LEMMA Inductive == Inv /\ [Next]_vars => Inv'
<1> SUFFICES ASSUME Inv, [Next]_vars PROVE Inv'
  OBVIOUS
<1>1. TypeOK' /\ ShutdownSettlesAll'
  BY TypeStep, ShutdownStep
<1>2. FutureInv'
  BY FutureStep DEF Inv
<1>3. IdleExact'
  BY CondStep DEF Inv, CondInv
<1>4. Pool' /\ NoStrandedWork'
  BY PoolStep DEF Inv, PoolInv
<1>5. Places' /\ Tracked'
  BY WorkStep DEF Inv, WorkInv
<1> QED BY <1>1, <1>2, <1>3, <1>4, <1>5 DEF Inv

\* Inv holds in every reachable state of the executor.
THEOREM Invariance == Spec => []Inv
BY Initially, Inductive, PTL DEF Spec

\* executor.go, submit and workerLoop: a queued item always has an awake worker.
THEOREM Stranded == Spec => []NoStrandedWork
<1>1. Inv => NoStrandedWork
  BY DEF Inv
<1> QED BY <1>1, Invariance, PTL

\* executor.go, workerLoop: e.idle and the condition's list are exact.
THEOREM Idle == Spec => []IdleExact
<1>1. Inv => IdleExact
  BY DEF Inv
<1> QED BY <1>1, Invariance, PTL

\* executor.go, runItem: no future is handed to two workers, so the errors it
\* ignores cannot happen.
THEOREM HandedOut == Spec => []HandedOutOnce
<1>1. Inv => HandedOutOnce
  <2> SUFFICES ASSUME Inv PROVE HandedOutOnce
    OBVIOUS
  <2>1. ASSUME NEW f \in Fut
        PROVE  Cardinality(holders(f)) + (IF f \in Range(queue) THEN 1 ELSE 0) <= 1
    <3>1. holders(f) = {w \in Worker : f \in held(w)}
      BY DEF holders, held
    <3>2. CASE holders(f) = {}
      BY <3>2, FS_EmptySet
    <3>3. ASSUME NEW w \in holders(f)
          PROVE  Cardinality(holders(f)) + (IF f \in Range(queue) THEN 1 ELSE 0) <= 1
      <4>1. f \notin Range(queue) /\ holders(f) = {w}
        BY <3>1, <3>3 DEF Inv, Places
      <4>2. Cardinality({w}) = 1
        BY FS_Singleton
      <4> QED BY <4>1, <4>2
    <3> QED BY <3>2, <3>3
  <2> QED BY <2>1 DEF Inv, Places, HandedOutOnce
<1> QED BY <1>1, Invariance, PTL

\* executor.go, doShutdown: when shutdown(wait=True) returns, everything ever
\* submitted is settled.
THEOREM Shutdown == Spec => []ShutdownSettlesAll
<1>1. Inv => ShutdownSettlesAll
  BY DEF Inv
<1> QED BY <1>1, Invariance, PTL

\* futures.go, finish and addCallback: every registered callback is attached,
\* owed or run, exactly once.
THEOREM Callbacks == Spec => []CallbacksOnce
<1>1. Inv => CallbacksOnce
  BY PlacesCount DEF Inv, FutureInv
<1> QED BY <1>1, Invariance, PTL

\* futures.go, finish: the done channel is closed exactly on a terminal future.
THEOREM Closed == Spec => []DoneIffTerminal
<1>1. Inv => DoneIffTerminal
  BY DEF Inv, FutureInv
<1> QED BY <1>1, Invariance, PTL

\* futures.go, setResult, setException and cancel: a future settles once.
THEOREM Settles == Spec => SettledOnce
<1>1. Inv /\ [Next]_vars => [settledOnce]_fvars
  BY FutureStep DEF Inv
<1> QED BY <1>1, Invariance, PTL DEF Spec, SettledOnce, settledOnce
=============================================================================
