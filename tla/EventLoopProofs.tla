-------------------------- MODULE EventLoopProofs ---------------------------
(***************************************************************************)
(* What each step of the event loop, of its tasks and of the threads that  *)
(* work for it keeps of the loop's invariant, for any tasks and any        *)
(* completions; and the invariant of the Lock, the first primitive over    *)
(* it, with the first half of acquire.  Module AsyncioProofs puts the      *)
(* steps together.                                                         *)
(***************************************************************************)
EXTENDS AsyncioLock, WaiterLemmas

\* The callbacks, and whose are queued.
Callback == ({"step"} \X Task) \cup ({"resolve"} \X Op) \cup ({"create"} \X Task)
line == Range(ready) \cup Range(batch)
stepping == {t \in Task : stepOf(t) \in line}
resolving == {o \in Op : resolutionOf(o) \in line}
creating == {t \in Task : creationOf(t) \in line}
callbacks(W, R, C) ==
  {stepOf(t) : t \in W} \cup {resolutionOf(o) : o \in R} \cup {creationOf(t) : t \in C}

\* No callback is queued twice.
Queues ==
  /\ ready \in Seq(Callback) /\ batch \in Seq(Callback)
  /\ IsInjective(ready) /\ IsInjective(batch)
  /\ Range(ready) \cap Range(batch) = {}

\* A callback tells what it is and whose.
LEMMA CallbackFacts ==
  /\ \A t \in Task : stepOf(t) \in Callback /\ creationOf(t) \in Callback
  /\ \A o \in Op : resolutionOf(o) \in Callback
  /\ \A t, u : stepOf(t) = stepOf(u) => t = u
  /\ \A t, u : resolutionOf(t) = resolutionOf(u) => t = u
  /\ \A t, u : creationOf(t) = creationOf(u) => t = u
  /\ \A t, u : stepOf(t) # resolutionOf(u) /\ stepOf(t) # creationOf(u)
               /\ resolutionOf(t) # creationOf(u)
BY DEF Callback, stepOf, resolutionOf, creationOf

\* Some callbacks leave the line, then others join it.
exchange(W0, R0, C0, W, R, C) ==
  line' = (line \ callbacks(W0, R0, C0)) \cup callbacks(W, R, C)

\* The same, kind by kind.
moved(W0, R0, C0, W, R, C) ==
  /\ stepping' = (stepping \ W0) \cup W
  /\ resolving' = (resolving \ R0) \cup R
  /\ creating' = (creating \ C0) \cup C

\* What leaves and joins the line, by kind.
LEMMA LineFacts ==
  ASSUME NEW W0 \in SUBSET Task, NEW R0 \in SUBSET Op, NEW C0 \in SUBSET Task,
         NEW W \in SUBSET Task, NEW R \in SUBSET Op, NEW C \in SUBSET Task,
         exchange(W0, R0, C0, W, R, C)
  PROVE  moved(W0, R0, C0, W, R, C)
<1>1. \A t : /\ stepOf(t) \in callbacks(W0, R0, C0) <=> t \in W0
             /\ stepOf(t) \in callbacks(W, R, C) <=> t \in W
  BY CallbackFacts DEF callbacks
<1>2. \A t : /\ resolutionOf(t) \in callbacks(W0, R0, C0) <=> t \in R0
             /\ resolutionOf(t) \in callbacks(W, R, C) <=> t \in R
  BY CallbackFacts DEF callbacks
<1>3. \A t : /\ creationOf(t) \in callbacks(W0, R0, C0) <=> t \in C0
             /\ creationOf(t) \in callbacks(W, R, C) <=> t \in C
  BY CallbackFacts DEF callbacks
<1>4. stepping' = {t \in Task : stepOf(t) \in line'}
  BY DEF stepping, stepOf
<1>5. resolving' = {t \in Op : resolutionOf(t) \in line'}
  BY DEF resolving, resolutionOf
<1>6. creating' = {t \in Task : creationOf(t) \in line'}
  BY DEF creating, creationOf
<1>7. stepping' = (stepping \ W0) \cup W
  BY <1>1, <1>4 DEF stepping, exchange
<1>8. resolving' = (resolving \ R0) \cup R
  BY <1>2, <1>5 DEF resolving, exchange
<1>9. creating' = (creating \ C0) \cup C
  BY <1>3, <1>6 DEF creating, exchange
<1> QED BY <1>7, <1>8, <1>9 DEF moved

\* C joins the ready callbacks.
Adds(C) ==
  /\ ready' \in Seq(Callback)
  /\ Range(ready') = Range(ready) \cup C
  /\ C \cap Range(ready) = {} => IsInjective(ready')

\* The callbacks of a list of names.
tagged(tag, q) == [i \in DOMAIN q |-> <<tag, q[i]>>]

\* They are as many as the names.
LEMMA TaggedFacts ==
  ASSUME NEW S, NEW q \in Seq(S), IsInjective(q), NEW tag
  PROVE  /\ tagged(tag, q) \in Seq({tag} \X S)
         /\ IsInjective(tagged(tag, q))
         /\ Range(tagged(tag, q)) = {<<tag, x>> : x \in Range(q)}
<1> DEFINE r == tagged(tag, q)
<1>0. r = [i \in DOMAIN q |-> <<tag, q[i]>>]
  BY DEF tagged
<1> HIDE DEF r
<1>1. DOMAIN q = 1..Len(q) /\ Len(q) \in Nat /\ \A i \in 1..Len(q) : q[i] \in S
  OBVIOUS
<1>2. r \in [1..Len(q) -> {tag} \X S]
  BY <1>0, <1>1
<1>3. r \in Seq({tag} \X S)
  BY <1>1, <1>2
<1>4. IsInjective(r)
  BY <1>0 DEF IsInjective
<1>5. Range(r) = {<<tag, x>> : x \in Range(q)}
  <2>1. DOMAIN r = DOMAIN q /\ \A i \in DOMAIN q : r[i] = <<tag, q[i]>>
    BY <1>0
  <2>2. ASSUME NEW y \in Range(r) PROVE y \in {<<tag, x>> : x \in Range(q)}
    BY Zenon, <2>1 DEF Range
  <2>3. ASSUME NEW x \in Range(q) PROVE <<tag, x>> \in Range(r)
    BY <2>1 DEF Range
  <2> QED BY <2>2, <2>3
<1> QED BY <1>3, <1>4, <1>5 DEF r

\* Nothing, one callback, or the steps of several tasks join them.
LEMMA AddsFacts ==
  ASSUME Queues
  PROVE  /\ UNCHANGED ready => Adds(callbacks({}, {}, {}))
         /\ \A t \in Task : ready' = Append(ready, stepOf(t)) => Adds(callbacks({t}, {}, {}))
         /\ \A o \in Op : ready' = Append(ready, resolutionOf(o)) => Adds(callbacks({}, {o}, {}))
         /\ \A t \in Task : ready' = Append(ready, creationOf(t)) => Adds(callbacks({}, {}, {t}))
         /\ \A q \in Seq(Task) :
              IsInjective(q) /\ ready' = ready \o [i \in DOMAIN q |-> stepOf(q[i])] =>
                Adds(callbacks(Range(q), {}, {}))
<1>1. ASSUME NEW cb \in Callback, ready' = Append(ready, cb) PROVE Adds({cb})
  BY <1>1, AppendFacts DEF Adds, Queues
<1>2. callbacks({}, {}, {}) = {} /\ \A t : callbacks({t}, {}, {}) = {stepOf(t)}
        /\ callbacks({}, {t}, {}) = {resolutionOf(t)} /\ callbacks({}, {}, {t}) = {creationOf(t)}
  BY DEF callbacks
<1>3. UNCHANGED ready => Adds({})
  BY DEF Adds, Queues
<1>4. ASSUME NEW q \in Seq(Task), IsInjective(q),
             ready' = ready \o [i \in DOMAIN q |-> stepOf(q[i])]
      PROVE  Adds(callbacks(Range(q), {}, {}))
  <2> DEFINE r == [i \in DOMAIN q |-> stepOf(q[i])]
  <2>1. r \in Seq({"step"} \X Task) /\ IsInjective(r) /\ Range(r) = {stepOf(x) : x \in Range(q)}
    <3>1. r = tagged("step", q)
      BY DEF stepOf, tagged
    <3>2. {stepOf(x) : x \in Range(q)} = {<<"step", x>> : x \in Range(q)}
      BY DEF stepOf
    <3> HIDE DEF r
    <3> QED BY Zenon, <1>4, <3>1, <3>2, TaggedFacts
  <2>2. r \in Seq(Callback)
    BY <2>1 DEF Callback
  <2>3. callbacks(Range(q), {}, {}) = Range(r)
    BY <2>1 DEF callbacks
  <2>4. ready' = ready \o r
    BY <1>4
  <2> HIDE DEF r
  <2> QED BY <2>1, <2>2, <2>3, <2>4, ConcatFacts DEF Adds, Queues
<1>5. UNCHANGED ready => Adds(callbacks({}, {}, {}))
  BY <1>2, <1>3
<1>6. ASSUME NEW t \in Task
      PROVE  /\ ready' = Append(ready, stepOf(t)) => Adds(callbacks({t}, {}, {}))
             /\ ready' = Append(ready, creationOf(t)) => Adds(callbacks({}, {}, {t}))
  <2>1. stepOf(t) \in Callback /\ creationOf(t) \in Callback
    BY CallbackFacts
  <2> QED BY <1>1, <1>2, <2>1
<1>7. ASSUME NEW o \in Op
      PROVE  ready' = Append(ready, resolutionOf(o)) => Adds(callbacks({}, {o}, {}))
  <2>1. resolutionOf(o) \in Callback
    BY CallbackFacts
  <2> QED BY <1>1, <1>2, <2>1
<1> QED BY <1>4, <1>5, <1>6, <1>7

\* None of them is queued.
fresh(W, R, C) == W \cap stepping = {} /\ R \cap resolving = {} /\ C \cap creating = {}

\* Callbacks join the line.
LEMMA JoinLine ==
  ASSUME Queues, UNCHANGED batch,
         NEW W \in SUBSET Task, NEW R \in SUBSET Op, NEW C \in SUBSET Task,
         fresh(W, R, C), Adds(callbacks(W, R, C))
  PROVE  Queues' /\ moved({}, {}, {}, W, R, C)
<1>1. callbacks(W, R, C) \cap line = {}
  BY DEF callbacks, fresh, stepping, resolving, creating
<1>2. Queues'
  BY <1>1 DEF Queues, Adds, line
<1>3. PICK none : none = {}
  OBVIOUS
<1>4. exchange(none, none, none, W, R, C) /\ none \in SUBSET Task /\ none \in SUBSET Op
  <2>1. callbacks(none, none, none) = {}
    BY <1>3 DEF callbacks
  <2>2. line' = Range(ready') \cup Range(batch)
    BY DEF line, Range
  <2> QED BY <1>3, <2>1, <2>2 DEF Adds, line, exchange
<1>5. moved(none, none, none, W, R, C)
  BY <1>4, LineFacts
<1> QED BY <1>2, <1>3, <1>5

\* The head of the batch is the first three's one callback, and those of the
\* other three are new.
runsOff(W0, R0, C0, W, R, C) ==
  /\ batch # <<>> /\ callbacks(W0, R0, C0) = {Head(batch)} /\ batch' = Tail(batch)
  /\ fresh(W, R, C) /\ Adds(callbacks(W, R, C))

\* The head of the batch runs and callbacks join the line.
LEMMA RunLine ==
  ASSUME Queues,
         NEW W0 \in SUBSET Task, NEW R0 \in SUBSET Op, NEW C0 \in SUBSET Task,
         NEW W \in SUBSET Task, NEW R \in SUBSET Op, NEW C \in SUBSET Task,
         runsOff(W0, R0, C0, W, R, C)
  PROVE  /\ Queues' /\ moved(W0, R0, C0, W, R, C)
         /\ W0 \subseteq stepping /\ R0 \subseteq resolving /\ C0 \subseteq creating
<1>1. callbacks(W, R, C) \cap line = {}
  BY DEF runsOff, callbacks, fresh, stepping, resolving, creating
<1> DEFINE cb == Head(batch)
<1>2. /\ cb \in Range(batch) /\ batch' \in Seq(Callback) /\ IsInjective(batch')
      /\ Range(batch') = Range(batch) \ {cb}
  BY TailFacts DEF Queues, runsOff
<1>3. Queues'
  BY <1>1, <1>2 DEF Queues, Adds, line, runsOff
<1>4. exchange(W0, R0, C0, W, R, C)
  <2>1. line' = Range(ready') \cup Range(batch')
    BY DEF line, Range
  <2> QED BY <2>1, <1>1, <1>2 DEF Adds, line, Queues, runsOff, exchange
<1>5. W0 \subseteq stepping /\ R0 \subseteq resolving /\ C0 \subseteq creating
  <2>1. callbacks(W0, R0, C0) \subseteq line
    BY <1>2 DEF line, runsOff
  <2> QED BY <2>1 DEF callbacks, stepping, resolving, creating
<1> QED BY <1>3, <1>4, <1>5, LineFacts

\* The timers that are due and the ready callbacks become the batch.
LEMMA GrabLine ==
  ASSUME Queues, batch = <<>>, NEW due \in SUBSET Op, IsFiniteSet(due),
         due \cap resolving = {}, grab(due)
  PROVE  /\ Queues' /\ ready' = <<>>
         /\ stepping' = stepping
         /\ resolving' = resolving \cup due
         /\ creating' = creating
<1>1. PICK q \in orders(due) : batch' = ready \o [i \in DOMAIN q |-> resolutionOf(q[i])]
  BY Zenon DEF grab
<1> DEFINE r == [i \in DOMAIN q |-> resolutionOf(q[i])]
<1>2. q \in Seq(due) /\ IsInjective(q) /\ Range(q) = due
  BY OrdersFacts
<1>3. q \in Seq(Op)
  BY <1>2
<1>4. r = tagged("resolve", q)
  BY DEF resolutionOf, tagged
<1>5. batch' = ready \o r /\ ready' = <<>>
  BY <1>1 DEF grab
<1> HIDE DEF r
<1>6. r \in Seq({"resolve"} \X Op) /\ IsInjective(r) /\ Range(r) = {<<"resolve", x>> : x \in due}
  BY <1>2, <1>3, <1>4, TaggedFacts
<1>7. r \in Seq(Callback)
  BY <1>6 DEF Callback
<1>8. Range(r) = callbacks({}, due, {})
  BY <1>6 DEF callbacks, resolutionOf
<1>9. Range(r) \cap Range(ready) = {}
  BY <1>8 DEF callbacks, resolving, line
<1>10. /\ batch' \in Seq(Callback) /\ IsInjective(batch')
       /\ Range(batch') = Range(ready) \cup callbacks({}, due, {})
  BY <1>5, <1>6, <1>7, <1>8, <1>9, ConcatFacts DEF Queues
<1>11. Range(<<>>) = {} /\ IsInjective(<<>>) /\ <<>> \in Seq(Callback)
  BY DEF Range, IsInjective
<1>12. Queues'
  BY <1>5, <1>10, <1>11 DEF Queues
<1>13. line' = (line \ callbacks({}, {}, {})) \cup callbacks({}, due, {})
  <2>1. callbacks({}, {}, {}) = {}
    BY DEF callbacks
  <2>2. line' = Range(ready') \cup Range(batch')
    BY DEF line, Range
  <2> QED BY <2>1, <2>2, <1>5, <1>10, <1>11 DEF line
<1>14. stepping' = stepping /\ resolving' = resolving \cup due /\ creating' = creating
  <2>1. PICK none : none = {}
    OBVIOUS
  <2>2. none \in SUBSET Task /\ none \in SUBSET Op
    BY <2>1
  <2>3. exchange(none, none, none, none, due, none)
    BY <1>13, <2>1 DEF exchange
  <2>4. moved(none, none, none, none, due, none)
    BY <2>2, <2>3, LineFacts
  <2> QED BY <2>1, <2>4 DEF moved
<1> QED BY <1>5, <1>12, <1>14

\* The three kinds that join.
LEMMA Joins ==
  ASSUME Queues, UNCHANGED batch
  PROVE  /\ UNCHANGED ready => Queues' /\ UNCHANGED <<stepping, resolving, creating>>
         /\ \A W \in SUBSET Task : W \cap stepping = {} /\ Adds(callbacks(W, {}, {})) =>
              Queues' /\ stepping' = stepping \cup W /\ UNCHANGED <<resolving, creating>>
         /\ \A o \in Op : o \notin resolving /\ ready' = Append(ready, resolutionOf(o)) =>
              Queues' /\ resolving' = resolving \cup {o} /\ UNCHANGED <<stepping, creating>>
         /\ \A t \in Task : t \notin creating /\ ready' = Append(ready, creationOf(t)) =>
              Queues' /\ creating' = creating \cup {t} /\ UNCHANGED <<stepping, resolving>>
<1>1. PICK none : none = {}
  OBVIOUS
<1>2. none \in SUBSET Task /\ none \in SUBSET Op
  BY <1>1
<1>3. ASSUME NEW W \in SUBSET Task, W \cap stepping = {}, Adds(callbacks(W, {}, {}))
      PROVE  Queues' /\ stepping' = stepping \cup W /\ UNCHANGED <<resolving, creating>>
  <2>1. Adds(callbacks(W, none, none)) /\ fresh(W, none, none)
    BY <1>1, <1>3 DEF fresh
  <2>2. Queues' /\ moved({}, {}, {}, W, none, none)
    BY <1>2, <2>1, JoinLine
  <2> QED BY <1>1, <2>2 DEF moved
<1>4. ASSUME NEW o \in Op, o \notin resolving, ready' = Append(ready, resolutionOf(o))
      PROVE  Queues' /\ resolving' = resolving \cup {o} /\ UNCHANGED <<stepping, creating>>
  <2>1. PICK R : R = {o}
    OBVIOUS
  <2>2. Adds(callbacks(none, R, none)) /\ fresh(none, R, none) /\ R \in SUBSET Op
    BY <1>1, <1>4, <2>1, AddsFacts DEF fresh
  <2>3. Queues' /\ moved({}, {}, {}, none, R, none)
    BY <1>2, <2>2, JoinLine
  <2> QED BY <1>1, <2>1, <2>3 DEF moved
<1>5. ASSUME NEW t \in Task, t \notin creating, ready' = Append(ready, creationOf(t))
      PROVE  Queues' /\ creating' = creating \cup {t} /\ UNCHANGED <<stepping, resolving>>
  <2>1. PICK C : C = {t}
    BY Zenon
  <2>2. Adds(callbacks(none, none, C)) /\ fresh(none, none, C) /\ C \in SUBSET Task
    BY <1>1, <1>5, <2>1, AddsFacts DEF fresh
  <2>3. Queues' /\ moved({}, {}, {}, none, none, C)
    BY <1>2, <2>2, JoinLine
  <2> QED BY <1>1, <2>1, <2>3 DEF moved
<1>6. ASSUME UNCHANGED ready PROVE Queues' /\ UNCHANGED <<stepping, resolving, creating>>
  BY <1>6 DEF Queues, stepping, resolving, creating, line, stepOf, resolutionOf, creationOf
<1> QED BY <1>3, <1>4, <1>5, <1>6

\* The three kinds that run; the steps of W join the line.
LEMMA Runs ==
  ASSUME Queues, NEW W \in SUBSET Task, W \cap stepping = {}, Adds(callbacks(W, {}, {}))
  PROVE  /\ \A t \in Task : runs(stepOf(t)) =>
              /\ Queues' /\ t \in stepping /\ stepping' = (stepping \ {t}) \cup W
              /\ UNCHANGED <<resolving, creating>>
         /\ \A o \in Op : runs(resolutionOf(o)) =>
              /\ Queues' /\ o \in resolving /\ resolving' = resolving \ {o}
              /\ stepping' = stepping \cup W /\ UNCHANGED creating
         /\ \A t \in Task : runs(creationOf(t)) =>
              /\ Queues' /\ t \in creating /\ creating' = creating \ {t}
              /\ stepping' = stepping \cup W /\ UNCHANGED resolving
<1>1. PICK none : none = {}
  OBVIOUS
<1>2. none \in SUBSET Task /\ none \in SUBSET Op /\ Adds(callbacks(W, none, none)) /\ fresh(W, none, none)
  BY <1>1 DEF fresh
<1>3. ASSUME NEW t \in Task, runs(stepOf(t))
      PROVE  /\ Queues' /\ t \in stepping /\ stepping' = (stepping \ {t}) \cup W
             /\ UNCHANGED <<resolving, creating>>
  <2>1. PICK W0 : W0 = {t}
    OBVIOUS
  <2>2. W0 \in SUBSET Task /\ runsOff(W0, none, none, W, none, none)
    BY <1>1, <1>2, <1>3, <2>1 DEF callbacks, runsOff, runs
  <2>3. Queues' /\ W0 \subseteq stepping /\ moved(W0, none, none, W, none, none)
    BY <1>2, <2>2, RunLine
  <2> QED BY <1>1, <2>1, <2>3 DEF moved
<1>4. ASSUME NEW o \in Op, runs(resolutionOf(o))
      PROVE  /\ Queues' /\ o \in resolving /\ resolving' = resolving \ {o}
             /\ stepping' = stepping \cup W /\ UNCHANGED creating
  <2>1. PICK R0 : R0 = {o}
    OBVIOUS
  <2>2. R0 \in SUBSET Op /\ runsOff(none, R0, none, W, none, none)
    BY <1>1, <1>2, <1>4, <2>1 DEF callbacks, runsOff, runs
  <2>3. Queues' /\ R0 \subseteq resolving /\ moved(none, R0, none, W, none, none)
    BY <1>2, <2>2, RunLine
  <2> QED BY <1>1, <2>1, <2>3 DEF moved
<1>5. ASSUME NEW t \in Task, runs(creationOf(t))
      PROVE  /\ Queues' /\ t \in creating /\ creating' = creating \ {t}
             /\ stepping' = stepping \cup W /\ UNCHANGED resolving
  <2>1. PICK C0 : C0 = {t}
    OBVIOUS
  <2>2. C0 \in SUBSET Task /\ runsOff(none, none, C0, W, none, none)
    BY <1>1, <1>2, <1>5, <2>1 DEF callbacks, runsOff, runs
  <2>3. Queues' /\ C0 \subseteq creating /\ moved(none, none, C0, W, none, none)
    BY <1>2, <2>2, RunLine
  <2> QED BY <1>1, <2>1, <2>3 DEF moved
<1> QED BY <1>3, <1>4, <1>5

-----------------------------------------------------------------------------
\* The types of the loop's, the helpers' and the tasks' fields.
Types ==
  /\ inBatch \in BOOLEAN /\ wakeup \in BOOLEAN /\ idleBlocks \in BOOLEAN
  /\ timers \in SUBSET Op /\ IsFiniteSet(timers)
  /\ lpc \in {"running", "blocked", "sleeping", "returned", "stopped"}
  /\ helper \in [Op -> {"none", "working", "queued"}]
  /\ current \in Task \cup {nil}
  /\ live \in SUBSET Task /\ IsFiniteSet(live) /\ done \subseteq live
  /\ awaits \in [Task -> Calls \cup Op \cup {"start", "none"}]
  /\ fut \in [Task -> {"none", "pending", "result", "cancelled"}]
  /\ mustCancel \in [Task -> BOOLEAN]
  /\ asked \subseteq live \ done

\* l.pending counts the helpers at work.
helping == {o \in Op : helper[o] # "none"}
Marks == IsFiniteSet(helping) /\ pending = Cardinality(helping)

\* What the loop is at bears on what it has left.
Modes ==
  /\ lpc # "running" => current = nil /\ batch = <<>>
  /\ lpc \in {"blocked", "sleeping"} => ~inBatch
  /\ lpc = "stopped" => helping = {} /\ timers = {} /\ stepping = {} /\ resolving = {}

\* An outside completion has one thing under way, and a task that waits for it
\* is alone and not forgotten.
waitsFor(t, o) == awaits[t] = o /\ fut[t] = "pending"
OpInv(o) ==
  /\ helper[o] = "working" => o \notin resolving
  /\ o \in timers => helper[o] = "none" /\ o \notin resolving
  /\ \A t, u \in Task : waitsFor(t, o) /\ waitsFor(u, o) => t = u
  /\ \A t \in Task : waitsFor(t, o) =>
       helper[o] = "working" \/ o \in timers \/ o \in resolving

\* A live task runs, has its step queued, or awaits a pending future.
TaskInv(t) ==
  /\ t \notin live => awaits[t] = "start" /\ ~mustCancel[t]
  /\ t \in creating => t \notin live
  /\ t \in stepping => t \in live \ done /\ t # current /\ fut[t] # "pending"
  /\ fut[t] = "pending" => t \in live \ done /\ t # current
  /\ t = current => t \in live \ done /\ awaits[t] = "none"
  /\ t \in live \ done => t = current \/ t \in stepping \/ fut[t] = "pending"
  /\ fut[t] = "none" <=> awaits[t] \in {"start", "none"}

OpsInv == \A o \in Op : OpInv(o)
TasksInv == \A t \in Task : TaskInv(t)

\* The inductive invariant of the event loop.
LoopInv ==
  /\ Types /\ Queues /\ Marks /\ Modes /\ OpsInv /\ TasksInv
  /\ CancelReachesTask /\ NoLostCallback

\* The futures of W, pending in F, get their results.
wakes(F, W) ==
  /\ W \in SUBSET Task /\ \A w \in W : F[w] = "pending"
  /\ fut' = [t \in Task |-> IF t \in W THEN "result" ELSE F[t]]
  /\ Adds(callbacks(W, {}, {}))

\* What the primitives ask of the loop: a task's call resumes and returns, or
\* resumes and parks again; the running task's call wakes others, or parks it.
resumes(t, W) == step(t) /\ wakes([fut EXCEPT ![t] = "none"], W)
reparks(t) ==
  /\ runs(stepOf(t))
  /\ ~raised(t)
  /\ fut' = [fut EXCEPT ![t] = "pending"]
  /\ UNCHANGED <<ready, task>>
acts(t, W) == current = t /\ wakes(fut, W) /\ UNCHANGED <<loop, offLoop, task>>
parks(t, c) == current = t /\ suspend(t, c) /\ UNCHANGED <<loop, offLoop>>

\* A step of a task that is resumed.
LEMMA ResumesLoop ==
  ASSUME LoopInv, NEW t \in Task, NEW W, resumes(t, W)
  PROVE  LoopInv'
<1> USE DEF LoopInv, resumes
<1>1. /\ t \in stepping /\ t \in live \ done /\ t # current /\ fut[t] # "pending"
      /\ Queues' /\ stepping' = (stepping \ {t}) \cup W /\ UNCHANGED <<resolving, creating>>
  <2>1. W \in SUBSET Task /\ Adds(callbacks(W, {}, {})) /\ runs(stepOf(t))
    BY DEF wakes, step
  <2>2. W \cap stepping = {}
    BY DEF wakes, TasksInv, TaskInv, Types
  <2>3. Queues' /\ t \in stepping /\ stepping' = (stepping \ {t}) \cup W /\ UNCHANGED <<resolving, creating>>
    BY <2>1, <2>2, Runs
  <2> QED BY <2>3 DEF TasksInv, TaskInv
<1>2. /\ lpc = "running" /\ current = nil
      /\ UNCHANGED <<inBatch, wakeup, pending, timers, idleBlocks, stopping, lpc, helper, wakers, live>>
  BY DEF step, runs, offLoop
<1>3. /\ awaits' = [awaits EXCEPT ![t] = "none"]
      /\ mustCancel' = [mustCancel EXCEPT ![t] = FALSE]
      /\ asked' = (IF raised(t) THEN asked \ {t} ELSE asked)
      /\ \/ awaits[t] = "start" /\ raised(t) /\ done' = done \cup {t} /\ current' = nil
         \/ current' = t /\ done' = done
  BY <1>2 DEF step
<1>4. /\ W \subseteq Task \ {t} /\ \A w \in W : fut[w] = "pending"
      /\ fut' = [u \in Task |-> IF u \in W THEN "result" ELSE IF u = t THEN "none" ELSE fut[u]]
  BY DEF wakes, Types
<1>5. \A w \in W : w \in live \ done
  BY <1>4 DEF TasksInv, TaskInv
<1>6. Types'
  BY <1>1, <1>2, <1>3, <1>4 DEF Types
<1>7. Marks'
  BY <1>2 DEF Marks, helping
<1>8. Modes'
  BY <1>2 DEF Modes
<1>9. OpsInv'
  <2>1. ASSUME NEW u \in Task, NEW o \in Op, waitsFor(u, o)' PROVE waitsFor(u, o)
    BY <2>1, <1>3, <1>4, OpAssumption DEF waitsFor, Types
  <2> QED BY <1>1, <1>2, <2>1 DEF OpsInv, OpInv
<1>10. TasksInv'
  <2>1. ASSUME NEW u \in Task PROVE TaskInv(u)'
    <3>1. TaskInv(u) /\ TaskInv(t)
      BY DEF TasksInv
    <3>2. CASE u = t
      BY <1>1, <1>2, <1>3, <1>4, <3>1, <3>2, MainAssumption DEF TaskInv, Types
    <3>3. CASE u # t
      BY <1>1, <1>2, <1>3, <1>4, <1>5, <3>1, <3>3, MainAssumption DEF TaskInv, Types
    <3> QED BY <3>2, <3>3
  <2> QED BY <2>1 DEF TasksInv
<1>11. CancelReachesTask'
  BY <1>1, <1>2, <1>3, <1>4 DEF CancelReachesTask, raised, Types
<1>12. NoLostCallback'
  BY <1>2 DEF NoLostCallback
<1> QED BY <1>1, <1>6, <1>7, <1>8, <1>9, <1>10, <1>11, <1>12

\* A resumed call finds its condition still unmet.
LEMMA ReparksLoop ==
  ASSUME LoopInv, NEW t \in Task, awaits[t] \in Calls, reparks(t)
  PROVE  LoopInv'
<1> USE DEF LoopInv, reparks
<1>1. /\ t \in stepping /\ t \in live \ done /\ t # current /\ fut[t] # "pending"
      /\ Queues' /\ stepping' = stepping \ {t} /\ UNCHANGED <<resolving, creating>>
  <2>1. PICK none : none = {}
    OBVIOUS
  <2>2. none \in SUBSET Task /\ none \cap stepping = {} /\ Adds(callbacks(none, {}, {}))
    BY <2>1, AddsFacts
  <2>3. /\ Queues' /\ t \in stepping /\ stepping' = (stepping \ {t}) \cup none
        /\ UNCHANGED <<resolving, creating>>
    BY <2>2, Runs
  <2> QED BY <2>1, <2>3 DEF TasksInv, TaskInv
<1>2. /\ lpc = "running" /\ current = nil
      /\ UNCHANGED <<inBatch, wakeup, pending, timers, idleBlocks, stopping, lpc, helper, wakers>>
      /\ UNCHANGED <<current, live, done, awaits, mustCancel, asked>>
  BY DEF runs, offLoop, task
<1>3. Types'
  BY <1>2 DEF Types
<1>4. Marks'
  BY <1>2 DEF Marks, helping
<1>5. Modes'
  BY <1>2 DEF Modes
<1>6. OpsInv'
  <2>1. ASSUME NEW u \in Task, NEW o \in Op, waitsFor(u, o)' PROVE waitsFor(u, o)
    BY <2>1, <1>2, OpAssumption DEF waitsFor, Types
  <2> QED BY <1>1, <1>2, <2>1 DEF OpsInv, OpInv
<1>7. TasksInv'
  <2>1. ASSUME NEW u \in Task PROVE TaskInv(u)'
    <3>1. TaskInv(u) /\ TaskInv(t)
      BY DEF TasksInv
    <3>2. awaits[t] \notin {"start", "none"}
      BY DEF Calls
    <3> QED BY <1>1, <1>2, <3>1, <3>2, MainAssumption DEF TaskInv, Types
  <2> QED BY <2>1 DEF TasksInv
<1>8. CancelReachesTask'
  BY <1>1, <1>2 DEF CancelReachesTask, raised, Types
<1>9. NoLostCallback'
  BY <1>2 DEF NoLostCallback
<1> QED BY <1>1, <1>3, <1>4, <1>5, <1>6, <1>7, <1>8, <1>9

\* A coroutine runs only on a running loop.
LEMMA Busy ==
  ASSUME LoopInv, current \in Task
  PROVE  lpc = "running" /\ current \in live \ done /\ current \notin stepping
         /\ fut[current] = "none" /\ awaits[current] = "none"
BY MainAssumption DEF LoopInv, Modes, TasksInv, TaskInv

\* The running task's call wakes others.
LEMMA ActsLoop ==
  ASSUME LoopInv, NEW t \in Task, NEW W, acts(t, W)
  PROVE  LoopInv'
<1> USE DEF LoopInv, acts
<1>0. lpc = "running"
  BY Busy
<1>1. /\ UNCHANGED <<batch, inBatch, wakeup, pending, timers, idleBlocks, stopping, lpc, helper, wakers>>
      /\ UNCHANGED <<current, live, done, awaits, mustCancel, asked>>
  BY DEF loop, offLoop, task
<1>2. Queues' /\ stepping' = stepping \cup W /\ UNCHANGED <<resolving, creating>>
  <2>1. W \in SUBSET Task /\ Adds(callbacks(W, {}, {})) /\ W \cap stepping = {}
    BY DEF wakes, TasksInv, TaskInv
  <2> QED BY <1>1, <2>1, Joins
<1>3. /\ W \subseteq Task /\ \A w \in W : fut[w] = "pending" /\ w \in live \ done
      /\ fut' = [u \in Task |-> IF u \in W THEN "result" ELSE fut[u]]
  BY DEF wakes, TasksInv, TaskInv
<1>4. Types'
  BY <1>1, <1>3 DEF Types
<1>5. Marks' /\ Modes'
  BY <1>0, <1>1 DEF Marks, Modes, helping
<1>6. OpsInv'
  <2>1. ASSUME NEW u \in Task, NEW o \in Op, waitsFor(u, o)' PROVE waitsFor(u, o)
    BY <2>1, <1>1, <1>3 DEF waitsFor, Types
  <2> QED BY <1>1, <1>2, <2>1 DEF OpsInv, OpInv
<1>7. TasksInv'
  <2>1. ASSUME NEW u \in Task PROVE TaskInv(u)'
    <3>1. TaskInv(u) /\ TaskInv(t)
      BY DEF TasksInv
    <3> QED BY <1>1, <1>2, <1>3, <3>1 DEF TaskInv, Types
  <2> QED BY <2>1 DEF TasksInv
<1>8. CancelReachesTask'
  BY <1>1, <1>3 DEF CancelReachesTask, raised, Types
<1>9. NoLostCallback'
  BY <1>0, <1>1 DEF NoLostCallback
<1> QED BY <1>2, <1>4, <1>5, <1>6, <1>7, <1>8, <1>9

\* The running task parks in a call.
LEMMA ParksLoop ==
  ASSUME LoopInv, NEW t \in Task, NEW c \in Calls, parks(t, c)
  PROVE  LoopInv'
<1> USE DEF LoopInv, parks
<1>0. lpc = "running" /\ t \in live \ done /\ t \notin stepping
  BY Busy
<1>1. /\ UNCHANGED <<ready, batch, inBatch, wakeup, pending, timers, idleBlocks, stopping, lpc, helper, wakers>>
      /\ UNCHANGED <<live, done, mustCancel, asked>>
      /\ current' = nil /\ awaits' = [awaits EXCEPT ![t] = c] /\ fut' = [fut EXCEPT ![t] = "pending"]
  BY DEF loop, offLoop, suspend
<1>2. Queues' /\ UNCHANGED <<stepping, resolving, creating>>
  BY <1>1, Joins
<1>3. c \notin Op \cup {"start", "none"}
  BY OpAssumption DEF Calls
<1>4. Types'
  BY <1>1 DEF Types
<1>5. Marks' /\ Modes'
  BY <1>0, <1>1 DEF Marks, Modes, helping
<1>6. OpsInv'
  <2>1. ASSUME NEW u \in Task, NEW o \in Op, waitsFor(u, o)' PROVE waitsFor(u, o)
    BY <2>1, <1>1, <1>3 DEF waitsFor, Types
  <2> QED BY <1>1, <1>2, <2>1 DEF OpsInv, OpInv
<1>7. TasksInv'
  <2>1. ASSUME NEW u \in Task PROVE TaskInv(u)'
    <3>1. TaskInv(u) /\ TaskInv(t)
      BY DEF TasksInv
    <3> QED BY <1>0, <1>1, <1>2, <1>3, <3>1, MainAssumption DEF TaskInv, Types
  <2> QED BY <2>1 DEF TasksInv
<1>8. CancelReachesTask'
  <2>1. fut[t] = "none"
    BY Busy
  <2> QED BY Zenon, <2>1, <1>1 DEF CancelReachesTask, raised, Types
<1>9. NoLostCallback'
  BY <1>0, <1>1 DEF NoLostCallback
<1> QED BY <1>2, <1>4, <1>5, <1>6, <1>7, <1>8, <1>9

\* The loop takes a batch.
LEMMA GrabLoop ==
  ASSUME LoopInv, batch = <<>>, current = nil, wakeup' \in BOOLEAN,
         NEW due \in SUBSET timers, grab(due),
         UNCHANGED <<pending, idleBlocks, stopping, fut, offLoop, task>>
  PROVE  LoopInv'
<1> USE DEF LoopInv
<1>1. /\ UNCHANGED <<pending, idleBlocks, fut, helper, wakers, current, live, done, awaits, mustCancel, asked>>
      /\ timers' = timers \ due /\ inBatch' = TRUE /\ lpc' = "running"
  BY DEF grab, offLoop, task
<1>2. due \in SUBSET Op /\ IsFiniteSet(due) /\ IsFiniteSet(timers')
  BY <1>1, FS_Subset DEF Types
<1>3. due \cap resolving = {} /\ \A o \in due : helper[o] = "none"
  BY <1>2 DEF OpsInv, OpInv
<1>4. /\ Queues' /\ ready' = <<>>
      /\ stepping' = stepping /\ resolving' = resolving \cup due /\ creating' = creating
  BY <1>2, <1>3, GrabLine
<1>5. Types'
  BY <1>1, <1>2 DEF Types
<1>6. Marks' /\ Modes'
  BY <1>1 DEF Marks, Modes, helping
<1>7. OpsInv'
  <2>1. ASSUME NEW u \in Task, NEW o \in Op PROVE waitsFor(u, o)' <=> waitsFor(u, o)
    BY <1>1 DEF waitsFor
  <2> QED BY <1>1, <1>2, <1>3, <1>4, <2>1 DEF OpsInv, OpInv
<1>8. TasksInv'
  BY Zenon, <1>1, <1>4 DEF TasksInv, TaskInv
<1>9. CancelReachesTask'
  BY <1>1 DEF CancelReachesTask, raised
<1>10. NoLostCallback'
  BY <1>1 DEF NoLostCallback
<1> QED BY <1>4, <1>5, <1>6, <1>7, <1>8, <1>9, <1>10

\* The loop ends a batch without another: it sleeps, blocks, stops or returns.
LEMMA RestLoop ==
  ASSUME LoopInv, atTop, inBatch' \in BOOLEAN,
         UNCHANGED <<ready, batch, timers, wakeup, pending, idleBlocks, stopping, fut, offLoop, task>>,
         \/ lpc' = "returned"
         \/ /\ ready = <<>> /\ inBatch' = FALSE
            /\ lpc' = (IF timers # {} THEN "sleeping"
                       ELSE IF pending = 0 /\ ~idleBlocks THEN "stopped" ELSE "blocked")
  PROVE  LoopInv'
<1> USE DEF LoopInv
<1>1. UNCHANGED <<pending, timers, idleBlocks, fut, helper, wakers, current, live, done, awaits, mustCancel, asked>>
  BY DEF offLoop, task
<1>2. Queues' /\ UNCHANGED <<stepping, resolving, creating>>
  BY Joins
<1>3. current = nil /\ batch = <<>> /\ batch' = <<>>
  BY DEF atTop
<1>4. ASSUME lpc' = "stopped"
      PROVE  helping = {} /\ timers = {} /\ stepping = {} /\ resolving = {}
  <2>1. timers = {} /\ pending = 0 /\ ready = <<>>
    BY <1>4
  <2>2. helping = {}
    BY <2>1, FS_EmptySet DEF Marks
  <2>3. line = {}
    BY <1>3, <2>1 DEF line, Range
  <2> QED BY <2>1, <2>2, <2>3 DEF stepping, resolving
<1>5. Types'
  BY <1>1 DEF Types
<1>6. Marks'
  BY <1>1 DEF Marks, helping
<1>7. Modes'
  BY <1>1, <1>2, <1>3, <1>4 DEF Modes, helping
<1>8. OpsInv' /\ TasksInv'
  BY <1>1, <1>2 DEF OpsInv, OpInv, waitsFor, TasksInv, TaskInv
<1>9. CancelReachesTask'
  BY <1>1 DEF CancelReachesTask, raised
<1>10. NoLostCallback'
  BY <1>1 DEF NoLostCallback
<1> QED BY <1>2, <1>5, <1>6, <1>7, <1>8, <1>9, <1>10

\* The loop goes through its top.
LEMMA TopLoop ==
  ASSUME LoopInv, iterate \/ runReturns \/ wakesUp \/ timerFires
  PROVE  LoopInv' /\ UNCHANGED <<fut, awaits, live>>
<1>1. UNCHANGED <<fut, awaits, live>>
  BY DEF iterate, runReturns, wakesUp, timerFires, task
<1>2. CASE iterate
  <2>1. atTop /\ UNCHANGED <<wakeup, pending, idleBlocks, stopping, fut, offLoop, task>>
    BY <1>2 DEF iterate
  <2>2. batch = <<>> /\ current = nil /\ wakeup' \in BOOLEAN
    BY <2>1 DEF atTop, LoopInv, Types
  <2>3. CASE \E due \in SUBSET timers : grab(due)
    BY <1>1, <2>1, <2>2, <2>3, GrabLoop
  <2>4. CASE ~\E due \in SUBSET timers : grab(due)
    <3>1. /\ ready = <<>> /\ inBatch' = FALSE /\ UNCHANGED <<ready, batch, timers>>
          /\ lpc' = (IF timers # {} THEN "sleeping"
                     ELSE IF pending = 0 /\ ~idleBlocks THEN "stopped" ELSE "blocked")
      BY <1>2, <2>4 DEF iterate
    <3> QED BY <1>1, <2>1, <3>1, RestLoop
  <2> QED BY <2>3, <2>4
<1>3. CASE runReturns
  <2>1. inBatch' \in BOOLEAN
    BY <1>3 DEF runReturns, LoopInv, Types
  <2> QED BY <1>1, <1>3, <2>1, RestLoop DEF runReturns
<1>4. CASE wakesUp \/ timerFires
  <2>1. /\ batch = <<>> /\ current = nil /\ wakeup' \in BOOLEAN
        /\ UNCHANGED <<pending, idleBlocks, stopping, fut, offLoop, task>>
    BY <1>4 DEF wakesUp, timerFires, LoopInv, Modes, Types
  <2>2. PICK due \in SUBSET timers : grab(due)
    BY <1>4 DEF wakesUp, timerFires
  <2> QED BY <1>1, <2>1, <2>2, GrabLoop
<1> QED BY <1>2, <1>3, <1>4

\* Who awaits c goes on awaiting it, and at most is cancelled.
frame(c) ==
  \A t \in Task :
    /\ awaits'[t] = c <=> awaits[t] = c
    /\ awaits[t] = c => fut'[t] = fut[t] \/ (fut[t] = "pending" /\ fut'[t] = "cancelled")
quiet == \A c \in Calls : frame(c)

\* An outside completion reaches its future.
LEMMA ResolveLoop ==
  ASSUME LoopInv, NEW o \in Op, resolve(o)
  PROVE  LoopInv' /\ quiet
<1> USE DEF LoopInv
<1>1. /\ runs(resolutionOf(o)) /\ lpc = "running"
      /\ UNCHANGED <<inBatch, wakeup, pending, timers, idleBlocks, stopping, lpc, helper, wakers>>
      /\ UNCHANGED <<current, live, done, awaits, mustCancel, asked>>
  BY DEF resolve, runs, offLoop, task
<1>2. \E W \in SUBSET Task :
        /\ Adds(callbacks(W, {}, {})) /\ \A w \in W : waitsFor(w, o)
        /\ \A u \in Task : waitsFor(u, o) => u \in W
        /\ fut' = [u \in Task |-> IF u \in W THEN "result" ELSE fut[u]]
  <2>1. ASSUME NEW t \in Task, waitsFor(t, o), settle(fut, t, "result")
        PROVE  /\ Adds(callbacks({t}, {}, {})) /\ \A u \in Task : waitsFor(u, o) => u \in {t}
               /\ fut' = [u \in Task |-> IF u \in {t} THEN "result" ELSE fut[u]]
    BY <2>1, AddsFacts DEF settle, OpsInv, OpInv, Types
  <2>2. ASSUME \A t \in Task : ~waitsFor(t, o), UNCHANGED <<ready, fut>>
        PROVE  /\ Adds(callbacks({}, {}, {})) /\ \A u \in Task : waitsFor(u, o) => u \in {}
               /\ fut' = [u \in Task |-> IF u \in {} THEN "result" ELSE fut[u]]
    BY <2>2, AddsFacts DEF Types
  <2>3. CASE \E t \in Task : waitsFor(t, o) /\ settle(fut, t, "result")
    <3>1. PICK t \in Task : waitsFor(t, o) /\ settle(fut, t, "result")
      BY <2>3
    <3> WITNESS {t} \in SUBSET Task
    <3> QED BY <2>1, <3>1
  <2>4. CASE (\A t \in Task : ~waitsFor(t, o)) /\ UNCHANGED <<ready, fut>>
    <3> WITNESS {} \in SUBSET Task
    <3> QED BY <2>2, <2>4
  <2> QED BY <2>3, <2>4 DEF resolve, waitsFor
<1>3. PICK W \in SUBSET Task :
        /\ Adds(callbacks(W, {}, {})) /\ \A w \in W : waitsFor(w, o)
        /\ \A u \in Task : waitsFor(u, o) => u \in W
        /\ fut' = [u \in Task |-> IF u \in W THEN "result" ELSE fut[u]]
  BY Zenon, <1>2
<1>4. \A w \in W : fut[w] = "pending" /\ awaits[w] = o /\ w \in live \ done /\ w \notin stepping
  BY <1>3 DEF waitsFor, TasksInv, TaskInv
<1>5. /\ Queues' /\ o \in resolving /\ resolving' = resolving \ {o}
      /\ stepping' = stepping \cup W /\ UNCHANGED creating
  <2>1. W \cap stepping = {}
    BY <1>4
  <2> QED BY <1>1, <1>3, <2>1, Runs
<1>6. Types'
  BY <1>1, <1>3 DEF Types
<1>7. Marks' /\ Modes'
  BY <1>1 DEF Marks, Modes, helping, runs
<1>8. OpsInv'
  <2>1. ASSUME NEW u \in Task, NEW p \in Op, waitsFor(u, p)' PROVE waitsFor(u, p) /\ p # o
    BY <2>1, <1>1, <1>3 DEF waitsFor, Types
  <2> QED BY <1>1, <1>5, <2>1 DEF OpsInv, OpInv
<1>9. TasksInv'
  <2>1. ASSUME NEW u \in Task PROVE TaskInv(u)'
    <3>1. TaskInv(u)
      BY DEF TasksInv
    <3> QED BY <1>1, <1>3, <1>4, <1>5, <3>1 DEF TaskInv, Types
  <2> QED BY <2>1 DEF TasksInv
<1>10. CancelReachesTask'
  BY <1>1, <1>3, <1>4 DEF CancelReachesTask, raised, Types
<1>11. NoLostCallback'
  BY <1>1 DEF NoLostCallback
<1>12. quiet
  BY <1>1, <1>3, <1>4, OpAssumption DEF quiet, frame, Types
<1> QED BY <1>5, <1>6, <1>7, <1>8, <1>9, <1>10, <1>11, <1>12

\* A task comes to life, its first step queued.
LEMMA BirthLoop ==
  ASSUME LoopInv, NEW t \in Task, t \notin live, lpc = "running", UNCHANGED lpc,
         live' = live \cup {t}, t \notin creating',
         Queues', stepping' = stepping \cup {t}, creating' \subseteq creating, UNCHANGED resolving,
         UNCHANGED <<inBatch, wakeup, pending, timers, idleBlocks, stopping, helper, wakers>>,
         UNCHANGED <<fut, current, done, awaits, mustCancel, asked>>
  PROVE  LoopInv' /\ quiet
<1> USE DEF LoopInv
<1>1. TaskInv(t)
  BY DEF TasksInv
<1>2. t # current /\ fut[t] = "none" /\ t \notin done
  BY <1>1 DEF TaskInv, Types
<1>3. Types'
  <2>1. IsFiniteSet(live')
    BY FS_AddElement DEF Types
  <2> QED BY <2>1 DEF Types
<1>4. Marks' /\ Modes'
  BY DEF Marks, Modes, helping
<1>5. OpsInv'
  BY DEF OpsInv, OpInv, waitsFor
<1>6. TasksInv'
  <2>1. ASSUME NEW u \in Task PROVE TaskInv(u)'
    <3>1. TaskInv(u)
      BY DEF TasksInv
    <3> QED BY <1>1, <1>2, <3>1 DEF TaskInv, Types
  <2> QED BY <2>1 DEF TasksInv
<1>7. CancelReachesTask'
  BY <1>1, <1>2 DEF TaskInv, CancelReachesTask, raised, Types
<1>8. NoLostCallback'
  BY DEF NoLostCallback
<1>9. quiet
  BY DEF quiet, frame
<1> QED BY <1>3, <1>4, <1>5, <1>6, <1>7, <1>8, <1>9

\* A submitted or a spawned task is created.
LEMMA CreateLoop ==
  ASSUME LoopInv, NEW t \in Task,
         createSubmitted(t) \/ \E u \in Task : createTask(u, t)
  PROVE  LoopInv' /\ quiet
<1> USE DEF LoopInv
<1>1. ready' = Append(ready, stepOf(t)) /\ live' = live \cup {t}
      /\ UNCHANGED <<fut, current, done, awaits, mustCancel, asked>>
      /\ UNCHANGED <<inBatch, wakeup, pending, timers, idleBlocks, stopping, lpc, helper, wakers>>
  BY DEF createSubmitted, createTask, runs, loop, offLoop
<1>2. PICK W : W = {t}
  OBVIOUS
<1>3. W \in SUBSET Task /\ Adds(callbacks(W, {}, {}))
  BY <1>1, <1>2, AddsFacts
<1>4. t \notin live => W \cap stepping = {}
  BY <1>2 DEF TasksInv, TaskInv
<1>5. CASE createSubmitted(t)
  <2>1. runs(creationOf(t)) /\ lpc = "running"
    BY <1>5 DEF createSubmitted, runs
  <2>2. t \in creating
    BY <2>1, TailFacts DEF runs, creating, line, Queues
  <2>3. t \notin live
    BY <2>2 DEF TasksInv, TaskInv
  <2>4. /\ Queues' /\ creating' = creating \ {t} /\ stepping' = stepping \cup W
        /\ UNCHANGED resolving
    BY <1>3, <1>4, <2>1, <2>3, Runs
  <2>5. stepping' = stepping \cup {t} /\ t \notin creating' /\ creating' \subseteq creating
    BY <1>2, <2>4
  <2> QED BY <1>1, <2>1, <2>3, <2>4, <2>5, BirthLoop
<1>6. CASE \E u \in Task : createTask(u, t)
  <2>1. t \notin live /\ t \notin creating /\ UNCHANGED batch /\ current \in Task
    BY Zenon, <1>6 DEF createTask, queued, creating, line, loop
  <2>2. lpc = "running"
    BY <2>1, Busy
  <2>3. Queues' /\ stepping' = stepping \cup W /\ UNCHANGED <<resolving, creating>>
    BY <1>3, <1>4, <2>1, Joins
  <2>4. stepping' = stepping \cup {t} /\ t \notin creating' /\ creating' \subseteq creating
    BY <1>2, <2>1, <2>3
  <2> QED BY <1>1, <2>1, <2>2, <2>3, <2>4, BirthLoop
<1> QED BY <1>5, <1>6

\* The coroutine yields, returns, stops the loop or fails to submit.
LEMMA PlainLoop ==
  ASSUME LoopInv, NEW t \in Task,
         finish(t) \/ yieldOnce(t) \/ submitFails(t) \/ stopLoop(t)
  PROVE  LoopInv' /\ quiet
<1> USE DEF LoopInv
<1>1. /\ current = t
      /\ UNCHANGED <<fut, batch, inBatch, pending, timers, idleBlocks, lpc, helper, wakers>>
      /\ UNCHANGED <<live, awaits, mustCancel>> /\ wakeup' \in {wakeup, TRUE}
  BY Zenon DEF finish, yieldOnce, submitFails, stopLoop, loop, offLoop, task
<1>2. /\ lpc = "running" /\ t \in live \ done /\ t \notin stepping
      /\ fut[t] = "none" /\ awaits[t] = "none"
  BY <1>1, Busy
<1>3. \/ /\ UNCHANGED ready /\ current' = nil /\ done' = done \cup {t} /\ asked' = asked \ {t}
      \/ /\ ready' = Append(ready, stepOf(t)) /\ current' = nil /\ UNCHANGED <<done, asked>>
      \/ UNCHANGED <<ready, current, done, asked>>
  BY DEF finish, yieldOnce, submitFails, stopLoop, task
<1>4. /\ Queues' /\ UNCHANGED <<resolving, creating>>
      /\ stepping' = IF UNCHANGED ready THEN stepping ELSE stepping \cup {t}
  <2>1. CASE UNCHANGED ready
    BY <1>1, <2>1, Joins
  <2>2. CASE ~UNCHANGED ready
    <3>1. PICK W : W = {t}
      BY Zenon
    <3>2. W \in SUBSET Task /\ W \cap stepping = {} /\ Adds(callbacks(W, {}, {}))
      BY <1>2, <1>3, <2>2, <3>1, AddsFacts
    <3>3. Queues' /\ stepping' = stepping \cup W /\ UNCHANGED <<resolving, creating>>
      BY <1>1, <3>2, Joins
    <3> QED BY <2>2, <3>1, <3>3
  <2> QED BY <2>1, <2>2
<1>5. Types'
  BY Zenon, <1>1, <1>2, <1>3 DEF Types
<1>6. Marks' /\ Modes'
  BY Zenon, <1>1, <1>2 DEF Marks, Modes, helping
<1>7. OpsInv'
  BY <1>1, <1>4 DEF OpsInv, OpInv, waitsFor
<1>8. TasksInv'
  <2>1. ASSUME NEW u \in Task PROVE TaskInv(u)'
    <3>1. TaskInv(u) /\ TaskInv(t)
      BY DEF TasksInv
    <3>2. stepping' = stepping \/ (stepping' = stepping \cup {t} /\ current' = nil /\ done' = done)
      BY Zenon, <1>3, <1>4
    <3>3. \/ stepping' = stepping /\ current' = nil /\ done' = done \cup {t}
          \/ stepping' = stepping \cup {t} /\ current' = nil /\ done' = done
          \/ stepping' = stepping /\ current' = current /\ done' = done
      BY <1>2, <1>3, <1>4, <3>2
    <3> QED BY Zenon, <1>1, <1>2, <1>4, <3>1, <3>3, MainAssumption DEF TaskInv, Types
  <2> QED BY <2>1 DEF TasksInv
<1>9. CancelReachesTask'
  BY <1>1, <1>3 DEF CancelReachesTask, raised, Types
<1>10. NoLostCallback'
  BY <1>1, <1>2 DEF NoLostCallback
<1>11. quiet
  BY <1>1 DEF quiet, frame
<1> QED BY <1>4, <1>5, <1>6, <1>7, <1>8, <1>9, <1>10, <1>11

\* The coroutine awaits an outside completion.
LEMMA AwaitLoop ==
  ASSUME LoopInv, NEW t \in Task, NEW o \in Op, runInExecutor(t, o) \/ sleep(t, o)
  PROVE  LoopInv' /\ quiet
<1> USE DEF LoopInv
<1>1. /\ current = t /\ current' = nil
      /\ awaits' = [awaits EXCEPT ![t] = o] /\ fut' = [fut EXCEPT ![t] = "pending"]
      /\ UNCHANGED <<ready, batch, inBatch, wakeup, idleBlocks, stopping, lpc, wakers>>
      /\ UNCHANGED <<live, done, mustCancel, asked>>
  BY DEF runInExecutor, sleep, suspend, offLoop
<1>2. /\ lpc = "running" /\ t \in live \ done /\ t \notin stepping
      /\ fut[t] = "none" /\ awaits[t] = "none"
  BY <1>1, Busy
<1>3. helper[o] = "none" /\ o \notin timers /\ o \notin resolving
  BY DEF runInExecutor, sleep, opFree, queued, resolving, line
<1>4. \A u \in Task : ~waitsFor(u, o)
  BY <1>3 DEF OpsInv, OpInv
<1>5. \/ /\ helper' = [helper EXCEPT ![o] = "working"] /\ timers' = timers
         /\ pending' = pending + 1
      \/ helper' = helper /\ timers' = timers \cup {o} /\ pending' = pending
  BY DEF runInExecutor, sleep, offLoop
<1>6. Queues' /\ UNCHANGED <<stepping, resolving, creating>>
  BY <1>1, Joins
<1>7. o \notin Calls \cup {"start", "none"}
  BY Zenon, OpAssumption
<1>8. Types'
  <2>1. IsFiniteSet(timers')
    BY <1>5, FS_AddElement DEF Types
  <2>2. timers' \in SUBSET Op /\ helper' \in [Op -> {"none", "working", "queued"}]
    BY <1>5 DEF Types
  <2> QED BY Zenon, <1>1, <2>1, <2>2 DEF Types
<1>9. Marks'
  <2>1. CASE helper' = helper /\ pending' = pending
    BY <2>1 DEF Marks, helping
  <2>2. CASE helper' = [helper EXCEPT ![o] = "working"] /\ pending' = pending + 1
    <3>1. helping' = helping \cup {o} /\ o \notin helping
      BY <1>3, <2>2 DEF helping, Types
    <3> QED BY <2>2, <3>1, FS_AddElement DEF Marks
  <2> QED BY <1>5, <2>1, <2>2
<1>10. Modes'
  BY <1>1, <1>2 DEF Modes
<1>11. OpsInv'
  <2>1. ASSUME NEW p \in Op PROVE OpInv(p)'
    <3>1. OpInv(p)
      BY DEF OpsInv
    <3>2. CASE p = o
      <4>1. ASSUME NEW u \in Task, waitsFor(u, o)' PROVE u = t
        BY Zenon, <4>1, <1>1, <1>4 DEF waitsFor, Types
      <4> QED BY <1>3, <1>5, <1>6, <3>2, <4>1 DEF OpInv, Types
    <3>3. CASE p # o
      <4>1. ASSUME NEW u \in Task, waitsFor(u, p)' PROVE waitsFor(u, p)
        BY <4>1, <1>1, <3>3 DEF waitsFor, Types
      <4>2. helper'[p] = helper[p] /\ (p \in timers' <=> p \in timers)
        BY <1>5, <3>3 DEF Types
      <4> QED BY <3>1, <4>1, <4>2, <1>6 DEF OpInv
    <3> QED BY <3>2, <3>3
  <2> QED BY <2>1 DEF OpsInv
<1>12. TasksInv'
  <2>1. ASSUME NEW u \in Task PROVE TaskInv(u)'
    <3>1. TaskInv(u) /\ TaskInv(t)
      BY DEF TasksInv
    <3> QED BY Zenon, <1>1, <1>2, <1>6, <1>7, <3>1, MainAssumption DEF TaskInv, Types
  <2> QED BY <2>1 DEF TasksInv
<1>13. CancelReachesTask'
  BY <1>1, <1>2 DEF CancelReachesTask, raised, Types
<1>14. NoLostCallback'
  BY <1>1, <1>2 DEF NoLostCallback
<1>15. quiet
  BY <1>1, <1>2, <1>7 DEF quiet, frame, Types, Calls
<1> QED BY <1>6, <1>8, <1>9, <1>10, <1>11, <1>12, <1>13, <1>14, <1>15

\* The coroutine cancels a task.
LEMMA CancelLoop ==
  ASSUME LoopInv, NEW t \in Task, NEW u \in Task, cancel(t, u)
  PROVE  LoopInv' /\ quiet
<1> USE DEF LoopInv
<1>1. /\ current = t /\ u \in live \ done /\ asked' = asked \cup {u}
      /\ UNCHANGED <<batch, inBatch, wakeup, pending, timers, idleBlocks, stopping, lpc, helper, wakers>>
      /\ UNCHANGED <<current, live, done, awaits>>
  BY Zenon DEF cancel, loop, offLoop
<1>2. lpc = "running"
  BY <1>1, Busy
<1>3. /\ Queues' /\ UNCHANGED <<resolving, creating>>
      /\ \/ /\ fut[u] = "pending" /\ fut' = [fut EXCEPT ![u] = "cancelled"]
            /\ mustCancel' = mustCancel /\ stepping' = stepping \cup {u}
         \/ /\ fut[u] # "pending" /\ fut' = fut /\ stepping' = stepping
            /\ mustCancel' = [mustCancel EXCEPT ![u] = TRUE]
  <2>1. CASE fut[u] = "pending"
    <3>1. PICK W : W = {u}
      OBVIOUS
    <3>2. W \in SUBSET Task /\ W \cap stepping = {} /\ Adds(callbacks(W, {}, {}))
      BY <2>1, <3>1, AddsFacts DEF cancel, settle, TasksInv, TaskInv
    <3>3. Queues' /\ stepping' = stepping \cup W /\ UNCHANGED <<resolving, creating>>
      BY <1>1, <3>2, Joins
    <3> QED BY <2>1, <3>1, <3>3 DEF cancel, settle
  <2>2. CASE fut[u] # "pending"
    BY Zenon, <1>1, <2>2, Joins DEF cancel
  <2> QED BY <2>1, <2>2
<1>4. Types'
  BY <1>1, <1>3 DEF Types
<1>5. Marks' /\ Modes'
  BY <1>1, <1>2 DEF Marks, Modes, helping
<1>6. OpsInv'
  <2>1. ASSUME NEW w \in Task, NEW o \in Op, waitsFor(w, o)' PROVE waitsFor(w, o)
    BY <2>1, <1>1, <1>3 DEF waitsFor, Types
  <2> QED BY <1>1, <1>3, <2>1 DEF OpsInv, OpInv
<1>7. TasksInv'
  <2>1. ASSUME NEW w \in Task PROVE TaskInv(w)'
    <3>1. TaskInv(w) /\ TaskInv(u)
      BY DEF TasksInv
    <3> QED BY <1>1, <1>3, <3>1 DEF TaskInv, Types
  <2> QED BY Zenon, <2>1 DEF TasksInv
<1>8. CancelReachesTask'
  BY <1>1, <1>3 DEF CancelReachesTask, raised, Types
<1>9. NoLostCallback'
  BY <1>1, <1>2 DEF NoLostCallback
<1>10. quiet
  BY <1>1, <1>3 DEF quiet, frame, Types
<1> QED BY <1>3, <1>4, <1>5, <1>6, <1>7, <1>8, <1>9, <1>10

\* A helper goroutine or another thread takes a step.
aside ==
  \/ \E o \in Op : workerDone(o) \/ donePending(o)
  \/ \E t \in Task : runCoroutineThreadsafe(t)
  \/ \E w : wake(w)

\* It joins the line at most, and wakes the loop if that may sleep.
LEMMA ThreadLoop ==
  ASSUME LoopInv, aside
  PROVE  LoopInv' /\ quiet
<1> USE DEF LoopInv
<1>1. /\ UNCHANGED <<fut, batch, inBatch, timers, idleBlocks, stopping, lpc>>
      /\ UNCHANGED <<current, live, done, awaits, mustCancel, asked>>
  BY Zenon DEF aside, workerDone, donePending, wake, runCoroutineThreadsafe, callSoon, loop, task
<1>2. quiet /\ CancelReachesTask'
  BY <1>1 DEF quiet, frame, CancelReachesTask, raised
<1>3. \A t \in Task, o \in Op : waitsFor(t, o)' <=> waitsFor(t, o)
  BY <1>1 DEF waitsFor
<1>4. CASE \E o \in Op : workerDone(o)
  <2>1. PICK o \in Op : workerDone(o)
    BY <1>4
  <2>2. /\ helper[o] = "working" /\ helper' = [helper EXCEPT ![o] = "queued"]
        /\ ready' = Append(ready, resolutionOf(o)) /\ UNCHANGED <<wakeup, pending>>
        /\ wakers' = (IF inBatch THEN wakers ELSE wakers \cup {o})
    BY <2>1 DEF workerDone, callSoon, loop
  <2>3. o \notin resolving /\ o \notin timers
    BY <2>2 DEF OpsInv, OpInv
  <2>4. Queues' /\ resolving' = resolving \cup {o} /\ UNCHANGED <<stepping, creating>>
    BY <1>1, <2>2, <2>3, Joins
  <2>5. helping' = helping /\ helping # {}
    BY <2>2 DEF helping, Types
  <2>6. Types'
    BY <1>1, <2>2 DEF Types
  <2>7. Marks' /\ Modes'
    BY <1>1, <2>2, <2>5 DEF Marks, Modes
  <2>8. OpsInv'
    <3>1. ASSUME NEW p \in Op PROVE OpInv(p)'
      <4>1. OpInv(p)
        BY Zenon DEF OpsInv
      <4> QED BY <1>1, <1>3, <2>2, <2>3, <2>4, <4>1 DEF OpInv, Types
    <3> QED BY <3>1 DEF OpsInv
  <2>9. TasksInv'
    BY <1>1, <2>4 DEF TasksInv, TaskInv
  <2>10. NoLostCallback'
    BY <1>1, <2>2 DEF NoLostCallback, Modes
  <2> QED BY <1>2, <2>4, <2>6, <2>7, <2>8, <2>9, <2>10
<1>5. CASE \E o \in Op : donePending(o)
  <2>1. PICK o \in Op : donePending(o)
    BY <1>5
  <2>2. /\ helper[o] = "queued" /\ helper' = [helper EXCEPT ![o] = "none"]
        /\ pending' = pending - 1 /\ UNCHANGED <<ready, wakeup>>
        /\ wakers' = wakers \cup {o}
    BY <2>1 DEF donePending
  <2>3. Queues' /\ UNCHANGED <<stepping, resolving, creating>>
    BY <1>1, <2>2, Joins
  <2>4. helping' = helping \ {o} /\ o \in helping
    BY <2>2 DEF helping, Types
  <2>5. Types'
    BY <1>1, <2>2 DEF Types
  <2>6. Marks'
    BY <2>2, <2>4, FS_RemoveElement DEF Marks
  <2>7. Modes'
    BY <1>1, <2>4 DEF Modes
  <2>8. OpsInv'
    <3>1. ASSUME NEW p \in Op PROVE OpInv(p)'
      <4>1. OpInv(p)
        BY DEF OpsInv
      <4> QED BY Zenon, <1>1, <1>3, <2>2, <2>3, <4>1 DEF OpInv, Types
    <3> QED BY <3>1 DEF OpsInv
  <2>9. TasksInv'
    BY <1>1, <2>3 DEF TasksInv, TaskInv
  <2>10. NoLostCallback'
    BY <2>2 DEF NoLostCallback
  <2> QED BY <1>2, <2>3, <2>5, <2>6, <2>7, <2>8, <2>9, <2>10
<1>6. CASE \E w : wake(w)
  <2>1. UNCHANGED <<ready, pending, helper>> /\ wakeup' = TRUE
    BY <1>6 DEF wake
  <2>2. Queues' /\ UNCHANGED <<stepping, resolving, creating>>
    BY Zenon, <1>1, <2>1, Joins
  <2>3. Types' /\ Marks' /\ Modes'
    BY <1>1, <2>1, <2>2 DEF Types, Marks, Modes, helping
  <2>4. OpsInv' /\ TasksInv'
    BY Zenon, <1>1, <1>3, <2>1, <2>2 DEF OpsInv, OpInv, TasksInv, TaskInv
  <2>5. NoLostCallback'
    BY <2>1 DEF NoLostCallback
  <2> QED BY <1>2, <2>2, <2>3, <2>4, <2>5
<1>7. CASE \E t \in Task : runCoroutineThreadsafe(t)
  <2>1. PICK t \in Task : runCoroutineThreadsafe(t)
    BY <1>7
  <2>2. /\ t \in Task /\ t \notin live /\ t \notin creating
        /\ ready' = Append(ready, creationOf(t)) /\ UNCHANGED <<wakeup, pending, helper>>
        /\ wakers' = (IF inBatch THEN wakers ELSE wakers \cup {t})
    BY <2>1 DEF runCoroutineThreadsafe, callSoon, loop, queued, creating, line
  <2>3. Queues' /\ creating' = creating \cup {t} /\ UNCHANGED <<stepping, resolving>>
    BY Zenon, <1>1, <2>2, Joins
  <2>4. Types' /\ Marks' /\ Modes'
    BY <1>1, <2>2, <2>3 DEF Types, Marks, Modes, helping
  <2>5. OpsInv'
    BY Zenon, <1>1, <1>3, <2>2, <2>3 DEF OpsInv, OpInv
  <2>6. TasksInv'
    BY <1>1, <2>2, <2>3 DEF TasksInv, TaskInv
  <2>7. NoLostCallback'
    BY <1>1, <2>2 DEF NoLostCallback, Modes
  <2> QED BY <1>2, <2>3, <2>4, <2>5, <2>6, <2>7
<1> QED BY <1>4, <1>5, <1>6, <1>7 DEF aside

\* A step of the primitive whose waiters await the calls in C.
touches(C) ==
  \E t \in Task :
    \/ \E W : resumes(t, W) /\ awaits[t] \notin Calls \ C /\ \A w \in W : awaits[w] \in C
    \/ reparks(t) /\ awaits[t] \in C
    \/ \E W : acts(t, W) /\ \A w \in W : awaits[w] \in C
    \/ \E c \in C : parks(t, c)

\* Such a step keeps the loop's invariant and leaves the other waiters alone.
LEMMA TouchLoop ==
  ASSUME LoopInv, NEW C \in SUBSET Calls, touches(C)
  PROVE  LoopInv' /\ \A c \in Calls \ C : frame(c)
<1>1. PICK t \in Task :
        \/ \E W : resumes(t, W) /\ awaits[t] \notin Calls \ C /\ \A w \in W : awaits[w] \in C
        \/ reparks(t) /\ awaits[t] \in C
        \/ \E W : acts(t, W) /\ \A w \in W : awaits[w] \in C
        \/ \E c \in C : parks(t, c)
  BY DEF touches
<1>2. Types
  BY DEF LoopInv
<1>3. "none" \notin Calls
  BY DEF Calls
<1>4. ASSUME NEW W, resumes(t, W), awaits[t] \notin Calls \ C, \A w \in W : awaits[w] \in C
      PROVE  LoopInv' /\ \A c \in Calls \ C : frame(c)
  <2>1. /\ awaits' = [awaits EXCEPT ![t] = "none"]
        /\ fut' = [u \in Task |-> IF u \in W THEN "result" ELSE [fut EXCEPT ![t] = "none"][u]]
    BY <1>4 DEF resumes, step, wakes
  <2> QED BY <1>2, <1>3, <1>4, <2>1, ResumesLoop DEF frame, Types
<1>5. ASSUME reparks(t), awaits[t] \in C PROVE LoopInv' /\ \A c \in Calls \ C : frame(c)
  BY Zenon, <1>2, <1>5, ReparksLoop DEF frame, reparks, Types, task
<1>6. ASSUME NEW W, acts(t, W), \A w \in W : awaits[w] \in C
      PROVE  LoopInv' /\ \A c \in Calls \ C : frame(c)
  BY <1>2, <1>6, ActsLoop DEF frame, acts, wakes, Types, task
<1>7. ASSUME NEW c \in C, parks(t, c) PROVE LoopInv' /\ \A d \in Calls \ C : frame(d)
  <2>1. awaits[t] = "none"
    BY <1>7, Busy DEF parks
  <2> QED BY <1>2, <1>3, <1>7, <2>1, ParksLoop DEF frame, parks, suspend, Types
<1> QED BY <1>1, <1>4, <1>5, <1>6, <1>7

\* A step that only resumes a task in no call.
LEMMA PlainStepLoop ==
  ASSUME LoopInv, NEW t \in Task, plainStep(t)
  PROVE  LoopInv' /\ quiet
<1>1. Adds(callbacks({}, {}, {}))
  BY AddsFacts DEF plainStep, LoopInv
<1>2. resumes(t, {})
  BY <1>1 DEF resumes, plainStep, wakes, LoopInv, Types
<1>3. touches({})
  BY <1>2 DEF touches, plainStep
<1>4. PICK C : C = {}
  OBVIOUS
<1>5. C \in SUBSET Calls /\ touches(C)
  BY <1>3, <1>4
<1>6. LoopInv' /\ \A c \in Calls \ C : frame(c)
  BY <1>5, TouchLoop
<1> QED BY <1>4, <1>6 DEF quiet

\* A resolution of one future is a wake.
LEMMA SettleWakes ==
  ASSUME LoopInv, NEW w \in Task, NEW F, F \in [Task -> {"none", "pending", "result", "cancelled"}],
         F[w] = "pending", settle(F, w, "result")
  PROVE  wakes(F, {w})
BY Zenon, AddsFacts DEF wakes, settle, LoopInv

\* None is one as well.
LEMMA NoWakes ==
  ASSUME LoopInv, NEW F, F \in [Task -> {"none", "pending", "result", "cancelled"}],
         fut' = F, UNCHANGED ready
  PROVE  wakes(F, {})
BY AddsFacts DEF wakes, LoopInv
-----------------------------------------------------------------------------
\* The waiter list of a primitive: each task that awaits c, once.
listOf(q, c) ==
  q \in Seq(Task) /\ IsInjective(q) /\ Range(q) = {t \in Task : awaits[t] = c}

\* The inductive invariant of the lock.
LockInv ==
  /\ locked \in BOOLEAN /\ dropped \in BOOLEAN /\ holder \in Task \cup {nil}
  /\ listOf(lockWaiters, "lock")
  /\ LockHandover

\* The step that runs was queued.
LEMMA RunsQueued ==
  ASSUME LoopInv, NEW t \in Task, runs(stepOf(t))
  PROVE  t \in stepping
<1>1. batch \in Seq(Callback) /\ IsInjective(batch) /\ batch # <<>> /\ Head(batch) = stepOf(t)
  BY DEF LoopInv, Queues, runs
<1>2. stepOf(t) \in Range(batch)
  BY ONLY <1>1, TailFacts
<1> QED BY <1>2 DEF stepping, line

\* The places of a list, its order after a removal, and its first pending waiter.
LEMMA ListFacts ==
  ASSUME LoopInv, NEW c \in Calls, NEW q, listOf(q, c)
  PROVE  /\ q \in Seq(Task) /\ IsInjective(q) /\ DOMAIN q = 1..Len(q) /\ Len(q) \in Nat
         /\ \A i \in DOMAIN q :
              /\ q[i] \in Task /\ q[i] \in Range(q) /\ awaits[q[i]] = c
              /\ fut[q[i]] \in {"pending", "result", "cancelled"}
         /\ \A t \in Task : awaits[t] = c => t \in Range(q) /\ \E i \in DOMAIN q : q[i] = t
         /\ \A i, j \in DOMAIN q : q[i] = q[j] => i = j
<1>1. q \in Seq(Task) /\ IsInjective(q) /\ DOMAIN q = 1..Len(q) /\ Len(q) \in Nat
  BY DEF listOf
<1>2. \A i \in DOMAIN q : q[i] \in Task /\ q[i] \in Range(q) /\ awaits[q[i]] = c
  BY <1>1 DEF listOf, Range
<1>3. \A t \in Task : awaits[t] = c => t \in Range(q) /\ \E i \in DOMAIN q : q[i] = t
  BY <1>1 DEF listOf, Range
<1>4. \A t \in Task : awaits[t] = c => fut[t] \in {"pending", "result", "cancelled"}
  <2>1. c \notin {"start", "none"}
    BY Zenon DEF Calls
  <2> QED BY <2>1 DEF LoopInv, Types, TasksInv, TaskInv
<1> QED BY <1>1, <1>2, <1>3, <1>4 DEF IsInjective

\* Those that stay keep their order.
LEMMA RemovedOrder ==
  ASSUME NEW S, NEW s \in Seq(S), IsInjective(s), NEW x,
         NEW i \in DOMAIN removeFirst(s, x), NEW j \in DOMAIN removeFirst(s, x)
  PROVE  \E k, l \in DOMAIN s :
           /\ removeFirst(s, x)[i] = s[k] /\ removeFirst(s, x)[j] = s[l]
           /\ i < j <=> k < l
<1>1. CASE x \notin Range(s)
  <2>1. removeFirst(s, x) = s
    BY Zenon, <1>1, RemoveFirstFacts
  <2> QED BY <2>1
<1>2. CASE x \in Range(s)
  <2>1. PICK m \in 1..Len(s) : removeFirst(s, x) = removeAt(s, m)
    BY <1>2, RemoveFirstFacts
  <2> DEFINE r == removeFirst(s, x)
             up(n) == IF n < m THEN n ELSE n + 1
  <2>2. /\ r \in Seq(S) /\ Len(r) = Len(s) - 1
        /\ \A n \in 1..(Len(s) - 1) : r[n] = IF n < m THEN s[n] ELSE s[n + 1]
    BY Zenon, <2>1, RemoveAtEntries
  <2>3. DOMAIN r = 1..(Len(s) - 1) /\ DOMAIN s = 1..Len(s) /\ Len(s) \in Nat
    BY <2>2
  <2>4. /\ up(i) \in DOMAIN s /\ up(j) \in DOMAIN s /\ (i < j <=> up(i) < up(j))
        /\ r[i] = s[up(i)] /\ r[j] = s[up(j)]
    <3>1. i \in 1..(Len(s) - 1) /\ j \in 1..(Len(s) - 1)
      BY <2>3
    <3> HIDE DEF r
    <3> QED BY <2>2, <2>3, <3>1
  <2> HIDE DEF up
  <2> QED BY <2>4
<1> QED BY <1>1, <1>2

\* A step of something else.
LEMMA LockFrame ==
  ASSUME LoopInv, LockInv, UNCHANGED lockVars, frame("lock")
  PROVE  LockInv'
<1>1. UNCHANGED <<locked, lockWaiters, holder, dropped>>
  BY Zenon DEF lockVars
<1>2. listOf(lockWaiters, "lock")'
  BY Zenon, <1>1 DEF listOf, LockInv, frame
<1>3. \A i \in DOMAIN lockWaiters :
        /\ lockWaiters[i] \in Task /\ lockWaiters[i] \in Range(lockWaiters)
        /\ \/ fut'[lockWaiters[i]] = fut[lockWaiters[i]]
           \/ fut[lockWaiters[i]] = "pending" /\ fut'[lockWaiters[i]] = "cancelled"
  BY ListFacts DEF LockInv, frame, Calls
<1>4. wokenWaiters' = wokenWaiters
  BY <1>1, <1>3 DEF wokenWaiters, Range
<1>5. \A i, j \in DOMAIN lockWaiters :
        fut'[lockWaiters[j]] = "result" =>
          /\ i < j => fut'[lockWaiters[i]] = "cancelled"
          /\ i > j => fut'[lockWaiters[i]] # "result"
  BY Zenon, <1>3 DEF LockInv, LockHandover
<1>6. ASSUME ~locked, pendingAt(lockWaiters, fut)' # {}
      PROVE  wokenWaiters # {} \/ dropped \/ \E t \in Range(lockWaiters) : fut'[t] = "cancelled"
  <2>1. pendingAt(lockWaiters, fut) # {}
    BY Zenon, <1>1, <1>3, <1>6 DEF pendingAt
  <2>2. CASE \E t \in Range(lockWaiters) : fut[t] = "cancelled"
    BY <1>3, <2>2 DEF Range
  <2> QED BY Zenon, <1>6, <2>1, <2>2 DEF LockInv, LockHandover
<1>7. LockHandover'
  BY <1>1, <1>4, <1>5, <1>6 DEF LockInv, LockHandover
<1> QED BY <1>1, <1>2, <1>7 DEF LockInv

\* acquire up to its await.
LEMMA LockAcquireStep ==
  ASSUME LoopInv, LockInv, NEW t \in Task, lockAcquire(t)
  PROVE  LockInv' /\ touches({"lock"})
<1> DEFINE q == lockWaiters
<1>0. /\ Types /\ listOf(q, "lock") /\ current = t /\ awaits[t] = "none"
      /\ dropped' = dropped /\ UNCHANGED <<loop, offLoop>>
  BY Busy DEF LoopInv, LockInv, lockAcquire
<1>1. /\ q \in Seq(Task) /\ IsInjective(q) /\ DOMAIN q = 1..Len(q) /\ Len(q) \in Nat
      /\ \A i \in DOMAIN q : q[i] \in Task /\ q[i] \in Range(q) /\ awaits[q[i]] = "lock"
      /\ \A i \in DOMAIN q : fut[q[i]] \in {"pending", "result", "cancelled"}
  BY <1>0, ListFacts DEF Calls
<1>2. CASE ~locked /\ q = <<>> /\ locked' = TRUE /\ holder' = t /\ UNCHANGED <<q, ready, fut, task>>
  <2>1. UNCHANGED awaits
    BY <1>2 DEF task
  <2>2. Range(q) = {} /\ DOMAIN q = {}
    BY <1>2 DEF Range
  <2>3. LockHandover'
    BY <1>2, <2>2, MainAssumption DEF LockHandover, wokenWaiters, pendingAt
  <2>4. LockInv'
    BY <1>0, <1>2, <2>1, <2>3 DEF LockInv, listOf
  <2>5. acts(t, {})
    BY <1>0, <1>2, NoWakes DEF acts, Types
  <2> QED BY <2>4, <2>5 DEF touches
<1>3. CASE /\ locked \/ q # <<>>
           /\ q' = Append(q, t) /\ suspend(t, "lock") /\ UNCHANGED <<locked, holder>>
  <2>1. /\ awaits' = [awaits EXCEPT ![t] = "lock"] /\ fut' = [fut EXCEPT ![t] = "pending"]
        /\ locked' = locked /\ holder' = holder
    BY <1>3 DEF suspend
  <2>2. t \notin Range(q)
    BY Zenon, <1>0 DEF listOf
  <2>3. /\ q' \in Seq(Task) /\ Range(q') = Range(q) \cup {t} /\ IsInjective(q')
    BY <1>1, <1>3, <2>2, AppendFacts
  <2>4. listOf(q, "lock")'
    BY <1>0, <2>1, <2>3 DEF listOf, Types
  <2>5. /\ DOMAIN q' = 1..(Len(q) + 1) /\ q'[Len(q) + 1] = t
        /\ \A i \in DOMAIN q : q'[i] = q[i] /\ fut'[q'[i]] = fut[q[i]]
    BY <1>0, <1>1, <1>3, <2>1, <2>2 DEF Types
  <2>6. fut'[t] = "pending" /\ \A u \in Range(q) : fut'[u] = fut[u]
    BY <1>0, <2>1, <2>2 DEF Types, listOf
  <2>7. wokenWaiters' = wokenWaiters
    BY Zenon, <2>3, <2>6 DEF wokenWaiters
  <2>8. \A i, j \in DOMAIN q' :
          fut'[q'[j]] = "result" =>
            /\ i < j => fut'[q'[i]] = "cancelled"
            /\ i > j => fut'[q'[i]] # "result"
    <3>1. \A i \in DOMAIN q' : i \in DOMAIN q \/ (i = Len(q) + 1 /\ fut'[q'[i]] = "pending")
      BY <1>1, <2>5, <2>6
    <3>2. \A i, j \in DOMAIN q :
            fut[q[j]] = "result" => /\ i < j => fut[q[i]] = "cancelled"
                                    /\ i > j => fut[q[i]] # "result"
      BY Zenon DEF LockInv, LockHandover
    <3> HIDE DEF q
    <3> QED BY <1>1, <2>5, <3>1, <3>2
  <2>9. ASSUME ~locked
        PROVE  wokenWaiters # {} \/ dropped \/ \E u \in Range(q') : fut'[u] = "cancelled"
    <3>1. PICK i \in DOMAIN q : TRUE
      BY <1>1, <1>3, <2>9
    <3>2. CASE fut[q[i]] = "pending"
      <4>1. pendingAt(q, fut) # {}
        BY <3>2 DEF pendingAt
      <4> QED BY <2>3, <2>6, <2>9, <4>1 DEF LockInv, LockHandover
    <3>3. CASE fut[q[i]] = "result"
      BY Zenon, <1>1, <3>3 DEF wokenWaiters
    <3>4. CASE fut[q[i]] = "cancelled"
      BY Zenon, <1>1, <2>3, <2>6, <3>4
    <3> QED BY <1>1, <3>2, <3>3, <3>4
  <2>10. LockHandover'
    BY <1>0, <2>1, <2>7, <2>8, <2>9 DEF LockInv, LockHandover
  <2>11. parks(t, "lock")
    BY <1>0, <1>3 DEF parks
  <2> QED BY <1>0, <2>1, <2>4, <2>10, <2>11 DEF LockInv, touches
<1> QED BY Zenon, <1>2, <1>3 DEF lockAcquire
=============================================================================
