------------------------------ MODULE Asyncio -------------------------------
(***************************************************************************)
(* Tasks that share a Lock, a Semaphore and a Queue on one event loop, and *)
(* the threads that work for it (pkg/objects/asyncio*.go).  A coroutine is *)
(* any sequence of its operations; it returns holding nothing, as one      *)
(* written with async with does, cancelled or not.                         *)
(***************************************************************************)
EXTENDS AsyncioLock, AsyncioSemaphore, AsyncioQueue

CONSTANTS
  Programs,    \* the programs: of each task, the operations its coroutine uses
  Submitted,   \* tasks another thread may submit with run_coroutine_threadsafe
  Cancellable  \* tasks that may be cancelled

ASSUME SubmittedAssumption == Submitted \subseteq Task

VARIABLE program  \* the program that runs

vars == <<evars, lockVars, semVars, queueVars, program>>

Init == LoopInit /\ LockInit /\ SemInit /\ QueueInit /\ program \in Programs

uses(t, op) == op \in program[t]

\* The loop runs a callback or goes through its top.
loopStep ==
  /\ \/ /\ \/ iterate \/ runReturns \/ wakesUp \/ timerFires
           \/ \E o \in Op : resolve(o)
           \/ \E t \in Task : createSubmitted(t) \/ plainStep(t)
        /\ UNCHANGED <<lockVars, semVars, queueVars>>
     \/ \E t \in Task :
          \/ lockResume(t) /\ UNCHANGED <<semVars, queueVars>>
          \/ semResume(t) /\ UNCHANGED <<lockVars, queueVars>>
          \/ /\ putResume(t) \/ getResume(t) \/ joinResume(t)
             /\ UNCHANGED <<lockVars, semVars>>
  /\ UNCHANGED program

\* What the running coroutine of t does next.
coroutineStep(t) ==
  /\ \/ /\ \/ holder # t /\ t \notin held /\ finish(t)
           \/ uses(t, "yield") /\ yieldOnce(t)
           \/ uses(t, "exec") /\ (submitFails(t) \/ \E o \in Op : runInExecutor(t, o))
           \/ uses(t, "sleep") /\ \E o \in Op : sleep(t, o)
           \/ uses(t, "stop") /\ stopLoop(t)
           \/ uses(t, "spawn") /\ \E u \in Task : createTask(t, u)
           \/ uses(t, "cancel") /\ \E u \in Cancellable : cancel(t, u)
        /\ UNCHANGED <<lockVars, semVars, queueVars>>
     \/ /\ uses(t, "lock") /\ (lockAcquire(t) \/ lockRelease(t))
        /\ UNCHANGED <<semVars, queueVars>>
     \/ /\ uses(t, "sem") /\ (semAcquire(t) \/ semRelease(t))
        /\ UNCHANGED <<lockVars, queueVars>>
     \/ /\ \/ uses(t, "put") /\ put(t)
           \/ uses(t, "get") /\ (get(t) \/ taskDone(t))
           \/ uses(t, "join") /\ join(t)
           \/ uses(t, "shutdown") /\ \E immediate \in BOOLEAN : shutdown(t, immediate)
        /\ UNCHANGED <<lockVars, semVars>>
  /\ UNCHANGED program

\* A helper goroutine or another thread takes a step.
helperStep(o) ==
  /\ workerDone(o) \/ donePending(o) \/ wake(o)
  /\ UNCHANGED <<lockVars, semVars, queueVars, program>>

threadStep ==
  \/ \E o \in Op : helperStep(o)
  \/ /\ \E t \in Submitted : runCoroutineThreadsafe(t) \/ wake(t)
     /\ UNCHANGED <<lockVars, semVars, queueVars, program>>

Next == loopStep \/ threadStep \/ \E t \in Task : coroutineStep(t)

\* The running coroutine suspends or returns, and a timer falls due.
suspendsOrEnds(t) == current = t /\ coroutineStep(t) /\ current' = nil
comesDue(o) == o \in timers /\ loopStep /\ o \notin timers'

\* The loop's goroutine and the helpers keep running, a deadline passes, and no
\* coroutine runs for ever without suspending.
Fairness ==
  /\ WF_vars(loopStep)
  /\ \A o \in Op : WF_vars(helperStep(o)) /\ SF_vars(comesDue(o))
  /\ \A t \in Task : WF_vars(coroutineStep(t)) /\ SF_vars(suspendsOrEnds(t))

Spec == Init /\ [][Next]_vars /\ Fairness
-----------------------------------------------------------------------------
\* Whoever awaits a worker or a timer is resumed, by the result or by a
\* cancellation, or the run it belongs to returns: the queued resolution, the
\* wake, the timer heap and the batches between them lose nothing, whatever the
\* other tasks do (asyncio.go:287-350, asyncio_executor.go:93-116).
ResultDelivered ==
  \A t \in Task, o \in Op : (awaits[t] = o) ~> (awaits[t] # o \/ lpc = "returned")
=============================================================================
