-------------------------- MODULE AsyncioSemaphore --------------------------
(***************************************************************************)
(* asyncio.Semaphore and BoundedSemaphore                                  *)
(* (pkg/objects/asyncio_semaphore.go).  A release grants the permit to the *)
(* waiter it wakes.  A task holds at most one permit and releases only     *)
(* what it holds, so the bounded form's error never arises.                *)
(***************************************************************************)
EXTENDS EventLoop

CONSTANT Permits  \* s.initial

ASSUME PermitsAssumption == Permits \in Nat

VARIABLES
  value,       \* s.value
  semWaiters,  \* s.waiters
  held,        \* history: tasks whose acquire returned and that have not released
  leaked,      \* history: permits granted to a waiter that was then cancelled
  semDropped   \* history: a cancelled waiter left the queue with a permit free

semVars == <<value, semWaiters, held, leaked, semDropped>>

SemInit ==
  /\ value = Permits
  /\ semWaiters = <<>>
  /\ held = {}
  /\ leaked = 0
  /\ semDropped = FALSE

\* wakeUpNext with v permits free, the queue q and the futures F: the first
\* pending waiter is granted one.
wakeUpNext(v, q, F) ==
  IF pendingAt(q, F) = {}
    THEN value' = v /\ fut' = F /\ UNCHANGED ready
    ELSE value' = v - 1 /\ settle(F, q[Min(pendingAt(q, F))], "result")

\* s.locked()
semLocked == value = 0 \/ semWaiters # <<>>

\* acquire up to its await.
semAcquire(t) ==
  /\ current = t
  /\ t \notin held
  /\ \/ /\ ~semLocked
        /\ value' = value - 1
        /\ held' = held \cup {t}
        /\ UNCHANGED <<semWaiters, ready, fut, task>>
     \/ /\ semLocked
        /\ semWaiters' = Append(semWaiters, t)
        /\ suspend(t, "sem")
        /\ UNCHANGED <<value, held>>
  /\ UNCHANGED <<leaked, semDropped, loop, offLoop>>

\* A mutant: a resumed acquire takes a permit although it was granted one.
semResumeTakes(t) ==
  /\ awaits[t] = "sem"
  /\ step(t)
  /\ semWaiters' = removeFirst(semWaiters, t)
  /\ IF raised(t)
       THEN /\ leaked' = leaked + (IF fut[t] = "result" THEN 1 ELSE 0)
            /\ semDropped' = (semDropped \/ value > 0 \/ fut[t] = "result")
            /\ fut' = [fut EXCEPT ![t] = "none"]
            /\ UNCHANGED <<value, held, ready>>
       ELSE /\ held' = held \cup {t}
            /\ value' = (IF value > 0 THEN value - 1 ELSE 0)
            /\ fut' = [fut EXCEPT ![t] = "none"]
            /\ UNCHANGED <<leaked, semDropped, ready>>

\* acquire after its await: the waiter leaves the queue; with its permit granted
\* it hands the next free one on, and if the await raised it just returns.
semResume(t) ==
  /\ awaits[t] = "sem"
  /\ step(t)
  /\ semWaiters' = removeFirst(semWaiters, t)
  /\ LET F == [fut EXCEPT ![t] = "none"]
     IN IF raised(t)
          THEN /\ leaked' = leaked + (IF fut[t] = "result" THEN 1 ELSE 0)
               /\ semDropped' = (semDropped \/ value > 0 \/ fut[t] = "result")
               /\ fut' = F
               /\ UNCHANGED <<value, held, ready>>
          ELSE /\ held' = held \cup {t}
               /\ IF value > 0 THEN wakeUpNext(value, semWaiters', F)
                               ELSE fut' = F /\ UNCHANGED <<value, ready>>
               /\ UNCHANGED <<leaked, semDropped>>

semRelease(t) ==
  /\ current = t
  /\ t \in held
  /\ held' = held \ {t}
  /\ wakeUpNext(value + 1, semWaiters, fut)
  /\ UNCHANGED <<semWaiters, leaked, semDropped, loop, offLoop, task>>
-----------------------------------------------------------------------------
\* Waiters with a permit granted that have not resumed.
granted == {t \in Range(semWaiters) : fut[t] = "result"}

\* No permit is minted by a grant, a chain of grants or a cancellation, and the
\* only permits lost are those granted to a waiter that was cancelled before it
\* resumed (asyncio_semaphore.go:84-88).  A free permit beside a pending waiter
\* has a granted waiter on its way to hand it on, unless cancelled waiters are
\* in the queue or have left it.
PermitsAccounted ==
  /\ value >= 0
  /\ value + Cardinality(held) + Cardinality(granted) + leaked = Permits
  /\ (value > 0 /\ pendingAt(semWaiters, fut) # {}) =>
       granted # {} \/ semDropped \/ \E t \in Range(semWaiters) : fut[t] = "cancelled"
=============================================================================
