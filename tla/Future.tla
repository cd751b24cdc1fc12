------------------------------- MODULE Future -------------------------------
(***************************************************************************)
(* concurrent.futures.Future (pkg/objects/futures.go): the state machine   *)
(* under f.mu, its done channel and its done callbacks.  The operators are *)
(* the method bodies; the module that owns the futures composes them with  *)
(* its own steps.                                                          *)
(*                                                                         *)
(* finish detaches the callbacks under the lock and its caller runs them   *)
(* after the unlock: `calls` holds the runs owed, each with the actor that *)
(* owes it.                                                                *)
(***************************************************************************)
EXTENDS Integers, FiniteSets

CONSTANTS
  Fut,       \* the futures
  Callback   \* registrations a client may make on a future

VARIABLES
  state,      \* f.state
  outcome,    \* f.value or f.exc once set
  done,       \* futures whose done channel is closed
  callbacks,  \* f.callbacks
  calls,      \* callback runs owed, [by, fut, cb]
  added,      \* history: registrations made
  ran         \* history: how often each registered callback has run

fvars == <<state, outcome, done, callbacks, calls, added, ran>>

FutureState == {"pending", "running", "cancelled", "cancelled notified", "finished"}

FutureInit ==
  /\ state = [f \in Fut |-> "pending"]
  /\ outcome = [f \in Fut |-> "none"]
  /\ done = {}
  /\ callbacks = [f \in Fut |-> {}]
  /\ calls = {}
  /\ added = {}
  /\ ran = [r \in Fut \X Callback |-> 0]

cancelledState(f) == state[f] \in {"cancelled", "cancelled notified"}
terminal(f) == cancelledState(f) \/ state[f] = "finished"

\* finish, for every future of F at once (doShutdown cancels a whole queue
\* inside one critical section).
finish(F, s, by) ==
  /\ state' = [f \in Fut |-> IF f \in F THEN s ELSE state[f]]
  /\ done' = done \cup F
  /\ callbacks' = [f \in Fut |-> IF f \in F THEN {} ELSE callbacks[f]]
  /\ calls' = calls \cup UNION {[by : {by}, fut : {f}, cb : callbacks[f]] : f \in F}
  /\ UNCHANGED <<added, ran>>

\* A mutant: set_result and set_exception without the terminal-state guard.
resolveUnguarded(f, kind, by) ==
  /\ outcome' = [outcome EXCEPT ![f] = kind]
  /\ finish({f}, "finished", by)

\* setResult and setException; a terminal future raises InvalidStateError and
\* keeps its state.
resolve(f, kind, by) ==
  IF terminal(f)
    THEN UNCHANGED fvars
    ELSE /\ outcome' = [outcome EXCEPT ![f] = kind]
         /\ finish({f}, "finished", by)

\* cancel: only a pending future changes.
cancel(F, by) ==
  /\ finish({f \in F : state[f] = "pending"}, "cancelled", by)
  /\ UNCHANGED outcome

\* setRunningOrNotifyCancel: pending to running, cancelled to notified, and an
\* error that changes nothing otherwise.
setRunningOrNotifyCancel(f) ==
  /\ state' = [state EXCEPT ![f] =
                 IF @ = "pending" THEN "running"
                 ELSE IF @ = "cancelled" THEN "cancelled notified" ELSE @]
  /\ UNCHANGED <<outcome, done, callbacks, calls, added, ran>>

\* A mutant: add_done_callback decides on a stale read and appends to the list
\* of a future that has already detached it.
addCallbackAlways(f, cb, by) ==
  /\ <<f, cb>> \notin added
  /\ added' = added \cup {<<f, cb>>}
  /\ callbacks' = [callbacks EXCEPT ![f] = @ \cup {cb}]
  /\ UNCHANGED <<state, outcome, done, calls, ran>>

\* addCallback and the immediate run its caller owes on a terminal future.
addCallback(f, cb, by) ==
  /\ <<f, cb>> \notin added
  /\ added' = added \cup {<<f, cb>>}
  /\ IF terminal(f)
       THEN /\ calls' = calls \cup {[by |-> by, fut |-> f, cb |-> cb]}
            /\ UNCHANGED callbacks
       ELSE /\ callbacks' = [callbacks EXCEPT ![f] = @ \cup {cb}]
            /\ UNCHANGED calls
  /\ UNCHANGED <<state, outcome, done, ran>>

\* invokeFutureCallbacks runs one of the owed callbacks; what it raises is
\* dropped.
invokeFutureCallback(c) ==
  /\ calls' = calls \ {c}
  /\ ran' = [ran EXCEPT ![<<c.fut, c.cb>>] = @ + 1]
  /\ UNCHANGED <<state, outcome, done, callbacks, added>>

\* An actor with no callbacks left to run.
callbacksRun(by) == \A c \in calls : c.by # by
-----------------------------------------------------------------------------
\* A future settles once: after result() could return, its state only moves from
\* cancelled to notified and what it holds never changes, whoever races to
\* resolve, cancel or fail it.
SettledOnce ==
  [][\A f \in Fut :
       terminal(f) =>
         /\ outcome'[f] = outcome[f]
         /\ \/ state'[f] = state[f]
            \/ state[f] = "cancelled" /\ state'[f] = "cancelled notified"]_fvars

\* The done channel is closed exactly when the future is terminal, so a thread
\* parked in result() wakes on the first terminal transition and finish never
\* closes a channel twice; a finished future holds its outcome.
DoneIffTerminal ==
  /\ done = {f \in Fut : terminal(f)}
  /\ \A f \in Fut : (state[f] = "finished") <=> (outcome[f] # "none")

\* Every registered callback is in exactly one place - still attached to a live
\* future, owed by the thread that settled it, or run once - so a callback added
\* while the future settles is neither lost nor run twice, nor run early.
CallbacksOnce ==
  \A f \in Fut, cb \in Callback :
    LET attached == IF cb \in callbacks[f] THEN 1 ELSE 0
        owed == Cardinality({c \in calls : c.fut = f /\ c.cb = cb})
    IN /\ attached + owed + ran[<<f, cb>>] = IF <<f, cb>> \in added THEN 1 ELSE 0
       /\ terminal(f) => attached = 0
       /\ ~terminal(f) => owed + ran[<<f, cb>>] = 0
=============================================================================
