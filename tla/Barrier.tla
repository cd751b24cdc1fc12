------------------------------ MODULE Barrier -------------------------------
(***************************************************************************)
(* threading.Barrier (pkg/objects/barrier.go).  wait holds b.mu except     *)
(* while it is parked on the broadcast channel, so each action is the code *)
(* from one park, or the call, to the next park or the return.             *)
(*                                                                         *)
(* broadcast closes the channel and installs a fresh one: `woken` is the   *)
(* set of parked threads whose channel has been closed.  The barrier's     *)
(* action runs under b.mu inside the tripping wait; all that matters is    *)
(* whether it raises.                                                      *)
(***************************************************************************)
EXTENDS Integers, Threads

CONSTANT Parties  \* b.parties

ASSUME PartiesAssumption == Parties \in Nat \ {0}

VARIABLES
  state,       \* b.state
  arrived,     \* b.count
  place,       \* idle, entering (parked in enter) or waiting (parked in waitDrain)
  woken,       \* parked threads whose broadcast channel has been closed
  hasTimeout,  \* hasTimeout of the wait in progress
  index,       \* the arrival index of a counted thread
  mates        \* history: the parties that tripped the round a thread is in

barrierVars == <<state, arrived, place, woken, hasTimeout, index, mates>>

BarrierInit ==
  /\ state = "filling"
  /\ arrived = 0
  /\ place = [t \in Thread |-> "idle"]
  /\ woken = {}
  /\ hasTimeout = [t \in Thread |-> FALSE]
  /\ index = [t \in Thread |-> 0]
  /\ mates = [t \in Thread |-> {}]

parked == {t \in Thread : place[t] # "idle"}
waiting == {t \in Thread : place[t] = "waiting"}

\* Every parked thread except t, which is running.
others(t) == parked \ {t}
-----------------------------------------------------------------------------
\* A thread leaves wait: its index, its timeout and its round are gone.
getOut(t) ==
  /\ place' = [place EXCEPT ![t] = "idle"]
  /\ hasTimeout' = [hasTimeout EXCEPT ![t] = FALSE]
  /\ index' = [index EXCEPT ![t] = 0]

\* A mutant: the barrier reopens without waking the newcomers.
exitSilent(t, s, n) ==
  IF n = 0 /\ s \in {"resetting", "draining"}
    THEN state' = "filling" /\ woken' = woken \ {t}
    ELSE state' = s /\ woken' = (IF s = state THEN woken \ {t} ELSE others(t))

\* The end of wait, with the barrier in state s (just broken or tripped by this
\* call when it differs from b.state, and then already broadcast) and n parties
\* left: exit reopens it once the last of them is out.
exit(t, s, n) ==
  IF n = 0 /\ s \in {"resetting", "draining"}
    THEN state' = "filling" /\ woken' = others(t)
    ELSE state' = s /\ woken' = (IF s = state THEN woken \ {t} ELSE others(t))

\* release: the last party trips the barrier and leaves with its index, or the
\* action raises, the barrier is broken and it leaves with the error.
releaseRound(t) ==
  /\ arrived + 1 = Parties
  /\ \/ /\ mates' = [u \in Thread |-> IF u \in waiting THEN waiting \cup {t} ELSE {}]
        /\ exit(t, "draining", arrived)
     \/ /\ exit(t, "broken", arrived)
        /\ UNCHANGED mates
  /\ getOut(t)
  /\ UNCHANGED arrived

\* A party that does not fill the barrier takes its index and parks.
park(t, h) ==
  /\ arrived + 1 # Parties
  /\ index' = [index EXCEPT ![t] = arrived]
  /\ arrived' = arrived + 1
  /\ place' = [place EXCEPT ![t] = "waiting"]
  /\ hasTimeout' = [hasTimeout EXCEPT ![t] = h]
  /\ woken' = woken \ {t}
  /\ UNCHANGED <<state, mates>>

\* A mutant: a newcomer does not wait for the previous round to drain.
enterAtOnce(t, h) ==
  \/ /\ state = "resetting"
     /\ place' = [place EXCEPT ![t] = "entering"]
     /\ hasTimeout' = [hasTimeout EXCEPT ![t] = h]
     /\ woken' = woken \ {t}
     /\ UNCHANGED <<state, arrived, index, mates>>
  \/ /\ state = "broken"
     /\ getOut(t)
     /\ woken' = woken \ {t}
     /\ UNCHANGED <<state, arrived, mates>>
  \/ /\ state \in {"filling", "draining"}
     /\ releaseRound(t) \/ park(t, h)

\* From the head of enter's loop: park while a round drains, leave if the
\* barrier is broken, be counted otherwise.
enter(t, h) ==
  \/ /\ state \in {"resetting", "draining"}
     /\ place' = [place EXCEPT ![t] = "entering"]
     /\ hasTimeout' = [hasTimeout EXCEPT ![t] = h]
     /\ woken' = woken \ {t}
     /\ UNCHANGED <<state, arrived, index, mates>>
  \/ /\ state = "broken"
     /\ getOut(t)
     /\ woken' = woken \ {t}
     /\ UNCHANGED <<state, arrived, mates>>
  \/ /\ state = "filling"
     /\ releaseRound(t) \/ park(t, h)

wait(t, h) ==
  /\ place[t] = "idle"
  /\ enter(t, h)

\* A newcomer parked in enter is woken.
reenter(t) ==
  /\ place[t] = "entering"
  /\ t \in woken
  /\ enter(t, hasTimeout[t])
-----------------------------------------------------------------------------
\* A counted party leaves with the barrier in state s.
leave(t, s) ==
  /\ arrived' = arrived - 1
  /\ mates' = [mates EXCEPT ![t] = {}]
  /\ getOut(t)
  /\ exit(t, s, arrived - 1)

\* A parked party is back under b.mu and its round is over: it was tripped, and
\* the party returns its index, or broken or reset, and it raises.
drained(t) ==
  /\ place[t] = "waiting"
  /\ t \in woken
  /\ state # "filling"
  /\ leave(t, state)

\* Its timer fired, woken or not: a round that is over counts as over, else the
\* party breaks the barrier for everybody.
waitTimesOut(t) ==
  /\ place[t] = "waiting"
  /\ hasTimeout[t]
  /\ leave(t, IF state = "filling" THEN "broken" ELSE state)

\* A mutant: reset reopens the barrier under the parties of the broken round.
resetAtOnce ==
  /\ state' = "filling"
  /\ woken' = parked
  /\ UNCHANGED <<arrived, place, hasTimeout, index, mates>>

reset ==
  /\ state' = (IF arrived = 0 THEN "filling"
               ELSE IF state \in {"filling", "broken"} THEN "resetting" ELSE state)
  /\ woken' = parked
  /\ UNCHANGED <<arrived, place, hasTimeout, index, mates>>

\* abort and breakBarrier.
abort ==
  /\ state' = "broken"
  /\ woken' = parked
  /\ UNCHANGED <<arrived, place, hasTimeout, index, mates>>

BarrierNext ==
  \/ \E t \in Thread :
       \/ \E h \in BOOLEAN : wait(t, h)
       \/ reenter(t) \/ drained(t) \/ waitTimesOut(t)
  \/ reset
  \/ abort

\* A woken goroutine gets b.mu and timers fire; nobody has to call the barrier.
BarrierFairness ==
  \A t \in Thread :
    /\ WF_barrierVars(reenter(t))
    /\ WF_barrierVars(drained(t))
    /\ WF_barrierVars(waitTimesOut(t))

BarrierSpec == BarrierInit /\ [][BarrierNext]_barrierVars /\ BarrierFairness
-----------------------------------------------------------------------------
\* The fields of the barrier and of the waits in progress have their types.
BarrierTypeOK ==
  /\ state \in {"filling", "draining", "resetting", "broken"}
  /\ arrived \in Nat
  /\ place \in [Thread -> {"idle", "entering", "waiting"}]
  /\ woken \subseteq Thread
  /\ hasTimeout \in [Thread -> BOOLEAN]
  /\ index \in [Thread -> Nat]
  /\ mates \in [Thread -> SUBSET Thread]

\* Rounds never mix, however late a party of the last one gets back under b.mu:
\* a filling barrier has counted only parties of its own round, numbered in
\* order of arrival, and a draining one only parties of the round that tripped
\* it with all Parties present, so an index wait returns stands for a full
\* rendezvous (barrier.go:130-138, 170-190).
RoundsDoNotMix ==
  /\ arrived = Cardinality(waiting)
  /\ state = "filling" =>
       /\ arrived < Parties
       /\ {index[t] : t \in waiting} = 0..(arrived - 1)
       /\ \A t \in waiting : mates[t] = {}
  /\ state = "draining" =>
       /\ waiting # {}
       /\ \A t, u \in waiting : mates[t] = mates[u] /\ (index[t] = index[u] => t = u)
       /\ \A t \in waiting : waiting \subseteq mates[t] /\ Cardinality(mates[t]) = Parties

\* Nobody sleeps through the broadcast that ends their wait: a thread on a live
\* channel waits for parties in a filling barrier, or in enter for a round that
\* has yet to drain; and a woken party finds its round over at the first look.
NoMissedBroadcast ==
  /\ woken \subseteq parked
  /\ \A t \in parked \ woken :
       state \in (IF place[t] = "waiting" THEN {"filling"} ELSE {"draining", "resetting"})
  /\ \A t \in waiting \cap woken : state # "filling"

\* A counted party leaves wait once its round is over, tripped, broken or reset,
\* and in any case when it has a timeout.
PartyReturns ==
  \A t \in Thread :
    (place[t] = "waiting" /\ (hasTimeout[t] \/ state # "filling")) ~> (place[t] # "waiting")
=============================================================================
