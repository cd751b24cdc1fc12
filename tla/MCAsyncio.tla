----------------------------- MODULE MCAsyncio ------------------------------
(* The instances TLC checks.  MCAsyncioLoop: the main task and one that it or
   another thread creates use the executor, sleep, cancel and stop, with two
   completions from outside the loop.  MCAsyncioSync: three tasks share a lock
   and a semaphore of two permits, or a queue of one place.  MCAsyncioCancel:
   three tasks share a lock and cancel each other. *)
EXTENDS Asyncio, TLC

CONSTANTS main, a, b, o1, o2

MCTask == {main, a, b}
MCOp == {o1, o2}

LoopPrograms ==
  {main :> {"spawn", "cancel", "exec"} @@ a :> {"sleep", "exec", "stop"}}

LockPrograms == {[t \in MCTask |-> {"spawn", "cancel", "lock", "yield"}]}

SyncPrograms ==
  {main :> {"spawn", "cancel", "lock", "sem", "yield"}
     @@ a :> {"lock", "sem", "yield"} @@ b :> {"lock", "sem", "yield"},
   main :> {"spawn", "cancel", "put", "get", "yield", "shutdown"}
     @@ a :> {"get", "put", "yield"} @@ b :> {"get", "put", "join"}}
=============================================================================
