----------------------------- MODULE MCExecutor -----------------------------
(* The instance TLC checks: three submitted calls, two workers, and one
   future with a done callback (whichever of the three is submitted when). *)
EXTENDS Executor

CONSTANTS f1, f2, f3, c1

MCFut == {f1, f2, f3}
MCCallback == {c1}
MCRegistrations == {<<f1, c1>>}
=============================================================================
