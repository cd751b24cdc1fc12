---------------------------- MODULE MCCondition -----------------------------
(* The instance TLC checks: three threads, two levels of recursion, two items. *)
EXTENDS Condition

CONSTANTS t1, t2, t3

MCThread == {t1, t2, t3}
=============================================================================
