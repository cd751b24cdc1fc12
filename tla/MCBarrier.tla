----------------------------- MODULE MCBarrier ------------------------------
(* The instance TLC checks: a barrier of three parties that four threads use. *)
EXTENDS Barrier

CONSTANTS t1, t2, t3, t4

MCThread == {t1, t2, t3, t4}
=============================================================================
