--------------------------- MODULE MCThreadQueue ---------------------------
(* The instance TLC checks: three threads; an unbounded queue and a queue of two
   slots; put is called while fewer than three tasks are open. *)
EXTENDS ThreadQueue

CONSTANTS t1, t2, t3

MCThread == {t1, t2, t3}
MCMaxSizes == {0, 2}
=============================================================================
