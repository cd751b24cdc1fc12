------------------------- MODULE MCThreadSemaphore -------------------------
(* The instance TLC checks: three threads, semaphores built with 0, 1 or 2,
   release(1) and release(2), an unbounded count of at most 3. *)
EXTENDS ThreadSemaphore

CONSTANTS t1, t2, t3

MCThread == {t1, t2, t3}
MCInitials == 0..2
=============================================================================
