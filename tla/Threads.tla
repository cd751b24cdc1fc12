------------------------------ MODULE Threads -------------------------------
(* The threads that share an object of the threading or queue module. *)
EXTENDS FiniteSets

CONSTANT Thread

ASSUME ThreadAssumption == IsFiniteSet(Thread)
=============================================================================
