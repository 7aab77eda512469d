---------------------------- MODULE MCScheduler ----------------------------
(***************************************************************************)
(* Model checking of Scheduler: three interchangeable tasks and idle.      *)
(***************************************************************************)
EXTENDS Scheduler, TLC

CONSTANTS a, b, c

Symm == Permutations(Task \ {Idle})
=============================================================================
