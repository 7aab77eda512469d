---------------------------- MODULE MCSemaphore ----------------------------
(***************************************************************************)
(* Model checking of Semaphore: task a starts with a higher priority than  *)
(* b and c, which are interchangeable.                                     *)
(***************************************************************************)
EXTENDS Semaphore, TLC

CONSTANTS a, b, c, p

MCBasePrio == [t \in Task \ {Idle} |-> IF t = a THEN 2 ELSE 1]

Symm == Permutations({b, c})
=============================================================================
