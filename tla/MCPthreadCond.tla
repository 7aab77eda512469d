--------------------------- MODULE MCPthreadCond ---------------------------
(***************************************************************************)
(* Model checking of PthreadCond: interchangeable threads, one mutex.      *)
(***************************************************************************)
EXTENDS PthreadCond, TLC

CONSTANTS a, b, c, mx

Symm == Permutations(Thread)
=============================================================================
