--------------------------- MODULE MCPthreadMutex ---------------------------
(***************************************************************************)
(* Model checking of PthreadMutex: one mutex.                              *)
(***************************************************************************)
EXTENDS PthreadMutex

CONSTANTS a, b, c, mx
=============================================================================
