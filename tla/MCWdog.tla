------------------------------- MODULE MCWdog -------------------------------
(***************************************************************************)
(* Model checking of Wdog: a pool of two watchdogs, one of them reserved   *)
(* for interrupt handlers, and one watchdog from the heap.                 *)
(***************************************************************************)
EXTENDS Wdog

CONSTANTS x, y, z
=============================================================================
