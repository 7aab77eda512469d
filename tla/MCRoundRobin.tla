---------------------------- MODULE MCRoundRobin ----------------------------
(***************************************************************************)
(* Model checking of RoundRobin: three tasks and idle.                     *)
(***************************************************************************)
EXTENDS RoundRobin

CONSTANTS a, b, c
=============================================================================
