----------------------------- MODULE MCMsgQueue -----------------------------
(***************************************************************************)
(* Model checking of MsgQueue: task a has a higher priority than b and c,  *)
(* which are interchangeable.                                              *)
(***************************************************************************)
EXTENDS MsgQueue, TLC

CONSTANTS a, b, c, u

MCBasePrio == [t \in Task \ {Idle} |-> IF t = a THEN 2 ELSE 1]

Symm == Permutations({b, c})
=============================================================================
