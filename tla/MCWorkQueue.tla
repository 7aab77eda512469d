---------------------------- MODULE MCWorkQueue ----------------------------
(***************************************************************************)
(* Model checking of WorkQueue.                                            *)
(***************************************************************************)
EXTENDS WorkQueue

CONSTANTS wka, wkb, cla, clb
=============================================================================
