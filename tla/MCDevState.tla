----------------------------- MODULE MCDevState -----------------------------
(***************************************************************************)
(* Instances of DevState for TLC.                                          *)
(***************************************************************************)
EXTENDS DevState, TLC

Symmetry == Permutations(Dev)
=============================================================================
