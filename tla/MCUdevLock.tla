----------------------------- MODULE MCUdevLock -----------------------------
(***************************************************************************)
(* Instances of UdevLock for TLC.                                          *)
(***************************************************************************)
EXTENDS UdevLock
=============================================================================
