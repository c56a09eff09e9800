------------------------------ MODULE MCDNSSd -------------------------------
(***************************************************************************)
(* Instances of DNSSd for TLC.                                             *)
(***************************************************************************)
EXTENDS DNSSd
=============================================================================
