---------------------------- MODULE MCDeviceInit ----------------------------
(***************************************************************************)
(* Instances of DeviceInit for TLC.                                        *)
(***************************************************************************)
EXTENDS DeviceInit
=============================================================================
