------------------------------ MODULE MCUsbXfer ------------------------------
(***************************************************************************)
(* Instances of UsbConn, and of UsbXfer in it, for TLC.                    *)
(***************************************************************************)
EXTENDS UsbConn
=============================================================================
