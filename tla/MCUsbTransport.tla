--------------------------- MODULE MCUsbTransport ---------------------------
(***************************************************************************)
(* Instances of UsbTransport for TLC.                                      *)
(***************************************************************************)
EXTENDS UsbTransport
=============================================================================
