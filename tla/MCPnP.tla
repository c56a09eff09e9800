------------------------------- MODULE MCPnP -------------------------------
(***************************************************************************)
(* Instances of PnP for TLC: addresses on one bus.                         *)
(***************************************************************************)
EXTENDS PnP

CONSTANT MaxAddr   \* number of addresses of the bus

UsbAddr1 == {1} \X (1..MaxAddr)
=============================================================================
