------------------------------ MODULE ConnLease ------------------------------
(***************************************************************************)
(* What the connection pool of UsbTransport promises: a connection is      *)
(* leased to one request at a time and comes back before it is leased      *)
(* again, and the transport is declared quiescent, once and for all, only  *)
(* at a moment when no lease is out.                                       *)
(***************************************************************************)
CONSTANTS Conn, Request

VARIABLES
  holders,   \* the requests that hold each connection
  quiesced   \* the transport has been declared quiescent

leaseVars == <<holders, quiesced>>

Init ==
  /\ holders = [c \in Conn |-> {}]
  /\ quiesced = FALSE

Lease(c, r) ==
  /\ holders[c] = {}
  /\ \A d \in Conn : r \notin holders[d]
  /\ holders' = [holders EXCEPT ![c] = {r}]
  /\ UNCHANGED quiesced

Return(c, r) ==
  /\ holders[c] = {r}
  /\ holders' = [holders EXCEPT ![c] = {}]
  /\ UNCHANGED quiesced

Quiesce ==
  /\ ~quiesced
  /\ \A c \in Conn : holders[c] = {}
  /\ quiesced' = TRUE
  /\ UNCHANGED holders

Next ==
  \/ \E c \in Conn, r \in Request : Lease(c, r) \/ Return(c, r)
  \/ Quiesce

Spec == Init /\ [][Next]_leaseVars
=============================================================================
