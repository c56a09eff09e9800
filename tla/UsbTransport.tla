---------------------------- MODULE UsbTransport ----------------------------
(***************************************************************************)
(* The connection pool of one IPP-over-USB device (usbtransport.go), the   *)
(* HTTP requests that borrow connections from it, and the PnP thread that  *)
(* takes the device down (device.go, http.go).                             *)
(*                                                                         *)
(* Every request is a goroutine: the net/http handler that runs ServeHTTP, *)
(* and, when the client leaves before the response has been read, the      *)
(* goroutine usbResponseBodyWrapper.Close starts to drain it.  Goroutines  *)
(* interleave at channel operations and at USB input/output; code between  *)
(* two such points touches only the goroutine's own data.                  *)
(***************************************************************************)
EXTENDS Naturals, Sequences, FiniteSets, Functions

CONSTANTS
  Conn,     \* the connections of transport.connList
  Request,  \* request goroutines
  NoConn    \* "owns no connection"

ASSUME ConnAssumption == IsFiniteSet(Conn)
ASSUME NoConnAssumption == NoConn \notin Conn

VARIABLES
  pc,           \* where each request goroutine is
  conn,         \* the connection a request owns (local variable conn)
  drained,      \* usbResponseBodyWrapper.drained of the request
  ctxDone,      \* rq.Context() has been cancelled: the client has gone
  connPool,     \* channel of free connections, in order
  connReleased, \* number of tokens in the channel of capacity 1
  shutdown,     \* the channel transport.shutdown is closed
  proxy,        \* the HTTP server accepts requests
  pnp,          \* where the PnP thread is in Device.Shutdown and Device.Close
  final,        \* it runs the Shutdown(context.Background()) of Close
  reset,        \* the argument of Close
  usb,          \* the USB device
  pending,      \* history: a response was begun on the connection, and
                \* reading it has neither come to its end nor failed
  late          \* history: the request got its connection after shutdown

reqVars  == <<pc, conn, drained, ctxDone>>
poolVars == <<connPool, connReleased, shutdown>>
pnpVars  == <<proxy, pnp, final, reset, usb>>
vars     == <<reqVars, poolVars, pnpVars, pending, late>>

ReqState == {"idle", "prefetch", "get", "write", "read", "copy", "close",
             "drain", "put", "signal"}
PnpState == {"serve", "shutdown", "loop", "wait", "close", "destroy", "closed"}
UsbState == {"open", "gone", "reset", "closed"}

TypeOK ==
  /\ pc \in [Request -> ReqState]
  /\ conn \in [Request -> Conn \cup {NoConn}]
  /\ drained \in [Request -> BOOLEAN]
  /\ ctxDone \in [Request -> BOOLEAN]
  /\ connPool \in Seq(Conn)
  /\ connReleased \in {0, 1}
  /\ shutdown \in BOOLEAN
  /\ proxy \in BOOLEAN
  /\ pnp \in PnpState
  /\ final \in BOOLEAN
  /\ reset \in BOOLEAN
  /\ usb \in UsbState
  /\ pending \in [Conn -> BOOLEAN]
  /\ late \in [Request -> BOOLEAN]

\* NewUsbTransport has opened every connection and put it into the pool.
Init ==
  /\ pc = [r \in Request |-> "idle"]
  /\ conn = [r \in Request |-> NoConn]
  /\ drained = [r \in Request |-> FALSE]
  /\ ctxDone = [r \in Request |-> FALSE]
  /\ connPool \in {s \in [1..Cardinality(Conn) -> Conn] : IsInjective(s)}
  /\ connReleased = 0
  /\ shutdown = FALSE
  /\ proxy = TRUE
  /\ pnp = "serve"
  /\ final = FALSE
  /\ reset = FALSE
  /\ usb = "open"
  /\ pending = [c \in Conn |-> FALSE]
  /\ late = [r \in Request |-> FALSE]

\* cap(connPool) - len(connPool)
connInUse == Cardinality(Conn) - Len(connPool)

-----------------------------------------------------------------------------
(* The request goroutine: ServeHTTP and RoundTripWithSession.              *)

\* ServeHTTP accepts a request; a small body is prefetched, any other body
\* is sent as it comes.
ServeHTTP(r) ==
  /\ pc[r] = "idle"
  /\ proxy
  /\ \E step \in {"prefetch", "get"} : pc' = [pc EXCEPT ![r] = step]
  /\ ctxDone' = [ctxDone EXCEPT ![r] = FALSE]
  /\ UNCHANGED <<conn, drained, poolVars, pnpVars, pending, late>>

\* net/http cancels the context of a request whose client has gone, at any
\* time while the handler runs.  The drain goroutine no longer looks at it.
ClientGone(r) ==
  /\ pc[r] \in ReqState \ {"idle", "drain"}
  /\ ~ctxDone[r]
  /\ ctxDone' = [ctxDone EXCEPT ![r] = TRUE]
  /\ UNCHANGED <<pc, conn, drained, poolVars, pnpVars, pending, late>>

\* io.CopyN of a body shorter than 16384 bytes.  It fails when the client
\* sends less than it announced, before any connection is allocated.
Prefetch(r) ==
  /\ pc[r] = "prefetch"
  /\ \/ pc' = [pc EXCEPT ![r] = "get"]
     \/ ctxDone[r] /\ pc' = [pc EXCEPT ![r] = "idle"]
  /\ UNCHANGED <<conn, drained, ctxDone, poolVars, pnpVars, pending, late>>

\* Mutant: the connection stays in the pool.
usbConnGetShared(r) ==
  /\ pc[r] = "get"
  /\ connPool # <<>>
  /\ pc' = [pc EXCEPT ![r] = "write"]
  /\ conn' = [conn EXCEPT ![r] = Head(connPool)]
  /\ drained' = [drained EXCEPT ![r] = FALSE]
  /\ late' = [late EXCEPT ![r] = shutdown]
  /\ UNCHANGED <<ctxDone, poolVars, pnpVars, pending>>

\* The select statement takes any of its ready cases, at random: a request
\* may get a connection although transport.shutdown is already closed.
usbConnGet(r) ==
  /\ pc[r] = "get"
  /\ \/ /\ shutdown \/ ctxDone[r]
        /\ pc' = [pc EXCEPT ![r] = "idle"]
        /\ UNCHANGED <<conn, drained, connPool, late>>
     \/ /\ connPool # <<>>
        /\ pc' = [pc EXCEPT ![r] = "write"]
        /\ conn' = [conn EXCEPT ![r] = Head(connPool)]
        /\ drained' = [drained EXCEPT ![r] = FALSE]
        /\ connPool' = Tail(connPool)
        /\ late' = [late EXCEPT ![r] = shutdown]
  /\ UNCHANGED <<ctxDone, connReleased, shutdown, pnpVars, pending>>

\* outreq.Write: the request is on the wire, or the connection is released.
WriteRequest(r) ==
  /\ pc[r] = "write"
  /\ \E step \in {"read", "put"} : pc' = [pc EXCEPT ![r] = step]
  /\ UNCHANGED <<conn, drained, ctxDone, poolVars, pnpVars, pending, late>>

\* http.ReadResponse fails and the connection is released, or it returns the
\* header and the body stays on the wire.  sanitizeIppResponse may read ahead
\* in the body, up to its end.
ReadResponse(r) ==
  /\ pc[r] = "read"
  /\ \/ /\ pc' = [pc EXCEPT ![r] = "put"]
        /\ UNCHANGED <<drained, pending>>
     \/ \E eof \in BOOLEAN :
        /\ pc' = [pc EXCEPT ![r] = "copy"]
        /\ drained' = [drained EXCEPT ![r] = eof]
        /\ pending' = [pending EXCEPT ![conn[r]] = ~eof]
  /\ UNCHANGED <<conn, ctxDone, poolVars, pnpVars, late>>

\* io.Copy(w, resp.Body) ends when the body ends or USB fails, both of which
\* set the drained flag, or when writing to the client fails.
CopyBody(r) ==
  /\ pc[r] = "copy"
  /\ pc' = [pc EXCEPT ![r] = "close"]
  /\ \/ /\ drained' = [drained EXCEPT ![r] = TRUE]
        /\ pending' = [pending EXCEPT ![conn[r]] = FALSE]
     \/ ctxDone[r] /\ UNCHANGED <<drained, pending>>
  /\ UNCHANGED <<conn, ctxDone, poolVars, pnpVars, late>>

\* usbResponseBodyWrapper.Close: release at once, or leave the rest of the
\* response to a goroutine and return from the handler.
CloseBody(r) ==
  /\ pc[r] = "close"
  /\ pc' = [pc EXCEPT ![r] = IF drained[r] THEN "put" ELSE "drain"]
  /\ UNCHANGED <<conn, drained, ctxDone, poolVars, pnpVars, pending, late>>

\* The goroutine discards the rest of the response.
Drain(r) ==
  /\ pc[r] = "drain"
  /\ pc' = [pc EXCEPT ![r] = "put"]
  /\ pending' = [pending EXCEPT ![conn[r]] = FALSE]
  /\ UNCHANGED <<conn, drained, ctxDone, poolVars, pnpVars, late>>

\* Mutant: the connection stays with the request.
putKeepsConn(r) ==
  /\ pc[r] = "put"
  /\ pc' = [pc EXCEPT ![r] = "signal"]
  /\ connPool' = Append(connPool, conn[r])
  /\ UNCHANGED <<conn, drained, ctxDone, connReleased, shutdown, pnpVars,
                 pending, late>>

\* usbConn.put sends the connection to the pool ...
put(r) ==
  /\ pc[r] = "put"
  /\ Len(connPool) < Cardinality(Conn)
  /\ pc' = [pc EXCEPT ![r] = "signal"]
  /\ connPool' = Append(connPool, conn[r])
  /\ conn' = [conn EXCEPT ![r] = NoConn]
  /\ UNCHANGED <<drained, ctxDone, connReleased, shutdown, pnpVars, pending,
                 late>>

\* Mutant: no token is left.
SignalReleasedLost(r) ==
  /\ pc[r] = "signal"
  /\ pc' = [pc EXCEPT ![r] = "idle"]
  /\ UNCHANGED <<conn, drained, ctxDone, poolVars, pnpVars, pending, late>>

\* ... and then leaves a token in connReleased, unless there is one.
SignalReleased(r) ==
  /\ pc[r] = "signal"
  /\ pc' = [pc EXCEPT ![r] = "idle"]
  /\ connReleased' = 1
  /\ UNCHANGED <<conn, drained, ctxDone, connPool, shutdown, pnpVars, pending,
                 late>>

-----------------------------------------------------------------------------
(* The PnP thread.  It takes the device down when the device is removed    *)
(* (Device.Close), when the daemon terminates (Device.Shutdown, then       *)
(* Device.Close) and when initialization has failed (the ERROR path of     *)
(* NewDevice, where the argument of UsbTransport.Close varies).            *)

\* HTTPProxy.Close stops the server.  It does not wait for handlers.
HTTPProxyClose(step, rst) ==
  /\ pnp = "serve"
  /\ proxy' = FALSE
  /\ pnp' = step
  /\ reset' = rst
  /\ UNCHANGED <<reqVars, poolVars, final, usb, pending, late>>

DeviceRemoved    == usb = "gone" /\ HTTPProxyClose("close", FALSE)
DeviceTerminated == HTTPProxyClose("shutdown", FALSE)
DeviceInitFailed == \E rst \in BOOLEAN : HTTPProxyClose("close", rst)

\* Mutant: the device is reset only on demand of the caller.
CloseNoReset ==
  /\ pnp = "close"
  /\ usb' = IF usb = "open" /\ reset THEN "reset" ELSE usb
  /\ pnp' = "shutdown"
  /\ final' = TRUE
  /\ UNCHANGED <<reqVars, poolVars, proxy, reset, pending, late>>

\* UsbTransport.Close: reset the device if a request still uses it.
Close ==
  /\ pnp = "close"
  /\ usb' = IF usb = "open" /\ (connInUse > 0 \/ reset) THEN "reset" ELSE usb
  /\ pnp' = "shutdown"
  /\ final' = TRUE
  /\ UNCHANGED <<reqVars, poolVars, proxy, reset, pending, late>>

\* Shutdown begins with closeShutdownChan.
closeShutdownChan ==
  /\ pnp = "shutdown"
  /\ shutdown' = TRUE
  /\ pnp' = "loop"
  /\ UNCHANGED <<reqVars, connPool, connReleased, proxy, final, reset, usb,
                 pending, late>>

\* Where Shutdown returns to.
ShutdownReturn == IF final THEN "destroy" ELSE "close"

\* One turn of the loop of Shutdown.
ShutdownLoop ==
  /\ pnp = "loop"
  /\ pnp' = IF connInUse = 0 THEN ShutdownReturn ELSE "wait"
  /\ UNCHANGED <<reqVars, poolVars, proxy, final, reset, usb, pending, late>>

ShutdownWake ==
  /\ pnp = "wait"
  /\ connReleased = 1
  /\ connReleased' = 0
  /\ pnp' = "loop"
  /\ UNCHANGED <<reqVars, connPool, shutdown, proxy, final, reset, usb,
                 pending, late>>

\* Mutant: the context of Close expires as well.
ShutdownExpireAlways ==
  /\ pnp = "wait"
  /\ pnp' = ShutdownReturn
  /\ UNCHANGED <<reqVars, poolVars, proxy, final, reset, usb, pending, late>>

\* The context of a graceful Shutdown expires; the one of Close never does.
ShutdownExpire ==
  /\ pnp = "wait"
  /\ ~final
  /\ pnp' = ShutdownReturn
  /\ UNCHANGED <<reqVars, poolVars, proxy, final, reset, usb, pending, late>>

\* Every connection is destroyed and the USB device closed.
Destroy ==
  /\ pnp = "destroy"
  /\ usb' = "closed"
  /\ pnp' = "closed"
  /\ UNCHANGED <<reqVars, poolVars, proxy, final, reset, pending, late>>

\* The device is unplugged.
Unplug ==
  /\ usb = "open"
  /\ usb' = "gone"
  /\ UNCHANGED <<reqVars, poolVars, proxy, pnp, final, reset, pending, late>>

-----------------------------------------------------------------------------

\* What a request does on its own, without waiting for USB or for the client.
RequestStep(r) ==
  usbConnGet(r) \/ CloseBody(r) \/ put(r) \/ SignalReleased(r)

\* What a request does when a USB transfer ends.
UsbStep(r) == WriteRequest(r) \/ ReadResponse(r) \/ CopyBody(r) \/ Drain(r)

RequestNext(r) ==
  \/ ServeHTTP(r)
  \/ ClientGone(r)
  \/ Prefetch(r)
  \/ RequestStep(r)
  \/ UsbStep(r)

ShutdownStep ==
  \/ Close
  \/ closeShutdownChan
  \/ ShutdownLoop
  \/ ShutdownWake
  \/ Destroy

Next ==
  \/ \E r \in Request : RequestNext(r)
  \/ DeviceRemoved
  \/ DeviceTerminated
  \/ DeviceInitFailed
  \/ ShutdownStep
  \/ ShutdownExpire
  \/ Unplug

(***************************************************************************)
(* The scheduler runs every goroutine that can run and the context of a    *)
(* graceful Shutdown expires.  A USB transfer is only sure to end once the *)
(* device has been reset or unplugged: a device that hangs may keep it     *)
(* pending forever.                                                        *)
(***************************************************************************)
Fairness ==
  /\ \A r \in Request :
       /\ WF_vars(RequestStep(r))
       /\ WF_vars(usb # "open" /\ UsbStep(r))
  /\ WF_vars(ShutdownStep)
  /\ WF_vars(ShutdownExpire)

Spec == Init /\ [][Next]_vars /\ Fairness

-----------------------------------------------------------------------------
(* Properties.                                                             *)

\* Where a request goroutine owns a connection.
Holding == {"write", "read", "copy", "close", "drain", "put"}

\* Every connection is either in the pool, once, or owned by exactly one
\* request, from usbConnGet to put: no error path of RoundTripWithSession
\* and no way to close a response body leaks it or returns it twice.
ConnAccounting ==
  /\ IsInjective(connPool)
  /\ \A r \in Request : (conn[r] # NoConn) <=> (pc[r] \in Holding)
  /\ \A r \in Request : conn[r] \notin Range(connPool)
  /\ \A r, s \in Request : conn[r] = conn[s] /\ conn[r] # NoConn => r = s
  /\ \A c \in Conn : c \in Range(connPool) \/ \E r \in Request : conn[r] = c

\* usbResponseBodyWrapper "guarantees that connection will be always drained
\* before closed": no connection of the pool has a response on it that was
\* begun and then left unread, even when the client went away in the middle
\* of it.  (After an error of USB the rest of a response is given up.)
PoolDrained == \A c \in Range(connPool) : ~pending[c]

\* When Shutdown of Close has seen connInUse() = 0, every request that still
\* owns a connection got it after the shutdown channel was closed.
EarlyHolderSafe ==
  pnp \in {"destroy", "closed"} =>
    \A r \in Request : conn[r] # NoConn => late[r]

\* The PnP thread never sleeps in Shutdown with all connections back in the
\* pool and nobody about to wake it: the loop reads connInUse() before it
\* waits, and put returns the connection before it leaves the token.
ReleaseSignalled ==
  pnp = "wait" /\ connInUse = 0 =>
    connReleased = 1 \/ \E r \in Request : pc[r] = "signal"

\* The inductive invariant.  The two last conjuncts are what PoolDrained and
\* EarlyHolderSafe need: an unread response belongs to the request that is
\* going to read it, and the shutdown channel is closed before the loop.
TransportInv ==
  /\ TypeOK
  /\ ConnAccounting
  /\ PoolDrained
  /\ EarlyHolderSafe
  /\ ReleaseSignalled
  /\ \A r \in Request : conn[r] # NoConn /\ pending[conn[r]] =>
       pc[r] \in {"copy", "close", "drain"} /\ ~drained[r]
  /\ pnp \in {"loop", "wait", "destroy", "closed"} => shutdown

\* The PnP thread comes back.  A graceful Shutdown ends, by its context at the
\* latest, even when the device hangs with a request in progress.  Close, which
\* has no deadline, ends the requests that it finds in progress, for it resets
\* the device, and itself ends when the device has been reset or unplugged.
\* (Without a reset a request that gets its connection later may hold it up:
\* see NoUseAfterClose.)
CloseTerminates ==
  /\ (pnp = "shutdown" /\ ~final) ~> (pnp = "close")
  /\ \A r \in Request : (pnp = "close" /\ conn[r] # NoConn) ~> (conn[r] = NoConn)
  /\ (final /\ usb # "open") ~> (pnp = "closed")

\* The pool implements the leases it promises.
CL == INSTANCE ConnLease WITH
        holders  <- [c \in Conn |-> {r \in Request : conn[r] = c}],
        quiesced <- pnp \in {"destroy", "closed"}

LeaseSpec == CL!Spec

\* The comment in UsbTransport.Close promises to "wait until all connections
\* become inactive" before connections are destroyed and the device closed.
NoUseAfterClose ==
  pnp = "closed" => \A r \in Request : conn[r] = NoConn
=============================================================================
