----------------------------- MODULE DeviceInit -----------------------------
(***************************************************************************)
(* The life of one Device (device.go): NewUsbTransport and NewDevice with  *)
(* all their error paths, the requests it serves, Device.Shutdown and      *)
(* Device.Close.  The pool behind it is the subject of UsbTransport; here  *)
(* a connection is only counted.                                           *)
(*                                                                         *)
(* NewDevice runs in the PnP thread.  What runs beside it are goroutines   *)
(* that drain the responses NewDevice did not read to the end, each under  *)
(* the deadline of its request.                                            *)
(***************************************************************************)
EXTENDS Naturals

CONSTANTS
  NumIf,    \* number of IPP-over-USB interfaces of the device, at least 1
  MaxConn,  \* bound on the usb-max-interfaces quirk
  MaxWait   \* bound on client requests that wait for a connection

ASSUME NumIfAssumption == NumIf \in Nat \ {0} /\ MaxConn \in Nat /\ MaxWait \in Nat

VARIABLES
  pc,             \* where the PnP thread is
  caps,           \* capabilities and quirks of the device
  err,            \* the error of NewDevice
  handle,         \* the USB device handle
  doneHardReset,  \* transport.doneHardReset
  hardResets,     \* history: hard resets made by NewUsbTransport
  missed,         \* history: the device did not report its strings
  maxconn,        \* the local variable maxconn
  pool,           \* the length of connList, which is the size of connPool
  conns,          \* connections of connList that are open
  proxy,          \* the HTTP proxy and its listener
  published,      \* the DNS-SD publisher runs
  timeout,        \* transport.timeout is not zero
  timeoutExpired, \* transport.timeoutExpired
  httpstatus,     \* whether the last query got an HTTP error status or EOF
  services,       \* the services found
  drains,         \* responses being drained under a deadline
  waiting,        \* client requests the proxy let in, before usbConnGet returns
  busy,           \* client requests that hold a connection
  lost            \* history: what timed out since the last reset

usbVars  == <<handle, doneHardReset, hardResets, missed, maxconn, pool, conns>>
srvVars  == <<proxy, published>>
httpVars == <<timeout, timeoutExpired, httpstatus, services>>
reqVars  == <<waiting, busy>>
vars     == <<pc, caps, err, usbVars, srvVars, httpVars, drains, reqVars, lost>>

PC == {"open", "hwid", "info", "model", "configure", "connect", "listen",
       "ipp", "fax", "ippcheck", "escl", "esclcheck", "enable", "serving",
       "proxyclose", "close", "wait", "resetwait", "destroy", "done"}

TypeOK ==
  /\ pc \in PC
  /\ caps \in [print : BOOLEAN, scan : BOOLEAN, fax : BOOLEAN,
               retryPartial : BOOLEAN, maxInterfaces : 0..MaxConn]
  /\ err \in {"nil", "ErrBlackListed", "ErrUnusable", "ErrPartialInit",
              "ErrInitTimedOut", "other"}
  /\ handle \in {"none", "open", "closed"}
  /\ doneHardReset \in BOOLEAN /\ missed \in BOOLEAN /\ published \in BOOLEAN
  /\ timeout \in BOOLEAN /\ timeoutExpired \in BOOLEAN /\ httpstatus \in BOOLEAN
  /\ hardResets \in 0..2
  /\ maxconn \in Nat
  /\ pool \in 0..NumIf /\ conns \in 0..NumIf
  /\ proxy \in {"none", "disabled", "enabled", "closed"}
  /\ services \subseteq {"ipp", "escl"}
  /\ drains \in 0..NumIf
  /\ waiting \in 0..MaxWait
  /\ busy \in 0..NumIf
  /\ drains + busy <= pool
  /\ lost \subseteq {"query", "drain"}

Init ==
  /\ pc = "open"
  /\ caps \in [print : BOOLEAN, scan : BOOLEAN, fax : BOOLEAN,
               retryPartial : BOOLEAN, maxInterfaces : 0..MaxConn]
  /\ err = "nil"
  /\ handle = "none"
  /\ doneHardReset = FALSE
  /\ hardResets = 0
  /\ missed = FALSE
  /\ maxconn = 0
  /\ pool = 0 /\ conns = 0
  /\ proxy = "none"
  /\ published = FALSE
  /\ timeout = FALSE
  /\ timeoutExpired = FALSE
  /\ httpstatus = FALSE
  /\ services = {}
  /\ drains = 0
  /\ waiting = 0 /\ busy = 0
  /\ lost = {}

connInUse == drains + busy

-----------------------------------------------------------------------------
(* NewUsbTransport.                                                        *)

\* A failure before connections are made: the handle is closed, and NewDevice
\* has nothing else to clean up.
TransportFails(e) ==
  /\ err' = e
  /\ pc' = "done"
  /\ handle' = "closed"
  /\ conns' = 0

UsbOpenDevice ==
  /\ pc = "open"
  /\ \/ handle' = "open" /\ pc' = "hwid" /\ UNCHANGED err
     \/ err' = "other" /\ pc' = "done" /\ UNCHANGED handle
  /\ UNCHANGED <<caps, doneHardReset, hardResets, missed, maxconn, pool, conns,
                 srvVars, httpVars, drains, reqVars, lost>>

hardReset(force) ==
  IF ~doneHardReset \/ force
  THEN hardResets' = hardResets + 1 /\ doneHardReset' = TRUE
  ELSE UNCHANGED <<hardResets, doneHardReset>>

\* The blacklist and init-reset quirks by hardware ID, then by model name.
ApplyQuirks(from, to) ==
  /\ pc = from
  /\ \/ TransportFails("ErrBlackListed") /\ UNCHANGED <<hardResets, doneHardReset>>
     \/ /\ \/ hardReset(FALSE)
           \/ UNCHANGED <<hardResets, doneHardReset>>
        /\ pc' = to
        /\ UNCHANGED <<err, handle, conns>>
  /\ UNCHANGED <<caps, missed, maxconn, pool, srvVars, httpVars, drains, reqVars, lost>>

\* UsbDeviceInfo, with a forced reset and a second attempt if strings are
\* missing.
UsbDeviceInfo ==
  /\ pc = "info"
  /\ \/ /\ TransportFails("other")
        /\ UNCHANGED <<hardResets, doneHardReset, missed>>
     \/ /\ pc' = "model"
        /\ UNCHANGED <<err, handle, conns, hardResets, doneHardReset, missed>>
     \/ /\ hardReset(TRUE)
        /\ missed' = TRUE
        /\ \/ TransportFails("other")
           \/ pc' = "model" /\ UNCHANGED <<err, handle, conns>>
  /\ UNCHANGED <<caps, maxconn, pool, srvVars, httpVars, drains, reqVars, lost>>

\* dev.Configure.  NumIf + 1 stands for the MaxUint32 of "no limit".
Configure ==
  /\ pc = "configure"
  /\ \/ TransportFails("other") /\ UNCHANGED maxconn
     \/ /\ maxconn' = IF caps.maxInterfaces = 0 THEN NumIf + 1
                                                ELSE caps.maxInterfaces
        /\ pc' = "connect"
        /\ UNCHANGED <<err, handle, conns>>
  /\ UNCHANGED <<caps, doneHardReset, hardResets, missed, pool, srvVars, httpVars,
                 drains, reqVars, lost>>

\* openUsbConn succeeds: the interface is claimed, and its soft reset, whose
\* errors are ignored, has been tried.
openUsbConn == conns' = conns + 1 /\ pool' = pool + 1

\* Mutant: the limit is looked at before it is decremented.
OpenUsbConnLimit ==
  /\ pc = "connect"
  /\ \/ TransportFails("other") /\ UNCHANGED <<maxconn, pool>>
     \/ /\ openUsbConn
        /\ maxconn' = IF maxconn = 0 THEN 0 ELSE maxconn - 1
        /\ pc' = IF maxconn = 0 \/ conns' = NumIf THEN "listen" ELSE "connect"
        /\ UNCHANGED <<err, handle>>
  /\ UNCHANGED <<caps, doneHardReset, hardResets, missed, srvVars, httpVars,
                 drains, reqVars, lost>>

\* Mutant: connections that were opened are not destroyed after a failure.
OpenUsbConnLeak ==
  /\ pc = "connect"
  /\ \/ /\ err' = "other"
        /\ pc' = "done"
        /\ handle' = "closed"
        /\ UNCHANGED <<conns, maxconn, pool>>
     \/ /\ openUsbConn
        /\ maxconn' = maxconn - 1
        /\ pc' = IF maxconn' = 0 \/ conns' = NumIf THEN "listen" ELSE "connect"
        /\ UNCHANGED <<err, handle>>
  /\ UNCHANGED <<caps, doneHardReset, hardResets, missed, srvVars, httpVars,
                 drains, reqVars, lost>>

\* One turn of the loop over the interfaces.
OpenUsbConn ==
  /\ pc = "connect"
  /\ \/ TransportFails("other") /\ UNCHANGED <<maxconn, pool>>
     \/ /\ openUsbConn
        /\ maxconn' = maxconn - 1
        /\ pc' = IF maxconn' = 0 \/ conns' = NumIf THEN "listen" ELSE "connect"
        /\ UNCHANGED <<err, handle>>
  /\ UNCHANGED <<caps, doneHardReset, hardResets, missed, srvVars, httpVars,
                 drains, reqVars, lost>>

-----------------------------------------------------------------------------
(* NewDevice.                                                              *)

\* goto ERROR
Fail(e) == err' = e /\ pc' = "proxyclose"

\* LoadDevState, HTTPListen, SetTimeout and NewHTTPProxy.
Listen ==
  /\ pc = "listen"
  /\ \/ Fail("other") /\ UNCHANGED <<proxy, timeout>>
     \/ /\ proxy' = "disabled"
        /\ timeout' = TRUE
        /\ pc' = "ipp"
        /\ UNCHANGED err
  /\ UNCHANGED <<caps, usbVars, published, timeoutExpired, httpstatus,
                 services, drains, reqVars, lost>>

\* What a query of NewDevice may come to: a good answer; an error that leaves
\* nothing on the wire; the io.EOF of zlp-recv-hack; an HTTP error status,
\* whose body is left to a goroutine; a timeout.
Query(outcome) ==
  /\ connInUse < pool
  /\ httpstatus' = (outcome \in {"eof", "status"})
  /\ drains' = IF outcome = "status" THEN drains + 1 ELSE drains
  /\ timeoutExpired' = (timeoutExpired \/ outcome = "timeout")
  /\ lost' = IF outcome = "timeout" THEN lost \cup {"query"} ELSE lost

Outcome == {"ok", "error", "eof", "status", "timeout"}

\* IppService up to its first answer.
IppQuery ==
  /\ pc = "ipp"
  /\ \E outcome \in Outcome :
       /\ Query(outcome)
       /\ services' = IF outcome = "ok" THEN services \cup {"ipp"} ELSE services
       /\ pc' = IF outcome = "ok" /\ caps.fax THEN "fax" ELSE "ippcheck"
  /\ UNCHANGED <<caps, err, usbVars, srvVars, timeout, reqVars>>

\* The probe for fax: its errors are ignored.
FaxProbe ==
  /\ pc = "fax"
  /\ \E outcome \in Outcome : Query(outcome)
  /\ pc' = "ippcheck"
  /\ UNCHANGED <<caps, err, usbVars, srvVars, timeout, services, reqVars>>

EsclQuery ==
  /\ pc = "escl"
  /\ \E outcome \in Outcome :
       /\ Query(outcome)
       /\ services' = IF outcome = "ok" THEN services \cup {"escl"} ELSE services
  /\ pc' = "esclcheck"
  /\ UNCHANGED <<caps, err, usbVars, srvVars, timeout, reqVars>>

\* Mutant: a failed query is looked at, not the timeouts of the transport.
CheckQueryUnlessFound(svc, cap, to) ==
  IF svc \notin services /\ httpstatus /\ cap /\ caps.retryPartial
  THEN Fail("ErrPartialInit")
  ELSE IF svc \notin services /\ timeoutExpired THEN Fail("ErrInitTimedOut")
  ELSE pc' = to /\ UNCHANGED err

\* The checks that follow a query: an incomplete answer is retried if quirks
\* say so, and a timeout of any request so far is fatal.
CheckQuery(svc, cap, to) ==
  IF svc \notin services /\ httpstatus /\ cap /\ caps.retryPartial
  THEN Fail("ErrPartialInit")
  ELSE IF timeoutExpired THEN Fail("ErrInitTimedOut")
  ELSE pc' = to /\ UNCHANGED err

\* Between the two queries the DNS-SD name is saved.
IppCheck ==
  /\ pc = "ippcheck"
  /\ CheckQuery("ipp", caps.print, "escl")
  /\ UNCHANGED <<caps, usbVars, srvVars, httpVars, drains, reqVars, lost>>

EsclCheck ==
  /\ pc = "esclcheck"
  /\ CheckQuery("escl", caps.scan, "enable")
  /\ UNCHANGED <<caps, usbVars, srvVars, httpVars, drains, reqVars, lost>>

\* A device without services is unusable.  Otherwise the deadline is dropped,
\* the proxy enabled, and services are published if DNS-SD is configured.
Enable ==
  /\ pc = "enable"
  /\ \/ services = {} /\ Fail("ErrUnusable")
        /\ UNCHANGED <<timeout, proxy, published>>
     \/ /\ services # {}
        /\ timeout' = FALSE
        /\ proxy' = "enabled"
        /\ published' \in BOOLEAN
        /\ pc' = "serving"
        /\ UNCHANGED err
  /\ UNCHANGED <<caps, usbVars, timeoutExpired, httpstatus, services, drains,
                 reqVars, lost>>

\* Mutant: a drain has no deadline, and the device says nothing.
DrainEndHangs == FALSE

\* A goroutine has drained its response, or gives up at its deadline.
DrainEnd ==
  /\ drains > 0
  /\ drains' = drains - 1
  /\ \/ UNCHANGED <<timeoutExpired, lost>>
     \/ /\ handle = "open"
        /\ timeoutExpired' = TRUE
        /\ lost' = lost \cup {"drain"}
  /\ UNCHANGED <<pc, caps, err, usbVars, srvVars, timeout, httpstatus, services,
                 reqVars>>

-----------------------------------------------------------------------------
(* Requests, and the end of the device.                                    *)

\* HTTPProxy.ServeHTTP finds the proxy enabled and passes the request on.
RequestAccepted ==
  /\ proxy = "enabled"
  /\ waiting < MaxWait
  /\ waiting' = waiting + 1
  /\ UNCHANGED <<pc, caps, err, usbVars, srvVars, httpVars, drains, busy, lost>>

\* usbConnGet takes a connection from the pool.  The proxy may have been closed
\* since: select may prefer the pool to the closed channel of Shutdown, and
\* connections that have been destroyed are still in the pool.
RequestBegin ==
  /\ waiting > 0
  /\ connInUse < pool
  /\ waiting' = waiting - 1
  /\ busy' = busy + 1
  /\ UNCHANGED <<pc, caps, err, usbVars, srvVars, httpVars, drains, lost>>

\* ... or returns ErrShutdown, or the error of the context of the request.
RequestGivesUp ==
  /\ waiting > 0
  /\ waiting' = waiting - 1
  /\ UNCHANGED <<pc, caps, err, usbVars, srvVars, httpVars, drains, busy, lost>>

\* The response has been read, or its body drained, and the connection is back.
RequestEnd ==
  /\ busy > 0
  /\ busy' = busy - 1
  /\ UNCHANGED <<pc, caps, err, usbVars, srvVars, httpVars, drains, waiting, lost>>

\* Device.Shutdown, or Device.Close, stops the publisher and closes the proxy.
\* Shutdown then waits for requests until its context expires, which leaves
\* Close to find some in progress or none.
Unpublish ==
  /\ pc = "serving"
  /\ published' = FALSE
  /\ pc' = "proxyclose"
  /\ UNCHANGED <<caps, err, usbVars, proxy, httpVars, drains, reqVars, lost>>

\* HTTPProxy.Close closes the listener too.
ProxyClose ==
  /\ pc = "proxyclose"
  /\ proxy' = IF proxy = "none" THEN "none" ELSE "closed"
  /\ pc' = "close"
  /\ UNCHANGED <<caps, err, usbVars, published, httpVars, drains, reqVars, lost>>

\* The argument of UsbTransport.Close: only the ERROR path may ask for a reset.
NeedsReset == err \notin {"nil", "ErrUnusable", "ErrPartialInit"}

\* UsbTransport.Close resets the device if a request is in progress or the
\* caller asks for it, and calls Shutdown with a context that never expires.
TransportClose ==
  /\ pc = "close"
  /\ IF connInUse > 0 \/ NeedsReset
     THEN lost' = {} /\ pc' = "resetwait"
     ELSE pc' = "wait" /\ UNCHANGED lost
  /\ UNCHANGED <<caps, err, usbVars, srvVars, httpVars, drains, reqVars>>

\* UsbTransport.Shutdown returns when it has seen the pool complete.
TransportShutdown ==
  /\ pc \in {"wait", "resetwait"}
  /\ connInUse = 0
  /\ pc' = "destroy"
  /\ UNCHANGED <<caps, err, usbVars, srvVars, httpVars, drains, reqVars, lost>>

\* Connections are destroyed and the handle is closed, even if a late request
\* has taken a connection in the meantime.
TransportDestroy ==
  /\ pc = "destroy"
  /\ handle' = "closed"
  /\ conns' = 0
  /\ pc' = "done"
  /\ UNCHANGED <<caps, err, doneHardReset, hardResets, missed, maxconn, pool,
                 srvVars, httpVars, drains, reqVars, lost>>

-----------------------------------------------------------------------------

InitStep ==
  \/ UsbOpenDevice
  \/ ApplyQuirks("hwid", "info")
  \/ UsbDeviceInfo
  \/ ApplyQuirks("model", "configure")
  \/ Configure
  \/ OpenUsbConn
  \/ Listen
  \/ IppQuery \/ FaxProbe \/ IppCheck
  \/ EsclQuery \/ EsclCheck
  \/ Enable

CloseStep ==
  ProxyClose \/ TransportClose \/ TransportShutdown \/ TransportDestroy

Next ==
  \/ InitStep
  \/ CloseStep
  \/ Unpublish
  \/ DrainEnd
  \/ RequestAccepted
  \/ RequestBegin
  \/ RequestGivesUp
  \/ RequestEnd

(***************************************************************************)
(* The PnP thread runs, and every request of NewDevice has a deadline, so  *)
(* that it ends.  Client requests have none: one that uses the device is   *)
(* sure to end only once UsbTransport.Close has reset the device.          *)
(***************************************************************************)
Fairness ==
  /\ WF_vars(InitStep)
  /\ WF_vars(CloseStep)
  /\ WF_vars(DrainEnd)
  /\ WF_vars(pc = "resetwait" /\ RequestEnd)

Spec == Init /\ [][Next]_vars /\ Fairness

-----------------------------------------------------------------------------
(* Properties.                                                             *)

\* Variables are well typed, and when NewDevice has failed, or the device has
\* been closed, nothing it opened is left: no handle, no connection, no
\* listener, no publisher, and no response of NewDevice that is being drained.
\* Nothing is said of client requests: one that was let in before the proxy
\* was closed may still take a connection, destroyed or not.
NothingLeft ==
  /\ TypeOK
  /\ pc = "done" =>
       /\ handle # "open"
       /\ conns = 0 /\ drains = 0
       /\ proxy \in {"none", "closed"}
       /\ ~published

\* A device that serves has everything it needs: an open handle, as many
\* connections as interfaces, or as usb-max-interfaces allows, and a service
\* to offer, after one hard reset at most, or two if it did not report its
\* strings.  Client requests never get the deadline of initialization, and
\* a service is advertised only while the proxy answers.
ServingSound ==
  /\ pc = "serving" =>
       /\ handle = "open" /\ err = "nil"
       /\ conns = IF caps.maxInterfaces \in 1..NumIf THEN caps.maxInterfaces
                                                     ELSE NumIf
       /\ services # {}
       /\ hardResets > 1 => missed
  /\ proxy = "enabled" => ~timeout
  /\ published => proxy = "enabled" /\ handle = "open"

\* A timeout of a query of NewDevice, the ignored fax probe included, keeps
\* the device from serving and has the device reset before NewDevice returns.
QueryTimeoutCaught ==
  "query" \in lost => pc \notin {"enable", "serving", "done"}

\* NewDevice returns: not even a device with a single connection, whose
\* response is being drained, blocks it.  And closing a device ends, with one
\* exception: when UsbTransport.Close found all connections in the pool and did
\* not reset the device, a late request may take one, and Close waits for it as
\* long as the device keeps it waiting.
DeviceEnds ==
  /\ <>(pc \in {"serving", "done"})
  /\ (pc = "proxyclose") ~> (pc = "done" \/ [](pc = "wait" /\ busy > 0))

\* The comment of SetTimeout: "if some requests were failed due to timeout,
\* device reset is required, because at this case synchronization with device
\* will probably be lost".  It does not hold: a response that is drained in
\* the background may time out after the last look at TimeoutExpired.
TimeoutNeedsReset == pc = "serving" => lost = {}
=============================================================================
