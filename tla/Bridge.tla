------------------------------- MODULE Bridge -------------------------------
(***************************************************************************)
(* Bridge mode (RunBridge): one device behind one HTTP proxy, a caller     *)
(* that talks to it through stdin, stdout and the exit code, and four      *)
(* causes of shutdown that race with each other and with the requests:     *)
(* a signal, the end of stdin, an idle timer and the loss of the device.   *)
(* The transport is UsbTransport; here a request waits for a connection,   *)
(* holds one or does not.                                                  *)
(***************************************************************************)
EXTENDS Naturals, FiniteSets

CONSTANTS
  Request,  \* HTTP requests
  MaxConn   \* connections of the transport

\* The goroutines that send to the shutdown channel once.
Cause == {"signal", "stdin", "timer"}

VARIABLES
  main,                \* where RunBridge is
  handlerSet,          \* proxy.onDisconnect is not nil
  disconnected,        \* proxy.disconnected
  shutdown,            \* contents of the channel shutdown: who sent, or "empty"
  deviceDisconnected,  \* the channel deviceDisconnected is not empty
  armed,               \* causes of shutdown that have not fired
  req,                 \* where ServeHTTP is, per request
  plugged,             \* the device is there
  usbReset,            \* transport.Close has reset the device
  woken,               \* history: who woke RunBridge up
  forced,              \* history: proxy.Shutdown ran into its timeout
  missed,              \* history: the loss of the device met no handler
  exitCode

vars == <<main, handlerSet, disconnected, shutdown, deviceDisconnected, armed,
          req, plugged, usbReset, woken, forced, missed, exitCode>>

Sender == Cause \cup {"disconnect"}

TypeOK ==
  /\ main \in {"enabled", "wait", "drain", "close", "loop", "destroy", "exit"}
  /\ shutdown \in Sender \cup {"empty"}
  /\ woken \in Sender \cup {"nobody"}
  /\ armed \subseteq Cause
  /\ req \in [Request -> {"none", "get", "io", "error", "notify", "shutdown", "body",
                          "drain", "done"}]
  /\ usbReset \in BOOLEAN
  /\ handlerSet \in BOOLEAN /\ disconnected \in BOOLEAN
  /\ deviceDisconnected \in BOOLEAN /\ plugged \in BOOLEAN
  /\ forced \in BOOLEAN /\ missed \in BOOLEAN
  /\ exitCode \in {0, 2}

\* RunBridge has enabled the proxy, and not yet set handlers.
Init ==
  /\ main = "enabled"
  /\ handlerSet = FALSE
  /\ disconnected = FALSE
  /\ shutdown = "empty"
  /\ deviceDisconnected = FALSE
  /\ armed = {}
  /\ req = [r \in Request |-> "none"]
  /\ plugged = TRUE
  /\ usbReset = FALSE
  /\ woken = "nobody"
  /\ forced = FALSE
  /\ missed = FALSE
  /\ exitCode = 0

Running == main # "exit"

\* The requests that hold a connection; connInUse() is their number.
InUse == {r \in Request : req[r] \in {"io", "body", "drain"}}

\* Non-blocking send to a channel of capacity one.
SendShutdown(who) == shutdown' = IF shutdown = "empty" THEN who ELSE shutdown

-----------------------------------------------------------------------------
(* RunBridge.                                                              *)

\* SetDisconnectHandler, the idle timer if there is one, READY, and the
\* goroutines that wait for a signal and for the end of stdin.
SetHandlers ==
  /\ main = "enabled"
  /\ handlerSet' = TRUE
  /\ armed' \in {Cause, Cause \ {"timer"}}
  /\ main' = "wait"
  /\ UNCHANGED <<disconnected, shutdown, deviceDisconnected, req, plugged, usbReset,
                 woken, forced, missed, exitCode>>

\* <-shutdown; proxy.Shutdown begins.
Wake ==
  /\ main = "wait"
  /\ shutdown # "empty"
  /\ woken' = shutdown
  /\ shutdown' = "empty"
  /\ main' = "drain"
  /\ armed' = armed \ {"timer"}
  /\ UNCHANGED <<handlerSet, disconnected, deviceDisconnected, req, plugged,
                 usbReset, forced, missed, exitCode>>

\* proxy.Shutdown returns: when all handlers have returned, or after a timeout.
ProxyShutdown ==
  /\ main = "drain"
  /\ \/ /\ \A r \in Request : req[r] \in {"none", "drain", "done"}
        /\ UNCHANGED forced
     \/ forced' = TRUE
  /\ main' = "close"
  /\ UNCHANGED <<handlerSet, disconnected, shutdown, deviceDisconnected, armed,
                 req, plugged, usbReset, woken, missed, exitCode>>

\* transport.Close(false) resets the device if a connection is in use, and
\* closes the shutdown channel.
TransportClose ==
  /\ main = "close"
  /\ usbReset' = (InUse # {})
  /\ main' = "loop"
  /\ UNCHANGED <<handlerSet, disconnected, shutdown, deviceDisconnected, armed,
                 req, plugged, woken, forced, missed, exitCode>>

\* Its Shutdown returns when it sees connInUse() = 0; a request may take a
\* connection afterwards.
TransportShutdown ==
  /\ main = "loop"
  /\ InUse = {}
  /\ main' = "destroy"
  /\ UNCHANGED <<handlerSet, disconnected, shutdown, deviceDisconnected, armed,
                 req, plugged, usbReset, woken, forced, missed, exitCode>>

\* The choice of the exit code.
Exit ==
  /\ main = "destroy"
  /\ exitCode' = IF deviceDisconnected THEN 2 ELSE 0
  /\ main' = "exit"
  /\ UNCHANGED <<handlerSet, disconnected, shutdown, deviceDisconnected, armed,
                 req, plugged, usbReset, woken, forced, missed>>

\* A signal, the end of stdin, or the idle timer.
Fire(c) ==
  /\ Running
  /\ c \in armed
  /\ armed' = armed \ {c}
  /\ SendShutdown(c)
  /\ UNCHANGED <<main, handlerSet, disconnected, deviceDisconnected, req,
                 plugged, usbReset, woken, forced, missed, exitCode>>

Unplug ==
  /\ plugged
  /\ plugged' = FALSE
  /\ UNCHANGED <<main, handlerSet, disconnected, shutdown, deviceDisconnected,
                 armed, req, usbReset, woken, forced, missed, exitCode>>

-----------------------------------------------------------------------------
(* ServeHTTP.                                                              *)

notReq == <<main, handlerSet, disconnected, shutdown, deviceDisconnected, armed,
            plugged, usbReset, woken, forced, missed, exitCode>>

reqStep(r, from, to) == Running /\ req[r] = from /\ req' = [req EXCEPT ![r] = to]

RequestBegin(r) ==
  /\ main \in {"enabled", "wait"}
  /\ reqStep(r, "none", "get")
  /\ UNCHANGED notReq

\* usbConnGet: a connection, also after shutdown, or ErrShutdown.
ConnGet(r) ==
  /\ \/ Cardinality(InUse) < MaxConn /\ reqStep(r, "get", "io")
     \/ main \in {"loop", "destroy"} /\ reqStep(r, "get", "done")
  /\ UNCHANGED notReq

\* The client does not wait for a connection.
ClientGone(r) ==
  /\ reqStep(r, "get", "done")
  /\ UNCHANGED notReq

\* RoundTripWithSession returns: a response, a lost device, or another error.
RoundTrip(r) ==
  /\ \/ reqStep(r, "io", "body")
     \/ ~plugged /\ reqStep(r, "io", "error")
     \/ reqStep(r, "io", "done")
  /\ UNCHANGED notReq

\* The body is copied, and closed; an error is only logged.  If the client has
\* gone, a goroutine reads the rest of the response ...
CopyBody(r) ==
  /\ reqStep(r, "body", "done") \/ reqStep(r, "body", "drain")
  /\ UNCHANGED notReq

\* ... and then returns the connection.
Drain(r) ==
  /\ reqStep(r, "drain", "done")
  /\ UNCHANGED notReq

\* The first request that sees the loss of the device reports it.
ReportDisconnect(r) ==
  /\ disconnected' = TRUE
  /\ reqStep(r, "error", IF ~disconnected /\ handlerSet THEN "notify" ELSE "done")
  /\ missed' = (missed \/ (~disconnected /\ ~handlerSet))
  /\ UNCHANGED <<main, handlerSet, shutdown, deviceDisconnected, armed, plugged, usbReset,
                 woken, forced, exitCode>>

\* Mutant: the handler triggers the shutdown first.
HandlerFirstSwapped(r) ==
  /\ reqStep(r, "notify", "shutdown")
  /\ SendShutdown("disconnect")
  /\ UNCHANGED <<main, handlerSet, disconnected, deviceDisconnected, armed,
                 plugged, usbReset, woken, forced, missed, exitCode>>

\* The disconnect handler: first deviceDisconnected, ...
HandlerFirst(r) ==
  /\ reqStep(r, "notify", "shutdown")
  /\ deviceDisconnected' = TRUE
  /\ UNCHANGED <<main, handlerSet, disconnected, shutdown, armed, plugged, usbReset, woken,
                 forced, missed, exitCode>>

\* Mutant: ... and leaves the shutdown to others.
HandlerSecondLost(r) ==
  /\ reqStep(r, "shutdown", "done")
  /\ UNCHANGED <<main, handlerSet, disconnected, shutdown, deviceDisconnected,
                 armed, plugged, usbReset, woken, forced, missed, exitCode>>

\* ... then shutdown.
HandlerSecond(r) ==
  /\ reqStep(r, "shutdown", "done")
  /\ SendShutdown("disconnect")
  /\ UNCHANGED <<main, handlerSet, disconnected, deviceDisconnected, armed,
                 plugged, usbReset, woken, forced, missed, exitCode>>

-----------------------------------------------------------------------------

MainStep ==
  \/ SetHandlers
  \/ Wake
  \/ ProxyShutdown
  \/ TransportClose
  \/ TransportShutdown
  \/ Exit

\* What a request does when a USB transfer ends.
UsbStep(r) == RoundTrip(r) \/ CopyBody(r) \/ Drain(r)

\* What it does on its own.
RequestStep(r) ==
  \/ ConnGet(r)
  \/ ReportDisconnect(r)
  \/ HandlerFirst(r)
  \/ HandlerSecond(r)

Next ==
  \/ MainStep
  \/ Unplug
  \/ \E c \in Cause : Fire(c)
  \/ \E r \in Request : RequestBegin(r) \/ ClientGone(r) \/ UsbStep(r) \/ RequestStep(r)

\* The scheduler runs RunBridge and the goroutines of requests.  A transfer is
\* only sure to end once the device has been reset or unplugged.
Fairness ==
  /\ WF_vars(MainStep)
  /\ \A r \in Request :
       /\ WF_vars(RequestStep(r))
       /\ WF_vars((usbReset \/ ~plugged) /\ UsbStep(r))

Spec == Init /\ [][Next]_vars /\ Fairness

-----------------------------------------------------------------------------
(* Properties.                                                             *)

\* Variables are well typed, and the caller learns the truth from the exit
\* code: it is 2 if the shutdown was caused by the loss of the device, or if the
\* shutdown had another cause, was graceful, and a request reported the loss
\* meanwhile; and 2 only if the device is gone.
ExitRight ==
  /\ TypeOK
  /\ main = "exit" =>
       /\ woken = "disconnect" => exitCode = 2
       /\ (disconnected /\ ~missed /\ ~forced) => exitCode = 2
       /\ exitCode = 2 => ~plugged

\* transport.Close waits, without a deadline, for a request that got its
\* connection after Close had found none in use and had not reset the device.
HeldUp == main = "loop" /\ ~usbReset /\ plugged /\ InUse # {}

\* A signal or the end of stdin ends RunBridge, whichever other causes fire
\* with it and whatever requests are in progress, on a device that hangs, too:
\* the non-blocking sends to a channel of capacity one lose no wake-up, and
\* Close ends the requests it finds.  So does the handler that is "called
\* (once) when a USB device disconnection is detected during request
\* handling".  There are two exceptions: a request that gets its connection
\* when Close has begun may hold it up for ever; and a request that is served
\* between proxy.Enable and SetDisconnectHandler spends the report on no
\* handler, and the bridge stays.
BridgeStops ==
  /\ \A c \in {"signal", "stdin"} :
       (main = "wait" /\ c \notin armed) ~> (main = "exit" \/ []HeldUp)
  /\ disconnected ~> (missed \/ main = "exit")
=============================================================================
