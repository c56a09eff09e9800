-------------------------------- MODULE PnP --------------------------------
(***************************************************************************)
(* The PnP manager (pnp.go) with what it is driven by: the USB bus, the    *)
(* libusb hotplug callback, the retry ticker and signals.  One pass of the *)
(* loop of PnPStart takes several steps, because NewDevice takes seconds   *)
(* and the bus changes meanwhile.                                          *)
(***************************************************************************)
EXTENDS UsbAddrList, FiniteSets

CONSTANTS
  UsbAddr,       \* USB addresses
  MaxPresent,    \* bound on the number of devices on the bus
  EnumFails,     \* whether enumeration may fail
  Signals        \* whether a terminating signal may arrive

\* An address is a pair of a bus and an address on the bus.
ASSUME AddrAssumption ==
  UsbAddr \subseteq Int \X Int /\ IsFiniteSet(UsbAddr) /\ MaxPresent \in Nat

VARIABLES
  exitWhenIdle,  \* the argument of PnPStart
  bus,           \* the device at each address
  changed,       \* libusb has yet to report a change of the bus
  hotplug,       \* tokens in UsbHotPlugChan, of capacity 1
  sigChan,       \* tokens in sigChan, of capacity 1
  pc,            \* where PnPStart is
  devDescs,      \* the addresses of the last enumeration
  devices,       \* the list of known devices
  added,         \* what remains to be done of the added devices
  removed,       \* what remains to be done of the removed devices
  retrying,      \* what remains to be visited of retryByAddr
  devByAddr,     \* the domain of devByAddr
  retryByAddr,   \* the retry time of an address
  tickerRunning,
  ticker,        \* tokens in ticker.C, of capacity 1
  statusTable,   \* what the control socket reports
  opened,        \* history: Device objects open at an address
  scanFailed     \* history: the last enumeration failed

busVars  == <<bus, changed>>
passVars == <<devDescs, devices, added, removed, retrying>>
tabVars  == <<devByAddr, retryByAddr, statusTable, opened>>
evVars   == <<hotplug, sigChan, tickerRunning, ticker>>
runVars  == <<exitWhenIdle, scanFailed>>
vars     == <<busVars, pc, passVars, tabVars, evVars, runVars>>

\* A good device initializes, a flaky one may fail with an error that is worth
\* a retry, a bad one is blacklisted or unusable.
Device == {"good", "flaky", "bad"}

TypeOK ==
  /\ exitWhenIdle \in BOOLEAN
  /\ bus \in [UsbAddr -> Device \cup {"absent"}]
  /\ changed \in BOOLEAN
  /\ {hotplug, sigChan, ticker} \subseteq {0, 1}
  /\ pc \in {"scan", "add", "remove", "retry", "tail", "wait", "close",
             "PnPIdle", "PnPTerm"}
  /\ devDescs \subseteq UsbAddr
  /\ {devices, added, removed} \subseteq Seq(UsbAddr)
  /\ retrying \subseteq UsbAddr
  /\ devByAddr \subseteq UsbAddr
  /\ retryByAddr \in [UsbAddr -> {"none", "waiting", "expired", "never"}]
  /\ tickerRunning \in BOOLEAN
  /\ statusTable \in [UsbAddr -> {"none", "ok", "error"}]
  /\ opened \in [UsbAddr -> Nat]
  /\ scanFailed \in BOOLEAN

Present == {a \in UsbAddr : bus[a] # "absent"}
Retry == {a \in UsbAddr : retryByAddr[a] # "none"}

Init ==
  /\ exitWhenIdle \in BOOLEAN
  /\ bus \in [UsbAddr -> Device \cup {"absent"}]
  /\ Cardinality(Present) <= MaxPresent
  /\ changed = FALSE
  /\ hotplug = 0
  /\ sigChan = 0
  /\ pc = "scan"
  /\ devDescs = {}
  /\ devices = <<>>
  /\ added = <<>>
  /\ removed = <<>>
  /\ retrying = {}
  /\ devByAddr = {}
  /\ retryByAddr = [a \in UsbAddr |-> "none"]
  /\ tickerRunning = TRUE
  /\ ticker = 0
  /\ statusTable = [a \in UsbAddr |-> "none"]
  /\ opened = [a \in UsbAddr |-> 0]
  /\ scanFailed = FALSE

-----------------------------------------------------------------------------
(* The environment.                                                        *)

\* The kernel numbers devices round-robin: an address comes back only after
\* the other 126 of the bus, long after the PnP manager has forgotten it.
Plug(a) ==
  /\ bus[a] = "absent"
  /\ a \notin ToSet(devices) \cup ToSet(removed)
  /\ Cardinality(Present) < MaxPresent
  /\ \E d \in Device : bus' = [bus EXCEPT ![a] = d]
  /\ changed' = TRUE
  /\ UNCHANGED <<pc, passVars, tabVars, evVars, runVars>>

Unplug(a) ==
  /\ bus[a] # "absent"
  /\ bus' = [bus EXCEPT ![a] = "absent"]
  /\ changed' = TRUE
  /\ UNCHANGED <<pc, passVars, tabVars, evVars, runVars>>

\* A device that was not ready becomes ready.
Recover(a) ==
  /\ bus[a] = "flaky"
  /\ bus' = [bus EXCEPT ![a] = "good"]
  /\ UNCHANGED <<changed, pc, passVars, tabVars, evVars, runVars>>

\* Mutant: the callback only reports a change when PnPStart waits for it.
HotplugCallbackDrops ==
  /\ changed
  /\ changed' = FALSE
  /\ hotplug' = IF pc = "wait" THEN 1 ELSE hotplug
  /\ UNCHANGED <<bus, pc, passVars, tabVars, sigChan, tickerRunning, ticker, runVars>>

\* libusbHotplugCallback: a non-blocking send.
HotplugCallback ==
  /\ changed
  /\ changed' = FALSE
  /\ hotplug' = 1
  /\ UNCHANGED <<bus, pc, passVars, tabVars, sigChan, tickerRunning, ticker, runVars>>

\* The ticker fires.
Tick ==
  /\ tickerRunning
  /\ ticker = 0
  /\ ticker' = 1
  /\ UNCHANGED <<busVars, pc, passVars, tabVars, hotplug, sigChan,
                 tickerRunning, runVars>>

\* The retry time of an address passes (pnpRetryExpired).
RetryExpire(a) ==
  /\ retryByAddr[a] = "waiting"
  /\ retryByAddr' = [retryByAddr EXCEPT ![a] = "expired"]
  /\ UNCHANGED <<busVars, pc, passVars, devByAddr, statusTable, opened, evVars, runVars>>

Signal ==
  /\ Signals
  /\ sigChan = 0
  /\ pc \notin {"close", "PnPIdle", "PnPTerm"}
  /\ sigChan' = 1
  /\ UNCHANGED <<busVars, pc, passVars, tabVars, hotplug, tickerRunning, ticker, runVars>>

-----------------------------------------------------------------------------
(* One pass of the loop.                                                   *)

\* UsbGetIppOverUsbDeviceDescs, newdevices and Diff.  The map of descriptors
\* is iterated in an arbitrary order.
Scan ==
  /\ pc = "scan"
  /\ \E newdevices \in {FoldLeft(Add, <<>>, order) : order \in SetToSeqs(Present)} :
       \E d \in {Diff(devices, newdevices)} :
         /\ devices' = newdevices
         /\ added' = d.added
         /\ removed' = d.removed
  /\ devDescs' = Present
  /\ pc' = "add"
  /\ scanFailed' = FALSE
  /\ UNCHANGED <<exitWhenIdle, busVars, retrying, tabVars, evVars>>

\* A failed enumeration skips to the end of the pass.
ScanFails ==
  /\ pc = "scan"
  /\ EnumFails
  /\ pc' = "tail"
  /\ scanFailed' = TRUE
  /\ UNCHANGED <<exitWhenIdle, busVars, passVars, tabVars, evVars>>

\* What NewDevice may return for the device now at address a.  Interfaces of
\* a device that is already open cannot be claimed again.
NewDeviceResult(a) ==
  IF a \notin devDescs \/ opened[a] > 0 THEN {"error"}
  ELSE CASE bus[a] = "good"   -> {"ok"}
         [] bus[a] = "flaky"  -> {"ok", "error"}
         [] bus[a] = "bad"    -> {"unusable"}
         [] bus[a] = "absent" -> {"error"}

\* pnpRetryTime: the million hours of an unrecoverable error never pass.
pnpRetryTime(err) == IF err = "unusable" THEN "never" ELSE "waiting"

\* NewDevice, StatusSet and the update of the two maps; retry is what
\* retryByAddr says of the address after a success.
NewDevice(a, retry) ==
  \E err \in NewDeviceResult(a) :
    IF err = "ok"
    THEN /\ devByAddr' = devByAddr \cup {a}
         /\ retryByAddr' = [retryByAddr EXCEPT ![a] = retry]
         /\ statusTable' = [statusTable EXCEPT ![a] = "ok"]
         /\ opened' = [opened EXCEPT ![a] = @ + 1]
    ELSE /\ retryByAddr' = [retryByAddr EXCEPT ![a] = pnpRetryTime(err)]
         /\ statusTable' = [statusTable EXCEPT ![a] = "error"]
         /\ UNCHANGED <<devByAddr, opened>>

HandleAdded ==
  /\ pc = "add"
  /\ IF added = <<>>
     THEN pc' = "remove" /\ UNCHANGED <<added, tabVars>>
     ELSE LET a == Head(added)
          IN  /\ NewDevice(a, retryByAddr[a])
              /\ added' = Tail(added)
              /\ UNCHANGED pc
  /\ UNCHANGED <<busVars, devDescs, devices, removed, retrying, evVars, runVars>>

\* Mutant: a removed device is forgotten but not closed.
HandleRemovedNoClose ==
  /\ pc = "remove"
  /\ IF removed = <<>>
     THEN /\ pc' = "retry"
          /\ retrying' = Retry
          /\ UNCHANGED <<removed, tabVars>>
     ELSE LET a == Head(removed)
          IN  /\ retryByAddr' = [retryByAddr EXCEPT ![a] = "none"]
              /\ statusTable' = [statusTable EXCEPT ![a] = "none"]
              /\ devByAddr' = devByAddr \ {a}
              /\ removed' = Tail(removed)
              /\ UNCHANGED <<pc, retrying, opened>>
  /\ UNCHANGED <<busVars, devDescs, devices, added, evVars, runVars>>

\* A removed device is forgotten, and closed if it was open.
HandleRemoved ==
  /\ pc = "remove"
  /\ IF removed = <<>>
     THEN /\ pc' = "retry"
          /\ retrying' = Retry
          /\ UNCHANGED <<removed, tabVars>>
     ELSE LET a == Head(removed)
          IN  /\ retryByAddr' = [retryByAddr EXCEPT ![a] = "none"]
              /\ statusTable' = [statusTable EXCEPT ![a] = "none"]
              /\ opened' = [opened EXCEPT ![a] = IF a \in devByAddr THEN @ - 1
                                                                   ELSE @]
              /\ devByAddr' = devByAddr \ {a}
              /\ removed' = Tail(removed)
              /\ UNCHANGED <<pc, retrying>>
  /\ UNCHANGED <<busVars, devDescs, devices, added, evVars, runVars>>

\* Mutant: a device stays in retryByAddr after a successful retry.
HandleRetryKeepsRetry ==
  /\ pc = "retry"
  /\ \/ retrying = {} /\ pc' = "tail" /\ UNCHANGED <<retrying, tabVars>>
     \/ \E a \in retrying :
          /\ IF retryByAddr[a] = "expired" THEN NewDevice(a, "waiting")
                                           ELSE UNCHANGED tabVars
          /\ retrying' = retrying \ {a}
          /\ UNCHANGED pc
  /\ UNCHANGED <<busVars, devDescs, devices, added, removed, evVars, runVars>>

\* The addresses of retryByAddr are visited in an arbitrary order.
HandleRetry ==
  /\ pc = "retry"
  /\ \/ retrying = {} /\ pc' = "tail" /\ UNCHANGED <<retrying, tabVars>>
     \/ \E a \in retrying :
          /\ IF retryByAddr[a] = "expired" THEN NewDevice(a, "none")
                                           ELSE UNCHANGED tabVars
          /\ retrying' = retrying \ {a}
          /\ UNCHANGED pc
  /\ UNCHANGED <<busVars, devDescs, devices, added, removed, evVars, runVars>>

\* Exit when idle, or update the ticker.  A stopped ticker keeps the tick that
\* is in its channel; a new ticker has a new channel.
UpdateTicker ==
  /\ pc = "tail"
  /\ IF exitWhenIdle /\ devices = <<>>
     THEN pc' = "PnPIdle" /\ UNCHANGED <<tickerRunning, ticker>>
     ELSE /\ pc' = "wait"
          /\ tickerRunning' = (Retry # {})
          /\ ticker' = IF ~tickerRunning /\ Retry # {} THEN 0 ELSE ticker
  /\ UNCHANGED <<busVars, passVars, tabVars, hotplug, sigChan, runVars>>

\* The select statement takes any ready case.
Wait ==
  /\ pc = "wait"
  /\ \/ hotplug = 1 /\ hotplug' = 0 /\ pc' = "scan" /\ UNCHANGED <<sigChan, ticker>>
     \/ ticker = 1 /\ ticker' = 0 /\ pc' = "scan" /\ UNCHANGED <<sigChan, hotplug>>
     \/ sigChan = 1 /\ sigChan' = 0 /\ pc' = "close" /\ UNCHANGED <<hotplug, ticker>>
  /\ UNCHANGED <<busVars, passVars, tabVars, tickerRunning, runVars>>

\* Every device is shut down and closed by a goroutine of its own.
CloseDevice(a) ==
  /\ pc = "close"
  /\ a \in devByAddr
  /\ opened[a] > 0
  /\ opened' = [opened EXCEPT ![a] = @ - 1]
  /\ UNCHANGED <<busVars, pc, passVars, devByAddr, retryByAddr, statusTable,
                 evVars, runVars>>

CloseDone ==
  /\ pc = "close"
  /\ \A a \in devByAddr : opened[a] = 0
  /\ pc' = "PnPTerm"
  /\ UNCHANGED <<busVars, passVars, tabVars, evVars, runVars>>

-----------------------------------------------------------------------------

PassStep ==
  \/ Scan \/ ScanFails
  \/ HandleAdded \/ HandleRemoved \/ HandleRetry
  \/ UpdateTicker \/ Wait
  \/ CloseDone \/ \E a \in UsbAddr : CloseDevice(a)

Next ==
  \/ PassStep
  \/ HotplugCallback \/ Tick \/ Signal
  \/ \E a \in UsbAddr : Plug(a) \/ Unplug(a) \/ Recover(a) \/ RetryExpire(a)

(***************************************************************************)
(* The PnP thread runs whenever it can, libusb reports every change, time  *)
(* passes, and enumeration does not fail for ever.  Nothing is assumed of  *)
(* the bus, of devices or of signals.                                      *)
(***************************************************************************)
Fairness ==
  /\ WF_vars(PassStep)
  /\ SF_vars(Scan)
  /\ WF_vars(HotplugCallback)
  /\ WF_vars(Tick)
  /\ \A a \in UsbAddr : WF_vars(RetryExpire(a))

Spec == Init /\ [][Next]_vars /\ Fairness

-----------------------------------------------------------------------------
(* Properties.                                                             *)

\* Variables are well typed, between two passes every known device is served
\* or waits for a retry, never both, nothing else is, and the status table says
\* which; and PnPStart calls itself idle only if no device is served.
PnPConsistent ==
  /\ TypeOK
  /\ pc = "wait" =>
       /\ devByAddr \cap Retry = {}
       /\ devByAddr \cup Retry = ToSet(devices)
       /\ \A a \in UsbAddr :
            statusTable[a] = CASE a \in devByAddr -> "ok"
                               [] a \in Retry     -> "error"
                               [] OTHER           -> "none"
  /\ pc = "PnPIdle" => devByAddr = {}

\* Outside of the final shutdown the Devices that are open are those of
\* devByAddr, one per address, and a shutdown leaves none open: removal, retry
\* and failed enumerations leave none behind, whatever Diff returns.
OpenedOnce ==
  /\ pc \notin {"close", "PnPTerm"} =>
       \A a \in UsbAddr : opened[a] = IF a \in devByAddr THEN 1 ELSE 0
  /\ pc = "PnPTerm" => \A a \in UsbAddr : opened[a] = 0

\* The device at address a works but is not served, or has gone but is open.
Unsettled(a) ==
  \/ bus[a] = "good" /\ a \notin devByAddr
  \/ bus[a] = "absent" /\ a \in devByAddr

\* An event was taken by a pass whose enumeration failed, and nothing but the
\* next event will start another pass.
Missed == pc = "wait" /\ scanFailed /\ ~tickerRunning

\* A device that works is eventually served, whether it worked when it was
\* plugged in or became ready after failed attempts, and one that has gone is
\* eventually closed, unless the bus changes or PnPStart ends first: no
\* hotplug event is lost while a pass runs, and the ticker runs as long as a
\* device waits for a retry.  The one exception is that PnPStart forgets an
\* event when enumeration fails and no device waits for a retry.
Settles ==
  \A a \in UsbAddr :
    Unsettled(a) ~> \/ ~Unsettled(a)
                    \/ pc \in {"close", "PnPIdle", "PnPTerm"}
                    \/ Missed
=============================================================================
