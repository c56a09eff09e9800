---------------------------- MODULE DeviceProofs ----------------------------
(***************************************************************************)
(* A Device and what it keeps of itself elsewhere: NewDevice and Close     *)
(* leave nothing behind, ports are advertised, distinct and kept, and      *)
(* publishers leave nothing published, with any number of interfaces,      *)
(* devices, ports and publishers.                                          *)
(***************************************************************************)
EXTENDS DeviceInit, DevState, DNSSd, TLAPS

\* Leaves that need arithmetic, or sequences, cite SMT.
USE Zenon

-----------------------------------------------------------------------------
(* NewDevice and Device.Close.                                             *)

\* Before the device is open, before it has connections, before it has a
\* listener, and while NewDevice queries it.
Opening    == {"hwid", "info", "model", "configure"}
Connecting == Opening \cup {"open", "connect"}
Querying   == {"ipp", "fax", "ippcheck", "escl", "esclcheck", "enable"}

\* A second hard reset is made for missing strings only, which are asked for
\* once.
ResetInv ==
  /\ hardResets = 0 <=> ~doneHardReset
  /\ hardResets > 1 => missed
  /\ missed => doneHardReset
  /\ pc \in {"open", "hwid", "info"} => ~missed

\* What usb-max-interfaces leaves of the interfaces.
Limit == IF caps.maxInterfaces \in 1..NumIf THEN caps.maxInterfaces ELSE NumIf

\* Connections so far and maxconn add up to the limit.
ConnInv ==
  /\ pc # "done" => pool = conns
  /\ pc \in Opening \cup {"open", "done"} => conns = 0
  /\ pc = "connect" =>
       /\ conns < NumIf /\ maxconn > 0
       /\ conns + maxconn = IF caps.maxInterfaces = 0 THEN NumIf + 1
                                                      ELSE caps.maxInterfaces
  /\ pc \in Querying \cup {"listen", "serving"} => conns = Limit

\* The handle, the proxy, the publisher and requests follow the PnP thread.
PhaseInv ==
  /\ pc = "open" => handle = "none"
  /\ pc = "done" => handle # "open"
  /\ pc \notin {"open", "done"} => handle = "open"
  /\ pc \in Connecting \cup Querying \cup {"listen", "serving"} => err = "nil"
  /\ pc \in Connecting \cup {"listen"} => proxy = "none" /\ drains = 0
  /\ pc \in Querying => proxy = "disabled"
  /\ pc = "serving" => proxy = "enabled" /\ services # {}
  /\ pc \in {"close", "wait", "resetwait", "destroy", "done"} => proxy \in {"none", "closed"}
  /\ proxy = "enabled" => ~timeout
  /\ pc \in {"destroy", "done"} => drains = 0
  /\ published => pc = "serving"

\* Until the device is reset, a query that timed out is noticed by the check
\* that follows it, which takes no other way out.
LostInv ==
  /\ pc = "fax" => "ipp" \in services
  /\ "query" \in lost =>
       /\ pc \in {"fax", "ippcheck", "esclcheck", "proxyclose", "close"}
       /\ pc \in {"fax", "ippcheck", "esclcheck"} => timeoutExpired
       /\ pc = "ippcheck" => "ipp" \in services \/ ~httpstatus
       /\ pc = "esclcheck" => ~httpstatus
       /\ pc \in {"proxyclose", "close"} => err = "ErrInitTimedOut"

DeviceInv == TypeOK /\ ResetInv /\ ConnInv /\ PhaseInv /\ LostInv

\* Nothing is open in the beginning.
LEMMA InitDeviceInv == Init => DeviceInv
<1> SUFFICES ASSUME Init PROVE DeviceInv
  OBVIOUS
<1>1. TypeOK
  <2>1. /\ hardResets \in 0..2 /\ maxconn \in Nat /\ drains + busy <= pool
        /\ conns \in 0..NumIf /\ drains \in 0..NumIf /\ busy \in 0..NumIf
        /\ pool \in 0..NumIf /\ waiting \in 0..MaxWait
    BY NumIfAssumption, SMT DEF Init
  <2> QED
    BY <2>1 DEF Init, TypeOK, PC
<1>2. ResetInv /\ ConnInv
  BY SMT DEF Init, ResetInv, ConnInv, Opening, Querying
<1>3. PhaseInv /\ LostInv
  BY SMT DEF Init, PhaseInv, LostInv, Opening, Connecting, Querying
<1> QED
  BY <1>1, <1>2, <1>3 DEF DeviceInv

\* The device is opened, or NewDevice fails.
LEMMA UsbOpenDeviceInv ==
  ASSUME DeviceInv, UsbOpenDevice PROVE DeviceInv'
<1> USE NumIfAssumption DEF DeviceInv, usbVars, srvVars, httpVars, reqVars
<1>1. TypeOK'
  BY SMT
  DEF UsbOpenDevice, TypeOK, PC, ResetInv, ConnInv, PhaseInv, Opening, Connecting
<1>2. ResetInv'
  BY DEF UsbOpenDevice, TypeOK, ResetInv
<1>3. ConnInv'
  BY DEF UsbOpenDevice, TypeOK, ConnInv, Limit, Opening, Querying
<1>4. PhaseInv'
  BY DEF UsbOpenDevice, TypeOK, PC, PhaseInv, Opening, Connecting, Querying
<1>5. LostInv'
  BY DEF UsbOpenDevice, TypeOK, LostInv
<1> QED
  BY <1>1, <1>2, <1>3, <1>4, <1>5

\* A hard reset is counted.
LEMMA HardResetTyped ==
  ASSUME TypeOK, ResetInv, NEW force \in BOOLEAN, hardReset(force),
         force => ~missed
  PROVE  hardResets' \in 0..2 /\ doneHardReset' \in BOOLEAN
<1>1. CASE ~doneHardReset \/ force
  <2>1. hardResets \in 0..1
    BY <1>1, SMT DEF TypeOK, ResetInv
  <2>2. hardResets' = hardResets + 1 /\ doneHardReset' = TRUE
    BY <1>1, Zenon DEF hardReset
  <2> QED
    BY <2>1, <2>2, SMT
<1>2. CASE ~(~doneHardReset \/ force)
  BY <1>2 DEF hardReset, TypeOK
<1> QED
  BY <1>1, <1>2

\* Quirks by hardware ID make the first reset.
LEMMA HwidQuirksInv ==
  ASSUME DeviceInv, ApplyQuirks("hwid", "info") PROVE DeviceInv'
<1> USE NumIfAssumption DEF DeviceInv, usbVars, srvVars, httpVars, reqVars
<1>1. TypeOK'
  <2>1. hardResets' \in 0..2 /\ doneHardReset' \in BOOLEAN
    BY HardResetTyped DEF ApplyQuirks, TypeOK, ResetInv
  <2>2. conns' \in 0..NumIf /\ drains' + busy' <= pool'
    BY DEF ApplyQuirks, TransportFails, TypeOK, ConnInv, PhaseInv, Opening, Connecting
  <2>3. /\ pc' \in PC /\ handle' \in {"none", "open", "closed"}
        /\ err' \in {"nil", "ErrBlackListed", "ErrUnusable", "ErrPartialInit",
                     "ErrInitTimedOut", "other"}
    BY DEF ApplyQuirks, TransportFails, TypeOK, PC
  <2>4. missed' \in BOOLEAN
    BY DEF ApplyQuirks, TypeOK
  <2> QED
    BY <2>1, <2>2, <2>3, <2>4, SMT DEF ApplyQuirks, TypeOK
<1>2. ResetInv'
  BY SMT DEF ApplyQuirks, TransportFails, hardReset, TypeOK, ResetInv
<1>3. ConnInv'
  BY DEF ApplyQuirks, TransportFails, hardReset, TypeOK, ConnInv, Limit, Opening, Querying
<1>4. PhaseInv'
  BY DEF ApplyQuirks, TransportFails, hardReset, TypeOK, PC, PhaseInv, Opening, Connecting, Querying
<1>5. LostInv'
  BY DEF ApplyQuirks, TransportFails, hardReset, TypeOK, LostInv
<1> QED
  BY <1>1, <1>2, <1>3, <1>4, <1>5

\* Missing strings make a reset whatever was made before.
LEMMA UsbDeviceInfoInv ==
  ASSUME DeviceInv, UsbDeviceInfo PROVE DeviceInv'
<1> USE NumIfAssumption DEF DeviceInv, usbVars, srvVars, httpVars, reqVars
<1>1. TypeOK'
  <2>1. hardResets' \in 0..2 /\ doneHardReset' \in BOOLEAN
    BY HardResetTyped DEF UsbDeviceInfo, TypeOK, ResetInv
  <2>2. conns' \in 0..NumIf /\ drains' + busy' <= pool'
    BY DEF UsbDeviceInfo, TransportFails, TypeOK, ConnInv, PhaseInv, Opening, Connecting
  <2>3. /\ pc' \in PC /\ handle' \in {"none", "open", "closed"}
        /\ err' \in {"nil", "ErrBlackListed", "ErrUnusable", "ErrPartialInit",
                     "ErrInitTimedOut", "other"}
    BY DEF UsbDeviceInfo, TransportFails, TypeOK, PC
  <2>4. missed' \in BOOLEAN
    BY DEF UsbDeviceInfo, TypeOK
  <2> QED
    BY <2>1, <2>2, <2>3, <2>4, SMT DEF UsbDeviceInfo, TypeOK
<1>2. ResetInv'
  BY SMT DEF UsbDeviceInfo, TransportFails, hardReset, TypeOK, ResetInv
<1>3. ConnInv'
  BY DEF UsbDeviceInfo, TransportFails, hardReset, TypeOK, ConnInv, Limit, Opening, Querying
<1>4. PhaseInv'
  BY DEF UsbDeviceInfo, TransportFails, hardReset, TypeOK, PC, PhaseInv, Opening, Connecting, Querying
<1>5. LostInv'
  BY DEF UsbDeviceInfo, TransportFails, hardReset, TypeOK, LostInv
<1> QED
  BY <1>1, <1>2, <1>3, <1>4, <1>5

\* Quirks by model name do not repeat a reset.
LEMMA ModelQuirksInv ==
  ASSUME DeviceInv, ApplyQuirks("model", "configure") PROVE DeviceInv'
<1> USE NumIfAssumption DEF DeviceInv, usbVars, srvVars, httpVars, reqVars
<1>1. TypeOK'
  <2>1. hardResets' \in 0..2 /\ doneHardReset' \in BOOLEAN
    BY HardResetTyped DEF ApplyQuirks, TypeOK, ResetInv
  <2>2. conns' \in 0..NumIf /\ drains' + busy' <= pool'
    BY DEF ApplyQuirks, TransportFails, TypeOK, ConnInv, PhaseInv, Opening, Connecting
  <2>3. /\ pc' \in PC /\ handle' \in {"none", "open", "closed"}
        /\ err' \in {"nil", "ErrBlackListed", "ErrUnusable", "ErrPartialInit",
                     "ErrInitTimedOut", "other"}
    BY DEF ApplyQuirks, TransportFails, TypeOK, PC
  <2>4. missed' \in BOOLEAN
    BY DEF ApplyQuirks, TypeOK
  <2> QED
    BY <2>1, <2>2, <2>3, <2>4, ZenonT(60) DEF ApplyQuirks, TypeOK
<1>2. ResetInv'
  BY SMT DEF ApplyQuirks, TransportFails, hardReset, TypeOK, ResetInv
<1>3. ConnInv'
  BY DEF ApplyQuirks, TransportFails, hardReset, TypeOK, ConnInv, Limit, Opening, Querying
<1>4. PhaseInv'
  BY DEF ApplyQuirks, TransportFails, hardReset, TypeOK, PC, PhaseInv, Opening, Connecting, Querying
<1>5. LostInv'
  BY DEF ApplyQuirks, TransportFails, hardReset, TypeOK, LostInv
<1> QED
  BY <1>1, <1>2, <1>3, <1>4, <1>5

\* The count of connections begins.
LEMMA ConfigureInv ==
  ASSUME DeviceInv, Configure PROVE DeviceInv'
<1> USE NumIfAssumption DEF DeviceInv, usbVars, srvVars, httpVars, reqVars
<1>1. TypeOK'
  BY SMT
  DEF Configure, TransportFails, TypeOK, PC, ResetInv, ConnInv, PhaseInv, Opening, Connecting
<1>2. ResetInv'
  BY DEF Configure, TransportFails, TypeOK, ResetInv
<1>3. ConnInv'
  BY SMT DEF Configure, TransportFails, TypeOK, ConnInv, Limit, Opening, Querying
<1>4. PhaseInv'
  BY DEF Configure, TransportFails, TypeOK, PC, PhaseInv, Opening, Connecting, Querying
<1>5. LostInv'
  BY DEF Configure, TransportFails, TypeOK, LostInv
<1> QED
  BY <1>1, <1>2, <1>3, <1>4, <1>5

\* One connection is made, or all are destroyed.
LEMMA OpenUsbConnInv ==
  ASSUME DeviceInv, OpenUsbConn PROVE DeviceInv'
<1> USE NumIfAssumption DEF DeviceInv, usbVars, srvVars, httpVars, reqVars
<1>1. TypeOK'
  BY SMT
  DEF OpenUsbConn, TransportFails, openUsbConn, TypeOK, PC, ResetInv, ConnInv, PhaseInv, Opening, Connecting
<1>2. ResetInv'
  BY DEF OpenUsbConn, TransportFails, openUsbConn, TypeOK, ResetInv
<1>3. ConnInv'
  BY SMT
  DEF OpenUsbConn, TransportFails, openUsbConn, TypeOK, ConnInv, Limit, Opening, Querying
<1>4. PhaseInv'
  BY DEF OpenUsbConn, TransportFails, openUsbConn, TypeOK, PC, PhaseInv, Opening, Connecting, Querying
<1>5. LostInv'
  BY DEF OpenUsbConn, TransportFails, openUsbConn, TypeOK, LostInv
<1> QED
  BY <1>1, <1>2, <1>3, <1>4, <1>5

\* The listener is there, or the transport is closed.
LEMMA ListenInv ==
  ASSUME DeviceInv, Listen PROVE DeviceInv'
<1> USE NumIfAssumption DEF DeviceInv, usbVars, srvVars, httpVars, reqVars
<1>1. TypeOK'
  BY ZenonT(30)
  DEF Listen, Fail, TypeOK, PC, ResetInv, ConnInv, PhaseInv, Opening, Connecting
<1>2. ResetInv'
  BY DEF Listen, Fail, TypeOK, ResetInv
<1>3. ConnInv'
  BY DEF Listen, Fail, TypeOK, ConnInv, Limit, Opening, Querying
<1>4. PhaseInv'
  BY DEF Listen, Fail, TypeOK, PC, PhaseInv, Opening, Connecting, Querying
<1>5. LostInv'
  BY DEF Listen, Fail, TypeOK, LostInv
<1> QED
  BY <1>1, <1>2, <1>3, <1>4, <1>5

\* A timeout of the first query leaves no HTTP status.
LEMMA IppQueryInv ==
  ASSUME DeviceInv, IppQuery PROVE DeviceInv'
<1> USE NumIfAssumption DEF DeviceInv, usbVars, srvVars, httpVars, reqVars
<1>1. TypeOK'
  BY SMT
  DEF IppQuery, Query, Outcome, connInUse, TypeOK, PC, ResetInv, ConnInv, PhaseInv, Opening, Connecting
<1>2. ResetInv'
  BY DEF IppQuery, Query, Outcome, connInUse, TypeOK, ResetInv
<1>3. ConnInv'
  BY DEF IppQuery, Query, Outcome, connInUse, TypeOK, ConnInv, Limit, Opening, Querying
<1>4. PhaseInv'
  BY DEF IppQuery, Query, Outcome, connInUse, TypeOK, PC, PhaseInv, Opening, Connecting, Querying
<1>5. LostInv'
  <2>1. "query" \notin lost
    BY DEF IppQuery, LostInv
  <2>2. PICK outcome \in Outcome : Query(outcome)
    BY DEF IppQuery
  <2>3. "query" \in lost' => timeoutExpired' /\ ~httpstatus'
    BY <2>1, <2>2 DEF Query, TypeOK
  <2> QED
    BY <2>3 DEF IppQuery, LostInv
<1> QED
  BY <1>1, <1>2, <1>3, <1>4, <1>5

\* A timeout of the fax probe is noticed later.
LEMMA FaxProbeInv ==
  ASSUME DeviceInv, FaxProbe PROVE DeviceInv'
<1> USE NumIfAssumption DEF DeviceInv, usbVars, srvVars, httpVars, reqVars
<1>1. TypeOK'
  BY SMT
  DEF FaxProbe, Query, Outcome, connInUse, TypeOK, PC, ResetInv, ConnInv, PhaseInv, Opening, Connecting
<1>2. ResetInv'
  BY DEF FaxProbe, Query, Outcome, connInUse, TypeOK, ResetInv
<1>3. ConnInv'
  BY DEF FaxProbe, Query, Outcome, connInUse, TypeOK, ConnInv, Limit, Opening, Querying
<1>4. PhaseInv'
  BY DEF FaxProbe, Query, Outcome, connInUse, TypeOK, PC, PhaseInv, Opening, Connecting, Querying
<1>5. LostInv'
  BY DEF FaxProbe, Query, Outcome, connInUse, TypeOK, LostInv
<1> QED
  BY <1>1, <1>2, <1>3, <1>4, <1>5

\* A timeout is noticed.
LEMMA IppCheckInv ==
  ASSUME DeviceInv, IppCheck PROVE DeviceInv'
<1> USE NumIfAssumption DEF DeviceInv, usbVars, srvVars, httpVars, reqVars
<1>1. TypeOK'
  BY SMT
  DEF IppCheck, CheckQuery, Fail, TypeOK, PC, ResetInv, ConnInv, PhaseInv, Opening, Connecting
<1>2. ResetInv'
  BY DEF IppCheck, CheckQuery, Fail, TypeOK, ResetInv
<1>3. ConnInv'
  BY DEF IppCheck, CheckQuery, Fail, TypeOK, ConnInv, Limit, Opening, Querying
<1>4. PhaseInv'
  BY DEF IppCheck, CheckQuery, Fail, TypeOK, PC, PhaseInv, Opening, Connecting, Querying
<1>5. LostInv'
  BY DEF IppCheck, CheckQuery, Fail, TypeOK, LostInv
<1> QED
  BY <1>1, <1>2, <1>3, <1>4, <1>5

\* A timeout of the last query leaves no HTTP status.
LEMMA EsclQueryInv ==
  ASSUME DeviceInv, EsclQuery PROVE DeviceInv'
<1> USE NumIfAssumption DEF DeviceInv, usbVars, srvVars, httpVars, reqVars
<1>1. TypeOK'
  BY SMT
  DEF EsclQuery, Query, Outcome, connInUse, TypeOK, PC, ResetInv, ConnInv, PhaseInv, Opening, Connecting
<1>2. ResetInv'
  BY DEF EsclQuery, Query, Outcome, connInUse, TypeOK, ResetInv
<1>3. ConnInv'
  BY DEF EsclQuery, Query, Outcome, connInUse, TypeOK, ConnInv, Limit, Opening, Querying
<1>4. PhaseInv'
  BY DEF EsclQuery, Query, Outcome, connInUse, TypeOK, PC, PhaseInv, Opening, Connecting, Querying
<1>5. LostInv'
  <2>1. "query" \notin lost
    BY DEF EsclQuery, LostInv
  <2>2. PICK outcome \in Outcome : Query(outcome)
    BY DEF EsclQuery
  <2>3. "query" \in lost' => timeoutExpired' /\ ~httpstatus'
    BY <2>1, <2>2 DEF Query, TypeOK
  <2> QED
    BY <2>3 DEF EsclQuery, LostInv
<1> QED
  BY <1>1, <1>2, <1>3, <1>4, <1>5

\* A timeout is noticed.
LEMMA EsclCheckInv ==
  ASSUME DeviceInv, EsclCheck PROVE DeviceInv'
<1> USE NumIfAssumption DEF DeviceInv, usbVars, srvVars, httpVars, reqVars
<1>1. TypeOK'
  BY SMT
  DEF EsclCheck, CheckQuery, Fail, TypeOK, PC, ResetInv, ConnInv, PhaseInv, Opening, Connecting
<1>2. ResetInv'
  BY DEF EsclCheck, CheckQuery, Fail, TypeOK, ResetInv
<1>3. ConnInv'
  BY DEF EsclCheck, CheckQuery, Fail, TypeOK, ConnInv, Limit, Opening, Querying
<1>4. PhaseInv'
  BY DEF EsclCheck, CheckQuery, Fail, TypeOK, PC, PhaseInv, Opening, Connecting, Querying
<1>5. LostInv'
  BY DEF EsclCheck, CheckQuery, Fail, TypeOK, LostInv
<1> QED
  BY <1>1, <1>2, <1>3, <1>4, <1>5

\* The proxy answers once there is a service and no deadline.
LEMMA EnableInv ==
  ASSUME DeviceInv, Enable PROVE DeviceInv'
<1> USE NumIfAssumption DEF DeviceInv, usbVars, srvVars, httpVars, reqVars
<1>1. TypeOK'
  <2>1. timeout' \in BOOLEAN /\ published' \in BOOLEAN
    BY DEF Enable, TypeOK
  <2>2. proxy' \in {"none", "disabled", "enabled", "closed"}
    BY DEF Enable, TypeOK
  <2> QED
    BY <2>1, <2>2, SMT DEF Enable, Fail, TypeOK, PC
<1>2. ResetInv'
  BY DEF Enable, Fail, TypeOK, ResetInv
<1>3. ConnInv'
  BY DEF Enable, Fail, TypeOK, ConnInv, Limit, Opening, Querying
<1>4. PhaseInv'
  BY SMT DEF Enable, Fail, TypeOK, PC, PhaseInv, Opening, Connecting, Querying
<1>5. LostInv'
  BY DEF Enable, Fail, TypeOK, LostInv
<1> QED
  BY <1>1, <1>2, <1>3, <1>4, <1>5

\* A response has been drained, or given up.
LEMMA DrainEndInv ==
  ASSUME DeviceInv, DrainEnd PROVE DeviceInv'
<1> USE NumIfAssumption DEF DeviceInv, usbVars, srvVars, httpVars, reqVars
<1>1. TypeOK'
  <2>1. drains' \in 0..NumIf /\ drains' + busy' <= pool'
    BY SMT DEF DrainEnd, TypeOK
  <2>2. timeoutExpired' \in BOOLEAN /\ lost' \subseteq {"query", "drain"}
    BY DEF DrainEnd, TypeOK
  <2> QED
    BY <2>1, <2>2, SMT DEF DrainEnd, TypeOK, PC
<1>2. ResetInv'
  BY DEF DrainEnd, TypeOK, ResetInv
<1>3. ConnInv'
  BY DEF DrainEnd, TypeOK, ConnInv, Limit, Opening, Querying
<1>4. PhaseInv'
  BY SMT DEF DrainEnd, TypeOK, PC, PhaseInv, Opening, Connecting, Querying
<1>5. LostInv'
  BY SMT DEF DrainEnd, TypeOK, LostInv
<1> QED
  BY <1>1, <1>2, <1>3, <1>4, <1>5

\* The proxy lets a client request in.
LEMMA RequestAcceptedInv ==
  ASSUME DeviceInv, RequestAccepted PROVE DeviceInv'
<1> USE NumIfAssumption DEF DeviceInv, usbVars, srvVars, httpVars, reqVars
<1>1. TypeOK'
  BY SMT
  DEF RequestAccepted, TypeOK, PC, ResetInv, ConnInv, PhaseInv, Opening, Connecting
<1>2. ResetInv'
  BY DEF RequestAccepted, TypeOK, ResetInv
<1>3. ConnInv'
  BY DEF RequestAccepted, TypeOK, ConnInv, Limit, Opening, Querying
<1>4. PhaseInv'
  BY DEF RequestAccepted, TypeOK, PC, PhaseInv, Opening, Connecting, Querying
<1>5. LostInv'
  BY DEF RequestAccepted, TypeOK, LostInv
<1> QED
  BY <1>1, <1>2, <1>3, <1>4, <1>5

\* A client request takes a connection.
LEMMA RequestBeginInv ==
  ASSUME DeviceInv, RequestBegin PROVE DeviceInv'
<1> USE NumIfAssumption DEF DeviceInv, usbVars, srvVars, httpVars, reqVars
<1>1. TypeOK'
  BY SMT
  DEF RequestBegin, connInUse, TypeOK, PC, ResetInv, ConnInv, PhaseInv, Opening, Connecting
<1>2. ResetInv'
  BY DEF RequestBegin, connInUse, TypeOK, ResetInv
<1>3. ConnInv'
  BY DEF RequestBegin, connInUse, TypeOK, ConnInv, Limit, Opening, Querying
<1>4. PhaseInv'
  BY DEF RequestBegin, connInUse, TypeOK, PC, PhaseInv, Opening, Connecting, Querying
<1>5. LostInv'
  BY DEF RequestBegin, connInUse, TypeOK, LostInv
<1> QED
  BY <1>1, <1>2, <1>3, <1>4, <1>5

\* A client request does not get a connection.
LEMMA RequestGivesUpInv ==
  ASSUME DeviceInv, RequestGivesUp PROVE DeviceInv'
<1> USE NumIfAssumption DEF DeviceInv, usbVars, srvVars, httpVars, reqVars
<1>1. TypeOK'
  BY SMT
  DEF RequestGivesUp, TypeOK, PC, ResetInv, ConnInv, PhaseInv, Opening, Connecting
<1>2. ResetInv'
  BY DEF RequestGivesUp, TypeOK, ResetInv
<1>3. ConnInv'
  BY DEF RequestGivesUp, TypeOK, ConnInv, Limit, Opening, Querying
<1>4. PhaseInv'
  BY DEF RequestGivesUp, TypeOK, PC, PhaseInv, Opening, Connecting, Querying
<1>5. LostInv'
  BY DEF RequestGivesUp, TypeOK, LostInv
<1> QED
  BY <1>1, <1>2, <1>3, <1>4, <1>5

\* A client request returns it.
LEMMA RequestEndInv ==
  ASSUME DeviceInv, RequestEnd PROVE DeviceInv'
<1> USE NumIfAssumption DEF DeviceInv, usbVars, srvVars, httpVars, reqVars
<1>1. TypeOK'
  BY SMT
  DEF RequestEnd, TypeOK, PC, ResetInv, ConnInv, PhaseInv, Opening, Connecting
<1>2. ResetInv'
  BY DEF RequestEnd, TypeOK, ResetInv
<1>3. ConnInv'
  BY DEF RequestEnd, TypeOK, ConnInv, Limit, Opening, Querying
<1>4. PhaseInv'
  BY DEF RequestEnd, TypeOK, PC, PhaseInv, Opening, Connecting, Querying
<1>5. LostInv'
  BY DEF RequestEnd, TypeOK, LostInv
<1> QED
  BY <1>1, <1>2, <1>3, <1>4, <1>5

\* The publisher goes first.
LEMMA UnpublishInv ==
  ASSUME DeviceInv, Unpublish PROVE DeviceInv'
<1> USE NumIfAssumption DEF DeviceInv, usbVars, srvVars, httpVars, reqVars
<1>1. TypeOK'
  BY DEF Unpublish, TypeOK, PC, ResetInv, ConnInv, PhaseInv, Opening, Connecting
<1>2. ResetInv'
  BY DEF Unpublish, TypeOK, ResetInv
<1>3. ConnInv'
  BY DEF Unpublish, TypeOK, ConnInv, Limit, Opening, Querying
<1>4. PhaseInv'
  BY DEF Unpublish, TypeOK, PC, PhaseInv, Opening, Connecting, Querying
<1>5. LostInv'
  BY DEF Unpublish, TypeOK, LostInv
<1> QED
  BY <1>1, <1>2, <1>3, <1>4, <1>5

\* The proxy is closed.
LEMMA ProxyCloseInv ==
  ASSUME DeviceInv, ProxyClose PROVE DeviceInv'
<1> USE NumIfAssumption DEF DeviceInv, usbVars, srvVars, httpVars, reqVars
<1>1. TypeOK'
  BY SMT
  DEF ProxyClose, TypeOK, PC, ResetInv, ConnInv, PhaseInv, Opening, Connecting
<1>2. ResetInv'
  BY DEF ProxyClose, TypeOK, ResetInv
<1>3. ConnInv'
  BY DEF ProxyClose, TypeOK, ConnInv, Limit, Opening, Querying
<1>4. PhaseInv'
  BY DEF ProxyClose, TypeOK, PC, PhaseInv, Opening, Connecting, Querying
<1>5. LostInv'
  BY DEF ProxyClose, TypeOK, LostInv
<1> QED
  BY <1>1, <1>2, <1>3, <1>4, <1>5

\* The device is reset if a query timed out.
LEMMA TransportCloseInv ==
  ASSUME DeviceInv, TransportClose PROVE DeviceInv'
<1> USE NumIfAssumption DEF DeviceInv, usbVars, srvVars, httpVars, reqVars
<1>1. TypeOK'
  <2>1. lost' \subseteq {"query", "drain"}
    BY DEF TransportClose, TypeOK
  <2> QED
    BY <2>1, SMT DEF TransportClose, TypeOK, PC
<1>2. ResetInv'
  BY DEF TransportClose, NeedsReset, connInUse, TypeOK, ResetInv
<1>3. ConnInv'
  BY DEF TransportClose, NeedsReset, connInUse, TypeOK, ConnInv, Limit, Opening, Querying
<1>4. PhaseInv'
  BY DEF TransportClose, NeedsReset, connInUse, TypeOK, PC, PhaseInv, Opening, Connecting, Querying
<1>5. LostInv'
  BY DEF TransportClose, NeedsReset, connInUse, TypeOK, LostInv
<1> QED
  BY <1>1, <1>2, <1>3, <1>4, <1>5

\* Shutdown has seen every connection in the pool.
LEMMA TransportShutdownInv ==
  ASSUME DeviceInv, TransportShutdown PROVE DeviceInv'
<1> USE NumIfAssumption DEF DeviceInv, usbVars, srvVars, httpVars, reqVars
<1>1. TypeOK'
  BY SMT DEF TransportShutdown, TypeOK, PC
<1>2. ResetInv'
  BY DEF TransportShutdown, TypeOK, ResetInv
<1>3. ConnInv'
  BY DEF TransportShutdown, TypeOK, ConnInv, Limit, Opening, Querying
<1>4. PhaseInv'
  <2>1. drains' = 0
    BY SMT DEF TransportShutdown, connInUse, TypeOK
  <2> QED
    BY <2>1 DEF TransportShutdown, PhaseInv, Opening, Connecting, Querying
<1>5. LostInv'
  BY DEF TransportShutdown, TypeOK, LostInv
<1> QED
  BY <1>1, <1>2, <1>3, <1>4, <1>5

\* Nothing is left.
LEMMA TransportDestroyInv ==
  ASSUME DeviceInv, TransportDestroy PROVE DeviceInv'
<1> USE NumIfAssumption DEF DeviceInv, usbVars, srvVars, httpVars, reqVars
<1>1. TypeOK'
  BY SMT DEF TransportDestroy, TypeOK, PC
<1>2. ResetInv'
  BY DEF TransportDestroy, TypeOK, ResetInv
<1>3. ConnInv'
  BY DEF TransportDestroy, TypeOK, ConnInv, Limit, Opening, Querying
<1>4. PhaseInv'
  BY DEF TransportDestroy, TypeOK, PC, PhaseInv, Opening, Connecting, Querying
<1>5. LostInv'
  BY DEF TransportDestroy, TypeOK, LostInv
<1> QED
  BY <1>1, <1>2, <1>3, <1>4, <1>5

\* The PnP thread and what it has opened agree at any time.
THEOREM DeviceInvariant == Spec => []DeviceInv
<1>1. DeviceInv /\ [Next]_vars => DeviceInv'
  <2> SUFFICES ASSUME DeviceInv, [Next]_vars PROVE DeviceInv'
    OBVIOUS
  <2>1. CASE Next
    BY <2>1, UsbOpenDeviceInv, HwidQuirksInv, UsbDeviceInfoInv,
       ModelQuirksInv, ConfigureInv, OpenUsbConnInv, ListenInv,
       IppQueryInv, FaxProbeInv, IppCheckInv, EsclQueryInv, EsclCheckInv,
       EnableInv, DrainEndInv, RequestAcceptedInv, RequestBeginInv,
       RequestGivesUpInv, RequestEndInv, UnpublishInv, ProxyCloseInv,
       TransportCloseInv, TransportShutdownInv, TransportDestroyInv
       DEF Next, InitStep, CloseStep
  <2>2. CASE UNCHANGED vars
    BY <2>2, SMT DEF DeviceInv, TypeOK, ResetInv, ConnInv, Limit, PhaseInv, LostInv,
                vars, usbVars, srvVars, httpVars, reqVars
  <2> QED
    BY <2>1, <2>2
<1> QED
  BY <1>1, InitDeviceInv, PTL DEF Spec

\* A device that failed or was closed leaves no handle, connection, listener,
\* publisher or drain behind.
THEOREM NothingLeftTheorem == Spec => []NothingLeft
<1>1. DeviceInv => NothingLeft
  BY NumIfAssumption, SMT
  DEF DeviceInv, TypeOK, ConnInv, PhaseInv, NothingLeft
<1> QED
  BY <1>1, DeviceInvariant, PTL

\* A device that serves has what it needs, and only such a device is advertised.
THEOREM ServingSoundTheorem == Spec => []ServingSound
<1>1. DeviceInv => ServingSound
  BY DEF DeviceInv, ResetInv, ConnInv, Limit, PhaseInv, ServingSound
<1> QED
  BY <1>1, DeviceInvariant, PTL

\* A query that timed out keeps the device from serving and has it reset.
THEOREM QueryTimeoutCaughtTheorem == Spec => []QueryTimeoutCaught
<1>1. DeviceInv => QueryTimeoutCaught
  BY DEF DeviceInv, LostInv, QueryTimeoutCaught
<1> QED
  BY <1>1, DeviceInvariant, PTL

-----------------------------------------------------------------------------
(* Persistent state and ports.                                             *)

\* The thread of the PnP manager, its device, and the ports of devices agree:
\* what a device listens to is in memory, only devices that listen have a
\* publisher, and the port tried first is the one of the file, if any.
PortInv ==
  /\ pnp = "idle" <=> cur = NoDev
  /\ \A d \in Dev : listening[d] # 0 => mem[d] = listening[d] /\ last[d] = listening[d]
  /\ \A d \in pub : listening[d] # 0 /\ d # cur
  /\ pnp \in {"listen", "scan", "alloc"} => listening[cur] = 0
  /\ pnp \in {"truncate", "write"} => listening[cur] # 0
  /\ pnp = "listen" => mem[cur] \in {0, file[cur]}

\* Unless it could not read a port, LoadUsedPorts misses one only if the device
\* it belongs to listens to it: a publisher has truncated the file of a device
\* that runs.
ScanInv ==
  /\ pnp \in {"scan", "alloc"} /\ ~overlap =>
       \A d \in Dev : d \in todo \/ d = cur \/ file[d] \in used \cup {0, listening[d]}
  /\ pnp = "alloc" => todo = {}

\* The ports a device has saved or listens to are not those of another one.
ClaimInv ==
  ~overlap =>
    \A d, e \in Dev : d # e =>
      /\ file[d] = file[e] => file[d] = 0
      /\ file[d] = listening[e] => file[d] = 0
      /\ listening[d] = listening[e] => listening[d] = 0

\* PortKept, for the device of the PnP thread too unless it is being saved.
KeptInv ==
  \A d \in Dev :
    \/ last[d] = 0 \/ excused[d] \/ d \in pub \/ file[d] = last[d]
    \/ d = cur /\ pnp \in {"truncate", "write"}

DevStateInv == StateTypeOK /\ PortInv /\ ScanInv /\ ClaimInv /\ KeptInv

\* No device has a port in the beginning.
LEMMA InitDevStateInv == StateInit => DevStateInv
<1> SUFFICES ASSUME StateInit PROVE DevStateInv
  OBVIOUS
<1>1. 0 \in 0..MaxPort /\ Port \subseteq 0..MaxPort
  BY DevStateAssumption, SMT DEF Port
<1>2. StateTypeOK
  BY <1>1 DEF StateInit, StateTypeOK
<1>3. PortInv /\ ScanInv
  BY DEF StateInit, PortInv, ScanInv
<1>4. ClaimInv /\ KeptInv
  BY DEF StateInit, ClaimInv, KeptInv
<1> QED
  BY <1>2, <1>3, <1>4 DEF DevStateInv

\* LoadDevState is for a device that neither listens nor has a publisher.
LEMMA LoadDevStateInv ==
  ASSUME DevStateInv, NEW d \in Dev, LoadDevState(d) PROVE DevStateInv'
<1> USE DevStateAssumption DEF DevStateInv
<1>1. StateTypeOK'
  BY DEF LoadDevState, StateTypeOK, Port, PortInv, conf, hist
<1>2. PortInv'
  BY DEF LoadDevState, StateTypeOK, Port, PortInv, conf, hist
<1>3. ScanInv'
  BY DEF LoadDevState, StateTypeOK, Port, PortInv, ScanInv, conf, hist
<1>4. ClaimInv'
  BY DEF LoadDevState, StateTypeOK, Port, PortInv, ScanInv, ClaimInv, conf, hist
<1>5. KeptInv'
  BY DEF LoadDevState, StateTypeOK, Port, PortInv, KeptInv, conf, hist
<1> QED
  BY <1>1, <1>2, <1>3, <1>4, <1>5

\* The old port is the one the file claims.
LEMMA ListenOldInv ==
  ASSUME DevStateInv, ListenOld PROVE DevStateInv'
<1> USE DevStateAssumption DEF DevStateInv
<1>1. StateTypeOK'
  BY DEF ListenOld, ListenTo, Free, StateTypeOK, Port, PortInv, conf, hist
<1>2. PortInv'
  BY DEF ListenOld, ListenTo, Free, StateTypeOK, Port, PortInv, conf, hist
<1>3. ScanInv'
  BY DEF ListenOld, ListenTo, Free, StateTypeOK, Port, PortInv, ScanInv, conf, hist
<1>4. ClaimInv'
  BY SMT
  DEF ListenOld, ListenTo, Free, StateTypeOK, Port, PortInv, ScanInv, ClaimInv, conf, hist
<1>5. KeptInv'
  BY DEF ListenOld, ListenTo, Free, StateTypeOK, Port, PortInv, KeptInv, conf, hist
<1> QED
  BY <1>1, <1>2, <1>3, <1>4, <1>5

\* LoadUsedPorts adds what a file claims, or notes what it misses.
LEMMA LoadUsedPortsInv ==
  ASSUME DevStateInv, LoadUsedPorts PROVE DevStateInv'
<1> USE DevStateAssumption DEF DevStateInv
<1>1. StateTypeOK'
  <2>1. \A d \in Dev : {file[d]} \ {0} \subseteq Port
    BY SMT DEF StateTypeOK, Port
  <2>2. used' \subseteq Port /\ todo' \subseteq Dev /\ overlap' \in BOOLEAN
    BY <2>1 DEF LoadUsedPorts, StateTypeOK
  <2> QED
    BY <2>2 DEF LoadUsedPorts, StateTypeOK, conf
<1>2. PortInv'
  BY DEF LoadUsedPorts, StateTypeOK, Port, PortInv, conf
<1>3. ScanInv'
  <2>1. pnp = "scan" /\ UNCHANGED <<file, listening, cur>>
    BY DEF LoadUsedPorts
  <2>2. pnp' = "alloc" => todo' = {}
    BY DEF LoadUsedPorts
  <2>3. ASSUME NEW d \in todo, todo' = todo \ {d},
               \/ used' = used \cup ({file[d]} \ {0}) /\ UNCHANGED overlap
               \/ overlap' = (overlap \/ OnlyInFile(d)) /\ UNCHANGED used,
               ~overlap', NEW e \in Dev
        PROVE  e \in todo' \/ e = cur \/ file[e] \in used' \cup {0, listening[e]}
    <3>1. ~overlap
      BY <2>3
    <3>2. e \in todo \/ e = cur \/ file[e] \in used \cup {0, listening[e]}
      BY <2>1, <3>1 DEF ScanInv
    <3>3. used \subseteq used'
      BY <2>3
    <3>4. e = d => e = cur \/ file[e] \in used' \cup {0, listening[e]}
      BY <2>3 DEF OnlyInFile
    <3> QED
      BY <2>3, <3>2, <3>3, <3>4
  <2>4. ASSUME todo' = {}, overlap' = (overlap \/ \E d \in Dev : OnlyInFile(d)),
               ~overlap', NEW e \in Dev
        PROVE  e = cur \/ file[e] \in {0, listening[e]}
    BY <2>4 DEF OnlyInFile
  <2>5. ASSUME ~overlap', NEW e \in Dev
        PROVE  e \in todo' \/ e = cur \/ file[e] \in used' \cup {0, listening[e]}
    BY <2>3, <2>4, <2>5 DEF LoadUsedPorts
  <2> QED
    BY <2>1, <2>2, <2>5 DEF ScanInv
<1>4. ClaimInv'
  BY DEF LoadUsedPorts, ClaimInv, conf
<1>5. KeptInv'
  BY DEF LoadUsedPorts, StateTypeOK, Port, PortInv, KeptInv, conf
<1> QED
  BY <1>1, <1>2, <1>3, <1>4, <1>5

\* The new port is free, and nobody has reserved it or the range is exhausted.
LEMMA AllocateInv ==
  ASSUME DevStateInv, Allocate PROVE DevStateInv'
<1> USE DevStateAssumption DEF DevStateInv
<1>1. StateTypeOK'
  <2>1. CASE pnp' = "truncate"
    <3>1. cur \in Dev
      BY DEF Allocate, StateTypeOK, PortInv
    <3>2. PICK port \in Port : ListenTo(port) /\ mem' = [mem EXCEPT ![cur] = port]
                               /\ overlap' = (overlap \/ port \in used)
      BY <2>1 DEF Allocate
    <3>3. port \in 0..MaxPort /\ overlap' \in BOOLEAN
      BY <3>2, SMT DEF Port, StateTypeOK
    <3>4. cur' \in Dev \cup {NoDev}
      BY <3>1 DEF Allocate
    <3> QED
      BY <2>1, <3>1, <3>2, <3>3, <3>4 DEF Allocate, ListenTo, StateTypeOK, conf
  <2>2. CASE pnp' # "truncate"
    <3>1. mem' \in [Dev -> 0..MaxPort]
      BY <2>2, SMT DEF Allocate, StateTypeOK
    <3> QED
      BY <2>2, <3>1 DEF Allocate, StateTypeOK, conf
  <2> QED
    BY <2>1, <2>2
<1>2. PortInv'
  BY SMT
  DEF Allocate, FirstFree, ListenTo, Free, StateTypeOK, Port, PortInv, conf, hist
<1>3. ScanInv'
  BY DEF Allocate, FirstFree, ListenTo, Free, StateTypeOK, Port, PortInv, ScanInv, conf, hist
<1>4. ClaimInv'
  <2>1. CASE ~overlap' /\ pnp' = "truncate"
    <3>1. PICK port \in Port : ListenTo(port) /\ Free(port) /\ port \notin used
      BY <2>1 DEF Allocate, FirstFree, StateTypeOK
    <3>2. cur \in Dev /\ port # 0 /\ ~overlap
      BY <2>1, SMT DEF Allocate, StateTypeOK, Port, PortInv
    <3>3. \A d \in Dev : listening'[d] = IF d = cur THEN port ELSE listening[d]
      BY <3>1, <3>2 DEF ListenTo, StateTypeOK
    <3>4. \A d \in Dev : d # cur => file[d] # port
      BY <3>1, <3>2 DEF Allocate, ScanInv, Free
    <3> QED
      BY <3>1, <3>2, <3>3, <3>4 DEF Allocate, ClaimInv, Free
  <2>2. CASE pnp' # "truncate"
    BY <2>2 DEF Allocate, ClaimInv
  <2> QED
    BY <2>1, <2>2 DEF ClaimInv
<1>5. KeptInv'
  BY SMT
  DEF Allocate, FirstFree, ListenTo, Free, StateTypeOK, Port, PortInv, KeptInv, conf, hist
<1> QED
  BY <1>1, <1>2, <1>3, <1>4, <1>5

\* The PnP thread truncates the file of its device, or fails to.
LEMMA SaveTruncateInv ==
  ASSUME DevStateInv, SaveTruncate PROVE DevStateInv'
<1> USE DevStateAssumption DEF DevStateInv
<1>1. StateTypeOK'
  <2>1. cur \in Dev /\ 0 \in 0..MaxPort
    BY SMT DEF SaveTruncate, StateTypeOK, PortInv
  <2> QED
    BY <2>1 DEF SaveTruncate, StateTypeOK, conf
<1>2. PortInv'
  BY DEF SaveTruncate, StateTypeOK, Port, PortInv, conf, hist
<1>3. ScanInv'
  BY DEF SaveTruncate, StateTypeOK, Port, PortInv, ScanInv, conf, hist
<1>4. ClaimInv'
  BY SMT DEF SaveTruncate, StateTypeOK, Port, PortInv, ScanInv, ClaimInv, conf, hist
<1>5. KeptInv'
  BY DEF SaveTruncate, StateTypeOK, Port, PortInv, KeptInv, conf, hist
<1> QED
  BY <1>1, <1>2, <1>3, <1>4, <1>5

\* The PnP thread writes the port its device listens to, or fails to.
LEMMA SaveWriteInv ==
  ASSUME DevStateInv, SaveWrite PROVE DevStateInv'
<1> USE DevStateAssumption DEF DevStateInv
<1>1. StateTypeOK'
  BY DEF SaveWrite, StateTypeOK, Port, PortInv, conf, hist
<1>2. PortInv'
  BY DEF SaveWrite, StateTypeOK, Port, PortInv, conf, hist
<1>3. ScanInv'
  BY DEF SaveWrite, StateTypeOK, Port, PortInv, ScanInv, conf, hist
<1>4. ClaimInv'
  <2>1. cur \in Dev /\ listening[cur] # 0 /\ mem[cur] = listening[cur]
    BY DEF SaveWrite, StateTypeOK, PortInv
  <2>2. \A e \in Dev : file'[e] = file[e] \/ (e = cur /\ file'[e] = listening[cur])
    BY <2>1 DEF SaveWrite, StateTypeOK
  <2> QED
    BY <2>1, <2>2, SMT DEF SaveWrite, ClaimInv
<1>5. KeptInv'
  BY DEF SaveWrite, StateTypeOK, Port, PortInv, KeptInv, conf, hist
<1> QED
  BY <1>1, <1>2, <1>3, <1>4, <1>5

\* A publisher truncates the file of a device that listens.
LEMMA PubTruncateInv ==
  ASSUME DevStateInv, NEW d \in Dev, PubTruncate(d) PROVE DevStateInv'
<1> USE DevStateAssumption DEF DevStateInv
<1>1. StateTypeOK'
  BY SMT DEF PubTruncate, StateTypeOK, Port, PortInv, conf, hist
<1>2. PortInv'
  BY DEF PubTruncate, StateTypeOK, Port, PortInv, conf, hist
<1>3. ScanInv'
  BY DEF PubTruncate, StateTypeOK, Port, PortInv, ScanInv, conf, hist
<1>4. ClaimInv'
  BY DEF PubTruncate, StateTypeOK, Port, PortInv, ScanInv, ClaimInv, conf, hist
<1>5. KeptInv'
  BY DEF PubTruncate, StateTypeOK, Port, PortInv, KeptInv, conf, hist
<1> QED
  BY <1>1, <1>2, <1>3, <1>4, <1>5

\* A publisher writes the port its device listens to.
LEMMA PubWriteInv ==
  ASSUME DevStateInv, NEW d \in Dev, PubWrite(d) PROVE DevStateInv'
<1> USE DevStateAssumption DEF DevStateInv
<1>1. StateTypeOK'
  BY DEF PubWrite, StateTypeOK, Port, PortInv, conf, hist
<1>2. PortInv'
  BY DEF PubWrite, StateTypeOK, Port, PortInv, conf, hist
<1>3. ScanInv'
  BY DEF PubWrite, StateTypeOK, Port, PortInv, ScanInv, conf, hist
<1>4. ClaimInv'
  <2>1. d \in Dev /\ listening[d] # 0 /\ mem[d] = listening[d]
    BY DEF PubWrite, StateTypeOK, PortInv
  <2>2. \A e \in Dev : file'[e] = file[e] \/ (e = d /\ file'[e] = listening[d])
    BY <2>1 DEF PubWrite, StateTypeOK
  <2> QED
    BY <2>1, <2>2, SMT DEF PubWrite, ClaimInv
<1>5. KeptInv'
  BY DEF PubWrite, StateTypeOK, Port, PortInv, KeptInv, conf, hist
<1> QED
  BY <1>1, <1>2, <1>3, <1>4, <1>5

\* A device without publisher is closed.
LEMMA CloseInv ==
  ASSUME DevStateInv, NEW d \in Dev, Close(d) PROVE DevStateInv'
<1> USE DevStateAssumption DEF DevStateInv
<1>1. StateTypeOK'
  BY SMT DEF Close, StateTypeOK, Port, PortInv, conf, hist
<1>2. PortInv'
  BY DEF Close, StateTypeOK, Port, PortInv, conf, hist
<1>3. ScanInv'
  BY DEF Close, StateTypeOK, Port, PortInv, ScanInv, conf, hist
<1>4. ClaimInv'
  BY DEF Close, StateTypeOK, Port, PortInv, ScanInv, ClaimInv, conf, hist
<1>5. KeptInv'
  BY DEF Close, StateTypeOK, Port, PortInv, KeptInv, conf, hist
<1> QED
  BY <1>1, <1>2, <1>3, <1>4, <1>5

\* Other programs do not touch the state.
LEMMA ForeignInv ==
  ASSUME DevStateInv, NEW port \in 0..MaxPort, OtherProgram(port) PROVE DevStateInv'
<1> USE DevStateAssumption DEF DevStateInv
<1>1. StateTypeOK'
  BY DEF OtherProgram, Free, StateTypeOK, Port, PortInv, conf, hist
<1>2. PortInv'
  BY DEF OtherProgram, Free, StateTypeOK, Port, PortInv, conf, hist
<1>3. ScanInv'
  BY DEF OtherProgram, Free, StateTypeOK, Port, PortInv, ScanInv, conf, hist
<1>4. ClaimInv'
  BY DEF OtherProgram, Free, StateTypeOK, Port, PortInv, ScanInv, ClaimInv, conf, hist
<1>5. KeptInv'
  BY DEF OtherProgram, Free, StateTypeOK, Port, PortInv, KeptInv, conf, hist
<1> QED
  BY <1>1, <1>2, <1>3, <1>4, <1>5

\* A crash leaves files, perhaps truncated ones.
LEMMA CrashInv ==
  ASSUME DevStateInv, Crash PROVE DevStateInv'
<1> USE DevStateAssumption DEF DevStateInv
<1>1. StateTypeOK'
  BY SMT DEF Crash, StateTypeOK, Port, PortInv, conf, hist
<1>2. PortInv'
  BY DEF Crash, StateTypeOK, Port, PortInv, conf, hist
<1>3. ScanInv'
  BY DEF Crash, StateTypeOK, Port, PortInv, ScanInv, conf, hist
<1>4. ClaimInv'
  BY DEF Crash, StateTypeOK, Port, PortInv, ScanInv, ClaimInv, conf, hist
<1>5. KeptInv'
  BY DEF Crash, StateTypeOK, Port, PortInv, KeptInv, conf, hist
<1> QED
  BY <1>1, <1>2, <1>3, <1>4, <1>5

\* Memory, files and listeners agree at any time.
THEOREM DevStateInvariant == StateSpec => []DevStateInv
<1>1. DevStateInv /\ [StateNext]_stateVars => DevStateInv'
  <2> SUFFICES ASSUME DevStateInv, [StateNext]_stateVars PROVE DevStateInv'
    OBVIOUS
  <2>1. CASE StateNext
    BY <2>1, LoadDevStateInv, ListenOldInv, LoadUsedPortsInv, AllocateInv,
       SaveTruncateInv, SaveWriteInv, PubTruncateInv, PubWriteInv, CloseInv,
       ForeignInv, CrashInv DEF StateNext
  <2>2. CASE UNCHANGED stateVars
    BY <2>2 DEF DevStateInv, StateTypeOK, PortInv, ScanInv, ClaimInv, KeptInv, stateVars,
                conf, hist
  <2> QED
    BY <2>1, <2>2
<1> QED
  BY <1>1, InitDevStateInv, PTL DEF StateSpec

\* The port that NewDevice advertises is the one the device listens to.
THEOREM PortAdvertisedTheorem == StateSpec => []PortAdvertised
<1>1. DevStateInv => PortAdvertised
  BY DEF DevStateInv, PortInv, PortAdvertised
<1> QED
  BY <1>1, DevStateInvariant, PTL

\* Two devices claim one port only after the range was exhausted, or a file that
\* had a port nobody listened to could not be read.
THEOREM SavedDistinctTheorem == StateSpec => []SavedDistinct
<1>1. DevStateInv => SavedDistinct
  BY DEF DevStateInv, ClaimInv, SavedDistinct
<1> QED
  BY <1>1, DevStateInvariant, PTL

\* A device finds the port it had in its file.
THEOREM PortKeptTheorem == StateSpec => []PortKept
<1>1. DevStateInv => PortKept
  BY DEF DevStateInv, KeptInv, PortKept
<1> QED
  BY <1>1, DevStateInvariant, PTL

-----------------------------------------------------------------------------
(* The DNS-SD publisher.                                                   *)

\* Where nothing is registered: before Publish, while the timer runs, and
\* between its expiration and the retry.  The timer runs in no other place.
GroupInv ==
  /\ leaked = {}
  /\ \A p \in Pub :
       /\ gpc[p] \in {"off", "new"} \/ timer[p] => egroup[p] = "none"
       /\ gpc[p] \in {"off", "new", "exit"} => ~timer[p]

\* The name a publisher has saved, and the one of a success on its way, are
\* names under which it was established.
NameInv ==
  \A p \in Pub :
    /\ override[p] \in earned[p] \cup {NameOnly}
    /\ (\E i \in 1..Len(chan[p]) : chan[p][i] = "Success") =>
         instance[p] \in earned[p]
    /\ callback # NoPub /\ callback = <<p, "Success">> => instance[p] \in earned[p]

DNSSdInv == DNSSdTypeOK /\ GroupInv /\ HaltedQuiet /\ NameInv

\* Nothing is registered in the beginning.
LEMMA InitDNSSdInv == DNSSdInit => DNSSdInv
<1> SUFFICES ASSUME DNSSdInit PROVE DNSSdInv
  OBVIOUS
<1>1. DNSSdTypeOK
  BY DNSSdAssumption, SMT DEF DNSSdInit, DNSSdTypeOK
<1>2. GroupInv /\ HaltedQuiet
  BY DEF DNSSdInit, GroupInv, HaltedQuiet
<1>3. NameInv
  <2>1. \A p \in Pub : override[p] = NameOnly /\ chan[p] = <<>>
    BY DEF DNSSdInit
  <2>2. callback = NoPub /\ Len(<<>>) = 0
    BY DEF DNSSdInit
  <2>3. \A p \in Pub : 1..Len(chan[p]) = {}
    <3>1. 1..Len(<<>>) = {}
      BY SMT
    <3> QED
      BY <2>1, <3>1, Zenon
  <2> QED
    BY <2>1, <2>2, <2>3 DEF NameInv
<1> QED
  BY <1>1, <1>2, <1>3 DEF DNSSdInv

\* Avahi reports on a group that exists; a success is one of the name in use.
LEMMA CallbackInv ==
  ASSUME DNSSdInv, NEW p \in Pub, Callback(p) PROVE DNSSdInv'
<1> USE DNSSdAssumption DEF DNSSdInv, pubVars, avahiVars
<1>1. DNSSdTypeOK'
  BY SMTT(30) DEF Callback, AvahiReports, Unlocked, DNSSdTypeOK, Status
<1>2. GroupInv'
  BY DEF Callback, AvahiReports, Unlocked, DNSSdTypeOK, GroupInv
<1>3. HaltedQuiet'
  BY SMT DEF Callback, AvahiReports, Unlocked, DNSSdTypeOK, HaltedQuiet
<1>4. NameInv'
  <2>1. PICK status \in Status, state \in {"established", "dead"} :
          /\ AvahiReports(p, status, state)
          /\ callback' = <<p, status>>
          /\ earned' = IF state = "established"
                       THEN [earned EXCEPT ![p] = @ \cup {instance[p]}] ELSE earned
    BY DEF Callback
  <2>2. status = "Success" => state = "established"
    BY <2>1 DEF AvahiReports
  <2>3. \A q \in Pub : earned[q] \subseteq earned'[q]
    BY <2>1 DEF DNSSdTypeOK
  <2>4. \A q \in Pub : callback' = <<q, "Success">> => q = p /\ status = "Success"
    BY <2>1
  <2>5. status = "Success" => instance[p] \in earned'[p]
    BY <2>1, <2>2 DEF DNSSdTypeOK
  <2> QED
    BY <2>3, <2>4, <2>5 DEF Callback, NameInv
<1> QED
  BY <1>1, <1>2, <1>3, <1>4

\* What was reported reaches the channel.
LEMMA NotifyInv ==
  ASSUME DNSSdInv, Notify PROVE DNSSdInv'
<1> USE DNSSdAssumption DEF DNSSdInv, pubVars, avahiVars
<1> DEFINE q == callback[1]
           s == callback[2]
<1>a. q \in Pub /\ s \in Status /\ callback = <<q, s>>
  BY SMT DEF Notify, DNSSdTypeOK
<1>b. chan' = [chan EXCEPT ![q] = Append(@, s)] /\ Len(chan[q]) < ChanCap
  BY DEF Notify
<1>c. \A p \in Pub : chan[p] \in Seq(Status) /\ Len(chan[p]) \in Nat
  <2> SUFFICES ASSUME NEW p \in Pub
               PROVE  chan[p] \in Seq(Status) /\ Len(chan[p]) \in Nat
    OBVIOUS
  <2>1. chan[p] \in Seq(Status)
    BY DEF DNSSdTypeOK
  <2> QED
    BY <2>1, SMT
<1>d. chan' \in [Pub -> Seq(Status)] /\ \A p \in Pub : Len(chan'[p]) <= ChanCap
  <2>1. Append(chan[q], s) \in Seq(Status)
        /\ Len(Append(chan[q], s)) = Len(chan[q]) + 1
    BY <1>a, <1>c, SMT
  <2> HIDE DEF q, s
  <2> QED
    BY <1>a, <1>b, <1>c, <2>1, SMT DEF DNSSdTypeOK
<1>1. DNSSdTypeOK'
  BY <1>d DEF Notify, DNSSdTypeOK
<1>2. GroupInv'
  BY DEF Notify, DNSSdTypeOK, GroupInv
<1>3. HaltedQuiet'
  BY DEF Notify, DNSSdTypeOK, HaltedQuiet
<1>4. NameInv'
  <2> SUFFICES ASSUME NEW p \in Pub, NEW i \in 1..Len(chan'[p]),
                      chan'[p][i] = "Success"
               PROVE  instance[p] \in earned[p]
    BY DEF Notify, NameInv
  <2>1. CASE p = q /\ i = Len(chan[q]) + 1
    <3>1. s = "Success"
      BY <1>a, <1>b, <1>c, <2>1, SMT DEF DNSSdTypeOK
    <3> QED
      BY <1>a, <2>1, <3>1 DEF Notify, NameInv
  <2>2. CASE ~(p = q /\ i = Len(chan[q]) + 1)
    <3>1. i \in 1..Len(chan[p]) /\ chan[p][i] = "Success"
      BY <1>a, <1>b, <1>c, <2>2, SMTT(30) DEF DNSSdTypeOK
    <3> QED
      BY <3>1 DEF NameInv
  <2> QED
    BY <2>1, <2>2
<1> QED
  BY <1>1, <1>2, <1>3, <1>4

\* newDnssdSysdep leaves Avahi and the channel well typed.
LEMMA NewSysdepTyped ==
  ASSUME DNSSdTypeOK, NEW p \in Pub, NEW name \in Nat, newDnssdSysdep(p, name)
  PROVE  /\ egroup' \in [Pub -> {"none", "registering", "established", "dead"}]
         /\ chan' \in [Pub -> Seq(Status)]
         /\ \A q \in Pub : Len(chan'[q]) <= ChanCap
         /\ callback' = callback
         /\ faults' \in 0..Faults
         /\ earned' \in [Pub -> SUBSET Nat]
<1> USE DNSSdAssumption
<1>1. PICK c \in {<<>>, <<"Collision">>, <<"Failure">>} :
        chan' = [chan EXCEPT ![p] = c]
  BY DEF newDnssdSysdep
<1>2. c \in Seq(Status) /\ Len(c) <= ChanCap
  <2>1. CASE c = <<>>
    BY <2>1, SMT
  <2>2. CASE c = <<"Collision">>
    BY <2>2, SMT DEF Status
  <2>3. CASE c = <<"Failure">>
    BY <2>3, SMT DEF Status
  <2> QED
    BY <2>1, <2>2, <2>3
<1>3. chan' \in [Pub -> Seq(Status)] /\ \A q \in Pub : Len(chan'[q]) <= ChanCap
  BY <1>1, <1>2 DEF DNSSdTypeOK
<1>4. /\ egroup' \in [Pub -> {"none", "registering", "established", "dead"}]
      /\ earned' \in [Pub -> SUBSET Nat]
  BY DEF newDnssdSysdep, DNSSdTypeOK
<1>5. faults' \in 0..Faults /\ callback' = callback
  BY SMT DEF newDnssdSysdep, DNSSdTypeOK
<1> QED
  BY <1>3, <1>4, <1>5

\* Publish starts with nothing registered.
LEMMA PublishInv ==
  ASSUME DNSSdInv, NEW p \in Pub, Publish(p) PROVE DNSSdInv'
<1> USE DNSSdAssumption DEF DNSSdInv, pubVars, avahiVars
<1>1. DNSSdTypeOK'
  <2>1. InstanceName(p, 0) \in Nat
    BY DEF InstanceName, DNSSdTypeOK
  <2> QED
    BY <2>1, NewSysdepTyped DEF Publish, DNSSdTypeOK
<1>2. GroupInv'
  BY DEF Publish, newDnssdSysdep, InstanceName, Unlocked, DNSSdTypeOK, GroupInv
<1>3. HaltedQuiet'
  BY DEF Publish, newDnssdSysdep, InstanceName, Unlocked, DNSSdTypeOK, HaltedQuiet
<1>4. NameInv'
  BY SMTT(30)
  DEF Publish, newDnssdSysdep, InstanceName, Unlocked, DNSSdTypeOK, Status, NameInv
<1> QED
  BY <1>1, <1>2, <1>3, <1>4

\* The name of a success that the goroutine receives is established.
LEMMA ReceiveInv ==
  ASSUME DNSSdInv, NEW p \in Pub, Receive(p) PROVE DNSSdInv'
<1> USE DNSSdAssumption DEF DNSSdInv, pubVars, avahiVars
<1>a. chan' = [chan EXCEPT ![p] = Tail(@)] /\ chan[p] # <<>>
      /\ chan[p] \in Seq(Status)
  BY DEF Receive, DNSSdTypeOK
<1>b. /\ Tail(chan[p]) \in Seq(Status)
      /\ Len(Tail(chan[p])) = Len(chan[p]) - 1
      /\ Len(chan[p]) \in Nat \ {0}
      /\ \A i \in 1..Len(Tail(chan[p])) : Tail(chan[p])[i] = chan[p][i + 1]
      /\ Head(chan[p]) = chan[p][1] /\ Head(chan[p]) \in Status
  BY <1>a, SMT
<1>c. chan' \in [Pub -> Seq(Status)] /\ \A q \in Pub : Len(chan'[q]) <= ChanCap
  BY <1>a, <1>b, SMT DEF DNSSdTypeOK
<1>1. DNSSdTypeOK'
  <2>1. override' \in [Pub -> Nat \cup {NameOnly}]
    BY DEF Receive, DNSSdTypeOK
  <2>2. suffix' \in [Pub -> Nat]
    BY SMT DEF Receive, DNSSdTypeOK
  <2>3. gpc' \in [Pub -> {"off", "publish", "select", "halt", "new", "exit"}]
    BY DEF Receive, DNSSdTypeOK
  <2> QED
    BY <1>c, <2>1, <2>2, <2>3 DEF Receive, DNSSdTypeOK
<1>2. GroupInv'
  BY DEF Receive, DNSSdTypeOK, GroupInv
<1>3. HaltedQuiet'
  BY DEF Receive, DNSSdTypeOK, HaltedQuiet
<1>4. NameInv'
  <2>1. \A q \in Pub : (\E i \in 1..Len(chan'[q]) : chan'[q][i] = "Success") =>
                        \E i \in 1..Len(chan[q]) : chan[q][i] = "Success"
    <3> SUFFICES ASSUME NEW q \in Pub, NEW i \in 1..Len(chan'[q]),
                        chan'[q][i] = "Success"
                 PROVE  \E j \in 1..Len(chan[q]) : chan[q][j] = "Success"
      OBVIOUS
    <3>1. CASE q = p
      <4>1. chan'[q] = Tail(chan[p])
        BY <1>a, <3>1 DEF DNSSdTypeOK
      <4>2. i + 1 \in 1..Len(chan[p]) /\ chan[p][i + 1] = "Success"
        BY <1>b, <4>1, SMT
      <4> QED
        BY <3>1, <4>2
    <3>2. CASE q # p
      BY <1>a, <3>2 DEF DNSSdTypeOK
    <3> QED
      BY <3>1, <3>2
  <2>2. \A q \in Pub : override'[q] \in earned[q] \cup {NameOnly}
    <3>1. Head(chan[p]) = "Success" => instance[p] \in earned[p]
      BY <1>b, SMT DEF NameInv
    <3> QED
      BY <3>1 DEF Receive, DNSSdTypeOK, NameInv
  <2> QED
    BY <2>1, <2>2 DEF Receive, NameInv
<1> QED
  BY <1>1, <1>2, <1>3, <1>4

\* The goroutine halts what it has before it arms the timer.
LEMMA HaltRetryInv ==
  ASSUME DNSSdInv, NEW p \in Pub, HaltRetry(p) PROVE DNSSdInv'
<1> USE DNSSdAssumption DEF DNSSdInv, pubVars, avahiVars
<1>1. DNSSdTypeOK'
  BY SMT DEF HaltRetry, Halt, Unlocked, DNSSdTypeOK, Status
<1>2. GroupInv'
  BY DEF HaltRetry, Halt, Unlocked, DNSSdTypeOK, GroupInv
<1>3. HaltedQuiet'
  BY DEF HaltRetry, Halt, Unlocked, DNSSdTypeOK, HaltedQuiet
<1>4. NameInv'
  BY SMT DEF HaltRetry, Halt, Unlocked, DNSSdTypeOK, Status, NameInv
<1> QED
  BY <1>1, <1>2, <1>3, <1>4

\* The timer expires with nothing registered.
LEMMA TimerExpiresInv ==
  ASSUME DNSSdInv, NEW p \in Pub, TimerExpires(p) PROVE DNSSdInv'
<1> USE DNSSdAssumption DEF DNSSdInv, pubVars, avahiVars
<1>1. DNSSdTypeOK'
  BY DEF TimerExpires, DNSSdTypeOK, Status
<1>2. GroupInv'
  BY DEF TimerExpires, DNSSdTypeOK, GroupInv
<1>3. HaltedQuiet'
  BY DEF TimerExpires, DNSSdTypeOK, HaltedQuiet
<1>4. NameInv'
  BY DEF TimerExpires, DNSSdTypeOK, Status, NameInv
<1> QED
  BY <1>1, <1>2, <1>3, <1>4

\* A retry starts with nothing registered.
LEMMA RetryInv ==
  ASSUME DNSSdInv, NEW p \in Pub, Retry(p) PROVE DNSSdInv'
<1> USE DNSSdAssumption DEF DNSSdInv, pubVars, avahiVars
<1>1. DNSSdTypeOK'
  <2>1. InstanceName(p, suffix[p]) \in Nat
    BY DEF InstanceName, DNSSdTypeOK
  <2> QED
    BY <2>1, NewSysdepTyped DEF Retry, DNSSdTypeOK
<1>2. GroupInv'
  BY DEF Retry, newDnssdSysdep, InstanceName, Unlocked, DNSSdTypeOK, GroupInv
<1>3. HaltedQuiet'
  BY DEF Retry, newDnssdSysdep, InstanceName, Unlocked, DNSSdTypeOK, HaltedQuiet
<1>4. NameInv'
  BY SMTT(30)
  DEF Retry, newDnssdSysdep, InstanceName, Unlocked, DNSSdTypeOK, Status, NameInv
<1> QED
  BY <1>1, <1>2, <1>3, <1>4

\* Unpublish tells the goroutine to stop.
LEMMA CloseFinInv ==
  ASSUME DNSSdInv, NEW p \in Pub, CloseFin(p) PROVE DNSSdInv'
<1> USE DNSSdAssumption DEF DNSSdInv, pubVars, avahiVars
<1>1. DNSSdTypeOK'
  BY DEF CloseFin, DNSSdTypeOK, Status
<1>2. GroupInv'
  BY DEF CloseFin, DNSSdTypeOK, GroupInv
<1>3. HaltedQuiet'
  BY DEF CloseFin, DNSSdTypeOK, HaltedQuiet
<1>4. NameInv'
  BY DEF CloseFin, DNSSdTypeOK, Status, NameInv
<1> QED
  BY <1>1, <1>2, <1>3, <1>4

\* The timer goes with the goroutine.
LEMMA GoroutineExitInv ==
  ASSUME DNSSdInv, NEW p \in Pub, GoroutineExit(p) PROVE DNSSdInv'
<1> USE DNSSdAssumption DEF DNSSdInv, pubVars, avahiVars
<1>1. DNSSdTypeOK'
  BY DEF GoroutineExit, DNSSdTypeOK, Status
<1>2. GroupInv'
  BY DEF GoroutineExit, DNSSdTypeOK, GroupInv
<1>3. HaltedQuiet'
  BY DEF GoroutineExit, DNSSdTypeOK, HaltedQuiet
<1>4. NameInv'
  BY DEF GoroutineExit, DNSSdTypeOK, Status, NameInv
<1> QED
  BY <1>1, <1>2, <1>3, <1>4

\* Unpublish halts what the goroutine left.
LEMMA UnpublishHaltInv ==
  ASSUME DNSSdInv, NEW p \in Pub, UnpublishHalt(p) PROVE DNSSdInv'
<1> USE DNSSdAssumption DEF DNSSdInv, pubVars, avahiVars
<1>1. DNSSdTypeOK'
  BY SMT DEF UnpublishHalt, Halt, Unlocked, DNSSdTypeOK, Status
<1>2. GroupInv'
  BY DEF UnpublishHalt, Halt, Unlocked, DNSSdTypeOK, GroupInv
<1>3. HaltedQuiet'
  BY DEF UnpublishHalt, Halt, Unlocked, DNSSdTypeOK, HaltedQuiet
<1>4. NameInv'
  BY SMT DEF UnpublishHalt, Halt, Unlocked, DNSSdTypeOK, Status, NameInv
<1> QED
  BY <1>1, <1>2, <1>3, <1>4

\* Publishers, their names and the entry groups of Avahi agree at any time.
THEOREM DNSSdInvariant == DNSSdSpec => []DNSSdInv
<1>1. DNSSdInv /\ [DNSSdNext]_dnssdVars => DNSSdInv'
  <2> SUFFICES ASSUME DNSSdInv, [DNSSdNext]_dnssdVars PROVE DNSSdInv'
    OBVIOUS
  <2>1. CASE DNSSdNext
    BY <2>1, CallbackInv, NotifyInv, PublishInv, ReceiveInv, HaltRetryInv,
       TimerExpiresInv, RetryInv, CloseFinInv, GoroutineExitInv,
       UnpublishHaltInv DEF DNSSdNext, GoroutineStep
  <2>2. CASE UNCHANGED dnssdVars
    BY <2>2 DEF DNSSdInv, DNSSdTypeOK, GroupInv, HaltedQuiet, NameInv, dnssdVars, pubVars,
                avahiVars
  <2> QED
    BY <2>1, <2>2
<1> QED
  BY <1>1, InitDNSSdInv, PTL DEF DNSSdSpec

\* No entry group outlives its dnssdSysdep, and none exists while a retry is
\* pending.
THEOREM NothingLeakedTheorem == DNSSdSpec => []NothingLeaked
<1>1. DNSSdInv => NothingLeaked
  BY DEF DNSSdInv, GroupInv, NothingLeaked
<1> QED
  BY <1>1, DNSSdInvariant, PTL

\* No callback is on its way to a dnssdSysdep that was halted.
THEOREM HaltedQuietTheorem == DNSSdSpec => []HaltedQuiet
<1>1. DNSSdInv => HaltedQuiet
  BY DEF DNSSdInv
<1> QED
  BY <1>1, DNSSdInvariant, PTL

\* A publisher saves only names under which it was established.
THEOREM OverrideEarnedTheorem == DNSSdSpec => []OverrideEarned
<1>1. DNSSdInv => OverrideEarned
  BY DEF DNSSdInv, NameInv, OverrideEarned
<1> QED
  BY <1>1, DNSSdInvariant, PTL
=============================================================================
