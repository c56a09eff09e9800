----------------------------- MODULE MainProofs -----------------------------
(***************************************************************************)
(* The two ways in which main decides whether a process goes on: bridge    *)
(* mode, where RunBridge tells its caller the truth with any number of     *)
(* requests, and udev mode, where of any number of copies of ipp-usb one   *)
(* serves at most.  And how AuthHTTPRequest decides on a request, for any  *)
(* list of rules.                                                          *)
(***************************************************************************)
EXTENDS Bridge, UdevLock, Auth, TLAPS

\* Leaves that need arithmetic, or sequences, cite SMT.
USE Zenon

-----------------------------------------------------------------------------
(* Bridge mode.                                                            *)

\* What ExitRight rests on.  A request that reports the loss of the device has
\* seen it; deviceDisconnected is filled before shutdown is; and a shutdown
\* that was not forced leaves no request that has yet to fill it.
BridgeInv ==
  /\ TypeOK
  /\ main \in {"close", "loop", "destroy", "exit"} /\ ~forced =>
       \A r \in Request : req[r] \in {"none", "drain", "done"}
  /\ disconnected /\ ~missed =>
       deviceDisconnected \/ \E r \in Request : req[r] = "notify"
  /\ "disconnect" \in {shutdown, woken} => deviceDisconnected
  /\ deviceDisconnected => ~plugged
  /\ \A r \in Request :
       /\ req[r] = "shutdown" => deviceDisconnected
       /\ req[r] \in {"error", "notify", "shutdown"} => ~plugged
  /\ exitCode = 2 <=> main = "exit" /\ deviceDisconnected

\* The bridge starts with a device that is there and with empty channels.
LEMMA InitBridgeInv == Init => BridgeInv
<1> SUFFICES ASSUME Init PROVE BridgeInv
  OBVIOUS
<1>1. TypeOK
  BY DEF Init, TypeOK, Cause, Sender
<1>2. exitCode = 2 <=> main = "exit" /\ deviceDisconnected
  BY SMT DEF Init
<1>3. \A r \in Request : req[r] = "none"
  BY DEF Init
<1> QED
  BY <1>1, <1>2, <1>3 DEF Init, BridgeInv

\* A step of RunBridge.
LEMMA MainBridgeInv ==
  ASSUME BridgeInv, MainStep PROVE BridgeInv'
<1>1. CASE SetHandlers
  BY <1>1, ZenonT(60) DEF BridgeInv, TypeOK, Cause, Sender, SetHandlers
<1>2. CASE Wake
  BY <1>2 DEF BridgeInv, TypeOK, Cause, Sender, Wake
<1>3. CASE ProxyShutdown
  <2>1. TypeOK'
    BY <1>3, ZenonT(60) DEF BridgeInv, TypeOK, Cause, Sender, ProxyShutdown
  <2>2. ~forced' => \A r \in Request : req'[r] \in {"none", "drain", "done"}
    BY <1>3 DEF ProxyShutdown
  <2> QED
    BY <1>3, <2>1, <2>2 DEF BridgeInv, ProxyShutdown
<1>4. CASE TransportClose
  BY <1>4, ZenonT(60) DEF BridgeInv, TypeOK, Cause, Sender, TransportClose
<1>5. CASE TransportShutdown
  BY <1>5, ZenonT(60) DEF BridgeInv, TypeOK, Cause, Sender, TransportShutdown
<1>6. CASE Exit
  BY <1>6, ZenonT(60) DEF BridgeInv, TypeOK, Cause, Sender, Exit
<1> QED
  BY <1>1, <1>2, <1>3, <1>4, <1>5, <1>6 DEF MainStep

\* A signal, the end of stdin, the idle timer, or the loss of the device.
LEMMA EventBridgeInv ==
  ASSUME BridgeInv, Unplug \/ \E c \in Cause : Fire(c) PROVE BridgeInv'
<1>1. CASE Unplug
  <2>1. TypeOK'
    BY <1>1, ZenonT(60) DEF BridgeInv, TypeOK, Unplug
  <2> QED
    BY <1>1, <2>1 DEF BridgeInv, Unplug
<1>2. ASSUME NEW c \in Cause, Fire(c) PROVE BridgeInv'
  BY <1>2, SMT DEF BridgeInv, TypeOK, Cause, Sender, Fire, SendShutdown, Running
<1> QED
  BY <1>1, <1>2

\* A step that moves a request to or from the device and does nothing else.
LEMMA MoveBridgeInv ==
  ASSUME BridgeInv, NEW r \in Request, NEW from, NEW to,
         reqStep(r, from, to), UNCHANGED notReq,
         from \in {"get", "io", "body", "drain"},
         to \in {"io", "error", "body", "drain", "done"},
         to = "error" => ~plugged, from = "drain" => to = "done"
  PROVE  BridgeInv'
<1> USE DEF reqStep, notReq
<1>1. TypeOK'
  <2>1. req' \in [Request -> {"none", "get", "io", "error", "notify", "shutdown",
                             "body", "drain", "done"}]
    BY SMT DEF BridgeInv, TypeOK
  <2> QED
    BY <2>1, ZenonT(30) DEF BridgeInv, TypeOK
<1>2. (main \in {"close", "loop", "destroy", "exit"} /\ ~forced =>
         \A q \in Request : req[q] \in {"none", "drain", "done"})'
  BY DEF BridgeInv, TypeOK
<1>3. (disconnected /\ ~missed =>
         deviceDisconnected \/ \E q \in Request : req[q] = "notify")'
  BY DEF BridgeInv, TypeOK
<1>4. \A q \in Request :
        /\ req'[q] = "shutdown" => deviceDisconnected'
        /\ req'[q] \in {"error", "notify", "shutdown"} => ~plugged'
  BY DEF BridgeInv, TypeOK
<1> QED
  BY <1>1, <1>2, <1>3, <1>4 DEF BridgeInv

\* A step of ServeHTTP.
LEMMA RequestBridgeInv ==
  ASSUME BridgeInv, NEW r \in Request,
         RequestBegin(r) \/ ClientGone(r) \/ UsbStep(r) \/ RequestStep(r)
  PROVE  BridgeInv'
<1>1. CASE RequestBegin(r)
  BY <1>1, SMT DEF BridgeInv, TypeOK, Cause, Sender, RequestBegin, reqStep, notReq, Running
<1>2. CASE ConnGet(r) \/ ClientGone(r)
  <2>1. UNCHANGED notReq
    BY <1>2 DEF ConnGet, ClientGone
  <2>2. reqStep(r, "get", "io") \/ reqStep(r, "get", "done")
    BY <1>2 DEF ConnGet, ClientGone
  <2> QED
    BY <2>1, <2>2, MoveBridgeInv
<1>3. CASE UsbStep(r)
  <2>1. UNCHANGED notReq
    BY <1>3 DEF UsbStep, RoundTrip, CopyBody, Drain
  <2>2. \/ reqStep(r, "io", "body") \/ reqStep(r, "io", "done")
        \/ ~plugged /\ reqStep(r, "io", "error")
        \/ reqStep(r, "body", "done") \/ reqStep(r, "body", "drain")
        \/ reqStep(r, "drain", "done")
    BY <1>3 DEF UsbStep, RoundTrip, CopyBody, Drain
  <2> QED
    BY <2>1, <2>2, MoveBridgeInv
<1>4. CASE ReportDisconnect(r)
  <2> USE <1>4 DEF ReportDisconnect, reqStep
  <2>1. PICK to \in {"notify", "done"} :
          /\ req[r] = "error" /\ req' = [req EXCEPT ![r] = to]
          /\ ~disconnected /\ handlerSet => to = "notify"
    OBVIOUS
  <2>2. TypeOK'
    <3>1. req' \in [Request -> {"none", "get", "io", "error", "notify", "shutdown",
                               "body", "drain", "done"}]
      BY <2>1, SMT DEF BridgeInv, TypeOK
    <3> QED
      BY <3>1, ZenonT(60) DEF BridgeInv, TypeOK
  <2>3. (disconnected /\ ~missed =>
           deviceDisconnected \/ \E q \in Request : req[q] = "notify")'
    <3>1. CASE disconnected
      BY <2>1, <3>1 DEF BridgeInv, TypeOK
    <3>2. CASE ~disconnected
      BY <2>1, <3>2 DEF BridgeInv, TypeOK
    <3> QED
      BY <3>1, <3>2
  <2>4. \A q \in Request :
          /\ req'[q] = "shutdown" => deviceDisconnected'
          /\ req'[q] \in {"error", "notify", "shutdown"} => ~plugged'
    BY <2>1 DEF BridgeInv, TypeOK
  <2> QED
    BY <2>1, <2>2, <2>3, <2>4 DEF BridgeInv, TypeOK, Running
<1>5. CASE HandlerFirst(r)
  BY <1>5, SMT DEF BridgeInv, TypeOK, Cause, Sender, HandlerFirst, reqStep, Running
<1>6. CASE HandlerSecond(r)
  BY <1>6 DEF BridgeInv, TypeOK, Cause, Sender, HandlerSecond, reqStep, Running,
              SendShutdown
<1> QED
  BY <1>1, <1>2, <1>3, <1>4, <1>5, <1>6 DEF RequestStep

\* Reports of the loss of the device and the state of RunBridge agree at any
\* time.
THEOREM BridgeInvariant == Spec => []BridgeInv
<1>1. BridgeInv /\ [Next]_vars => BridgeInv'
  <2> SUFFICES ASSUME BridgeInv, [Next]_vars PROVE BridgeInv'
    OBVIOUS
  <2>1. CASE Next
    BY <2>1, MainBridgeInv, EventBridgeInv, RequestBridgeInv DEF Next
  <2>2. CASE UNCHANGED vars
    BY <2>2, SMT DEF BridgeInv, TypeOK, Cause, Sender, vars
  <2> QED
    BY <2>1, <2>2
<1> QED
  BY <1>1, InitBridgeInv, PTL DEF Spec

\* The exit code of RunBridge is 2 when the loss of the device ended it, or was
\* reported during a graceful shutdown, and only when the device is gone.
THEOREM ExitRightTheorem == Spec => []ExitRight
<1>1. BridgeInv => ExitRight
  BY DEF BridgeInv, ExitRight, TypeOK
<1> QED
  BY <1>1, BridgeInvariant, PTL

-----------------------------------------------------------------------------
(* Udev mode.                                                              *)

\* Nobody serves, and nobody holds the lock, in the beginning.
LEMMA InitLockInv == UdevInit => LockInv
BY NoProcAssumption DEF UdevInit, LockInv, UdevTypeOK, PC, Serves

\* The steps that neither take nor release the lock.
LEMMA KeepLockInv ==
  ASSUME LockInv, NEW p \in Proc,
         Plug(p) \/ UnplugLast \/ PnPStart(p) \/ PnPIdle(p)
  PROVE  LockInv'
<1>1. CASE Plug(p)
  BY <1>1 DEF LockInv, UdevTypeOK, PC, Serves, Plug
<1>2. CASE UnplugLast
  BY <1>2 DEF LockInv, UdevTypeOK, PC, Serves, UnplugLast
<1>3. CASE PnPStart(p)
  BY <1>3 DEF LockInv, UdevTypeOK, PC, Serves, PnPStart, CtrlsockStart,
              UsbGetIppOverUsbDeviceDescs
<1>4. CASE PnPIdle(p)
  BY <1>4 DEF LockInv, UdevTypeOK, PC, Serves, PnPIdle, CtrlsockStop,
              UsbGetIppOverUsbDeviceDescs
<1> QED
  BY <1>1, <1>2, <1>3, <1>4

\* The end of a process releases the lock if the process held it.
LEMMA ExitLockInv ==
  ASSUME LockInv, NEW p \in Proc, ExitProc(p),
         UNCHANGED present, killed' \in BOOLEAN, failed' \in BOOLEAN
  PROVE  LockInv'
BY NoProcAssumption DEF LockInv, UdevTypeOK, PC, Serves, ExitProc

\* The steps that take or release the lock.
LEMMA LockStepInv ==
  ASSUME LockInv, NEW p \in Proc,
         Start(p) \/ FileUnlock(p) \/ UsbCheckIppOverUsbDevices(p)
           \/ Relock(p) \/ PnPTerm(p)
  PROVE  LockInv'
<1>1. CASE Start(p)
  <2>1. CASE FileLock(p) /\ pc' = [pc EXCEPT ![p] = "pnp"] /\ UNCHANGED ctrl
    BY <1>1, <2>1, NoProcAssumption
    DEF LockInv, UdevTypeOK, PC, Serves, Start, FileLock
  <2>2. CASE ExitProc(p)
    BY <1>1, <2>2, ExitLockInv DEF Start, LockInv, UdevTypeOK
  <2> QED
    BY <1>1, <2>1, <2>2 DEF Start
<1>2. CASE FileUnlock(p)
  BY <1>2, NoProcAssumption DEF LockInv, UdevTypeOK, PC, Serves, FileUnlock
<1>3. CASE UsbCheckIppOverUsbDevices(p)
  <2>1. failed' \in BOOLEAN /\ killed' \in BOOLEAN /\ UNCHANGED present
    BY <1>3 DEF UsbCheckIppOverUsbDevices, UsbGetIppOverUsbDeviceDescs, LockInv, UdevTypeOK
  <2>2. CASE pc' = [pc EXCEPT ![p] = "relock"] /\ UNCHANGED <<lock, ctrl>>
    BY <1>3, <2>1, <2>2 DEF LockInv, UdevTypeOK, PC, Serves,
                            UsbCheckIppOverUsbDevices
  <2>3. CASE ExitProc(p)
    BY <2>1, <2>3, ExitLockInv
  <2> QED
    BY <1>3, <2>2, <2>3 DEF UsbCheckIppOverUsbDevices
<1>4. CASE Relock(p)
  <2>1. CASE FileLock(p) /\ pc' = [pc EXCEPT ![p] = "pnp"] /\ UNCHANGED ctrl
    BY <1>4, <2>1, NoProcAssumption
    DEF LockInv, UdevTypeOK, PC, Serves, Relock, FileLock
  <2>2. CASE ExitProc(p)
    BY <1>4, <2>2, ExitLockInv DEF Relock, LockInv, UdevTypeOK
  <2> QED
    BY <1>4, <2>1, <2>2 DEF Relock
<1>5. CASE PnPTerm(p)
  BY <1>5, ExitLockInv DEF PnPTerm, LockInv, UdevTypeOK
<1> QED
  BY <1>1, <1>2, <1>3, <1>4, <1>5

\* The lock file and the copies that serve agree at any time.
THEOREM LockInvariant == UdevSpec => []LockInv
<1>1. LockInv /\ [UdevNext]_udevVars => LockInv'
  <2> SUFFICES ASSUME LockInv, [UdevNext]_udevVars PROVE LockInv'
    OBVIOUS
  <2>1. CASE \E p \in Proc : Plug(p) \/ Step(p) \/ PnPTerm(p)
    BY <2>1, KeepLockInv, LockStepInv DEF Step
  <2>2. CASE UnplugLast
    BY <2>2 DEF LockInv, UdevTypeOK, PC, Serves, UnplugLast
  <2>3. CASE UNCHANGED udevVars
    BY <2>3 DEF LockInv, UdevTypeOK, PC, Serves, udevVars
  <2> QED
    BY <2>1, <2>2, <2>3 DEF UdevNext
<1> QED
  BY InitLockInv, <1>1, PTL DEF UdevSpec

\* The lock file does what the manual says of it: it keeps copies of the daemon
\* from running simultaneously, the re-acquisition in udev mode included.
THEOREM OneDaemonTheorem == UdevSpec => []OneDaemon
<1>1. LockInv => OneDaemon
  BY DEF LockInv, OneDaemon
<1> QED
  BY LockInvariant, <1>1, PTL

-----------------------------------------------------------------------------
(* Authentication.                                                         *)

\* A rule of the configuration, as LoadAuthUIDRules makes it.
AuthRule == [isGroup : BOOLEAN, name : STRING, allowed : SUBSET AuthOpsAll]

\* AuthUIDinfoLookup begins both lists of names with a number.
HasNames(info) == info.users # {} /\ info.groups # {}

\* What the decision depends on: the request, where the client is, what the
\* system knows of the client's user, and which question to it fails.
AuthRequest ==
  [post : BOOLEAN, path : STRING, local : BOOLEAN, supported : BOOLEAN,
   fails : {"none", "addrs", "uid", "lookup"},
   info : [users : SUBSET STRING, groups : SUBSET STRING]]

\* The user of the client can be known.
Known(rq) == rq.local /\ rq.supported

\* A rule is for everybody, or for the user, by name or by group.
RuleFor(r, rq) ==
  r.name = "*" \/ (Known(rq) /\ r.name \in IF r.isGroup THEN rq.info.groups ELSE rq.info.users)

\* There are no rules, or one for the client allows the operation.
Allowed(rules, rq) ==
  rules = <<>> \/ \E r \in ToSet(rules) : RuleFor(r, rq) /\ Operation(rq) \in r.allowed

\* Something that has to be asked of the system cannot be answered; the user
\* does not have to be asked for if all rules are for everybody.
AuthFails(rules, rq) ==
  \/ rq.fails = "addrs"
  \/ rq.fails \in {"uid", "lookup"} /\ Known(rq) /\ \E r \in ToSet(rules) : r.name # "*"

\* A request is for one of the operations that rules are about.
LEMMA OperationKnown ==
  ASSUME NEW rq PROVE Operation(rq) \in AuthOpsAll
BY DEF Operation, AuthOpsAll

\* Which operations AuthUID finds for a list of names: those of the rules that
\* match one of the names or everybody.
LEMMA AuthUIDFinds ==
  ASSUME NEW rules \in Seq(AuthRule), rules # <<>>, NEW info, HasNames(info), NEW op
  PROVE  op \in AuthUID(rules, info) <=>
           \E r \in ToSet(rules) :
             /\ op \in r.allowed
             /\ r.name = "*" \/ r.name \in IF r.isGroup THEN info.groups ELSE info.users
<1> DEFINE Names(r) == IF r.isGroup THEN info.groups ELSE info.users
           Ops(r) == IF r.isGroup THEN UNION {MatchGroup(r, g) : g \in info.groups}
                                  ELSE UNION {MatchUser(r, u) : u \in info.users}
<1>1. AuthUID(rules, info) = UNION {Ops(r) : r \in ToSet(rules)}
  BY DEF AuthUID
<1>2. ASSUME NEW r \in ToSet(rules)
      PROVE  op \in Ops(r) <=> op \in r.allowed /\ (r.name = "*" \/ r.name \in Names(r))
  <2>0. info.users # {} /\ info.groups # {}
    BY DEF HasNames
  <2>1. CASE r.isGroup
    <3>1. \A g : op \in MatchGroup(r, g) <=> op \in r.allowed /\ (r.name = "*" \/ r.name = g)
      BY <2>1 DEF MatchGroup
    <3>2. op \in Ops(r) <=> \E g \in info.groups : op \in MatchGroup(r, g)
      BY <2>1
    <3>3. Names(r) = info.groups
      BY <2>1
    <3> HIDE DEF Ops, Names
    <3> QED
      BY <2>0, <3>1, <3>2, <3>3, SMT
  <2>2. CASE ~r.isGroup
    <3>1. \A u : op \in MatchUser(r, u) <=> op \in r.allowed /\ (r.name = "*" \/ r.name = u)
      BY <2>2 DEF MatchUser
    <3>2. op \in Ops(r) <=> \E u \in info.users : op \in MatchUser(r, u)
      BY <2>2
    <3>3. Names(r) = info.users
      BY <2>2
    <3> HIDE DEF Ops, Names
    <3> QED
      BY <2>0, <3>1, <3>2, <3>3, SMT
  <2> QED
    BY <2>1, <2>2
<1> HIDE DEF Ops
<1>3. op \in AuthUID(rules, info) <=> \E r \in ToSet(rules) : op \in Ops(r)
  BY <1>1
<1> QED
  BY <1>2, <1>3

\* AuthHTTPRequest grants a request exactly if it is allowed, and refuses it
\* exactly if it is not, unless something could not be found out, whatever the
\* rules are: not to look the user up when no rule names one is no loss.
THEOREM AuthDecides ==
  ASSUME NEW rules \in Seq(AuthRule), NEW rq \in AuthRequest, HasNames(rq.info)
  PROVE  /\ AuthHTTPRequest(rules, rq) = 200 <=> Allowed(rules, rq) /\ ~AuthFails(rules, rq)
         /\ AuthHTTPRequest(rules, rq) = 403 <=> ~Allowed(rules, rq) /\ ~AuthFails(rules, rq)
<1> DEFINE needUID == rq.local /\ rq.supported /\ authUIDrequiresUID(rules)
           info == IF needUID THEN rq.info ELSE Nobody
           granted == Operation(rq) \in AuthUID(rules, info)
           res == AuthHTTPRequest(rules, rq)
<1>1. HasNames(info)
  BY DEF HasNames, Nobody
<1>2. granted <=> Allowed(rules, rq)
  <2>1. CASE rules = <<>>
    BY <2>1, OperationKnown DEF AuthUID, Allowed
  <2>2. CASE rules # <<>>
    <3>1. granted <=>
            \E r \in ToSet(rules) :
              /\ Operation(rq) \in r.allowed
              /\ r.name = "*" \/ r.name \in IF r.isGroup THEN info.groups ELSE info.users
      <4> HIDE DEF info
      <4> QED
        BY <1>1, <2>2, AuthUIDFinds
    <3>2. ASSUME NEW r \in ToSet(rules)
          PROVE  (r.name = "*" \/ r.name \in IF r.isGroup THEN info.groups ELSE info.users)
                 <=> RuleFor(r, rq)
      <4>1. CASE needUID
        BY <4>1 DEF RuleFor, Known
      <4>2. CASE ~needUID
        <5>1. info.groups = {"*"} /\ info.users = {"*"}
          BY <4>2 DEF Nobody
        <5>2. ~Known(rq) \/ r.name = "*"
          BY <4>2 DEF Known, authUIDrequiresUID
        <5> HIDE DEF info
        <5> QED
          BY <5>1, <5>2 DEF RuleFor
      <4> QED
        BY <4>1, <4>2
    <3> HIDE DEF granted, info
    <3> QED
      BY <2>2, <3>1, <3>2 DEF Allowed
  <2> QED
    BY <2>1, <2>2
<1>3. res = CASE rq.fails = "addrs" -> 500
              [] rq.fails = "uid" /\ needUID -> 500
              [] rq.fails = "lookup" /\ needUID -> 0
              [] OTHER -> IF granted THEN 200 ELSE 403
  BY DEF AuthHTTPRequest
<1>4. AuthFails(rules, rq) <=>
        \/ rq.fails = "addrs"
        \/ rq.fails = "uid" /\ needUID
        \/ rq.fails = "lookup" /\ needUID
  BY DEF AuthFails, Known, authUIDrequiresUID
<1>5. rq.fails \in {"none", "addrs", "uid", "lookup"}
  BY DEF AuthRequest
<1> HIDE DEF needUID, granted, res
<1>6. CASE AuthFails(rules, rq)
  <2>1. res \in {0, 500}
    <3>1. CASE rq.fails = "addrs"
      BY <1>3, <3>1
    <3>2. CASE rq.fails = "uid" /\ needUID
      BY <1>3, <3>2
    <3>3. CASE rq.fails = "lookup" /\ needUID
      BY <1>3, <3>3
    <3> QED
      BY <1>4, <1>6, <3>1, <3>2, <3>3
  <2>2. res # 200 /\ res # 403
    BY <2>1, SMT
  <2> QED
    BY <1>6, <2>2 DEF res
<1>7. CASE ~AuthFails(rules, rq)
  <2>1. res = IF granted THEN 200 ELSE 403
    BY <1>3, <1>4, <1>7
  <2>2. 200 # 403
    BY SMT
  <2>3. CASE granted
    <3>1. res = 200 /\ Allowed(rules, rq)
      BY <1>2, <2>1, <2>3
    <3> QED
      BY <1>7, <2>2, <3>1, SMT DEF res
  <2>4. CASE ~granted
    <3>1. res = 403 /\ ~Allowed(rules, rq)
      BY <1>2, <2>1, <2>4
    <3> QED
      BY <1>7, <2>2, <3>1, SMT DEF res
  <2> QED
    BY <2>3, <2>4
<1> QED
  BY <1>6, <1>7
=============================================================================
