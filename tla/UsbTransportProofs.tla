------------------------- MODULE UsbTransportProofs -------------------------
(***************************************************************************)
(* Proofs about UsbTransport, for every finite set of connections and      *)
(* every set of requests.                                                  *)
(***************************************************************************)
EXTENDS UsbTransport, FiniteSetTheorems, SequenceTheorems, TLAPS

\* Leaves that need arithmetic, or sequences, cite SMT.
USE Zenon

-----------------------------------------------------------------------------
(* The pool as a sequence without repetitions.                             *)

\* A pool without repetitions never holds more than all the connections, and
\* it holds all of them when connInUse() = 0.
LEMMA PoolBound ==
  ASSUME NEW s \in Seq(Conn), IsInjective(s)
  PROVE  /\ Len(s) <= Cardinality(Conn)
         /\ Len(s) = Cardinality(Conn) => Range(s) = Conn
<1>1. Len(s) \in Nat /\ s \in [1..Len(s) -> Conn] /\ DOMAIN s = 1..Len(s)
  BY LenProperties
<1>2. s \in Injection(1..Len(s), Conn)
  BY <1>1 DEF Injection
<1>3. Cardinality(1..Len(s)) = Len(s)
  BY <1>1, FS_Interval, SMTT(30)
<1>4. /\ Cardinality(1..Len(s)) <= Cardinality(Conn)
      /\ Cardinality(1..Len(s)) = Cardinality(Conn)
           <=> s \in Surjection(1..Len(s), Conn)
  BY <1>2, FS_Injection, ConnAssumption
<1>5. s \in Surjection(1..Len(s), Conn) => Range(s) = Conn
  BY <1>1 DEF Surjection, Range
<1> QED
  BY <1>3, <1>4, <1>5

\* Receiving from the pool takes exactly its first connection away.
LEMMA PoolTail ==
  ASSUME NEW s \in Seq(Conn), IsInjective(s), s # <<>>
  PROVE  /\ Head(s) \in Conn
         /\ Tail(s) \in Seq(Conn)
         /\ IsInjective(Tail(s))
         /\ Head(s) \in Range(s)
         /\ Range(Tail(s)) = Range(s) \ {Head(s)}
<1>1. /\ Head(s) \in Conn
      /\ Tail(s) \in Seq(Conn)
      /\ Len(Tail(s)) = Len(s) - 1
      /\ \A i \in 1..Len(Tail(s)) : Tail(s)[i] = s[i+1]
  BY HeadTailProperties
<1>2. /\ Len(s) \in Nat
      /\ DOMAIN s = 1..Len(s)
      /\ DOMAIN Tail(s) = 1..Len(Tail(s))
  BY <1>1, LenProperties
<1>3. Len(s) # 0 /\ Head(s) = s[1]
  BY EmptySeq, SMT
<1>4. IsInjective(Tail(s))
  BY <1>1, <1>2, SMT DEF IsInjective
<1>5. Range(Tail(s)) \subseteq Range(s) \ {Head(s)}
  BY <1>1, <1>2, <1>3, SMT DEF IsInjective, Range
<1>6. ASSUME NEW i \in 1..Len(s), s[i] # s[1]
      PROVE  s[i] \in Range(Tail(s))
  <2>1. i - 1 \in 1..Len(Tail(s)) /\ Tail(s)[i - 1] = s[i]
    BY <1>1, <1>2, <1>6, SMT
  <2> QED
    BY <2>1, <1>2, Zenon DEF Range
<1>7. Range(s) \ {Head(s)} \subseteq Range(Tail(s))
  BY <1>2, <1>3, <1>6 DEF Range
<1>8. Head(s) \in Range(s)
  BY <1>2, <1>3, SMT DEF Range
<1> QED
  BY <1>1, <1>4, <1>5, <1>7, <1>8

\* Sending a connection that is not in the pool adds it, once.
LEMMA PoolAppend ==
  ASSUME NEW s \in Seq(Conn), IsInjective(s), NEW c \in Conn, c \notin Range(s)
  PROVE  /\ Append(s, c) \in Seq(Conn)
         /\ IsInjective(Append(s, c))
         /\ Range(Append(s, c)) = Range(s) \cup {c}
<1>1. /\ Append(s, c) \in Seq(Conn)
      /\ Len(Append(s, c)) = Len(s) + 1
      /\ \A i \in 1..Len(s) : Append(s, c)[i] = s[i]
      /\ Append(s, c)[Len(s) + 1] = c
  BY AppendProperties, SMT
<1>2. /\ Len(s) \in Nat
      /\ DOMAIN s = 1..Len(s)
      /\ DOMAIN Append(s, c) = 1..Len(s) + 1
  BY <1>1, LenProperties
<1>3. \A i \in 1..Len(s) : s[i] # c
  BY <1>2 DEF Range
<1>4. \A i \in 1..Len(s) + 1 : i \in 1..Len(s) \/ i = Len(s) + 1
  BY <1>2, SMT
<1>5. IsInjective(Append(s, c))
  BY <1>1, <1>2, <1>3, <1>4 DEF IsInjective
<1>6. Range(Append(s, c)) = Range(s) \cup {c}
  BY <1>1, <1>2, <1>4, SMT DEF Range
<1> QED
  BY <1>1, <1>5, <1>6

-----------------------------------------------------------------------------
(* Type correctness.                                                       *)

\* NewUsbTransport starts in a state of the right type.
LEMMA InitTypeOK == Init => TypeOK
<1> SUFFICES ASSUME Init PROVE TypeOK
  OBVIOUS
<1>1. Cardinality(Conn) \in Nat
  BY FS_CardinalityType, ConnAssumption
<1>2. connPool \in Seq(Conn)
  BY <1>1, SeqDef DEF Init
<1> QED
  BY <1>2, Zenon DEF Init, TypeOK, ReqState, PnpState, UsbState

\* The steps of a request (RoundTrip, put) keep types.
LEMMA RequestTypeOK ==
  ASSUME TypeOK, ConnAccounting, NEW r \in Request, RequestNext(r)
  PROVE  TypeOK'
<1> USE DEF TypeOK, ReqState, PnpState, UsbState, reqVars, poolVars, pnpVars
<1>1. CASE ServeHTTP(r)
  BY <1>1 DEF ServeHTTP
<1>2. CASE ClientGone(r)
  BY <1>2 DEF ClientGone
<1>3. CASE Prefetch(r)
  BY <1>3 DEF Prefetch
<1>4. CASE usbConnGet(r)
  <2>1. CASE connPool = <<>>
    BY <1>4, <2>1 DEF usbConnGet
  <2>2. CASE connPool # <<>>
    <3>1. Head(connPool) \in Conn /\ Tail(connPool) \in Seq(Conn)
      BY <2>2, HeadTailProperties
    <3>2. late' \in [Request -> BOOLEAN]
      BY <1>4, Zenon DEF usbConnGet
    <3>3. drained' \in [Request -> BOOLEAN]
      BY <1>4, Zenon DEF usbConnGet
    <3>4. pc' \in [Request -> ReqState]
      BY <1>4, Zenon DEF usbConnGet
    <3>5. conn' \in [Request -> Conn \cup {NoConn}]
      BY <1>4, <3>1 DEF usbConnGet
    <3>6. connPool' \in Seq(Conn)
      BY <1>4, <3>1, Zenon DEF usbConnGet
    <3> QED
      BY <1>4, <3>2, <3>3, <3>4, <3>5, <3>6 DEF usbConnGet
  <2> QED
    BY <2>1, <2>2
<1>5. CASE WriteRequest(r)
  BY <1>5, SMT DEF WriteRequest
<1>6. CASE ReadResponse(r)
  <2>1. pending' \in [Conn -> BOOLEAN]
    BY <1>6, Zenon DEF ReadResponse
  <2>2. drained' \in [Request -> BOOLEAN]
    BY <1>6, Zenon DEF ReadResponse
  <2> QED
    BY <1>6, <2>1, <2>2, SMT DEF ReadResponse
<1>7. CASE CopyBody(r)
  BY <1>7, Zenon DEF CopyBody
<1>8. CASE CloseBody(r)
  BY <1>8 DEF CloseBody
<1>9. CASE Drain(r)
  BY <1>9, Zenon DEF Drain
<1>10. CASE put(r)
  <2>1. conn[r] \in Conn
    BY <1>10 DEF put, ConnAccounting, Holding
  <2>2. connPool' \in Seq(Conn)
    BY <1>10, <2>1, AppendProperties DEF put
  <2> QED
    BY <1>10, <2>2 DEF put
<1>11. CASE SignalReleased(r)
  BY <1>11 DEF SignalReleased
<1> QED
  BY <1>1, <1>2, <1>3, <1>4, <1>5, <1>6, <1>7, <1>8, <1>9, <1>10, <1>11
  DEF RequestNext, RequestStep, UsbStep

\* The steps of PnPStart (Shutdown, Close) keep types.
LEMMA PnpTypeOK ==
  ASSUME TypeOK,
         \/ DeviceRemoved \/ DeviceTerminated \/ DeviceInitFailed
         \/ ShutdownStep \/ ShutdownExpire \/ Unplug
  PROVE  TypeOK'
<1> USE DEF TypeOK, PnpState, UsbState, reqVars, poolVars
<1>1. CASE DeviceRemoved \/ DeviceTerminated \/ DeviceInitFailed
  BY <1>1, Zenon
  DEF DeviceRemoved, DeviceTerminated, DeviceInitFailed, HTTPProxyClose
<1>2. CASE Close
  BY <1>2 DEF Close
<1>3. CASE closeShutdownChan
  BY <1>3 DEF closeShutdownChan
<1>4. CASE ShutdownLoop
  BY <1>4 DEF ShutdownLoop, ShutdownReturn
<1>5. CASE ShutdownWake
  BY <1>5 DEF ShutdownWake
<1>6. CASE Destroy
  BY <1>6 DEF Destroy
<1>7. CASE ShutdownExpire
  BY <1>7 DEF ShutdownExpire, ShutdownReturn
<1>8. CASE Unplug
  BY <1>8 DEF Unplug
<1> QED
  BY <1>1, <1>2, <1>3, <1>4, <1>5, <1>6, <1>7, <1>8 DEF ShutdownStep

-----------------------------------------------------------------------------
(* Every connection is accounted for.                                      *)

\* Initially the pool has every connection.
LEMMA InitConnAccounting == Init => ConnAccounting
<1> SUFFICES ASSUME Init PROVE ConnAccounting
  OBVIOUS
<1>1. Cardinality(Conn) \in Nat
  BY FS_CardinalityType, ConnAssumption
<1>2. connPool \in Seq(Conn) /\ IsInjective(connPool)
  BY InitTypeOK DEF Init, TypeOK
<1>3. Len(connPool) = Cardinality(Conn)
  <2>1. DOMAIN connPool = 1..Cardinality(Conn)
    BY DEF Init
  <2> QED
    BY <1>1, <1>2, <2>1, LenProperties, SMT
<1>4. Range(connPool) = Conn
  BY <1>2, <1>3, PoolBound
<1> QED
  BY <1>2, <1>4, NoConnAssumption DEF Init, ConnAccounting, Holding

\* Only usbConnGet and put move a connection.
LEMMA RequestConnAccounting ==
  ASSUME TypeOK, ConnAccounting, NEW r \in Request, RequestNext(r)
  PROVE  ConnAccounting'
<1>1. CASE usbConnGet(r) /\ connPool' # connPool
  <2>1. /\ connPool # <<>>
        /\ pc[r] = "get"
        /\ pc' = [pc EXCEPT ![r] = "write"]
        /\ conn' = [conn EXCEPT ![r] = Head(connPool)]
        /\ connPool' = Tail(connPool)
    BY <1>1 DEF usbConnGet
  <2>2. /\ Head(connPool) \in Conn
        /\ IsInjective(Tail(connPool))
        /\ Head(connPool) \in Range(connPool)
        /\ Range(Tail(connPool)) = Range(connPool) \ {Head(connPool)}
    BY <2>1, PoolTail DEF TypeOK, ConnAccounting
  <2>3. conn[r] = NoConn
    BY <2>1 DEF ConnAccounting, Holding
  <2>4. \A s \in Request : conn'[s] = IF s = r THEN Head(connPool) ELSE conn[s]
    BY <2>1 DEF TypeOK
  <2>5. \A s \in Request : pc'[s] = IF s = r THEN "write" ELSE pc[s]
    BY <2>1 DEF TypeOK
  <2>6. \A s \in Request : (conn'[s] # NoConn) <=> (pc'[s] \in Holding)
    BY <2>2, <2>4, <2>5, NoConnAssumption DEF ConnAccounting, Holding
  <2>7. \A s \in Request : conn'[s] \notin Range(connPool')
    BY <2>1, <2>2, <2>4, SMT DEF ConnAccounting
  <2>8. \A s, t \in Request :
          conn'[s] = conn'[t] /\ conn'[s] # NoConn => s = t
    BY <2>2, <2>4, SMT DEF ConnAccounting
  <2>9. \A c \in Conn :
          c \in Range(connPool') \/ \E s \in Request : conn'[s] = c
    <3> SUFFICES ASSUME NEW c \in Conn, c \notin Range(connPool')
                 PROVE  \E s \in Request : conn'[s] = c
      OBVIOUS
    <3>1. CASE c = Head(connPool)
      BY <3>1, <2>4
    <3>2. CASE c # Head(connPool)
      <4>1. PICK s \in Request : conn[s] = c
        BY <3>2, <2>1, <2>2 DEF ConnAccounting
      <4> QED
        BY <4>1, <2>3, <2>4, NoConnAssumption
    <3> QED
      BY <3>1, <3>2
  <2> QED
    BY <2>1, <2>2, <2>6, <2>7, <2>8, <2>9 DEF ConnAccounting
<1>2. CASE put(r)
  <2>1. /\ pc[r] = "put"
        /\ pc' = [pc EXCEPT ![r] = "signal"]
        /\ connPool' = Append(connPool, conn[r])
        /\ conn' = [conn EXCEPT ![r] = NoConn]
    BY <1>2 DEF put
  <2>2. conn[r] \in Conn /\ conn[r] \notin Range(connPool)
    BY <2>1, SMT DEF TypeOK, ConnAccounting, Holding
  <2>3. /\ IsInjective(connPool')
        /\ Range(connPool') = Range(connPool) \cup {conn[r]}
    BY <2>1, <2>2, PoolAppend DEF TypeOK, ConnAccounting
  <2>4. \A s \in Request : conn'[s] = IF s = r THEN NoConn ELSE conn[s]
    BY <2>1 DEF TypeOK
  <2>5. \A s \in Request : pc'[s] = IF s = r THEN "signal" ELSE pc[s]
    BY <2>1 DEF TypeOK
  <2>6. \A s \in Request : (conn'[s] # NoConn) <=> (pc'[s] \in Holding)
    BY <2>4, <2>5 DEF ConnAccounting, Holding
  <2>7. NoConn \notin Range(connPool)
    BY NoConnAssumption, RangeOfSeq DEF TypeOK
  <2>8. \A s \in Request : conn'[s] \notin Range(connPool')
    BY <2>2, <2>3, <2>4, <2>7, NoConnAssumption DEF ConnAccounting
  <2>9. \A s, t \in Request :
          conn'[s] = conn'[t] /\ conn'[s] # NoConn => s = t
    BY <2>4 DEF ConnAccounting
  <2>10. \A c \in Conn :
           c \in Range(connPool') \/ \E s \in Request : conn'[s] = c
    BY <2>3, <2>4 DEF ConnAccounting
  <2> QED
    BY <2>3, <2>6, <2>8, <2>9, <2>10 DEF ConnAccounting
<1>3. CASE /\ conn' = conn
           /\ connPool' = connPool
           /\ \A s \in Request : pc'[s] \in Holding <=> pc[s] \in Holding
  BY <1>3 DEF ConnAccounting
<1>4. \/ usbConnGet(r) /\ connPool' # connPool
      \/ put(r)
      \/ /\ conn' = conn
         /\ connPool' = connPool
         /\ \A s \in Request : pc'[s] \in Holding <=> pc[s] \in Holding
  <2> USE DEF TypeOK, Holding, poolVars
  <2>1. CASE usbConnGet(r)
    <3>1. CASE connPool' = connPool
      <4>1. connPool # <<>> => Tail(connPool) # connPool
        BY HeadTailProperties, LenProperties, SMT
      <4> QED
        BY <2>1, <3>1, <4>1 DEF usbConnGet
    <3> QED
      BY <2>1, <3>1
  <2>2. CASE ServeHTTP(r) \/ ClientGone(r) \/ Prefetch(r)
    BY <2>2 DEF ServeHTTP, ClientGone, Prefetch
  <2>3. CASE WriteRequest(r) \/ ReadResponse(r) \/ CopyBody(r) \/ Drain(r)
    BY <2>3 DEF WriteRequest, ReadResponse, CopyBody, Drain
  <2>4. CASE CloseBody(r) \/ SignalReleased(r)
    BY <2>4 DEF CloseBody, SignalReleased
  <2> QED
    BY <2>1, <2>2, <2>3, <2>4 DEF RequestNext, RequestStep, UsbStep
<1> QED
  BY <1>1, <1>2, <1>3, <1>4

\* The PnP thread moves no connection.
LEMMA PnpConnAccounting ==
  ASSUME ConnAccounting,
         \/ DeviceRemoved \/ DeviceTerminated \/ DeviceInitFailed
         \/ ShutdownStep \/ ShutdownExpire \/ Unplug
  PROVE  ConnAccounting'
<1>1. UNCHANGED <<pc, conn, connPool>>
  BY DEF DeviceRemoved, DeviceTerminated, DeviceInitFailed, HTTPProxyClose,
         ShutdownStep, Close, closeShutdownChan, ShutdownLoop, ShutdownWake,
         Destroy, ShutdownExpire, Unplug, reqVars, poolVars
<1> QED
  BY <1>1 DEF ConnAccounting

-----------------------------------------------------------------------------
(* The inductive invariant.                                                *)

\* The pool that NewUsbTransport fills satisfies the inductive invariant.
LEMMA InitTransportInv == Init => TransportInv
<1> SUFFICES ASSUME Init PROVE TransportInv
  OBVIOUS
<1>1. TypeOK /\ ConnAccounting
  BY InitTypeOK, InitConnAccounting
<1>2. PoolDrained
  BY <1>1, RangeOfSeq DEF Init, PoolDrained, TypeOK
<1> QED
  BY <1>1, <1>2
  DEF Init, TransportInv, EarlyHolderSafe, ReleaseSignalled

\* No request puts a connection back before its response has been read.
LEMMA RequestPoolDrained ==
  ASSUME TransportInv, NEW r \in Request, RequestNext(r)
  PROVE  /\ PoolDrained'
         /\ \A s \in Request : conn'[s] # NoConn /\ pending'[conn'[s]] =>
              pc'[s] \in {"copy", "close", "drain"} /\ ~drained'[s]
<1> DEFINE Own(s) == conn[s] # NoConn /\ pending[conn[s]] =>
                       pc[s] \in {"copy", "close", "drain"} /\ ~drained[s]
<1>1. TypeOK /\ ConnAccounting /\ PoolDrained /\ \A s \in Request : Own(s)
  BY DEF TransportInv
<1>2. Range(connPool) \subseteq Conn
  BY <1>1, RangeOfSeq DEF TypeOK
<1>3. CASE usbConnGet(r) /\ connPool # <<>> /\ connPool' = Tail(connPool)
                         /\ pc' = [pc EXCEPT ![r] = "write"]
                         /\ conn' = [conn EXCEPT ![r] = Head(connPool)]
                         /\ drained' = [drained EXCEPT ![r] = FALSE]
  <2>1. /\ Head(connPool) \in Range(connPool)
        /\ Range(Tail(connPool)) = Range(connPool) \ {Head(connPool)}
    BY <1>1, <1>3, PoolTail DEF TypeOK, ConnAccounting
  <2>2. pending' = pending
    BY <1>3 DEF usbConnGet
  <2>3. PoolDrained'
    BY <1>1, <1>3, <2>1, <2>2 DEF PoolDrained
  <2>4. ~pending[Head(connPool)]
    BY <1>1, <2>1 DEF PoolDrained
  <2> QED
    BY <1>1, <1>3, <2>2, <2>3, <2>4 DEF TypeOK
<1>4. CASE put(r)
  <2>1. /\ pc[r] = "put"
        /\ pc' = [pc EXCEPT ![r] = "signal"]
        /\ connPool' = Append(connPool, conn[r])
        /\ conn' = [conn EXCEPT ![r] = NoConn]
        /\ UNCHANGED <<drained, pending>>
    BY <1>4 DEF put
  <2>2. conn[r] \in Conn /\ conn[r] \notin Range(connPool)
    BY <1>1, <2>1, SMT DEF TypeOK, ConnAccounting, Holding
  <2>3. Range(connPool') = Range(connPool) \cup {conn[r]}
    BY <1>1, <2>1, <2>2, PoolAppend DEF TypeOK, ConnAccounting
  <2>4. ~pending[conn[r]]
    BY <1>1, <2>1, <2>2, NoConnAssumption
  <2>5. PoolDrained'
    BY <1>1, <2>1, <2>3, <2>4 DEF PoolDrained
  <2> QED
    BY <1>1, <2>1, <2>5 DEF TypeOK
<1>5. CASE ReadResponse(r) \/ CopyBody(r) \/ Drain(r)
  <2>1. UNCHANGED <<conn, connPool>>
    BY <1>5 DEF ReadResponse, CopyBody, Drain, poolVars
  <2>2. conn[r] \in Conn /\ conn[r] \notin Range(connPool)
    BY <1>1, <1>5, SMT
    DEF ReadResponse, CopyBody, Drain, TypeOK, ConnAccounting, Holding
  <2>3. \A c \in Conn : c # conn[r] => pending'[c] = pending[c]
    BY <1>1, <1>5 DEF ReadResponse, CopyBody, Drain, TypeOK
  <2>4. PoolDrained'
    BY <1>1, <1>2, <2>1, <2>2, <2>3 DEF PoolDrained
  <2>5. ASSUME NEW s \in Request, s # r PROVE Own(s)'
    <3>1. pc'[s] = pc[s] /\ drained'[s] = drained[s]
      BY <1>1, <1>5, <2>5 DEF ReadResponse, CopyBody, Drain, TypeOK
    <3>2. conn[s] # NoConn => conn[s] \in Conn /\ conn[s] # conn[r]
      BY <1>1, <2>2, <2>5, SMT DEF TypeOK, ConnAccounting
    <3> QED
      BY <1>1, <2>1, <2>3, <3>1, <3>2
  <2>6. Own(r)'
    BY <1>1, <1>5, <2>1, <2>2 DEF ReadResponse, CopyBody, Drain, TypeOK
  <2> QED
    BY <2>4, <2>5, <2>6
<1>6. CASE /\ UNCHANGED <<conn, drained, connPool, pending>>
           /\ \A s \in Request : pc[s] \in {"copy", "close", "drain"} =>
                \/ pc'[s] \in {"copy", "close", "drain"}
                \/ drained[s]
  BY <1>1, <1>6 DEF PoolDrained
<1>7. \/ /\ usbConnGet(r) /\ connPool # <<>> /\ connPool' = Tail(connPool)
         /\ pc' = [pc EXCEPT ![r] = "write"]
         /\ conn' = [conn EXCEPT ![r] = Head(connPool)]
         /\ drained' = [drained EXCEPT ![r] = FALSE]
      \/ put(r)
      \/ ReadResponse(r) \/ CopyBody(r) \/ Drain(r)
      \/ /\ UNCHANGED <<conn, drained, connPool, pending>>
         /\ \A s \in Request : pc[s] \in {"copy", "close", "drain"} =>
              \/ pc'[s] \in {"copy", "close", "drain"}
              \/ drained[s]
  <2> USE <1>1 DEF TypeOK, poolVars
  <2>1. CASE usbConnGet(r)
    BY <2>1 DEF usbConnGet
  <2>2. CASE ServeHTTP(r) \/ ClientGone(r) \/ Prefetch(r)
    BY <2>2 DEF ServeHTTP, ClientGone, Prefetch
  <2>3. CASE WriteRequest(r)
    BY <2>3 DEF WriteRequest
  <2>4. CASE CloseBody(r) \/ SignalReleased(r)
    BY <2>4 DEF CloseBody, SignalReleased
  <2> QED
    BY <2>1, <2>2, <2>3, <2>4 DEF RequestNext, RequestStep, UsbStep
<1> QED
  BY <1>3, <1>4, <1>5, <1>6, <1>7

\* A request that gets a connection behind the back of Close is late; a put
\* that completes the pool is followed by its signal.
LEMMA RequestShutdown ==
  ASSUME TransportInv, NEW r \in Request, RequestNext(r)
  PROVE  /\ EarlyHolderSafe'
         /\ ReleaseSignalled'
         /\ (pnp \in {"loop", "wait", "destroy", "closed"} => shutdown)'
<1>1. /\ TypeOK
      /\ ConnAccounting
      /\ EarlyHolderSafe
      /\ ReleaseSignalled
      /\ pnp \in {"loop", "wait", "destroy", "closed"} => shutdown
  BY DEF TransportInv
<1>2. UNCHANGED <<pnp, shutdown>>
  BY DEF RequestNext, RequestStep, UsbStep, ServeHTTP, ClientGone, Prefetch,
         usbConnGet, WriteRequest, ReadResponse, CopyBody, CloseBody, Drain,
         put, SignalReleased, poolVars, pnpVars
<1>3. EarlyHolderSafe'
  <2>1. CASE usbConnGet(r)
    BY <1>1, <1>2, <2>1 DEF usbConnGet, EarlyHolderSafe, TypeOK
  <2>2. CASE ~usbConnGet(r)
    <3>1. late' = late /\ \A s \in Request : conn'[s] \in {conn[s], NoConn}
      BY <1>1, <2>2
      DEF RequestNext, RequestStep, UsbStep, ServeHTTP, ClientGone, Prefetch,
          WriteRequest, ReadResponse, CopyBody, CloseBody, Drain, put,
          SignalReleased, TypeOK
    <3> QED
      BY <1>1, <1>2, <3>1 DEF EarlyHolderSafe
  <2> QED
    BY <2>1, <2>2
<1>4. ReleaseSignalled'
  <2>1. CASE usbConnGet(r) /\ connPool' # connPool
    <3>1. connPool # <<>> /\ connPool' = Tail(connPool)
      BY <2>1 DEF usbConnGet
    <3>2. Len(connPool') = Len(connPool) - 1 /\ Len(connPool) \in Nat
      BY <1>1, <3>1, HeadTailProperties, LenProperties DEF TypeOK
    <3>3. Len(connPool) <= Cardinality(Conn)
      BY <1>1, PoolBound DEF TypeOK, ConnAccounting
    <3>4. Cardinality(Conn) \in Nat
      BY FS_CardinalityType, ConnAssumption
    <3>5. connInUse' # 0
      BY <3>2, <3>3, <3>4, SMT DEF connInUse
    <3> QED
      BY <3>5 DEF ReleaseSignalled
  <2>2. CASE put(r)
    BY <1>1, <2>2 DEF put, ReleaseSignalled, TypeOK
  <2>3. CASE SignalReleased(r)
    BY <2>3 DEF SignalReleased, ReleaseSignalled
  <2>4. CASE /\ UNCHANGED <<connPool, connReleased>>
             /\ \A s \in Request : pc[s] = "signal" => pc'[s] = "signal"
    BY <1>1, <1>2, <2>4 DEF ReleaseSignalled, connInUse
  <2>5. \/ usbConnGet(r) /\ connPool' # connPool
        \/ put(r) \/ SignalReleased(r)
        \/ /\ UNCHANGED <<connPool, connReleased>>
           /\ \A s \in Request : pc[s] = "signal" => pc'[s] = "signal"
    BY <1>1
    DEF RequestNext, RequestStep, UsbStep, ServeHTTP, ClientGone, Prefetch,
        usbConnGet, WriteRequest, ReadResponse, CopyBody, CloseBody, Drain,
        TypeOK, poolVars
  <2> QED
    BY <2>1, <2>2, <2>3, <2>4, <2>5
<1> QED
  BY <1>1, <1>2, <1>3, <1>4

\* When connInUse() = 0 no request owns a connection.
LEMMA PoolFull ==
  ASSUME TypeOK, ConnAccounting, connInUse = 0
  PROVE  \A r \in Request : conn[r] = NoConn
<1>1. Len(connPool) = Cardinality(Conn)
  <2>1. Cardinality(Conn) \in Nat /\ Len(connPool) \in Nat
    BY FS_CardinalityType, ConnAssumption, LenProperties DEF TypeOK
  <2> QED
    BY <2>1, SMT DEF connInUse
<1>2. Range(connPool) = Conn
  BY <1>1, PoolBound DEF TypeOK, ConnAccounting
<1> QED
  BY <1>2, SMT DEF TypeOK, ConnAccounting

\* The steps of Shutdown and Close keep the inductive invariant's shutdown part.
LEMMA PnpShutdown ==
  ASSUME TransportInv,
         \/ DeviceRemoved \/ DeviceTerminated \/ DeviceInitFailed
         \/ ShutdownStep \/ ShutdownExpire \/ Unplug
  PROVE  /\ EarlyHolderSafe'
         /\ ReleaseSignalled'
         /\ (pnp \in {"loop", "wait", "destroy", "closed"} => shutdown)'
<1>1. /\ TypeOK
      /\ ConnAccounting
      /\ EarlyHolderSafe
      /\ ReleaseSignalled
      /\ pnp \in {"loop", "wait", "destroy", "closed"} => shutdown
  BY DEF TransportInv
<1> USE DEF EarlyHolderSafe, ReleaseSignalled, connInUse, reqVars, poolVars
<1>2. CASE DeviceRemoved \/ DeviceTerminated \/ DeviceInitFailed
  BY <1>2 DEF DeviceRemoved, DeviceTerminated, DeviceInitFailed, HTTPProxyClose
<1>3. CASE Close
  BY <1>3 DEF Close
<1>4. CASE closeShutdownChan
  BY <1>4 DEF closeShutdownChan
<1>5. CASE ShutdownLoop
  <2>1. CASE connInUse = 0
    <3>1. \A r \in Request : conn[r] = NoConn
      BY <1>1, <2>1, PoolFull
    <3> QED
      BY <1>1, <1>5, <2>1, <3>1 DEF ShutdownLoop, ShutdownReturn
  <2>2. CASE connInUse # 0
    BY <1>1, <1>5, <2>2 DEF ShutdownLoop
  <2> QED
    BY <2>1, <2>2
<1>6. CASE ShutdownWake
  BY <1>1, <1>6 DEF ShutdownWake
<1>7. CASE Destroy
  BY <1>1, <1>7 DEF Destroy
<1>8. CASE ShutdownExpire
  BY <1>1, <1>8 DEF ShutdownExpire, ShutdownReturn
<1>9. CASE Unplug
  BY <1>1, <1>9 DEF Unplug
<1> QED
  BY <1>2, <1>3, <1>4, <1>5, <1>6, <1>7, <1>8, <1>9 DEF ShutdownStep

\* Every step keeps the inductive invariant.
LEMMA NextTransportInv == TransportInv /\ [Next]_vars => TransportInv'
<1> SUFFICES ASSUME TransportInv, [Next]_vars PROVE TransportInv'
  OBVIOUS
<1>1. ASSUME NEW r \in Request, RequestNext(r) PROVE TransportInv'
  <2>1. TypeOK /\ ConnAccounting
    BY DEF TransportInv
  <2> QED
    BY <1>1, <2>1, RequestTypeOK, RequestConnAccounting, RequestPoolDrained,
       RequestShutdown
    DEF TransportInv
<1>2. CASE \/ DeviceRemoved \/ DeviceTerminated \/ DeviceInitFailed
           \/ ShutdownStep \/ ShutdownExpire \/ Unplug
  <2>1. TypeOK' /\ ConnAccounting'
    BY <1>2, PnpTypeOK, PnpConnAccounting DEF TransportInv
  <2>2. UNCHANGED <<pc, conn, drained, connPool, pending>>
    BY <1>2
    DEF DeviceRemoved, DeviceTerminated, DeviceInitFailed, HTTPProxyClose,
        ShutdownStep, Close, closeShutdownChan, ShutdownLoop, ShutdownWake,
        Destroy, ShutdownExpire, Unplug, reqVars, poolVars
  <2>3. PoolDrained'
    BY <2>2 DEF TransportInv, PoolDrained
  <2> QED
    BY <1>2, <2>1, <2>2, <2>3, PnpShutdown DEF TransportInv
<1>3. CASE UNCHANGED vars
  BY <1>3
  DEF TransportInv, TypeOK, ConnAccounting, PoolDrained, EarlyHolderSafe,
      ReleaseSignalled, connInUse, vars, reqVars, poolVars, pnpVars
<1> QED
  BY <1>1, <1>2, <1>3 DEF Next

\* The inductive invariant holds in every reachable state.
THEOREM TransportInvariant == Spec => []TransportInv
<1> QED
  BY InitTransportInv, NextTransportInv, PTL DEF Spec

\* Every variable of the transport keeps its type.
THEOREM TypeCorrect == Spec => []TypeOK
<1>1. TransportInv => TypeOK
  BY DEF TransportInv
<1> QED
  BY <1>1, TransportInvariant, PTL

\* No error path and no way to close a response leaks a connection or
\* returns it twice (RoundTripWithSession, usbResponseBodyWrapper, put).
THEOREM ConnAccountingTheorem == Spec => []ConnAccounting
<1>1. TransportInv => ConnAccounting
  BY DEF TransportInv
<1> QED
  BY <1>1, TransportInvariant, PTL

\* A connection of the pool carries no unread response.
THEOREM PoolDrainedTheorem == Spec => []PoolDrained
<1>1. TransportInv => PoolDrained
  BY DEF TransportInv
<1> QED
  BY <1>1, TransportInvariant, PTL

\* After the drain of Close only late requests own connections.
THEOREM EarlyHolderSafeTheorem == Spec => []EarlyHolderSafe
<1>1. TransportInv => EarlyHolderSafe
  BY DEF TransportInv
<1> QED
  BY <1>1, TransportInvariant, PTL

\* Shutdown never sleeps over a full pool without a wakeup on its way.
THEOREM ReleaseSignalledTheorem == Spec => []ReleaseSignalled
<1>1. TransportInv => ReleaseSignalled
  BY DEF TransportInv
<1> QED
  BY <1>1, TransportInvariant, PTL

-----------------------------------------------------------------------------
(* The transport implements ConnLease.                                     *)

\* The refinement mapping of CL.
holders == [c \in Conn |-> {r \in Request : conn[r] = c}]
quiesced == pnp \in {"destroy", "closed"}

\* The pool of NewUsbTransport is an initial state of the abstract leases.
LEMMA InitLease == Init => CL!Init
<1> SUFFICES ASSUME Init PROVE holders = [c \in Conn |-> {}] /\ quiesced = FALSE
  BY Zenon DEF CL!Init, holders, quiesced
<1>1. \A c \in Conn : {r \in Request : conn[r] = c} = {}
  BY NoConnAssumption DEF Init
<1> QED
  BY <1>1, SMT DEF Init, holders, quiesced

\* usbConnGet leases a connection, put returns it, and the loop of Shutdown
\* quiesces when it reads connInUse() = 0; every other step is a stutter.
LEMMA NextLease ==
  ASSUME TransportInv, [Next]_vars
  PROVE  [CL!Next]_(CL!leaseVars)
<1> USE DEF CL!leaseVars
<1>1. TypeOK /\ ConnAccounting
  BY DEF TransportInv
<1>2. CASE UNCHANGED <<conn, pnp>>
  BY <1>2
<1>3. ASSUME NEW r \in Request, RequestNext(r), conn' # conn
      PROVE  CL!Next
  <2>1. pnp' = pnp
    BY <1>3 DEF RequestNext, RequestStep, UsbStep, ServeHTTP, ClientGone,
         Prefetch, usbConnGet, WriteRequest, ReadResponse, CopyBody, CloseBody,
         Drain, put, SignalReleased, pnpVars
  <2>2. \/ usbConnGet(r) /\ connPool # <<>>
           /\ conn' = [conn EXCEPT ![r] = Head(connPool)]
        \/ put(r)
    BY <1>3 DEF RequestNext, RequestStep, UsbStep, ServeHTTP, ClientGone,
         Prefetch, usbConnGet, WriteRequest, ReadResponse, CopyBody, CloseBody,
         Drain, SignalReleased
  <2>3. CASE usbConnGet(r) /\ connPool # <<>>
             /\ conn' = [conn EXCEPT ![r] = Head(connPool)]
    <3> DEFINE c == Head(connPool)
    <3>1. c \in Conn /\ c \in Range(connPool)
      <4>1. connPool \in Seq(Conn) /\ IsInjective(connPool) /\ connPool # <<>>
        BY <1>1, <2>3 DEF TypeOK, ConnAccounting
      <4> QED
        BY <4>1, PoolTail
    <3>2. conn[r] = NoConn
      BY <1>1, <2>3 DEF usbConnGet, ConnAccounting, Holding
    <3>3. \A s \in Request : conn[s] # c
      BY <1>1, <3>1 DEF ConnAccounting
    <3>4. \A s \in Request : conn'[s] = IF s = r THEN c ELSE conn[s]
      BY <1>1, <2>3 DEF TypeOK
    <3>5. holders' = [holders EXCEPT ![c] = {r}]
      <4>1. \A d \in Conn : {s \in Request : conn'[s] = d}
              = IF d = c THEN {r} ELSE {s \in Request : conn[s] = d}
        BY <3>2, <3>3, <3>4, NoConnAssumption
      <4> QED
        BY <4>1, <3>1, Zenon DEF holders
    <3>6. holders[c] = {} /\ \A d \in Conn : r \notin holders[d]
      BY <3>1, <3>2, <3>3, NoConnAssumption DEF holders
    <3>7. CL!Lease(c, r)
      BY <2>1, <3>5, <3>6 DEF CL!Lease, holders
    <3> QED
      BY <3>1, <3>7, Zenon DEF CL!Next, CL!Lease
  <2>4. CASE put(r)
    <3> DEFINE c == conn[r]
    <3>1. c \in Conn
      BY <1>1, <2>4, SMT DEF put, TypeOK, ConnAccounting, Holding
    <3>2. \A s \in Request : conn'[s] = IF s = r THEN NoConn ELSE conn[s]
      BY <1>1, <2>4 DEF put, TypeOK
    <3>3. holders[c] = {r}
      BY <1>1, <3>1, NoConnAssumption DEF holders, ConnAccounting
    <3>4. holders' = [holders EXCEPT ![c] = {}]
      <4>1. \A d \in Conn : {s \in Request : conn'[s] = d}
              = IF d = c THEN {} ELSE {s \in Request : conn[s] = d}
        BY <1>1, <3>1, <3>2, NoConnAssumption, SMT DEF ConnAccounting
      <4> QED
        BY <4>1, <3>1, Zenon DEF holders
    <3>5. CL!Return(c, r)
      BY <2>1, <3>3, <3>4 DEF CL!Return, holders
    <3> QED
      BY <3>1, <3>5, Zenon DEF CL!Next, CL!Return
  <2> QED
    BY <2>2, <2>3, <2>4
<1>4. CASE \/ DeviceRemoved \/ DeviceTerminated \/ DeviceInitFailed
           \/ ShutdownStep \/ ShutdownExpire \/ Unplug
  <2>1. conn' = conn
    BY <1>4
    DEF DeviceRemoved, DeviceTerminated, DeviceInitFailed, HTTPProxyClose,
        ShutdownStep, Close, closeShutdownChan, ShutdownLoop, ShutdownWake,
        Destroy, ShutdownExpire, Unplug, reqVars
  <2>2. holders' = holders
    BY <2>1 DEF holders
  <2>3. CASE ShutdownLoop /\ connInUse = 0 /\ final
    <3>1. ~quiesced /\ quiesced' = TRUE
      BY <2>3 DEF ShutdownLoop, ShutdownReturn, quiesced
    <3>2. \A c \in Conn : holders[c] = {}
      BY <1>1, <2>3, PoolFull, NoConnAssumption DEF holders
    <3>3. CL!Quiesce
      BY <2>2, <3>1, <3>2 DEF CL!Quiesce, holders, quiesced
    <3> QED
      BY <3>3 DEF CL!Next
  <2>4. CASE ~(ShutdownLoop /\ connInUse = 0 /\ final)
    <3>1. quiesced' = quiesced
      BY <1>4, <2>4, SMT
      DEF DeviceRemoved, DeviceTerminated, DeviceInitFailed, HTTPProxyClose,
          ShutdownStep, Close, closeShutdownChan, ShutdownLoop, ShutdownWake,
          Destroy, ShutdownExpire, ShutdownReturn, Unplug, quiesced
    <3> QED
      BY <2>2, <3>1 DEF holders, quiesced
  <2> QED
    BY <2>3, <2>4
<1>5. CASE UNCHANGED vars
  BY <1>5 DEF vars, reqVars, pnpVars
<1>6. ASSUME NEW r \in Request, RequestNext(r), conn' = conn
      PROVE  UNCHANGED <<conn, pnp>>
  BY <1>6 DEF RequestNext, RequestStep, UsbStep, ServeHTTP, ClientGone,
       Prefetch, usbConnGet, WriteRequest, ReadResponse, CopyBody, CloseBody,
       Drain, put, SignalReleased, pnpVars
<1> QED
  BY <1>2, <1>3, <1>4, <1>5, <1>6 DEF Next

\* The pool keeps the promise of ConnLease: exclusive leases, and quiescence
\* declared only while none is out.
THEOREM LeaseRefinement == Spec => LeaseSpec
<1>1. Init /\ [][Next]_vars /\ []TransportInv
        => CL!Init /\ [][CL!Next]_(CL!leaseVars)
  BY InitLease, NextLease, PTL
<1> QED
  BY <1>1, TransportInvariant, PTL DEF Spec, LeaseSpec, CL!Spec
=============================================================================
