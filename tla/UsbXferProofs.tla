---------------------------- MODULE UsbXferProofs ----------------------------
(***************************************************************************)
(* Proofs about UsbXfer, for every set of goroutines and of addresses, and *)
(* about the transactions of UsbConn on top of it.                         *)
(***************************************************************************)
EXTENDS UsbConn, TLAPS

\* Leaves that need arithmetic, or sequences, cite SMT.
USE Zenon

\* Without any transfer, the inductive invariant of transfers holds.
LEMMA InitXferInv == Init => XferInv
BY NilAssumption, SMT
DEF Init, XferInv, TypeOK, NoFreeInFlight, CallbackOwnsChannel, ResultExact,
    NoCb, PC, Result, Status

\* The steps of a call up to the submission of its transfer.
LEMMA BeginXferInv ==
  ASSUME XferInv, NEW t \in Thread,
         Call(t) \/ Insert(t) \/ Submit(t) \/ Expire(t)
  PROVE  XferInv'
<1> USE NilAssumption
    DEF XferInv, TypeOK, NoFreeInFlight, CallbackOwnsChannel, ResultExact,
        NoCb, PC, Result, Status, usbVars
<1>1. CASE Call(t)
  BY <1>1, SMT DEF Call
<1>2. CASE Insert(t)
  BY <1>2, SMT DEF Insert
<1>3. CASE Submit(t)
  BY <1>3, SMTT(30) DEF Submit
<1>4. CASE Expire(t)
  BY <1>4, SMT DEF Expire
<1> QED
  BY <1>1, <1>2, <1>3, <1>4

\* The steps of a call from there on.
LEMMA EndXferInv ==
  ASSUME XferInv, NEW t \in Thread,
         Select(t) \/ Wait(t) \/ Delete(t) \/ Free(t)
  PROVE  XferInv'
<1> USE NilAssumption
    DEF XferInv, TypeOK, NoFreeInFlight, CallbackOwnsChannel, ResultExact,
        NoCb, PC, Result, Status, usbVars
<1>1. CASE Select(t)
  BY <1>1, SMTT(30) DEF Select
<1>2. CASE Wait(t)
  BY <1>2, SMT DEF Wait, Decode
<1>3. CASE Delete(t)
  BY <1>3, SMT DEF Delete
<1>4. CASE Free(t)
  BY <1>4, SMT DEF Free
<1> QED
  BY <1>1, <1>2, <1>3, <1>4

\* The steps of the libusb event thread.
LEMMA EventXferInv ==
  ASSUME XferInv,
         \/ \E x \in Xfer : Complete(x) \/ CallbackLookup(x)
         \/ CallbackClose
  PROVE  XferInv'
<1> USE NilAssumption
    DEF XferInv, TypeOK, NoFreeInFlight, CallbackOwnsChannel, ResultExact,
        NoCb, PC, Result, Status, callVars
<1>1. ASSUME NEW x \in Xfer, Complete(x) PROVE XferInv'
  BY <1>1, SMT DEF Complete
<1>2. ASSUME NEW x \in Xfer, CallbackLookup(x) PROVE XferInv'
  BY <1>2, SMT DEF CallbackLookup
<1>3. CASE CallbackClose
  BY <1>3, SMT DEF CallbackClose
<1> QED
  BY <1>1, <1>2, <1>3

\* Every step of Send, Recv, libusb and its callback keeps the invariant.
LEMMA NextXferInv ==
  ASSUME XferInv, [Next]_vars PROVE XferInv'
<1>1. CASE Next
  BY <1>1, BeginXferInv, EndXferInv, EventXferInv DEF Next, CallStep
<1>2. CASE UNCHANGED vars
  BY <1>2, SMT
  DEF XferInv, TypeOK, NoFreeInFlight, CallbackOwnsChannel, ResultExact,
      vars, callVars, usbVars
<1> QED
  BY <1>1, <1>2

\* The inductive invariant holds in every reachable state.
THEOREM XferInvariant == Spec => []XferInv
<1>1. XferInv /\ [Next]_vars => XferInv'
  BY NextXferInv
<1> QED
  BY <1>1, InitXferInv, PTL DEF Spec

\* Send and Recv never free a transfer libusb still works on.
THEOREM NoFreeInFlightTheorem == Spec => []NoFreeInFlight
<1>1. XferInv => NoFreeInFlight
  BY DEF XferInv
<1> QED
  BY <1>1, XferInvariant, PTL

\* libusbTransferCallback closes the channel of the call that waits for it.
THEOREM CallbackOwnsChannelTheorem == Spec => []CallbackOwnsChannel
<1>1. XferInv => CallbackOwnsChannel
  BY DEF XferInv
<1> QED
  BY <1>1, XferInvariant, PTL

\* libusbTransferStatusDecode drops no completed transfer.
THEOREM ResultExactTheorem == Spec => []ResultExact
<1>1. XferInv => ResultExact
  BY DEF XferInv
<1> QED
  BY <1>1, XferInvariant, PTL

-----------------------------------------------------------------------------
(* Transactions.                                                           *)

\* Every step of a connection is a step of UsbXfer, or none.
LEMMA ConnStepImplements ==
  ASSUME ConnNext PROVE [Next]_vars
<1> USE ConnAssumption
<1>1. CASE Idle \/ RoundTrip \/ ClientGone
  BY <1>1 DEF Idle, RoundTrip, ClientGone
<1>2. CASE IoCall
  BY <1>2 DEF IoCall, Next
<1>3. CASE IoReturn \/ SanitizeEOF \/ CopyPreBody \/ Close \/ Cleanup
  BY <1>3 DEF IoReturn, SanitizeEOF, CopyPreBody, Close, Cleanup
<1>4. CASE XferStep
  BY <1>4 DEF XferStep, Next
<1>5. CASE \E x \in Xfer : Transfer(x)
  BY <1>5 DEF Transfer, Next
<1> QED
  BY <1>1, <1>2, <1>3, <1>4, <1>5 DEF ConnNext, ConnStep

\* The transfers of connections are those of UsbXfer: what is proved of its
\* calls holds for the calls of conn.Read and conn.Write.
THEOREM ConnImplementsXfer == ConnSpec => Init /\ [][Next]_vars
<1>1. ConnInit => Init
  BY DEF ConnInit
<1>2. [ConnNext]_<<vars, connVars>> => [Next]_vars
  BY ConnStepImplements
<1> QED
  BY <1>1, <1>2, PTL DEF ConnSpec

\* So the calls of conn.Read and conn.Write share no transfer, are woken by
\* their own callback, and report what was transferred.
THEOREM ConnCallsSafe ==
  ConnSpec => [](NoFreeInFlight /\ CallbackOwnsChannel /\ ResultExact)
<1>1. XferInv /\ [Next]_vars => XferInv'
  BY NextXferInv
<1>2. XferInv => NoFreeInFlight /\ CallbackOwnsChannel /\ ResultExact
  BY DEF XferInv
<1> QED
  BY <1>1, <1>2, InitXferInv, ConnImplementsXfer, PTL

\* What EofEarned rests on: eofSeen is clear while a transfer of conn.Read is
\* in progress, the error of the last transaction is kept only until the next
\* one, and a call that returned knows its result.
EofInv ==
  /\ XferInv
  /\ rq \in Nat
  /\ step = "free" => io = "none"
  /\ io = "again" => step # "write"
  /\ io # "none" /\ step # "write" => ~eofSeen
  /\ err # "nil" => step = "free"
  /\ Bare => err = "nil" /\ step = "free"
  /\ \A t \in Thread : result[t] = "ctx" => ctxErr[t]
  /\ \A t \in Thread : pc[t] \in {"delete", "free"} => result[t] # "none"
  /\ io = "busy" /\ pc[Conn] = "idle" => result[Conn] # "none"
  /\ EofEarned

\* A new connection satisfies the invariant of conn.Read.
LEMMA InitEofInv == ConnInit => EofInv
<1> SUFFICES ASSUME ConnInit PROVE EofInv
  OBVIOUS
<1>1. XferInv
  BY InitXferInv DEF ConnInit
<1>2. rq \in Nat
  BY ConnAssumption, SMT DEF ConnInit
<1> QED
  BY <1>1, <1>2 DEF ConnInit, Init, EofInv, EofEarned

\* A call of the goroutine of the connection.
LEMMA IoCallEofInv ==
  ASSUME EofInv, IoCall PROVE EofInv'
<1> USE ConnAssumption DEF EofInv
<1>1. XferInv'
  BY NextXferInv DEF IoCall, Next
<1>2. /\ \A t \in Thread : result'[t] = "ctx" => ctxErr'[t]
      /\ \A t \in Thread : pc'[t] \in {"delete", "free"} => result'[t] # "none"
      /\ pc'[Conn] = "idle" => result'[Conn] # "none"
  BY SMT DEF IoCall, Call, XferInv, TypeOK
<1>3. step # "free" /\ err = "nil" /\ ~Bare
  BY DEF IoCall
<1>4. EofEarned'
  BY <1>3 DEF IoCall, EofEarned
<1> QED
  BY <1>1, <1>2, <1>3, <1>4 DEF IoCall, ReadBegin, rqVars, Bare

\* What a call does, and the transfers of others.
LEMMA XferStepEofInv ==
  ASSUME EofInv, XferStep \/ \E x \in Xfer : Transfer(x) PROVE EofInv'
<1> USE ConnAssumption DEF EofInv
<1>1. XferInv'
  BY NextXferInv, ConnStepImplements DEF ConnNext
<1>2. /\ rq' = rq /\ step' = step /\ io' = io /\ err' = err /\ quirks' = quirks
      /\ zlpRecv' = zlpRecv /\ eofSeen' = eofSeen
      /\ timeoutExpired' = timeoutExpired
  BY DEF XferStep, Transfer, connVars, readVars, rqVars
<1>3. /\ \A t \in Thread : ctxErr[t] /\ ~ctxErr'[t] => Bare
      /\ \A t \in Thread : result'[t] = "ctx" => ctxErr'[t]
      /\ \A t \in Thread : pc'[t] \in {"delete", "free"} => result'[t] # "none"
      /\ io = "busy" /\ pc'[Conn] = "idle" => result'[Conn] # "none"
  <2> USE DEF XferInv, TypeOK
  <2>1. CASE Bare /\ \E t \in Thread : Call(t) \/ Expire(t)
    BY <2>1, SMT DEF Call, Expire
  <2>2. CASE Expire(Conn)
    BY <2>2, SMT DEF Expire
  <2>3. ASSUME NEW t \in Thread, CallStep(t)
        PROVE  <1>3!1 /\ <1>3!2 /\ <1>3!3 /\ <1>3!4
    BY <2>3, SMT DEF CallStep, Insert, Submit, Select, Wait, Decode, Delete, Free,
                Status
  <2>4. CASE (\E x \in Xfer : CallbackLookup(x) \/ Complete(x)) \/ CallbackClose
    BY <2>4, SMT DEF CallbackLookup, CallbackClose, Complete, callVars
  <2> QED
    BY <2>1, <2>2, <2>3, <2>4 DEF XferStep, Transfer
<1>4. EofEarned'
  BY <1>2, <1>3 DEF EofEarned
<1> QED
  BY <1>1, <1>2, <1>3, <1>4 DEF Bare

\* conn.Read or conn.Write looks at the result of its call.
LEMMA IoReturnEofInv ==
  ASSUME EofInv, IoReturn PROVE EofInv'
<1> USE ConnAssumption DEF EofInv
<1>1. XferInv' /\ UNCHANGED vars
  BY NextXferInv DEF IoReturn
<1>2. /\ result[Conn] \in {"ok", "ctx", "error"} /\ io = "busy" /\ step # "free"
      /\ err = "nil" /\ ~Bare /\ (result[Conn] = "ctx" => ctxErr[Conn])
      /\ rq' = rq /\ quirks' = quirks
  BY SMT DEF IoReturn, XferInv, TypeOK, Result, rqVars
<1>3. CASE WriteReturn
  <2>1. EofEarned'
    BY <1>1, <1>2, <1>3 DEF WriteReturn, EofEarned
  <2> QED
    BY <1>1, <1>2, <1>3, <2>1
    DEF WriteReturn, Put, Bare, vars, callVars
<1>4. CASE ReadReturn
  <2>1. step # "write" /\ ~eofSeen
    BY <1>2, <1>4 DEF ReadReturn
  <2>2. CASE result[Conn] = "ctx"
    <3>1. ReadExpired /\ UNCHANGED zlpRecv
      BY <1>4, <2>2 DEF ReadReturn
    <3>2. \E e \in {"eof", "ctx"} : ReadFails(e) /\ (eofSeen' <=> e = "eof")
            /\ (e = "eof" => quirks.zlpRecvHack /\ zlpRecv)
            /\ (e = "ctx" => timeoutExpired')
      BY <2>1, <3>1 DEF ReadExpired
    <3> QED
      BY <1>1, <1>2, <2>1, <2>2, <3>1, <3>2
      DEF ReadFails, Put, EofEarned, Bare, vars, callVars
  <2>3. CASE result[Conn] = "error"
    <3>1. ReadFails("error") /\ UNCHANGED readVars
      BY <1>4, <2>3 DEF ReadReturn
    <3> QED
      BY <1>1, <1>2, <2>1, <3>1
      DEF ReadFails, Put, EofEarned, Bare, vars, callVars, readVars
  <2>4. CASE result[Conn] = "ok" /\ pkt = Zlp
    BY <1>1, <1>2, <1>4, <2>1, <2>4
    DEF ReadReturn, EofEarned, Bare, vars, callVars
  <2>5. CASE result[Conn] = "ok" /\ pkt # Zlp
    <3>1. ReadData /\ UNCHANGED readVars
      BY <1>4, <2>5 DEF ReadReturn
    <3>2. CASE ReadFails("error")
      BY <1>1, <1>2, <2>1, <3>1, <3>2
      DEF ReadFails, Put, EofEarned, Bare, vars, callVars, readVars
    <3>3. CASE io' = "none" /\ UNCHANGED err
      BY <1>1, <1>2, <2>1, <3>1, <3>3
      DEF EofEarned, Bare, vars, callVars, readVars
    <3> QED
      BY <3>1, <3>2, <3>3 DEF ReadData
  <2> QED
    BY <1>2, <2>2, <2>3, <2>4, <2>5
<1> QED
  BY <1>3, <1>4 DEF IoReturn

\* The rest of a transaction.
LEMMA TransactionEofInv ==
  ASSUME EofInv,
         \/ Idle \/ RoundTrip \/ ClientGone
         \/ SanitizeEOF \/ CopyPreBody \/ Close \/ Cleanup
  PROVE  EofInv'
<1> USE ConnAssumption DEF EofInv
<1>1. XferInv' /\ UNCHANGED vars
  BY NextXferInv
  DEF Idle, RoundTrip, ClientGone, SanitizeEOF, CopyPreBody, Close, Cleanup
<1>2. CASE RoundTrip
  BY <1>1, <1>2, SMT DEF RoundTrip, EofEarned, Bare, vars, callVars, readVars
<1>3. CASE Idle \/ ClientGone \/ SanitizeEOF \/ CopyPreBody \/ Close \/ Cleanup
  <2>1. /\ rq' = rq /\ quirks' = quirks /\ err' = err /\ UNCHANGED readVars
        /\ io' = io
        /\ step' = step \/ io = "none"
        /\ step = "free" => step' = "free"
    BY <1>3 DEF Idle, ClientGone, SanitizeEOF, CopyPreBody, Close, Cleanup, Put,
                rqVars, connVars
  <2> QED
    BY <1>1, <2>1 DEF EofEarned, Bare, vars, callVars, readVars
<1> QED
  BY <1>2, <1>3

\* Every step of a connection keeps the invariant of conn.Read.
LEMMA NextEofInv ==
  ASSUME EofInv, [ConnNext]_<<vars, connVars>> PROVE EofInv'
<1>1. CASE ConnNext
  BY <1>1, IoCallEofInv, XferStepEofInv, IoReturnEofInv, TransactionEofInv
  DEF ConnNext, ConnStep
<1>2. CASE UNCHANGED <<vars, connVars>>
  <2>1. XferInv'
    BY <1>2, NextXferInv DEF EofInv
  <2> QED
    BY <1>2, <2>1
    DEF EofInv, EofEarned, Bare, vars, callVars, connVars, readVars
<1> QED
  BY <1>1, <1>2

\* NewDevice gets EOF only for a request that zlp-recv-hack ended, and a request
\* that fails at its deadline is known to TimeoutExpired.
THEOREM EofEarnedTheorem == ConnSpec => []EofEarned
<1>1. EofInv /\ [ConnNext]_<<vars, connVars>> => EofInv'
  BY NextEofInv
<1>2. EofInv => EofEarned
  BY DEF EofInv
<1> QED
  BY <1>1, <1>2, InitEofInv, PTL DEF ConnSpec

-----------------------------------------------------------------------------
(* Responses.                                                              *)

\* The call of the goroutine of the connection has not been completed ...
Pending ==
  /\ io = "busy"
  /\ \/ pc[Conn] \in {"insert", "submit"}
     \/ /\ pc[Conn] \in {"select", "wait"}
        /\ urb[xfer[Conn]] \in {"submitted", "cancelling"}

\* ... or has been, with success.
Arrived ==
  /\ io = "busy"
  /\ \/ /\ pc[Conn] \in {"select", "wait"}
        /\ urb[xfer[Conn]] \in {"none", "done"}
        /\ status[xfer[Conn]] = "COMPLETED"
     \/ pc[Conn] \in {"delete", "free", "idle"} /\ result[Conn] = "ok"

Waiting == io # "busy" \/ Pending

\* Only the goroutine of the connection has a call in progress.
CallInv ==
  /\ EofInv
  /\ ~Bare => /\ \A t \in Thread : pc[t] # "idle" => t = Conn
              /\ pc[Conn] # "idle" => io = "busy"

Pk == [rq : Nat, n : Nat, end : BOOLEAN]

\* What may be left of a response to a request after m packets with data.
Rest(q, id, m) ==
  LET p(n) == Packet(id, n, FALSE)
      e(n) == Packet(id, n, TRUE)
  IN  \/ q = <<>>
      \/ m = 0 /\ q \in Responses(id) \cup {<<p(1), Zlp, p(2), e(3)>>}
      \/ m = 1 /\ q \in {<<Zlp, p(2), e(3)>>, <<p(2), e(3)>>}
      \/ m = 2 /\ q = <<e(3)>>

Received == Len(seen) + Len(preBody)

\* The device has received a part of the request, or all of it.
WriteInv ==
  /\ seen = <<>> /\ preBody = <<>> /\ ~atEnd /\ ~failed
  /\ Waiting => devRq \in {0, rq} /\ devOut = <<>>
  /\ Arrived => IF body = 0 THEN devRq = 0 /\ devOut \in Responses(rq)
                            ELSE devRq = rq /\ devOut = <<>>

\* What has been read and what is left is the response to the request.
ReadInv ==
  /\ devRq = 0
  /\ \E m \in 0..2 : Rest(devOut, rq, m)
  /\ atEnd => devOut = <<>> /\ io = "none"
  /\ step = "header" => seen = <<>> /\ preBody = <<>> /\ ~failed
  /\ step = "body" /\ io # "none" => preBody = <<>>
  /\ Arrived /\ pkt # Zlp => pkt \in Pk /\ pkt.rq = rq /\ (pkt.end => devOut = <<>>)
  /\ \A i \in 1..Len(seen) : seen[i].rq = rq /\ (~failed => seen[i].n = i)
  /\ \A i \in 1..Len(preBody) : preBody[i].rq = rq

\* As long as nothing fails, a client that stays gets all of it, in order.
OrderInv ==
  ~failed /\ ~gone /\ step \in {"header", "sanitize", "body"} =>
    /\ \A i \in 1..Len(preBody) : preBody[i].n = Len(seen) + i
    /\ Waiting => Rest(devOut, rq, Received)
    /\ Arrived => IF pkt = Zlp THEN Rest(devOut, rq, Received)
                  ELSE pkt.n = Received + 1 /\ Rest(devOut, rq, Received + 1)

\* Where the packets of a response are.
DataInv ==
  /\ body \in Nat
  /\ step \in {"free", "write", "header", "sanitize", "body", "drain", "close"}
  /\ step = "free" => seen = <<>> /\ preBody = <<>> /\ ~atEnd
  /\ ~lost =>
       /\ seen \in Seq(Pk) /\ preBody \in Seq(Pk)
       /\ step = "free" => devRq = 0 /\ devOut = <<>>
       /\ step = "write" => WriteInv
       /\ step \notin {"free", "write"} => ReadInv /\ OrderInv

\* What Paired rests on.
PairInv == CallInv /\ DataInv

\* The next packet of what is left of a response.
LEMMA RestStep ==
  ASSUME NEW id \in Nat, NEW m \in Nat, NEW q, Rest(q, id, m), q # <<>>
  PROVE  /\ IF Head(q) = Zlp THEN Rest(Tail(q), id, m)
            ELSE /\ Head(q) \in Pk /\ Head(q).rq = id /\ Head(q).n = m + 1
                 /\ Head(q).end => Tail(q) = <<>>
                 /\ Rest(Tail(q), id, m + 1)
         /\ \E k \in 0..2 : Rest(Tail(q), id, k)
<1> DEFINE p(n) == Packet(id, n, FALSE)
           e(n) == Packet(id, n, TRUE)
<1>1. \A n \in Nat : n # 0 =>
        /\ p(n) \in Pk /\ p(n).rq = id /\ p(n).n = n /\ ~p(n).end /\ p(n) # Zlp
        /\ e(n) \in Pk /\ e(n).rq = id /\ e(n).n = n /\ e(n) # Zlp
  BY DEF Packet, Pk, Zlp
<1> HIDE DEF p, e
<1>2. CASE m = 0 /\ q = <<e(1)>>
  <2>1. Head(q) = e(1) /\ Tail(q) = <<>>
    BY <1>2, SMT
  <2> QED
    BY <1>1, <1>2, <2>1, SMT DEF Rest
<1>3. CASE m = 0 /\ q = <<Zlp, p(1), Zlp, p(2), e(3)>>
  <2>1. Head(q) = Zlp /\ Tail(q) = <<p(1), Zlp, p(2), e(3)>>
    BY <1>3, SMT
  <2> QED
    BY <1>3, <2>1, SMT DEF Rest, p, e
<1>4. CASE m = 0 /\ q = <<p(1), Zlp, p(2), e(3)>>
  <2>1. Head(q) = p(1) /\ Tail(q) = <<Zlp, p(2), e(3)>>
    BY <1>4, SMT
  <2>2. Rest(Tail(q), id, 1)
    BY <2>1 DEF Rest, p, e
  <2> QED
    BY <1>1, <1>4, <2>1, <2>2, SMT
<1>5. CASE m = 1 /\ q = <<Zlp, p(2), e(3)>>
  <2>1. Head(q) = Zlp /\ Tail(q) = <<p(2), e(3)>>
    BY <1>5, SMT
  <2> QED
    BY <1>5, <2>1, SMT DEF Rest, p, e
<1>6. CASE m = 1 /\ q = <<p(2), e(3)>>
  <2>1. Head(q) = p(2) /\ Tail(q) = <<e(3)>>
    BY <1>6, SMT
  <2>2. Rest(Tail(q), id, 2)
    BY <2>1 DEF Rest, p, e
  <2> QED
    BY <1>1, <1>6, <2>1, <2>2, SMT
<1>7. CASE m = 2 /\ q = <<e(3)>>
  <2>1. Head(q) = e(3) /\ Tail(q) = <<>>
    BY <1>7, SMT
  <2> QED
    BY <1>1, <1>7, <2>1, SMT DEF Rest
<1> QED
  BY <1>2, <1>3, <1>4, <1>5, <1>6, <1>7 DEF Rest, Responses, p, e

\* A response that has just begun.
LEMMA ResponseWhole ==
  ASSUME NEW id, NEW r \in Responses(id)
  PROVE  Rest(r, id, 0) /\ <<>> \o r = r
<1>1. \A S : \A q \in Seq(S) : <<>> \o q = q
  BY SMT
<1>2. \A a, b, c, d, e : /\ <<>> \o <<a>> = <<a>>
                         /\ <<>> \o <<a, b, c, d, e>> = <<a, b, c, d, e>>
  <2> TAKE a, b, c, d, e
  <2>1. <<a>> \in Seq({a}) /\ <<a, b, c, d, e>> \in Seq({a, b, c, d, e})
    BY SMT
  <2> QED
    BY <1>1, <2>1
<1> QED
  BY <1>2 DEF Rest, Responses

\* A new connection has sent and received nothing.
LEMMA InitPairInv == ConnInit => PairInv
<1> SUFFICES ASSUME ConnInit PROVE PairInv
  OBVIOUS
<1>1. EofInv
  BY InitEofInv
<1>2. CallInv
  BY <1>1, ConnAssumption DEF ConnInit, Init, CallInv
<1>3. DataInv
  BY SMT DEF ConnInit, DataInv
<1> QED
  BY <1>2, <1>3 DEF PairInv

\* A call goes on: it is completed by nothing but libusb.
LEMMA XferStepCall ==
  ASSUME CallInv, ~Bare, XferStep
  PROVE  CallInv' /\ (Pending' => Pending) /\ (Arrived' => Arrived)
<1> USE ConnAssumption
<1>1. EofInv' /\ UNCHANGED connVars /\ rq' = rq /\ io' = io /\ XferInv
  BY NextEofInv DEF CallInv, EofInv, ConnNext, XferStep, connVars
<1>2. CASE Expire(Conn) \/ CallbackClose
  BY <1>1, <1>2
  DEF CallInv, Bare, Pending, Arrived, Expire, CallbackClose, usbVars, callVars,
      XferInv, TypeOK
<1>3. ASSUME NEW x \in Xfer, CallbackLookup(x)
      PROVE  CallInv' /\ (Pending' => Pending) /\ (Arrived' => Arrived)
  BY <1>1, <1>3, SMT
  DEF CallInv, Bare, Pending, Arrived, CallbackLookup, callVars, XferInv, TypeOK
<1>4. CASE CallStep(Conn)
  <2> USE <1>1 DEF CallInv, Bare, Pending, Arrived, XferInv, TypeOK, usbVars
  <2>1. CASE Insert(Conn)
    BY <2>1, SMT DEF Insert
  <2>2. CASE Submit(Conn)
    BY <2>2, SMT DEF Submit
  <2>3. CASE Select(Conn)
    BY <2>3, SMT DEF Select
  <2>4. CASE Wait(Conn)
    BY <2>4, SMT DEF Wait, Decode, Status
  <2>5. CASE Delete(Conn)
    BY <2>5, SMT DEF Delete
  <2>6. CASE Free(Conn)
    BY <2>6, SMT DEF Free
  <2> QED
    BY <1>4, <2>1, <2>2, <2>3, <2>4, <2>5, <2>6 DEF CallStep
<1>5. ASSUME NEW t \in Thread, CallStep(t) PROVE t = Conn
  BY <1>5 DEF CallInv, CallStep, Insert, Submit, Select, Wait, Delete, Free
<1> QED
  BY <1>2, <1>3, <1>4, <1>5 DEF XferStep

\* What libusb completes is the call of the connection.
LEMMA TransferCall ==
  ASSUME CallInv, ~Bare, NEW x \in Xfer, Transfer(x)
  PROVE  /\ CallInv' /\ Pending /\ ~Pending'
         /\ Arrived' => status'[x] = "COMPLETED"
<1> USE ConnAssumption, NilAssumption
<1>1. EofInv' /\ XferInv /\ rq' = rq /\ io' = io /\ UNCHANGED callVars
  BY NextEofInv DEF CallInv, EofInv, ConnNext, Transfer, Complete, rqVars
<1>2. xfer[Conn] = x /\ pc[Conn] \in {"select", "wait"} /\ io = "busy"
  <2>1. x \in heap
    BY <1>1 DEF Transfer, Complete, XferInv, NoFreeInFlight
  <2>2. PICK t \in Thread : xfer[t] = x
    BY <1>1, <2>1 DEF XferInv
  <2>3. t = Conn
    BY <1>1, <2>2 DEF CallInv, XferInv
  <2> QED
    BY <1>1, <2>2, <2>3, SMT DEF CallInv, Transfer, Complete, XferInv, TypeOK, PC
<1>3. CallInv'
  BY <1>1 DEF CallInv, Bare, callVars
<1> QED
  BY <1>1, <1>2, <1>3
  DEF Pending, Arrived, Transfer, Complete, callVars, XferInv, TypeOK

\* A step that changes nothing of the transaction.
LEMMA DataStays ==
  ASSUME DataInv, UNCHANGED connVars, Pending' => Pending, Arrived' => Arrived
  PROVE  DataInv'
<1>1. /\ UNCHANGED <<step, io, rq, body, gone, seen, preBody, atEnd, failed, lost>>
      /\ UNCHANGED <<devRq, devOut, pkt>>
  BY DEF connVars, wrapVars, devVars
<1>2. Waiting' => Waiting
  BY <1>1 DEF Waiting
<1>3. WriteInv => WriteInv'
  BY <1>1, <1>2 DEF WriteInv
<1>4. ReadInv => ReadInv'
  BY <1>1 DEF ReadInv
<1>5. OrderInv => OrderInv'
  BY <1>1, <1>2 DEF OrderInv, Received
<1> QED
  BY <1>1, <1>3, <1>4, <1>5 DEF DataInv

\* The device receives a piece of a request, or sends a packet.
LEMMA TransferPairInv ==
  ASSUME PairInv, ~Bare, NEW x \in Xfer, Transfer(x)
  PROVE  PairInv'
<1>1. /\ CallInv' /\ Pending /\ ~Pending' /\ io' = "busy"
      /\ Arrived' => status'[x] = "COMPLETED"
  BY TransferCall DEF PairInv, Pending, Transfer
<1>2. /\ UNCHANGED <<step, rq, body, gone, seen, preBody, atEnd, failed, lost>>
      /\ Waiting /\ ~Waiting' /\ io = "busy" /\ rq \in Nat
  BY <1>1 DEF Transfer, wrapVars, rqVars, Waiting, Pending, PairInv, CallInv, EofInv
<1>3. step # "free"
  BY <1>2 DEF PairInv, CallInv, EofInv
<1>4. ASSUME ~lost, step = "write" PROVE WriteInv'
  <2>1. WriteInv /\ devOut = <<>> /\ devRq \in {0, rq}
    BY <1>2, <1>4 DEF PairInv, DataInv, WriteInv
  <2>2. Arrived' => DevReceives(body = 0)
    BY <1>1, <1>4 DEF Transfer
  <2>3. Arrived' => IF body' = 0 THEN devRq' = 0 /\ devOut' \in Responses(rq)
                                 ELSE devRq' = rq /\ devOut' = <<>>
    BY <1>2, <2>1, <2>2, ResponseWhole, SMT DEF DevReceives
  <2> QED
    BY <1>2, <2>1, <2>3 DEF WriteInv
<1>5. ASSUME ~lost, step # "write" PROVE ReadInv' /\ OrderInv'
  <2>1. ReadInv /\ OrderInv
    BY <1>3, <1>5 DEF PairInv, DataInv
  <2>2. CASE DevSends
    <3>1. /\ devOut # <<>> /\ devOut' = Tail(devOut) /\ pkt' = Head(devOut)
          /\ devRq' = devRq
      BY <2>2 DEF DevSends
    <3>2. PICK m \in 0..2 : Rest(devOut, rq, m)
      BY <2>1 DEF ReadInv
    <3>3. /\ \E k \in 0..2 : Rest(devOut', rq, k)
          /\ pkt' # Zlp => pkt' \in Pk /\ pkt'.rq = rq /\ (pkt'.end => devOut' = <<>>)
      BY <1>2, <3>1, <3>2, RestStep, SMT
    <3>4. ReadInv'
      BY <1>2, <2>1, <3>1, <3>3 DEF ReadInv
    <3>5. OrderInv'
      <4> SUFFICES ASSUME ~failed, ~gone, step \in {"header", "sanitize", "body"}
                   PROVE  OrderInv'
        BY <1>2 DEF OrderInv
      <4>1. Rest(devOut, rq, Received) /\ Received \in Nat /\ Received' = Received
        BY <1>2, <2>1, SMT DEF OrderInv, Received, PairInv, DataInv
      <4>2. IF pkt' = Zlp THEN Rest(devOut', rq, Received)
            ELSE pkt'.n = Received + 1 /\ Rest(devOut', rq, Received + 1)
        BY <1>2, <3>1, <4>1, RestStep
      <4> QED
        BY <1>2, <2>1, <4>1, <4>2 DEF OrderInv
    <3> QED
      BY <3>4, <3>5
  <2>3. CASE ~Arrived' /\ UNCHANGED devVars
    BY <1>2, <2>1, <2>3 DEF ReadInv, OrderInv, devVars
  <2> QED
    BY <1>1, <1>5, <2>2, <2>3 DEF Transfer
<1> QED
  BY <1>1, <1>2, <1>3, <1>4, <1>5 DEF PairInv, DataInv

\* conn.Read or conn.Write calls Recv or Send.
LEMMA IoCallPairInv ==
  ASSUME PairInv, IoCall PROVE PairInv'
<1> USE ConnAssumption
<1>1. EofInv' /\ XferInv /\ io' = "busy" /\ ~Bare /\ pc[Conn] = "idle"
  <2>1. EofInv /\ EofInv'
    BY NextEofInv DEF ConnNext, ConnStep, PairInv, CallInv
  <2> QED
    BY <2>1 DEF IoCall, EofInv, Call
<1>2. CallInv' /\ ~Arrived'
  BY <1>1, SMT
  DEF PairInv, CallInv, IoCall, Call, Bare, rqVars, Arrived, XferInv, TypeOK
<1>3. Waiting /\ step # "free"
  BY DEF IoCall, Waiting
<1>4. /\ UNCHANGED <<step, rq, gone, seen, preBody, atEnd, failed, lost>>
      /\ UNCHANGED <<devRq, devOut, pkt>>
      /\ body' \in {0, body}
  BY DEF IoCall, rqVars, wrapVars, devVars
<1>5. WriteInv => WriteInv'
  BY <1>2, <1>3, <1>4 DEF WriteInv
<1>6. ReadInv /\ step # "write" => ReadInv'
  <2>1. step # "write" => ~atEnd
    BY DEF IoCall
  <2>2. step = "body" => preBody = <<>>
    BY DEF IoCall
  <2> QED
    BY <1>2, <1>4, <2>1, <2>2 DEF ReadInv
<1>7. OrderInv => OrderInv'
  BY <1>2, <1>3, <1>4 DEF OrderInv, Received
<1> QED
  BY SMTT(30), <1>2, <1>3, <1>4, <1>5, <1>6, <1>7 DEF PairInv, DataInv

\* conn.Write sees the result of Send.
LEMMA WriteReturnPairInv ==
  ASSUME PairInv, IoReturn, WriteReturn, UNCHANGED <<rq, gone, devRq, devOut>>
  PROVE  DataInv'
<1>1. io = "busy" /\ pc[Conn] = "idle" /\ step = "write" /\ rq \in Nat
  BY DEF IoReturn, WriteReturn, PairInv, CallInv, EofInv
<1>2. CASE result[Conn] = "ok"
  <2>1. Arrived /\ ~Arrived'
    BY <1>1, <1>2 DEF Arrived, WriteReturn
  <2>2. /\ step' = (IF body = 0 THEN "header" ELSE "write") /\ io' = "none"
        /\ body' = (IF body = 0 THEN 0 ELSE body - 1)
        /\ UNCHANGED <<seen, preBody, atEnd, failed, lost>>
    BY <1>2 DEF WriteReturn, wrapVars
  <2>3. body' \in Nat
    BY <2>2, SMT DEF PairInv, DataInv
  <2>4. ASSUME ~lost PROVE WriteInv
    BY <1>1, <2>4 DEF PairInv, DataInv
  <2>5. ASSUME ~lost, body # 0 PROVE WriteInv'
    BY <2>1, <2>2, <2>4, <2>5 DEF WriteInv
  <2>6. ASSUME ~lost, body = 0 PROVE ReadInv' /\ OrderInv'
    <3>1. Rest(devOut', rq, 0) /\ devRq' = 0
      BY <2>1, <2>4, <2>6, ResponseWhole DEF WriteInv
    <3>2. seen' = <<>> /\ preBody' = <<>> /\ Len(seen') = 0 /\ Len(preBody') = 0
          /\ ~atEnd'
      BY <2>2, <2>4, <2>6 DEF WriteInv
    <3>3. ~failed' /\ step' = "header" /\ io' = "none"
      BY <2>2, <2>4, <2>6 DEF WriteInv
    <3>4. ReadInv'
      BY <2>1, <3>1, <3>2, <3>3, SMT DEF ReadInv
    <3>5. Received' = 0
      BY <3>2, SMT DEF Received
    <3> QED
      BY <2>1, <3>1, <3>2, <3>4, <3>5, SMT DEF OrderInv
  <2> QED
    BY <2>2, <2>3, <2>5, <2>6 DEF PairInv, DataInv
<1>3. CASE result[Conn] # "ok"
  BY <1>1, <1>3, SMT DEF WriteReturn, Put, DataInv
<1> QED
  BY <1>2, <1>3

\* conn.Read fails.
LEMMA ReadFailsDataInv ==
  ASSUME PairInv, io = "busy", step # "write", NEW e, ReadFails(e),
         UNCHANGED <<rq, gone, devRq, devOut>>
  PROVE  DataInv'
<1>1. step # "free"
  BY DEF PairInv, CallInv, EofInv
<1>2. CASE step \in {"header", "close"}
  BY <1>2, SMT DEF ReadFails, Put, DataInv
<1>3. CASE step \notin {"header", "close"}
  <2>1. /\ step' \in {"body", "close"} /\ io' = "none" /\ failed'
        /\ UNCHANGED <<atEnd, preBody, seen, body, lost>>
    BY <1>3 DEF ReadFails
  <2>2. ASSUME ~lost PROVE ReadInv' /\ OrderInv'
    <3>1. ReadInv
      BY <1>1, <2>2 DEF PairInv, DataInv
    <3>2. ~Arrived'
      BY <2>1 DEF Arrived
    <3> QED
      BY <2>1, <3>1, <3>2 DEF ReadInv, OrderInv
  <2> QED
    BY <2>1, <2>2 DEF PairInv, DataInv
<1> QED
  BY <1>2, <1>3

\* conn.Read returns data.
LEMMA ReadDataInv ==
  ASSUME PairInv, Arrived, step # "write", pkt # Zlp, ReadData,
         UNCHANGED <<rq, gone, devRq, devOut>>
  PROVE  DataInv'
<1>1. io = "busy" /\ step # "free" /\ rq \in Nat
  BY DEF Arrived, PairInv, CallInv, EofInv
<1>2. CASE ReadFails("error")
  BY <1>1, <1>2, ReadFailsDataInv
<1>3. CASE ~ReadFails("error")
  <2>1. /\ io' = "none" /\ atEnd' = pkt.end
        /\ step' \in {"sanitize", "body", step} /\ (step' = step => step # "header")
        /\ step = "sanitize" => step' \in {"sanitize", "body"}
        /\ step \in {"body", "drain", "close"} => step' = step
        /\ preBody' = IF step = "sanitize" THEN Append(preBody, pkt) ELSE preBody
        /\ seen' = IF step \in {"header", "body"} /\ ~gone THEN Append(seen, pkt) ELSE seen
        /\ UNCHANGED <<body, failed, lost>>
    BY <1>1, <1>3 DEF ReadData, PairInv, DataInv
  <2>2. step' \notin {"free", "write"} /\ ~Arrived'
        /\ step' \in {"sanitize", "body", "drain", "close"}
    BY <1>1, <2>1 DEF PairInv, DataInv, Arrived
  <2>3. CASE lost
    BY <2>1, <2>2, <2>3 DEF PairInv, DataInv
  <2>4. CASE ~lost
    <3> seen \in Seq(Pk) /\ preBody \in Seq(Pk)
      BY <2>4 DEF PairInv, DataInv
    <3>1. ReadInv /\ OrderInv
      BY <1>1, <2>4 DEF PairInv, DataInv
    <3>2. pkt \in Pk /\ pkt.rq = rq /\ (pkt.end => devOut = <<>>)
      BY <3>1 DEF ReadInv
    <3>3. /\ step = "header" => Len(seen) = 0 /\ Len(preBody) = 0
          /\ step = "body" => preBody = <<>> /\ Len(preBody) = 0
          /\ Len(seen) \in Nat /\ Len(preBody) \in Nat
      BY <1>1, <3>1, SMT DEF ReadInv
    <3>4. seen' \in Seq(Pk) /\ preBody' \in Seq(Pk)
      BY <2>1, <3>2, SMT
    <3>5. ASSUME ~failed, ~gone, step \in {"header", "sanitize", "body"}
          PROVE  /\ pkt.n = Received + 1 /\ Rest(devOut, rq, Received + 1)
                 /\ Received' = Received + 1
      <4>1. pkt.n = Received + 1 /\ Rest(devOut, rq, Received + 1)
        BY <3>1, <3>5 DEF OrderInv
      <4>2. Len(Append(seen, pkt)) = Len(seen) + 1
            /\ Len(Append(preBody, pkt)) = Len(preBody) + 1
        BY <3>2, SMT
      <4>3. \/ seen' = Append(seen, pkt) /\ preBody' = preBody
            \/ seen' = seen /\ preBody' = Append(preBody, pkt)
        BY <2>1, <3>5
      <4> QED
        BY SMTT(30), <3>3, <4>1, <4>2, <4>3 DEF Received
    <3> DEFINE Longer(q, r) == /\ Len(r) = Len(q) + 1 /\ r[Len(q) + 1] = pkt
                               /\ \A k \in 1..Len(q) : r[k] = q[k]
    <3>6. \A q \in Seq(Pk) : Longer(q, Append(q, pkt))
      BY <3>2, SMT
    <3>7. \A k \in 1..Len(seen') : seen'[k].rq = rq /\ (~failed => seen'[k].n = k)
      <4>1. CASE seen' = seen
        BY <3>1, <4>1 DEF ReadInv
      <4>2. CASE seen' # seen
        <5>1. Longer(seen, seen') /\ step \in {"header", "body"} /\ ~gone
          BY <2>1, <3>6, <4>2
        <5>2. ~failed => pkt.n = Len(seen) + 1
          BY <3>3, <3>5, <5>1, SMT DEF Received
        <5> QED
          BY <3>1, <3>2, <3>3, <5>1, <5>2, SMT DEF ReadInv
      <4> QED
        BY <4>1, <4>2
    <3>8. preBody' = preBody \/ (Longer(preBody, preBody') /\ step = "sanitize")
      BY <2>1, <3>6
    <3>9. \A k \in 1..Len(preBody') : preBody'[k].rq = rq
      BY SMTT(30), <3>1, <3>2, <3>3, <3>8 DEF ReadInv
    <3>10. ReadInv'
      BY SMTT(30), <2>1, <2>2, <3>1, <3>2, <3>7, <3>9 DEF ReadInv
    <3>11. OrderInv'
      <4> SUFFICES ASSUME ~failed, ~gone, step \in {"header", "sanitize", "body"}
                   PROVE  OrderInv'
        <5>1. step' \in {"header", "sanitize", "body"} =>
                step \in {"header", "sanitize", "body"}
          BY <1>1, <2>1, <2>2 DEF PairInv, DataInv
        <5>2. failed' = failed /\ gone' = gone
          BY <2>1
        <5> QED
          BY <5>1, <5>2, SMT DEF OrderInv
      <4>1. \A k \in 1..Len(preBody') : preBody'[k].n = Len(seen') + k
        <5>1. CASE step = "sanitize"
          <6>1. seen' = seen /\ Longer(preBody, preBody')
            BY <2>1, <3>6, <5>1
          <6>2. \A k \in 1..Len(preBody) : preBody[k].n = Len(seen) + k
            BY <3>1 DEF OrderInv
          <6>3. pkt.n = Len(seen) + Len(preBody) + 1
            BY <3>5 DEF Received
          <6>4. ASSUME NEW k \in 1..Len(preBody') PROVE preBody'[k].n = Len(seen) + k
            <7>1. CASE k \in 1..Len(preBody)
              BY <6>1, <6>2, <7>1
            <7>2. CASE k = Len(preBody) + 1
              BY <3>3, <6>1, <6>3, <7>2, SMT
            <7> QED
              BY <3>3, <6>1, <6>4, <7>1, <7>2, SMT
          <6> QED
            BY <6>1, <6>4
        <5>2. CASE step # "sanitize"
          BY <2>1, <3>3, <5>2, SMT
        <5> QED
          BY <5>1, <5>2
      <4> QED
        BY <2>1, <2>2, <3>5, <4>1 DEF OrderInv
    <3> QED
      BY <2>1, <2>2, <2>4, <3>4, <3>10, <3>11 DEF PairInv, DataInv
  <2> QED
    BY <2>3, <2>4
<1> QED
  BY <1>2, <1>3

\* conn.Read or conn.Write looks at the result of its call.
LEMMA IoReturnPairInv ==
  ASSUME PairInv, IoReturn PROVE PairInv'
<1> USE ConnAssumption
<1>1. /\ io = "busy" /\ pc[Conn] = "idle" /\ UNCHANGED vars
      /\ UNCHANGED <<rq, gone, devRq, devOut>>
      /\ result[Conn] \in {"ok", "ctx", "error"}
  BY DEF IoReturn, rqVars, PairInv, CallInv, EofInv, XferInv, TypeOK, Result
<1>2. CallInv'
  <2>1. EofInv'
    BY NextEofInv DEF PairInv, CallInv, ConnNext, ConnStep
  <2> QED
    BY <1>1, <2>1 DEF PairInv, CallInv, Bare, vars, callVars
<1>3. CASE WriteReturn
  BY <1>1, <1>2, <1>3, WriteReturnPairInv DEF PairInv
<1>4. CASE ReadReturn
  <2>1. step # "write"
    BY <1>4 DEF ReadReturn
  <2>2. CASE \E e \in {"eof", "ctx", "error"} : ReadFails(e)
    BY <1>1, <1>2, <2>1, <2>2, ReadFailsDataInv DEF PairInv
  <2>3. CASE result[Conn] = "ok" /\ pkt = Zlp
    <3>1. /\ io' = "again" /\ Arrived /\ ~Arrived'
          /\ UNCHANGED <<step, body, seen, preBody, atEnd, failed, lost>>
      BY <1>1, <1>4, <2>3 DEF ReadReturn, Arrived, wrapVars
    <3>2. ASSUME ~lost, step # "free" PROVE ReadInv' /\ OrderInv'
      <4>1. ReadInv /\ OrderInv
        BY <2>1, <3>2 DEF PairInv, DataInv
      <4>2. ReadInv'
        BY <1>1, <3>1, <4>1 DEF ReadInv
      <4> QED
        BY <1>1, <2>3, <3>1, <4>1, <4>2 DEF OrderInv, Received
    <3>3. step # "free"
      BY <1>1 DEF PairInv, CallInv, EofInv
    <3> QED
      BY <1>2, <2>1, <3>1, <3>2, <3>3 DEF PairInv, DataInv
  <2>4. CASE result[Conn] = "ok" /\ pkt # Zlp
    <3>1. Arrived /\ ReadData
      BY <1>1, <1>4, <2>4 DEF ReadReturn, Arrived
    <3> QED
      BY <1>1, <1>2, <2>1, <2>4, <3>1, ReadDataInv DEF PairInv
  <2> QED
    BY <1>1, <1>4, <2>2, <2>3, <2>4 DEF ReadReturn, ReadExpired
<1> QED
  BY <1>3, <1>4 DEF IoReturn

\* The rest of a transaction.
LEMMA TransactionPairInv ==
  ASSUME PairInv,
         \/ RoundTrip \/ ClientGone
         \/ SanitizeEOF \/ CopyPreBody \/ Close \/ Cleanup
  PROVE  PairInv'
<1> USE ConnAssumption
<1>1. /\ EofInv' /\ UNCHANGED vars /\ ~Bare /\ ~Bare' /\ rq \in Nat
      /\ io = "none" /\ io' = "none" /\ UNCHANGED <<devRq, devOut, pkt, lost>>
  <2>1. EofInv'
    BY NextEofInv DEF PairInv, CallInv, ConnNext, ConnStep
  <2>2. UNCHANGED vars /\ UNCHANGED <<devRq, devOut, pkt, lost>>
    BY SMTT(30)
    DEF RoundTrip, ClientGone, SanitizeEOF, CopyPreBody, Close, Cleanup, devVars
  <2>3. /\ rq \in Nat /\ io = "none" /\ io' = "none"
        /\ step = "free" => rq < MaxRq /\ rq' = rq + 1
        /\ step # "free" => rq' = rq
    BY DEF RoundTrip, ClientGone, SanitizeEOF, CopyPreBody, Close, Cleanup, Put,
           rqVars, PairInv, CallInv, EofInv
  <2>4. step # "free" => ~Bare
    BY DEF PairInv, CallInv, EofInv
  <2> QED
    BY <2>1, <2>2, <2>3, <2>4, SMT DEF Bare
<1>2. CallInv' /\ Waiting /\ Waiting' /\ ~Arrived /\ ~Arrived'
  BY <1>1 DEF PairInv, CallInv, vars, callVars, Waiting, Arrived
<1>3. CASE RoundTrip
  <2>1. /\ step = "free" /\ step' \in {"free", "write"} /\ body' \in Nat /\ ~failed'
        /\ UNCHANGED <<seen, preBody, atEnd>>
    BY <1>3, SMT DEF RoundTrip, wrapVars, PairInv, DataInv
  <2>2. ~lost => WriteInv'
    BY <1>1, <1>2, <2>1 DEF WriteInv, PairInv, DataInv
  <2> QED
    BY <1>1, <1>2, <2>1, <2>2 DEF PairInv, DataInv
<1>4. CASE ClientGone \/ SanitizeEOF \/ Close
  <2>1. /\ step # "free" /\ UNCHANGED <<rq, body, seen, preBody, atEnd, failed>>
        /\ gone => gone'
        /\ step = "write" <=> step' = "write"
        /\ step' \in {"write", "header", "sanitize", "body", "drain", "close"}
        /\ step' = "header" => step = "header"
        /\ step' \in {"header", "sanitize", "body"} =>
             step \in {"header", "sanitize", "body"}
    BY <1>4, SMT
    DEF ClientGone, SanitizeEOF, Close, wrapVars, rqVars, PairInv, DataInv
  <2>2. WriteInv => WriteInv'
    BY <1>1, <1>2, <2>1 DEF WriteInv
  <2>3. ReadInv => ReadInv'
    BY SMTT(30), <1>1, <1>2, <2>1 DEF ReadInv
  <2>4. OrderInv => OrderInv'
    BY <1>1, <1>2, <2>1 DEF OrderInv, Received
  <2> QED
    BY SMTT(30), <1>1, <1>2, <2>1, <2>2, <2>3, <2>4 DEF PairInv, DataInv
<1>5. CASE CopyPreBody
  <2>1. /\ step = "body" /\ UNCHANGED <<step, rq, body, atEnd, failed, gone>>
        /\ preBody' = <<>> /\ seen' = (IF gone THEN seen ELSE seen \o preBody)
    BY <1>5 DEF CopyPreBody, rqVars
  <2>2. ASSUME ~lost PROVE seen' \in Seq(Pk) /\ ReadInv' /\ OrderInv'
    <3>1. seen \in Seq(Pk) /\ preBody \in Seq(Pk) /\ ReadInv /\ OrderInv
      BY <2>1, <2>2 DEF PairInv, DataInv
    <3>2. CASE gone
      BY <1>1, <1>2, <2>1, <3>1, <3>2, SMT DEF ReadInv, OrderInv
    <3>3. CASE ~gone
      <4>1. /\ seen' \in Seq(Pk) /\ Len(seen') = Len(seen) + Len(preBody)
            /\ Len(seen) \in Nat /\ Len(preBody) \in Nat /\ Len(preBody') = 0
            /\ \A k \in 1..Len(seen') :
                 seen'[k] = IF k <= Len(seen) THEN seen[k] ELSE preBody[k - Len(seen)]
        BY <2>1, <3>1, <3>3, SMT
      <4>2. ASSUME NEW k \in 1..Len(seen')
            PROVE  seen'[k].rq = rq /\ (~failed => seen'[k].n = k)
        <5>1. CASE k <= Len(seen)
          <6>1. k \in 1..Len(seen) /\ seen'[k] = seen[k]
            BY <4>1, <5>1, SMT
          <6>2. \A i \in 1..Len(seen) : seen[i].rq = rq /\ (~failed => seen[i].n = i)
            BY <3>1 DEF ReadInv
          <6> QED
            BY <6>1, <6>2
        <5>2. CASE ~(k <= Len(seen))
          <6>1. k - Len(seen) \in 1..Len(preBody) /\ Len(seen) + (k - Len(seen)) = k
            BY <4>1, <5>2, SMT
          <6>2. preBody[k - Len(seen)].rq = rq
                /\ (~failed => preBody[k - Len(seen)].n = k)
            <7>1. \A i \in 1..Len(preBody) : preBody[i].rq = rq
              BY <3>1 DEF ReadInv
            <7>2. ~failed => \A i \in 1..Len(preBody) : preBody[i].n = Len(seen) + i
              BY <2>1, <3>1, <3>3 DEF OrderInv
            <7> QED
              BY <6>1, <7>1, <7>2
          <6> QED
            BY <4>1, <5>2, <6>2
        <5> QED
          BY <5>1, <5>2
      <4>3. ReadInv'
        BY <1>1, <1>2, <2>1, <3>1, <4>1, <4>2, SMT DEF ReadInv
      <4>4. Received' = Received
        BY <4>1, SMT DEF Received
      <4>5. OrderInv'
        <5>1. ~failed => Rest(devOut, rq, Received)
          BY <1>2, <2>1, <3>1, <3>3 DEF OrderInv
        <5>2. ~failed => Rest(devOut', rq', Received')
          BY <1>1, <2>1, <4>4, <5>1
        <5>3. \A k \in 1..Len(preBody') : preBody'[k].n = Len(seen') + k
          BY <4>1, SMT
        <5> QED
          BY <1>2, <2>1, <5>2, <5>3 DEF OrderInv
      <4> QED
        BY <4>1, <4>3, <4>5
    <3> QED
      BY <3>2, <3>3
  <2> QED
    BY <1>1, <1>2, <2>1, <2>2, SMT DEF PairInv, DataInv
<1>6. CASE Cleanup
  <2>1. step \in {"drain", "close"} /\ atEnd /\ Put
    BY <1>6 DEF Cleanup
  <2>2. ~lost => devRq = 0 /\ devOut = <<>>
    BY <2>1 DEF PairInv, DataInv, ReadInv
  <2> QED
    BY <1>1, <1>2, <2>1, <2>2, SMT DEF Put, PairInv, DataInv
<1> QED
  BY <1>3, <1>4, <1>5, <1>6

\* A client receives the response to its own request, in order unless a transfer
\* failed, whatever the clients before it did, for any number of requests and
\* any length of their bodies.
THEOREM PairedTheorem == ConnSpec => []Paired
<1>1. PairInv /\ [ConnNext]_<<vars, connVars>> => PairInv'
  <2> SUFFICES ASSUME PairInv, [ConnNext]_<<vars, connVars>> PROVE PairInv'
    OBVIOUS
  <2>1. CASE UNCHANGED <<vars, connVars>> \/ Idle
    <3>1. EofInv' /\ UNCHANGED vars /\ UNCHANGED connVars
      BY <2>1, NextEofInv DEF PairInv, CallInv, Idle
    <3>2. CallInv' /\ (Pending' => Pending) /\ (Arrived' => Arrived)
      BY <3>1
      DEF PairInv, CallInv, Bare, Pending, Arrived, vars, callVars, usbVars, connVars
    <3> QED
      BY <3>1, <3>2, DataStays DEF PairInv
  <2>2. CASE Bare /\ (XferStep \/ \E x \in Xfer : Transfer(x))
    <3>1. EofInv' /\ UNCHANGED connVars
      BY SMTT(30), <2>2, NextEofInv DEF PairInv, CallInv, ConnNext, XferStep, Transfer
    <3>2. CallInv' /\ ~Pending' /\ ~Arrived'
      BY <2>2, <3>1
      DEF PairInv, CallInv, EofInv, Bare, Pending, Arrived, connVars
    <3> QED
      BY <3>1, <3>2, DataStays DEF PairInv
  <2>3. CASE ~Bare /\ XferStep
    <3>1. UNCHANGED connVars
      BY <2>3 DEF XferStep
    <3> QED
      BY <2>3, <3>1, XferStepCall, DataStays DEF PairInv
  <2>4. CASE ~Bare /\ \E x \in Xfer : Transfer(x)
    BY <2>4, TransferPairInv
  <2> QED
    BY <2>1, <2>2, <2>3, <2>4, IoCallPairInv, IoReturnPairInv, TransactionPairInv
    DEF ConnNext, ConnStep
<1>2. PairInv => Paired
  <2> SUFFICES ASSUME PairInv, ~lost PROVE Paired
    BY DEF Paired
  <2>1. seen \in Seq(Pk) /\ DOMAIN seen = 1..Len(seen)
    BY SMT DEF PairInv, DataInv
  <2>2. CASE seen = <<>>
    BY <2>2, SMT DEF Paired, PairInv, DataInv
  <2>3. CASE seen # <<>>
    BY <2>1, <2>3 DEF Paired, PairInv, DataInv, WriteInv, ReadInv
  <2> QED
    BY <2>2, <2>3
<1> QED
  BY <1>1, <1>2, InitPairInv, PTL DEF ConnSpec
=============================================================================
