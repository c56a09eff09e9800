------------------------------ MODULE UsbConn ------------------------------
(***************************************************************************)
(* HTTP transactions on one USB connection (usbtransport.go): RoundTrip,   *)
(* usbConn.Read and Write, the wrappers of request and response bodies,    *)
(* and sanitizeIppResponse, on top of the transfers of UsbXfer.  At the    *)
(* other end is a device, which receives requests piece by piece and       *)
(* answers with packets.                                                   *)
(*                                                                         *)
(* USB has no way to tell the device to forget a request: one that is not  *)
(* sent to its end, or a response that is not read to its end, is in the   *)
(* way of the next one.                                                    *)
(***************************************************************************)
EXTENDS UsbXfer, Sequences

CONSTANTS
  Conn,     \* the goroutine that has the connection
  MaxRq,    \* bound on requests
  MaxBody   \* pieces of a large request body

ASSUME ConnAssumption == Conn \in Thread /\ MaxRq \in Nat /\ MaxBody \in Nat

VARIABLES
  quirks,   \* zlp-recv-hack, buggy-ipp-rsp = sanitize; transport.timeout # 0
  step,     \* where the transaction is
  io,       \* where conn.Read or conn.Write is
  rq,       \* requests so far; the current one
  body,     \* pieces of its body that are still to be sent
  gone,     \* its client has gone
  fresh,    \* its context is new
  zlpRecv,  \* a zero-length packet was received by this conn.Read
  eofSeen,  \* conn.eofSeen
  timeoutExpired, \* transport.timeoutExpired
  drained,  \* wrap.drained
  atEnd,    \* the response has been read from USB to its end
  preBody,  \* what sanitizeIppResponse has read of the body
  seen,     \* what the client has received
  err,      \* the error of RoundTrip
  devRq,    \* the request that the device is receiving, or 0
  devOut,   \* packets that the device is to send
  pkt,      \* what the last transfer received
  failed,   \* history: a transfer of this request failed
  lost      \* history: a transaction was given up before its end

wrapVars == <<drained, atEnd, preBody, seen>>
readVars == <<zlpRecv, eofSeen, timeoutExpired>>
devVars  == <<devRq, devOut, pkt>>
rqVars   == <<quirks, rq, gone>>
connVars == <<quirks, step, io, rq, body, gone, fresh, readVars, wrapVars,
              err, devVars, failed, lost>>

Zlp == [rq |-> 0, n |-> 0, end |-> FALSE]
NoPkt == [rq |-> 0, n |-> 1, end |-> FALSE]

\* The responses of a device: up to three packets, and empty ones.
Packet(id, n, end) == [rq |-> id, n |-> n, end |-> end]

Responses(id) ==
  LET p(n) == Packet(id, n, FALSE)
      e(n) == Packet(id, n, TRUE)
  IN  {<<e(1)>>, <<Zlp, p(1), Zlp, p(2), e(3)>>}

Quirks == [zlpRecvHack : BOOLEAN, sanitize : BOOLEAN, timeout : BOOLEAN]

\* To keep instances small, a behaviour has either transactions, of Conn, or
\* the calls of many goroutines, as UsbXfer has them.
Bare == rq > MaxRq

ConnInit ==
  /\ Init
  /\ \/ rq = 0 /\ quirks \in Quirks
     \/ rq = MaxRq + 1 /\ quirks = [zlpRecvHack |-> FALSE, sanitize |-> FALSE, timeout |-> FALSE]
  /\ step = "free"
  /\ io = "none"
  /\ body = 0
  /\ gone = FALSE /\ fresh = FALSE
  /\ zlpRecv = FALSE /\ eofSeen = FALSE /\ timeoutExpired = FALSE
  /\ drained = FALSE /\ atEnd = FALSE
  /\ failed = FALSE /\ lost = FALSE
  /\ preBody = <<>> /\ seen = <<>> /\ devOut = <<>>
  /\ err = "nil"
  /\ devRq = 0
  /\ pkt = NoPkt

-----------------------------------------------------------------------------
(* The device (external).                                                  *)

\* It receives a piece of a request, and answers the last one.  What comes
\* after a request that has not ended belongs to that request.
DevReceives(end) ==
  LET id == IF devRq = 0 THEN rq ELSE devRq IN
  /\ devRq' = IF end THEN 0 ELSE id
  /\ IF end THEN \E r \in Responses(id) : devOut' = devOut \o r
            ELSE UNCHANGED devOut
  /\ UNCHANGED pkt

DevSends ==
  /\ devOut # <<>>
  /\ devOut' = Tail(devOut)
  /\ pkt' = Head(devOut)
  /\ UNCHANGED devRq

-----------------------------------------------------------------------------
(* The transaction.                                                        *)

\* conn.put.  What is left of the transaction is forgotten.
Put ==
  /\ step' = "free"
  /\ io' = "none"
  /\ body' = 0
  /\ drained' = FALSE /\ atEnd' = FALSE /\ preBody' = <<>> /\ seen' = <<>>

\* RoundTripWithSession, up to outreq.Write.  A small body is read before
\* anything is sent; if the client drops it, that is all.
RoundTrip ==
  /\ step = "free"
  /\ rq < MaxRq
  /\ rq' = rq + 1
  /\ gone' = FALSE
  /\ fresh' = TRUE
  /\ failed' = FALSE
  /\ \/ /\ step' = "write"
        /\ body' \in 0..MaxBody
        /\ err' = "nil"
     \/ /\ err' = "error"
        /\ UNCHANGED <<step, body>>
  /\ UNCHANGED <<vars, quirks, io, readVars, wrapVars, devVars, lost>>

\* The client goes away; it makes no difference during a transfer.
ClientGone ==
  /\ step \in {"write", "body"} /\ io = "none"
  /\ ~gone
  /\ gone' = TRUE
  /\ UNCHANGED <<vars, quirks, step, io, rq, body, fresh, readVars, wrapVars,
                 err, devVars, failed, lost>>

\* The request ends with this piece: usbRequestBodyWrapper.Read makes an EOF
\* of every error, so that the body of a client that has gone still ends with
\* its last chunk.
LastPiece == body = 0 \/ gone

\* Mutant: eofSeen is kept from the last conn.Read.
ReadBeginKeeps ==
  /\ zlpRecv' = FALSE
  /\ UNCHANGED eofSeen

\* The beginning of conn.Read.
ReadBegin ==
  /\ zlpRecv' = FALSE
  /\ eofSeen' = FALSE

\* conn.Read and conn.Write call Recv and Send with the context of the request,
\* which has a deadline if there is a timeout.  One goroutine is content with
\* one address for its transfers.
IoCall ==
  /\ step # "free" /\ io \in {"none", "again"}
  /\ step = "body" => preBody = <<>>
  /\ step # "write" => ~atEnd
  /\ Call(Conn)
  /\ xfer'[Conn] \in {Nil, CHOOSE x \in Xfer : TRUE}
  /\ ctxErr'[Conn] => quirks.timeout
  /\ ~fresh /\ ctxErr[Conn] => ctxErr'[Conn]
  /\ fresh' = FALSE
  /\ io' = "busy"
  /\ IF step = "write"
     THEN /\ body' = IF LastPiece THEN 0 ELSE body
          /\ UNCHANGED <<zlpRecv, eofSeen>>
     ELSE /\ IF io = "none" THEN ReadBegin ELSE UNCHANGED <<zlpRecv, eofSeen>>
          /\ UNCHANGED body
  /\ UNCHANGED <<rqVars, step, timeoutExpired, wrapVars, err, devVars, failed, lost>>

-----------------------------------------------------------------------------
(* The results of Recv and Send.                                           *)

\* A read fails: a response without its header is an error of RoundTrip, EOF
\* if EOFSeen, and the connection is put back; a body is closed, which, in wrap.body.Close,
\* reads it to its end unless that fails too.
ReadFails(e) ==
  /\ failed' = TRUE
  /\ err' = CASE step # "header" -> err
              [] step = "header" -> IF eofSeen' THEN "eof" ELSE e
  /\ IF step \in {"header", "close"}
     THEN Put /\ lost' = TRUE
     ELSE /\ step' = IF step = "sanitize" THEN "body" ELSE "close"
          /\ drained' = TRUE
          /\ io' = "none"
          /\ UNCHANGED <<atEnd, preBody, seen, body, lost>>

\* Data was read.  A response that http.ReadResponse cannot parse is an error
\* too.  sanitizeIppResponse reads until it has the whole IPP message.
ReadData ==
  \/ /\ step = "header"
     /\ ReadFails("error")
  \/ /\ step = "header" => pkt.n = 1
     /\ io' = "none"
     /\ atEnd' = pkt.end
     /\ step' \in CASE step = "header" -> {IF quirks.sanitize THEN "sanitize" ELSE "body"}
                     [] step = "sanitize" -> {"sanitize", "body"}
                     [] OTHER -> {step}
     /\ preBody' = IF step = "sanitize" THEN Append(preBody, pkt) ELSE preBody
     /\ seen' = IF step \in {"header", "body"} /\ ~gone THEN Append(seen, pkt) ELSE seen
     /\ UNCHANGED <<drained, body, err, failed, lost>>

\* Mutant: an expired deadline is taken for one more empty packet.
ReadExpiredAgain ==
  IF zlpRecv
  THEN /\ io' = "again"
       /\ UNCHANGED <<step, wrapVars, body, err, failed, lost, eofSeen, timeoutExpired>>
  ELSE UNCHANGED eofSeen /\ ReadFails("ctx") /\ timeoutExpired' = TRUE

\* The deadline has expired: with zlp-recv-hack, and after an empty packet,
\* this is the end of the body.
ReadExpired ==
  IF quirks.zlpRecvHack /\ zlpRecv
  THEN /\ eofSeen' = TRUE
       /\ ReadFails("eof")
       /\ UNCHANGED timeoutExpired
  ELSE /\ UNCHANGED eofSeen
       /\ ReadFails("ctx")
       /\ timeoutExpired' = TRUE

ReadReturn ==
  /\ step # "write"
  /\ CASE result[Conn] = "ctx" -> ReadExpired /\ UNCHANGED zlpRecv
       [] result[Conn] = "error" ->
            UNCHANGED readVars /\ ReadFails("error")
       [] result[Conn] = "ok" /\ pkt = Zlp ->
            /\ zlpRecv' = TRUE
            /\ io' = "again"
            /\ UNCHANGED <<step, wrapVars, body, err, failed, lost, eofSeen, timeoutExpired>>
       [] result[Conn] = "ok" /\ pkt # Zlp -> UNCHANGED readVars /\ ReadData

WriteReturn ==
  /\ step = "write"
  /\ IF result[Conn] = "ok"
     THEN /\ step' = IF body = 0 THEN "header" ELSE "write"
          /\ body' = IF body = 0 THEN 0 ELSE body - 1
          /\ io' = "none"
          /\ UNCHANGED <<wrapVars, err, timeoutExpired, failed, lost>>
     ELSE /\ Put
          /\ err' = result[Conn]
          /\ timeoutExpired' = (timeoutExpired \/ result[Conn] = "ctx")
          /\ failed' = TRUE
          /\ lost' = TRUE
  /\ UNCHANGED <<zlpRecv, eofSeen>>

IoReturn ==
  /\ io = "busy"
  /\ pc[Conn] = "idle"
  /\ ReadReturn \/ WriteReturn
  /\ pkt' = NoPkt
  /\ UNCHANGED <<vars, rqVars, fresh, devRq, devOut>>

-----------------------------------------------------------------------------
(* The response body.                                                      *)

\* The body ends before sanitizeIppResponse has all of a message.
SanitizeEOF ==
  /\ step = "sanitize" /\ io = "none" /\ atEnd
  /\ step' = "body"
  /\ drained' = TRUE
  /\ UNCHANGED <<vars, rqVars, io, body, fresh, readVars, atEnd, preBody, seen,
                 err, devVars, failed, lost>>

\* The client reads preBody.
CopyPreBody ==
  /\ step = "body" /\ io = "none" /\ preBody # <<>>
  /\ preBody' = <<>>
  /\ seen' = IF gone THEN seen ELSE seen \o preBody
  /\ UNCHANGED <<vars, rqVars, step, io, body, fresh, readVars, drained, atEnd,
                 err, devVars, failed, lost>>

\* Mutant: the connection is put back without draining it.
CloseNow ==
  /\ step = "body" /\ io = "none"
  /\ gone \/ (atEnd /\ preBody = <<>>)
  /\ Put
  /\ UNCHANGED <<vars, rqVars, fresh, readVars, err, devVars, failed, lost>>

\* usbResponseBodyWrapper.Close, at the end of the body or when the client has
\* gone: the rest of the response is drained in the background.
Close ==
  /\ step = "body" /\ io = "none"
  /\ gone \/ (atEnd /\ preBody = <<>>)
  /\ drained' = (drained \/ (atEnd /\ preBody = <<>>))
  /\ step' = IF drained' THEN "close" ELSE "drain"
  /\ UNCHANGED <<vars, rqVars, io, body, fresh, readVars, atEnd, preBody, seen,
                 err, devVars, failed, lost>>

\* The response has been drained: cleanup.
Cleanup ==
  /\ step \in {"drain", "close"} /\ io = "none" /\ atEnd
  /\ Put
  /\ UNCHANGED <<vars, rqVars, fresh, readVars, err, devVars, failed, lost>>

-----------------------------------------------------------------------------
(* The transfers.  Those of Conn move data, even some that fail.           *)

Transfer(x) ==
  /\ Complete(x)
  /\ IF Bare THEN UNCHANGED connVars
     ELSE /\ \/ step = "write" /\ DevReceives(body = 0)
             \/ step # "write" /\ DevSends
             \/ status'[x] # "COMPLETED" /\ UNCHANGED devVars
          /\ UNCHANGED <<rqVars, step, io, body, fresh, readVars, wrapVars,
                         err, failed, lost>>

XferStep ==
  /\ \/ Bare /\ \E t \in Thread : Call(t) \/ Expire(t)
     \/ quirks.timeout /\ Expire(Conn)
     \/ \E t \in Thread : CallStep(t)
     \/ \E x \in Xfer : CallbackLookup(x)
     \/ CallbackClose
  /\ UNCHANGED connVars

ConnStep == IoCall \/ IoReturn \/ SanitizeEOF \/ CopyPreBody \/ Close \/ Cleanup

\* No more requests come.
Idle == step = "free" /\ rq = MaxRq /\ UNCHANGED <<vars, connVars>>

ConnNext ==
  \/ Idle
  \/ RoundTrip \/ ClientGone \/ ConnStep
  \/ XferStep
  \/ \E x \in Xfer : Transfer(x)

(***************************************************************************)
(* The goroutine of the connection runs, and deadlines expire.  Nothing is *)
(* said of the device or of clients.                                       *)
(***************************************************************************)
ConnSpec ==
  /\ ConnInit /\ [][ConnNext]_<<vars, connVars>>
  /\ Fairness
  /\ WF_<<vars, connVars>>(ConnStep)
  /\ WF_<<vars, connVars>>(quirks.timeout /\ XferStep /\ Expire(Conn))

-----------------------------------------------------------------------------
(* Properties.                                                             *)

\* A client receives the response to its own request, from its beginning and
\* without a gap unless a transfer failed, whatever the clients before it did:
\* one that went away while it was sending its request, or while it was
\* receiving the response, leaves nothing on the connection that the next
\* client would get.  This is so until the code gives a transaction up, which
\* it does only when a transfer fails.
Paired ==
  /\ ~lost => \A i \in DOMAIN seen : seen[i].rq = rq /\ (~failed => seen[i].n = i)
  /\ ~lost /\ step = "free" => devRq = 0 /\ devOut = <<>>

\* "If the latest conn.Read has returned io.EOF, the only reason it could
\* happen is that the zlp-recv-hack quirk has triggered": NewDevice gets EOF
\* from RoundTrip only if this very request got an empty packet and then its
\* deadline expired; and a request that fails at its deadline otherwise is
\* known to TimeoutExpired, so that NewDevice resets the device.
EofEarned ==
  /\ err = "eof" => quirks.zlpRecvHack /\ zlpRecv /\ ctxErr[Conn]
  /\ err = "ctx" => timeoutExpired

\* A Send or Recv whose context expires returns, in whatever state the transfer
\* is (CancelReturns); so, with a timeout set, a connection comes back to the
\* pool, even if the device never answers, or answers with empty packets only,
\* and whatever its client does.
ExchangeEnds ==
  /\ CancelReturns
  /\ quirks.timeout => [](step # "free" => <>(step = "free"))
=============================================================================
