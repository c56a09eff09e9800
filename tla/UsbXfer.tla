------------------------------- MODULE UsbXfer -------------------------------
(***************************************************************************)
(* Asynchronous libusb transfers (usbio_libusb.go): goroutines that call   *)
(* UsbInterface.Send and UsbInterface.Recv, and the libusb event thread    *)
(* that completes their transfers and runs libusbTransferCallback.         *)
(*                                                                         *)
(* A transfer is named by its address: libusb_alloc_transfer may return    *)
(* the address of a transfer that has just been freed.                     *)
(***************************************************************************)
EXTENDS Naturals

CONSTANTS
  Thread,   \* goroutines
  Xfer,     \* addresses of libusb_transfer structures
  Nil       \* the null pointer, and the nil channel

ASSUME NilAssumption == Nil \notin Thread \cup Xfer

VARIABLES
  pc,       \* where each goroutine is in Send or Recv
  xfer,     \* its transfer
  ctxErr,   \* its context has been cancelled or has expired
  result,   \* what its last call returned
  closed,   \* its completion channel doneChan is closed
  doneMap,  \* libusbTransferDoneMap: the goroutine whose channel it holds
  heap,     \* the transfers that are allocated
  urb,      \* what libusb does with a transfer
  status,   \* the completion status of a transfer
  cb        \* the transfer and the channel of a running callback

callVars == <<pc, xfer, ctxErr, result>>
usbVars  == <<urb, status, cb>>
vars     == <<callVars, closed, doneMap, heap, usbVars>>

PC     == {"idle", "insert", "submit", "select", "wait", "delete", "free"}
Result == {"none", "ok", "ctx", "error"}
Status == {"COMPLETED", "CANCELLED", "ERROR"}
NoCb   == [xfer |-> Nil, done |-> Nil]

TypeOK ==
  /\ pc \in [Thread -> PC]
  /\ xfer \in [Thread -> Xfer \cup {Nil}]
  /\ ctxErr \in [Thread -> BOOLEAN]
  /\ result \in [Thread -> Result]
  /\ closed \in [Thread -> BOOLEAN]
  /\ doneMap \in [Xfer -> Thread \cup {Nil}]
  /\ heap \in SUBSET Xfer
  /\ urb \in [Xfer -> {"none", "submitted", "cancelling", "done"}]
  /\ status \in [Xfer -> Status]
  /\ cb \in [xfer : Xfer \cup {Nil}, done : Thread \cup {Nil}]

Init ==
  /\ pc = [t \in Thread |-> "idle"]
  /\ xfer = [t \in Thread |-> Nil]
  /\ ctxErr = [t \in Thread |-> FALSE]
  /\ result = [t \in Thread |-> "none"]
  /\ closed = [t \in Thread |-> FALSE]
  /\ doneMap = [x \in Xfer |-> Nil]
  /\ heap = {}
  /\ urb = [x \in Xfer |-> "none"]
  /\ status = [x \in Xfer |-> "COMPLETED"]
  /\ cb = NoCb

-----------------------------------------------------------------------------
(* Send and Recv.                                                          *)

\* A call begins, with a context that may already have expired, in which case
\* nothing is sent; libusb_alloc_transfer may fail.
Call(t) ==
  /\ pc[t] = "idle"
  /\ \E expired \in BOOLEAN :
       /\ ctxErr' = [ctxErr EXCEPT ![t] = expired]
       /\ \/ /\ expired
             /\ result' = [result EXCEPT ![t] = "ctx"]
             /\ UNCHANGED <<pc, xfer, heap>>
          \/ /\ ~expired
             /\ result' = [result EXCEPT ![t] = "error"]
             /\ UNCHANGED <<pc, xfer, heap>>
          \/ /\ ~expired
             /\ \E x \in Xfer \ heap :
                  /\ heap' = heap \cup {x}
                  /\ xfer' = [xfer EXCEPT ![t] = x]
             /\ result' = [result EXCEPT ![t] = "none"]
             /\ pc' = [pc EXCEPT ![t] = "insert"]
  /\ UNCHANGED <<closed, doneMap, usbVars>>

\* libusbTransferAlloc makes the channel and puts it into the map.
Insert(t) ==
  /\ pc[t] = "insert"
  /\ closed' = [closed EXCEPT ![t] = FALSE]
  /\ doneMap' = [doneMap EXCEPT ![xfer[t]] = t]
  /\ pc' = [pc EXCEPT ![t] = "submit"]
  /\ UNCHANGED <<xfer, ctxErr, result, heap, usbVars>>

\* libusb_submit_transfer
Submit(t) ==
  /\ pc[t] = "submit"
  /\ \/ /\ urb' = [urb EXCEPT ![xfer[t]] = "submitted"]
        /\ pc' = [pc EXCEPT ![t] = "select"]
        /\ UNCHANGED result
     \/ /\ result' = [result EXCEPT ![t] = "error"]
        /\ pc' = [pc EXCEPT ![t] = "delete"]
        /\ UNCHANGED urb
  /\ UNCHANGED <<xfer, ctxErr, closed, doneMap, heap, status, cb>>

\* The context of a call expires, or is cancelled.
Expire(t) ==
  /\ pc[t] # "idle"
  /\ ~ctxErr[t]
  /\ ctxErr' = [ctxErr EXCEPT ![t] = TRUE]
  /\ UNCHANGED <<pc, xfer, result, closed, doneMap, heap, usbVars>>

\* Mutant: the call returns after libusb_cancel_transfer, without waiting.
SelectNoWait(t) ==
  /\ pc[t] = "select"
  /\ \/ /\ ctxErr[t]
        /\ urb' = [urb EXCEPT ![xfer[t]] =
                     IF @ = "submitted" THEN "cancelling" ELSE @]
        /\ pc' = [pc EXCEPT ![t] = "delete"]
     \/ /\ closed[t]
        /\ pc' = [pc EXCEPT ![t] = "wait"]
        /\ UNCHANGED urb
  /\ UNCHANGED <<xfer, ctxErr, result, closed, doneMap, heap, status, cb>>

\* The select statement.  Cancelling a transfer that has completed has no
\* effect.
Select(t) ==
  /\ pc[t] = "select"
  /\ \/ /\ ctxErr[t]
        /\ urb' = [urb EXCEPT ![xfer[t]] =
                     IF @ = "submitted" THEN "cancelling" ELSE @]
     \/ closed[t] /\ UNCHANGED urb
  /\ pc' = [pc EXCEPT ![t] = "wait"]
  /\ UNCHANGED <<xfer, ctxErr, result, closed, doneMap, heap, status, cb>>

\* Mutant: an expired context hides that the transfer has completed.
DecodeContextFirst(t) ==
  IF ctxErr[t] THEN "ctx"
  ELSE IF status[xfer[t]] = "COMPLETED" THEN "ok" ELSE "error"

\* libusbTransferStatusDecode
Decode(t) ==
  CASE status[xfer[t]] = "COMPLETED" -> "ok"
    [] status[xfer[t]] = "CANCELLED" -> IF ctxErr[t] THEN "ctx" ELSE "error"
    [] status[xfer[t]] = "ERROR"     -> "error"

\* The second receive from doneChan.
Wait(t) ==
  /\ pc[t] = "wait"
  /\ closed[t]
  /\ result' = [result EXCEPT ![t] = Decode(t)]
  /\ pc' = [pc EXCEPT ![t] = "delete"]
  /\ UNCHANGED <<xfer, ctxErr, closed, doneMap, heap, usbVars>>

\* Mutant: the transfer is freed first, and its map entry is deleted then.
DeleteAfterFree(t) ==
  \/ /\ pc[t] = "delete"
     /\ heap' = heap \ {xfer[t]}
     /\ pc' = [pc EXCEPT ![t] = "forget"]
     /\ UNCHANGED <<xfer, ctxErr, result, closed, doneMap, usbVars>>
  \/ /\ pc[t] = "forget"
     /\ doneMap' = [doneMap EXCEPT ![xfer[t]] = Nil]
     /\ xfer' = [xfer EXCEPT ![t] = Nil]
     /\ pc' = [pc EXCEPT ![t] = "idle"]
     /\ UNCHANGED <<ctxErr, result, closed, heap, usbVars>>

\* libusbTransferFree deletes the map entry ...
Delete(t) ==
  /\ pc[t] = "delete"
  /\ doneMap' = [doneMap EXCEPT ![xfer[t]] = Nil]
  /\ pc' = [pc EXCEPT ![t] = "free"]
  /\ UNCHANGED <<xfer, ctxErr, result, closed, heap, usbVars>>

\* ... and then frees the transfer; the call returns.
Free(t) ==
  /\ pc[t] = "free"
  /\ heap' = heap \ {xfer[t]}
  /\ xfer' = [xfer EXCEPT ![t] = Nil]
  /\ pc' = [pc EXCEPT ![t] = "idle"]
  /\ UNCHANGED <<ctxErr, result, closed, doneMap, usbVars>>

-----------------------------------------------------------------------------
(* The libusb event thread.                                                *)

\* A transfer ends: with data, with an error, or cancelled, by the call or by
\* a reset of the device.  A cancelled one may still complete.
Complete(x) ==
  /\ urb[x] \in {"submitted", "cancelling"}
  /\ \E st \in Status : status' = [status EXCEPT ![x] = st]
  /\ urb' = [urb EXCEPT ![x] = "done"]
  /\ UNCHANGED <<callVars, closed, doneMap, heap, cb>>

\* libusbTransferCallback looks the channel up ...
CallbackLookup(x) ==
  /\ urb[x] = "done"
  /\ cb = NoCb
  /\ urb' = [urb EXCEPT ![x] = "none"]
  /\ cb' = [xfer |-> x, done |-> doneMap[x]]
  /\ UNCHANGED <<callVars, closed, doneMap, heap, status>>

\* ... and closes it.
CallbackClose ==
  /\ cb # NoCb
  /\ closed' = [closed EXCEPT ![cb.done] = TRUE]
  /\ cb' = NoCb
  /\ UNCHANGED <<callVars, doneMap, heap, urb, status>>

-----------------------------------------------------------------------------

CallStep(t) ==
  Insert(t) \/ Submit(t) \/ Select(t) \/ Wait(t) \/ Delete(t) \/ Free(t)

Next ==
  \/ \E t \in Thread : Call(t) \/ Expire(t) \/ CallStep(t)
  \/ \E x \in Xfer : Complete(x) \/ CallbackLookup(x)
  \/ CallbackClose

(***************************************************************************)
(* Goroutines and the event thread run.  Only a transfer that is being     *)
(* cancelled is sure to end: a device need not answer.                     *)
(***************************************************************************)
Fairness ==
  /\ \A t \in Thread : WF_vars(CallStep(t))
  /\ \A x \in Xfer : /\ WF_vars(urb[x] = "cancelling" /\ Complete(x))
                     /\ SF_vars(CallbackLookup(x))
  /\ WF_vars(CallbackClose)

Spec == Init /\ [][Next]_vars /\ Fairness

-----------------------------------------------------------------------------
(* Properties.                                                             *)

\* libusb never works on a transfer that has been freed, and two calls never
\* share one: a call does not return, not even when its context expires,
\* before libusb is done with its transfer.
NoFreeInFlight ==
  /\ \A x \in Xfer \ heap : urb[x] = "none" /\ cb.xfer # x
  /\ \A t, u \in Thread : xfer[t] = xfer[u] /\ xfer[t] # Nil => t = u

\* A callback closes the channel of the call its transfer belongs to, and
\* only once: never a nil channel, never one that is closed, and never the
\* channel of another call whose transfer got the same address.
CallbackOwnsChannel ==
  cb # NoCb =>
    /\ cb.done \in Thread
    /\ xfer[cb.done] = cb.xfer
    /\ ~closed[cb.done]

\* A transfer that has completed is reported as such even when the context
\* expired meanwhile, and the error of the context only when it has expired:
\* data that was transferred is not dropped, as the comment in
\* libusbTransferStatusDecode says.
ResultExact ==
  \A t \in Thread :
    pc[t] \in {"delete", "free"} =>
      /\ closed[t] => (result[t] = "ok" <=> status[xfer[t]] = "COMPLETED")
      /\ result[t] = "ctx" => ctxErr[t]

\* The inductive invariant: where the transfer of each call is.
XferInv ==
  /\ TypeOK
  /\ NoFreeInFlight
  /\ CallbackOwnsChannel
  /\ ResultExact
  /\ \A t \in Thread :
       /\ (xfer[t] = Nil) <=> (pc[t] = "idle")
       /\ xfer[t] # Nil => xfer[t] \in heap
       /\ pc[t] \in {"submit", "select", "wait", "delete"} =>
            doneMap[xfer[t]] = t
       /\ pc[t] \in {"insert", "submit", "delete", "free"} =>
            urb[xfer[t]] = "none" /\ cb.xfer # xfer[t]
       /\ pc[t] \in {"submit", "select", "wait"} /\ closed[t] =>
            urb[xfer[t]] = "none" /\ cb.xfer # xfer[t]
       /\ pc[t] = "submit" => ~closed[t]
  /\ \A x \in heap : \E t \in Thread : xfer[t] = x
  /\ \A x \in Xfer : urb[x] # "none" => cb.xfer # x
  /\ cb.xfer = Nil => cb = NoCb

\* A call whose context expires returns, whether the device answers or not.
CancelReturns ==
  \A t \in Thread : (pc[t] = "select" /\ ctxErr[t]) ~> (pc[t] = "idle")
=============================================================================
