------------------------------ MODULE UdevLock ------------------------------
(***************************************************************************)
(* The main function in udev mode: udev starts a copy of ipp-usb whenever  *)
(* a device is plugged in, a lock file keeps a single copy running, and a  *)
(* copy that is idle releases the lock, looks for devices once more and    *)
(* either takes the lock back or exits.  PnPStart is reduced to what main  *)
(* sees of it: it serves once a scan has found a device, until a scan      *)
(* finds none.  A scan may fail, which is the same to main as finding      *)
(* nothing; a scan that fails while devices are served changes nothing.    *)
(***************************************************************************)
EXTENDS Naturals

CONSTANTS
  Proc,     \* copies of ipp-usb that may run at the same time
  NoProc    \* the lock is free

ASSUME NoProcAssumption == NoProc \notin Proc

VARIABLES
  present,  \* there is an IPP-over-USB device
  lock,     \* who holds the lock file
  pc,       \* where main is, per copy; "none" if it does not run
  ctrl,     \* ctrlsockServer, per copy
  killed,   \* history: a copy was terminated, and udev has started none since
  failed    \* history: a scan failed; none has succeeded and udev has started
            \* no copy since

udevVars == <<present, lock, pc, ctrl, killed, failed>>

PC == {"none", "start", "pnp", "serving", "idle", "check", "relock"}

UdevTypeOK ==
  /\ present \in BOOLEAN
  /\ lock \in Proc \cup {NoProc}
  /\ pc \in [Proc -> PC]
  /\ ctrl \in [Proc -> {"new", "running", "closed"}]
  /\ killed \in BOOLEAN
  /\ failed \in BOOLEAN

UdevInit ==
  /\ present = FALSE
  /\ lock = NoProc
  /\ pc = [p \in Proc |-> "none"]
  /\ ctrl = [p \in Proc |-> "new"]
  /\ killed = FALSE
  /\ failed = FALSE

\* The udev rule: adding a device, the first one or another one, starts ipp-usb.
Plug(p) ==
  /\ pc[p] = "none"
  /\ present' = TRUE
  /\ pc' = [pc EXCEPT ![p] = "start"]
  /\ killed' = FALSE
  /\ failed' = FALSE
  /\ UNCHANGED <<lock, ctrl>>

\* The last device goes.
UnplugLast ==
  /\ present
  /\ present' = FALSE
  /\ UNCHANGED <<lock, pc, ctrl, killed, failed>>

\* The end of a process: its files are closed, so the lock is released.
ExitProc(p) ==
  /\ pc' = [pc EXCEPT ![p] = "none"]
  /\ ctrl' = [ctrl EXCEPT ![p] = "new"]
  /\ lock' = IF lock = p THEN NoProc ELSE lock

\* FileLock(lock, FileLockNoWait)
FileLock(p) == lock = NoProc /\ lock' = p

\* main up to PnPStart.  "It's not an error in udev mode".
Start(p) ==
  /\ pc[p] = "start"
  /\ \/ FileLock(p) /\ pc' = [pc EXCEPT ![p] = "pnp"] /\ UNCHANGED ctrl
     \/ lock # NoProc /\ ExitProc(p)
  /\ UNCHANGED <<present, killed, failed>>

\* CtrlsockStart: a http.Server that was closed serves no more.
CtrlsockStart(p) ==
  ctrl' = [ctrl EXCEPT ![p] = IF @ = "new" THEN "running" ELSE @]

CtrlsockStop(p) == ctrl' = [ctrl EXCEPT ![p] = "closed"]

\* UsbGetIppOverUsbDeviceDescs: whether it returns a device.  An error returns
\* none.
UsbGetIppOverUsbDeviceDescs(found) ==
  \/ found = present /\ failed' = FALSE
  \/ ~found /\ failed' = TRUE

\* PnPStart looks for devices and serves them if there are any.
PnPStart(p) ==
  /\ pc[p] = "pnp"
  /\ UsbGetIppOverUsbDeviceDescs(TRUE)
  /\ pc' = [pc EXCEPT ![p] = "serving"]
  /\ CtrlsockStart(p)
  /\ UNCHANGED <<present, lock, killed>>

\* PnPStart returns PnPIdle: it has no device.  Its first scan found none or
\* failed, or a later one, which did not fail, found none.
PnPIdle(p) ==
  /\ \/ pc[p] = "pnp" /\ UsbGetIppOverUsbDeviceDescs(FALSE)
     \/ pc[p] = "serving" /\ ~present /\ failed' = FALSE
  /\ pc' = [pc EXCEPT ![p] = "idle"]
  /\ CtrlsockStop(p)
  /\ UNCHANGED <<present, lock, killed>>

\* PnPStart returns PnPTerm, or the process is killed.
PnPTerm(p) ==
  /\ pc[p] \in {"pnp", "serving"}
  /\ ExitProc(p)
  /\ killed' = TRUE
  /\ UNCHANGED <<present, failed>>

FileUnlock(p) ==
  /\ pc[p] = "idle"
  /\ lock' = NoProc
  /\ pc' = [pc EXCEPT ![p] = "check"]
  /\ UNCHANGED <<present, ctrl, killed, failed>>

\* Mutant: the answer of the last scan is believed.
UsbCheckSkipped(p) ==
  /\ pc[p] = "check"
  /\ ExitProc(p)
  /\ UNCHANGED <<present, killed, failed>>

\* The error of the scan is ignored.
UsbCheckIppOverUsbDevices(p) ==
  /\ pc[p] = "check"
  /\ \/ /\ UsbGetIppOverUsbDeviceDescs(TRUE)
        /\ pc' = [pc EXCEPT ![p] = "relock"]
        /\ UNCHANGED <<lock, ctrl>>
     \/ UsbGetIppOverUsbDeviceDescs(FALSE) /\ ExitProc(p)
  /\ UNCHANGED <<present, killed>>

\* Mutant: the result of FileLock is ignored.
RelockAlways(p) ==
  /\ pc[p] = "relock"
  /\ lock' = IF lock = NoProc THEN p ELSE lock
  /\ pc' = [pc EXCEPT ![p] = "pnp"]
  /\ UNCHANGED <<present, ctrl, killed, failed>>

Relock(p) ==
  /\ pc[p] = "relock"
  /\ \/ FileLock(p) /\ pc' = [pc EXCEPT ![p] = "pnp"] /\ UNCHANGED ctrl
     \/ lock # NoProc /\ ExitProc(p)
  /\ UNCHANGED <<present, killed, failed>>

-----------------------------------------------------------------------------

Step(p) ==
  \/ Start(p)
  \/ PnPStart(p)
  \/ PnPIdle(p)
  \/ FileUnlock(p)
  \/ UsbCheckIppOverUsbDevices(p)
  \/ Relock(p)

UdevNext ==
  \/ UnplugLast
  \/ \E p \in Proc : Plug(p) \/ Step(p) \/ PnPTerm(p)

UdevFairness == \A p \in Proc : WF_udevVars(Step(p))

UdevSpec == UdevInit /\ [][UdevNext]_udevVars /\ UdevFairness

-----------------------------------------------------------------------------
(* Properties.                                                             *)

Serves(p) == pc[p] \in {"pnp", "serving", "idle"}

\* Two copies of ipp-usb never serve at the same time, not even when one of
\* them was on its way out and came back.
OneDaemon == \A p, q \in Proc : Serves(p) /\ Serves(q) => p = q

\* The inductive form of OneDaemon: the copy that serves holds the lock, and
\* nobody else does.
LockInv ==
  /\ UdevTypeOK
  /\ \A p \in Proc : Serves(p) <=> lock = p

\* No device is forgotten: the one that was plugged in while the last copy was
\* about to exit, and whose own copy found the lock held, is served.  Two cases
\* are left to the next copy udev starts: a copy was terminated, or a scan
\* failed, which makes the last copy exit with the device plugged in.
DeviceServed ==
  []<>(present => killed \/ failed \/ \E p \in Proc : pc[p] = "serving")

\* "status: print status of the running ipp-usb daemon": the control socket
\* of a copy that serves is served.  It does not hold of a copy that took the
\* lock back: its http.Server has been closed, and cannot serve again.
StatusAvailable == \A p \in Proc : pc[p] = "serving" => ctrl[p] = "running"
=============================================================================
