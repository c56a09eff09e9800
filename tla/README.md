# A TLA+ model of ipp-usb

ipp-usb lets ordinary IPP and eSCL clients use a printer or scanner that is
connected by USB: it finds IPP-over-USB devices, opens their interfaces,
listens to a TCP port per device, forwards HTTP requests over USB and announces
the device by DNS-SD. This directory holds TLA+ specifications of the parts of
the program in which the order of events matters, the TLC configurations that
check them on small instances, and TLAPS proofs of the central invariants.

    tlc -workers 2 -config MCUsbTransport.cfg MCUsbTransport   # one run
    tlapm UsbTransportProofs.tla                               # one proof module

`PROJECT.json` lists the runs, the source lines of every definition, the
hazards and the findings.

## The system and its parts

| Part | Source | State it keeps | What runs concurrently |
|---|---|---|---|
| PnP manager | `pnp.go`, `status.go` | known, open and waiting devices, ticker, hotplug and signal channels | the PnP thread, libusb's event thread, the bus |
| Device life cycle | `device.go`, `ipp.go`, `escl.go` | one `Device`: transport, proxy, publisher | the PnP thread, drains of responses, clients |
| USB transport | `usbtransport.go` | pool of connections, shutdown and release channels | request goroutines, drain goroutines, the PnP thread |
| libusb binding | `usbio_libusb.go` | map from transfers to channels | goroutines that transfer, the event thread |
| HTTP proxy | `http.go` | enabled, closed, disconnect reported | a goroutine per request |
| Bridge mode | `bridge.go`, `bridge_find.go` | two channels and an exit code | signal, stdin and timer goroutines, requests |
| Udev mode | `main.go`, `flock_unix.go`, `ctrlsock.go` | lock file, control socket | processes |
| DNS-SD | `dnssd.go`, `dnssd_avahi.go` | publisher, timer, entry group | a goroutine per device, Avahi's thread |
| Persistent state | `devstate.go`, `listener.go` | a file per device, ports | the PnP thread, publishers, crashes |
| Address lists | `usbcommon.go` | pure | none |
| Logger | `logger.go` | root message, files and backups, one lock per logger | every goroutine, crashes |
| Quirks, .INI files, authentication, descriptors, attributes, lines | `quirks.go`, `glob.go`, `hwid.go`, `inifile.go`, `auth.go`, `usbio_libusb.go`, `ipp.go`, `paper.go`, `uuid.go`, `linewriter.go` | pure | none |

The PnP thread opens a device (`NewDevice`), which opens the USB interfaces
(`NewUsbTransport`), allocates a port from the persistent state, starts the
proxy, queries the device through its own transport, enables the proxy and
starts a DNS-SD publisher. Requests then borrow connections from the pool and
move data by libusb transfers. Removal or termination takes all of this down
in the reverse order while requests and drains may still be running. Bridge
mode does the same for one device, without PnP and DNS-SD.

## Modules

Each component has a module with its state as variables and one action per
step between two points where other actors can interfere (channel operations,
locks, USB and file I/O). An `MC` module adds the symmetry set, or the values of
structured constants, and nothing else. Operators whose comment begins with
"Mutant:" are damaged variants of the definition that follows them; they are
not part of the specifications. They record that each property can fail.

| Module | Models | Correspondence |
|---|---|---|
| `UsbTransport` | the pool and its shutdown | `pc[r]` is the place of a request in `ServeHTTP`, `RoundTripWithSession` and the body wrapper; `pnp` that of the PnP thread in `Device.Shutdown`, `Device.Close` and `UsbTransport.Close`; `connPool` and `connReleased` are the channels. `pending` and `late` are history variables. |
| `ConnLease` | what the pool promises | a connection is leased to one request at a time, and the transport is declared quiescent, once, at a moment when no lease is out. |
| `UsbXfer` | `Send`, `Recv`, callback | `doneMap` is `libusbTransferDoneMap`, `urb` what libusb does with a transfer; addresses of transfers are reused after `Free`, as malloc does. |
| `UsbConn` | transactions on one connection | extends `UsbXfer`. `step` is the place in `RoundTripWithSession`, in reading the response or in the body wrapper; `io` that in `conn.Read` and `conn.Write`, whose calls of `Recv` and `Send` are the calls of `UsbXfer`. At the other end is a device, which takes requests by pieces and answers with packets, empty ones included. |
| `UsbAddrList` | `Add`, `Find`, `Diff` | `sort.Search` is modelled as the binary search it is, so that its answer on an unsorted list is that of the code. |
| `PnP` | `PnPStart`, hotplug callback | one action per part of a pass: scan, added, removed, retry, ticker, wait. It uses `UsbAddrList` for its lists. |
| `DeviceInit` | `NewUsbTransport`, `NewDevice`, `Device.Close` | `pc` is the next statement group; quirks and abilities of the device are the record `caps`, chosen in `Init`; `pool` is the number of connections in the pool's list, `drains` counts responses that are being drained, `waiting` and `busy` the client requests that wait in `usbConnGet` and that have a connection. |
| `UdevLock` | `main` in udev mode | `lock` is the owner of the lock file, `ctrl[p]` the state of the `http.Server` of the control socket; `killed` and `failed` remember a terminated copy and a failed scan. |
| `Bridge` | `RunBridge` | `main` is its place, `proxy.Shutdown` and the steps of `transport.Close` included; `req[r]` is that of a request, which waits for one of `MaxConn` connections; the two channels have capacity one. |
| `DNSSd` | publisher and Avahi glue | `callback` is the callback that holds the lock of Avahi's threaded poll; names are the suffix numbers of `instance`. |
| `DevState` | state files and ports | a save is two steps, truncate and write; a file is read in one step, since readers lock it. Opening, reading and writing may fail; a write that fails leaves the line of the port whole or not at all. `overlap` and `excused` are history variables. |
| `Logger` | the loggers of a device, of the daemon and of the console | a `Flush` is a frame of the stack of its goroutine, since it flushes other loggers with its lock held; every rename, compression, truncation and write of a line is a step, and the process may die between any two. |
| `Glob`, `Quirks` | matching and priority of quirks | `globMatchInternal` with its weights, sections and keys of quirks files, `prioritizeAndSave`, and the two lookups of `NewUsbTransport`, between which `mfg` and `model` may change the name that is looked up. |
| `IniFile` | the tokenizer of `.INI` files | `scan` is the state machine of `token` over characters; `Quote` is what `%q` writes. |
| `Auth` | rules and decision of `AuthHTTPRequest` | each lookup that may fail is part of the request. |
| `UsbDesc` | `libusbBuildUsbDeviceDesc` | a fold over configurations, interfaces and alternate settings. What the code lists as interfaces, and counts, are usable alternate settings. |
| `IppAttrs`, `Text` | attributes into TXT items, `AddPDL`, `LineWriter` | attributes are functions from names to values; all items of the TXT record that are not constants. |
| `MCConf` | harness of the seven modules above | `input` is chosen, `result` is what the code computes for it; the reference definitions are in this module. |
| `*Proofs` | theorems | each extends the module it is about. |

Go's `select` takes any ready case, a send in a `select` with `default` is
dropped when the channel is full, and a closed channel is always ready: the
models keep these rules, since most of the hazards come from them.

External parts are modelled by how this code uses them: the bus (`Plug`,
`Unplug`), libusb (`Complete`), Avahi (`AvahiReports`, `InUse`), net/http
(`ClientGone`), timers, signals, other programs that hold a port, and crashes.

## Runs

Runs that pass:

| Run | Instance | What it shows |
|---|---|---|
| `transport` | 2 connections, 2 requests | No connection is lost or shared (`ConnAccounting`); what `Close` destroys is not in use by a request that had it before the shutdown (`EarlyHolderSafe`); `Shutdown` does not oversleep (`ReleaseSignalled`) and ends; `Close` ends the requests it finds, and ends itself once the device was reset or unplugged (`CloseTerminates`). The pool implements `ConnLease` (`LeaseSpec`). |
| `pnp` | 2 addresses, scans that fail, signals | Tables agree (`PnPConsistent`), every device is open once and none is left open (`OpenedOnce`); devices that work get served and lost ones closed (`Settles`). |
| `xfer` | 2 goroutines, 2 addresses; or 2 transactions | No transfer is freed in flight, callbacks close the right channel once, results are exact (`NoFreeInFlight`, `CallbackOwnsChannel`, `ResultExact`). A client gets the response to its own request, whatever the one before did (`Paired`); EOF and time-outs are told apart (`EofEarned`); a call that expired returns, and a connection with a time-out comes back (`ExchangeEnds`). |
| `device` | 2 interfaces, limits 0 to 3, 2 requests that wait | Every failure of initialization cleans up (`NothingLeft`); what serves is complete and is not under the deadline of initialization (`ServingSound`); time-outs of queries are fatal (`QueryTimeoutCaught`); `NewDevice` ends, and so does `Close`, but for a late request (`DeviceEnds`). |
| `udev_lock` | 4 copies | One copy serves at most (`OneDaemon`); a device is not forgotten when copies come and go, unless one was killed or a scan failed (`DeviceServed`). |
| `bridge` | 3 requests, 2 connections | The exit code is right (`ExitRight`); a signal, the end of stdin and a loss of the device stop the bridge, on a device that hangs, too (`BridgeStops`, with two exceptions). |
| `dnssd` | 2 publishers, a name in use elsewhere, 2 faults | Nothing leaks, a halted publisher is quiet, the saved name was established (`NothingLeaked`, `HaltedQuiet`, `OverrideEarned`); both get published, and `Unpublish` returns, unless Avahi's thread is blocked (`GetsPublished`, `UnpublishEnds`). |
| `devstate` | 3 devices, 3 ports | Ports are advertised as they are and kept over restarts (`PortAdvertised`, `PortKept`), and distinct unless the range was exhausted or a file could not be read (`SavedDistinct`). |
| `logger` | 2 goroutines, 3 messages, 2 backups, 1 crash | Lines stay on disk until their backup is due for removal, over failures of compression and crashes (`LinesKept`); a message is not interrupted by another (`MessageWhole`); what was committed was written (`CommitWritten`); nested locks do not block each other (`FlushGoesOn`). |
| `conf` | all inputs up to a size | Quirks, authentication, `.INI` files, descriptors, advertised attributes and lines against reference definitions (`QuirkBest`, `AuthExact`, `IniExact`, `DescExact`, `AdvertisedExact`, `LinesExact`). |

Runs that show a disagreement between the code and what the repository says of
it (the quotations are in `PROJECT.json`):

| Run | What happens |
|---|---|
| `transport_close` | The `select` of `usbConnGet` may take a free connection although the shutdown channel is closed; `Close` has seen all of them free, and destroys it under the request. |
| `addr_list` | `Add` of an address in front of two others moves one to the end where it should shift: 1 into [2, 3] gives [1, 3, 2]. `Find` and `Diff` are then wrong, so that the PnP manager may close a device that is present. With three devices on the bus `PnPConsistent` fails for this reason, which is why the run `pnp` has at most two. `OpenedOnce` does not depend on it, and is proved without it. |

More formulas are stated in the modules, next to the comment or manual
page they quote, and do not hold. They belong to no run; TLC shows a behaviour
against each when it is given as an INVARIANT.

| Formula | What happens |
|---|---|
| `DeviceInit!TimeoutNeedsReset` | A response drained in the background times out after the last look at `TimeoutExpired`, and the device serves without a reset. |
| `UdevLock!StatusAvailable` | After main has re-acquired the lock, the control socket's `http.Server` has been closed and cannot serve again. |
| `DNSSd!TwoDevicesNumbered` | Two devices of one name become (USB) and (USB 1), the manual says (USB 1) and (USB 2). |
| `Logger!OpenFailureBuffers` | After a log file failed to open, `out` is an interface that holds a nil file: lines are dropped and the file is not opened again, where a comment says that they are buffered. |
| `MCConf!AuthStatusValid` | When a user ID cannot be resolved the status is 0, where a comment promises one for an HTTP response. |
| `MCConf!FirstDefinitionWins` | Of two equal matches of quirks the later one wins; the manual and a comment say the first. `QuirkBest` leaves open which one does. |
| `MCConf!TwoInterfaces` | A device with one IPP-over-USB interface that has two usable alternate settings is accepted, and the interface is listed twice; a comment asks for two interfaces. |

Differences met on the way, which no formula states: a backslash in a value as
the last character of a file is read again for ever, as `token` does not look at
the error of its second `getc` (`IniFile` has this outcome as `"never"`; the files
of the run `conf` end their lines); the comment of `decode` has printer-info
before printer-make-and-model, the code the reverse; `getStrings` accepts every
language that begins with "en", the comment says "en-"; a name that `%q` writes with
an escape by number (`\x01`, `\u00ad`) is not read back as it was, as `token` puts
the character that ends the number instead of it (`IniExact` says so); and a device whose first
usable configuration has one IPP-over-USB alternate setting is ignored even if a
later one has two.

Some properties name an exception, in which the code does less than one may
expect:

* `UsbTransport.Close` looks once whether a connection is in use, resets the
  device if so, and then waits without a deadline. A request that takes a free
  connection after the look is not ended by a reset, and on a device that hangs
  `Close` waits for ever. `DeviceEnds` and `BridgeStops` (`HeldUp`) except exactly
  this state, `CloseTerminates` what happens without a reset.
* The bridge enables the proxy before it sets the disconnect handler, so that the
  one report may be spent on no handler (`BridgeStops`, `missed`).
* `notify` sends to a channel of ten statuses with Avahi's lock held, while the
  goroutine that would read it may wait for this lock in `Halt`. Nothing bounds
  what Avahi reports; in this state (`Wedged`) both wait for ever
  (`UnpublishEnds`, `GetsPublished`).
* `LoadUsedPorts` skips a state file that it cannot read, and the second pass of
  `HTTPListen` ignores what is reserved (`SavedDistinct`, `overlap`).
* `LinesKept` assumes that `Write`, `Rename` and `Truncate` succeed: the logger does
  not look at their errors, so that a line may be lost, or a backup overwritten,
  without a trace.

### Bounds

Two connections and two requests let two releases meet the one token of
`connReleased`, and a request wait or drain while the other one works; the
safety part is proved for any number. Two addresses are as many as `Add` keeps
sorted in any order, and allow one device to come while another goes or waits
for a retry within one pass. Two goroutines on two transfer addresses
let an address be reused while the other call is in progress; two transactions
are one that is abandoned and one that would suffer from it, with responses of up
to three packets. Two interfaces
with limits 0 to 3 are below, at and above the limit, and of two requests that
wait one may come after `Close` has looked. Four copies allow one
that leaves, one that enters, one that is refused and one more. Three requests
of the bridge are two that report the loss and one that waits for one of the two
connections. Three devices on
three ports exhaust the range as soon as one is withheld. Symmetry is used only
in `devstate`, which checks invariants, on a set of model values. In `logger`, files
that are rotated after one line and two backups make three messages push a line
through every place of a rotation. The bounds of `conf` are in its configuration:
patterns of three characters hold an escape, a star and one more, and `pdl` has
room for one of two formats, or for none.

The status channel of `DNSSd` has room for one (`ChanCap`; 10 in the code), so that
Avahi can fill it; how much Avahi reports of an entry group is not bounded, faults
are (`Faults`).

### Fairness

Weak fairness of a goroutine's own steps stands for the Go scheduler, of a
timer for the passing of time. USB transfers are fair only when the device has
been reset or unplugged, or the transfer has been cancelled: a device may hang.
After a reset the transfers in progress are answered or fail. Accordingly a client's
request is sure to end only once `Close` has reset the device (`DeviceInit`, `Bridge`),
while the queries of `NewDevice` have a deadline.
`DNSSd` assumes strong fairness of the steps that need Avahi's lock, a mutex no
waiter is denied forever. Nothing is assumed of clients, of the bus, of signals
or of the choice a `select` makes. `PnP` assumes that enumeration does not fail
for ever (strong fairness of `Scan`), and the event thread of libusb takes the
lock of its map at last (strong fairness of `CallbackLookup`). In `UsbConn`,
deadlines expire if there is a time-out; the device may stop answering at any
point. `Settles` and `DeviceServed` name what they except: a hotplug event that a
failed scan consumed while no device waits for a retry, and devices whose daemon
was killed or could not scan; there the code itself waits for the next event.

`CHECK_DEADLOCK FALSE` is set where a system may rightly stop: a transport
that is closed, a PnP manager that has returned, a device that is done, a bridge
that has exited, a process that writes no more messages, the pure functions.

## Proofs

* `UsbTransportProofs` proves `Spec => []TransportInv` for every finite set of
  connections and every set of requests, and from it the type invariant,
  `ConnAccounting`, `PoolDrained`, `EarlyHolderSafe`, `ReleaseSignalled` and
  that `UsbTransport` implements `ConnLease`. `ConnAccounting` is needed to know
  that `connInUse = 0` means that nobody holds a connection, which
  `EarlyHolderSafe` rests on; `PoolDrained` needs that an unread response
  belongs to the request that is going to read it; lemmas relate a duplicate-free
  pool to its length. Assumptions: `Conn` is finite and `NoConn` is not in it.
* `UsbXferProofs` proves `XferInv`, which says for each place of a call where its
  transfer and its channel are, and from it `NoFreeInFlight`,
  `CallbackOwnsChannel` and `ResultExact`, for any goroutines and any addresses.
  It then proves that `UsbConn` implements `UsbXfer`, so that the same holds of
  the calls of `conn.Read` and `conn.Write`, and `EofEarned`, which needs that
  `eofSeen` is clear while a read is in progress and that the error of a
  transaction does not outlive it (`EofInv`). `Paired` is proved from `PairInv`,
  which follows the packets of a response from the device to the client: a call
  that is pending has moved nothing, one that succeeded has moved one packet, and
  what was received and what is left make up a response to the request at hand.
  Requests and lengths of bodies are arbitrary; the device has the two kinds of
  responses of `Responses`. Assumptions: `Nil` is neither a
  goroutine nor an address, `Conn` is a goroutine.
* `MainProofs` proves `ExitRight` for any set of requests and any number of
  connections. `BridgeInv` adds
  that `deviceDisconnected` is filled before `shutdown` is, and that a shutdown
  that was not forced leaves no request that has yet to fill it. It also proves
  of `UdevLock` that whoever serves holds the lock (`LockInv`),
  hence `OneDaemon`, for any number of copies. Of `Auth` it proves `AuthDecides`:
  whatever the rules, the user and the request are, `AuthHTTPRequest` answers 200
  exactly if there are no rules or one for the client allows the operation, 403
  exactly if not, and another status only if something had to be asked of the
  system and could not be answered. That the user is not looked up when no rule
  names one changes nothing. It assumes (`HasNames`) that the lists of the user's
  names and groups are not empty, as `AuthUIDinfoLookup` begins both with a number.
* `DeviceProofs` is about three parts of a device. Of `DevState` it proves
  `PortAdvertised`, `SavedDistinct` and `PortKept` for any devices and any range. The step that matters is `ScanInv`: a port that
  `LoadUsedPorts` misses, because a publisher has the file truncated or because it
  cannot be read, is one its device listens to, so that it cannot be allocated
  either, unless `overlap` is set.
  Of `DNSSd` it proves `NothingLeaked`, `HaltedQuiet` and `OverrideEarned` for any
  publishers, names and capacities. `GroupInv` says where nothing can be
  registered, `NameInv` that a success on its way carries an established name.
  Of `DeviceInit` it proves `NothingLeft`, `ServingSound` and `QueryTimeoutCaught` for
  any number of interfaces and any limit. `ConnInv` says that connections made
  and `maxconn` add up to the limit and that the pool is of these connections until
  they are destroyed, `LostInv` that a time-out is looked at before
  anything else can happen, `ResetInv` counts hard resets.
* `PnPProofs` proves `OpenedOnce` for any set of addresses from `OpenedInv`, which
  uses nothing of `Diff`: it holds although lists may be unsorted. Then it proves
  what the operations of `UsbAddrList` do with lists of any length. `SearchSplits`
  says that the binary search finds the place of an address in a sorted list, by
  induction on the length of the range that is left. Hence `Find` is right about
  sorted lists, and so is `Diff` (`DiffExact`). `AddSorted` says when `Add` keeps a
  sorted list sorted: exactly if the address is there already, or no item but the
  last is greater. `PnPInv` says what each device that `PnPStart` has seen is:
  served, waiting for a retry, or still to be added, and what was removed is known
  until it is handled. It is inductive as long as the list of devices is sorted,
  which gives `PnPConsistent` for any number of devices (`ConsistentIfSorted`).
  With two devices at most on the bus the list is sorted, and `PnPConsistent`
  holds without a condition (`ConsistentForTwo`); with three it does not.
  Assumptions: an address is a pair of integers and there are finitely many
  (`AddrAssumption`).
* `LoggerProofs`, `LoggerDiskProofs` and `LoggerWholeProofs` prove the four invariants
  of `Logger` for any number of goroutines, messages, backups and crashes. The first
  has what the others build on, and `FlushGoesOn`; the second what concerns the files
  (`LinesKept`, `CommitWritten`); the third `MessageWhole`. `CallInv` says what each call on a stack holds
  and how far it is: only the innermost waits for a lock, and each call is for a
  logger below those of the calls that wait for it, so that whoever holds the
  lowest lock can go on (`FlushGoesOn`). `BackupInv` follows a line that was
  written through a rotation: in the middle of the loop of `rotate`, what is to be
  renamed over is empty, and a backup that still waits for its turn has one
  rotation in hand; a truncation removes only what the first backup has
  (`LinesKept`). `CommitInv` says where the lines of a message are whose `Commit`
  is not done: with their call, in the root message, or handled, maybe by the
  call of another goroutine; once it has made the second copy, a discarding
  logger may rely on the main log (`CommitWritten`). `MessageWhole` needs two
  invariants. `KeyInv` says that each message is in one place: lines that wait for
  a lock are neither in the root message of that logger nor in its output nor do
  they wait with another call, and lines whose copy is still to be made have not
  come to the other logger. `WholeInv` says that what a call has written is the
  end of its output and the beginning of the root message, with nothing of the
  root message before. What `OfLevels` computes is
  proved by induction, with the least element of a set of numbers. Assumptions:
  those of `LoggerAssumption`.

Only model-checked are:

* liveness under fairness, which the prover does not handle: `CloseTerminates`,
  `Settles`, `ExchangeEnds`, `DeviceEnds`, `DeviceServed`, `BridgeStops`,
  `UnpublishEnds` and `GetsPublished`;
* the properties of `conf` (`QuirkBest`, `AuthExact`, `IniExact`, `DescExact`,
  `AdvertisedExact`, `LinesExact`), about what operators compute that are recursive,
  or select from a sequence with `SelectSeq`, neither of which the prover handles.
  Of what `AuthExact` says, the decision on a request is proved (`AuthDecides`), and
  only the parsing of rules by `LoadAuthUIDRules` is not.

`PnPConsistent` with three devices is neither: there it is false, see `addr_list`.

## What is not modelled

* Sizes of USB reads and their alignment, the pauses of the read loop and
  between requests: the models have no bytes and no clock.
* The XML of eSCL, the wire format of IPP (vendored goipp) and how Avahi encodes
  TXT records.
* How a UUID is made for a device that has none.
* The names and conversions of settings in `conf.go` and `inifile.go`; numbers
  and durations of quirks; strings of USB descriptors.
* Behind authentication, the netlink query of `tcpuid_linux.go` and the cache of
  user information, which have no state that another part sees.
* Rewriting of URLs and headers in `http.go`, text of logs, of the status page and
  of the banner, paths, parsing of the command line, the daemon's fork, platform
  glue and the Windows variants: input and output without protocol.
* `Pause` and `Resume` of the logger, which have no callers.
* A device replaced by another at the same address between two scans (Linux
  wraps addresses around only after 127), and a signal between two calls of
  `PnPStart`.

What could follow: a composition of `PnP` with `DeviceInit`, in which retries meet
real failures, and an abstract specification of the port table for `DevState`.
