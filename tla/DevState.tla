------------------------------ MODULE DevState ------------------------------
(***************************************************************************)
(* Persistent HTTP ports (devstate.go).  The PnP thread loads the state of *)
(* a new device, finds a port for it and saves it; the DNS-SD publisher of *)
(* a device that already runs saves its state at any time.  Saving a file  *)
(* truncates it first, and only then takes the lock and writes.            *)
(***************************************************************************)
EXTENDS Naturals

CONSTANTS
  Dev,      \* devices
  NoDev,    \* the PnP thread is idle
  MaxPort   \* ports are 1..MaxPort, 0 is no port

ASSUME DevStateAssumption == NoDev \notin Dev /\ MaxPort \in Nat \ {0}

VARIABLES
  minPort,    \* Conf.HTTPMinPort; Conf.HTTPMaxPort is MaxPort
  foreign,    \* the port another program listens to, or 0
  file,       \* HTTPPort as load would read it from the disk, per device
  mem,        \* HTTPPort in memory
  listening,  \* the port a device listens to
  pnp,        \* where the PnP thread is
  cur,        \* its device
  todo,       \* LoadUsedPorts: files to read
  used,       \* LoadUsedPorts: ports found
  pub,        \* a publisher is saving: it has truncated the file
  last,       \* history: the port a device had the last time
  excused,    \* history: why it may get another one
  overlap     \* history: why two files may claim one port: LoadUsedPorts could
              \* not read a port, or the range was exhausted

conf == <<minPort, foreign>>
hist == <<last, excused, overlap>>
stateVars == <<conf, file, mem, listening, pnp, cur, todo, used, pub, hist>>

Port == 1..MaxPort

StateTypeOK ==
  /\ minPort \in Port
  /\ foreign \in 0..MaxPort
  /\ file \in [Dev -> 0..MaxPort] /\ mem \in [Dev -> 0..MaxPort]
  /\ listening \in [Dev -> 0..MaxPort] /\ last \in [Dev -> 0..MaxPort]
  /\ pnp \in {"idle", "listen", "scan", "alloc", "truncate", "write"}
  /\ cur \in Dev \cup {NoDev}
  /\ todo \subseteq Dev
  /\ used \subseteq Port
  /\ pub \subseteq Dev
  /\ excused \in [Dev -> BOOLEAN]
  /\ overlap \in BOOLEAN

StateInit ==
  /\ minPort \in Port
  /\ foreign = 0
  /\ file = [d \in Dev |-> 0]
  /\ mem = [d \in Dev |-> 0]
  /\ listening = [d \in Dev |-> 0]
  /\ pnp = "idle"
  /\ cur = NoDev
  /\ todo = {}
  /\ used = {}
  /\ pub = {}
  /\ last = [d \in Dev |-> 0]
  /\ excused = [d \in Dev |-> FALSE]
  /\ overlap = FALSE

-----------------------------------------------------------------------------
(* HTTPListen.                                                             *)

\* NewListener succeeds.
Free(port) == foreign # port /\ \A d \in Dev : listening[d] # port

\* LoadDevState.  If the file cannot be opened, locked or parsed, the device
\* starts with what has been read of it.
LoadDevState(d) ==
  /\ pnp = "idle"
  /\ listening[d] = 0
  /\ \E port \in {0, file[d]} : mem' = [mem EXCEPT ![d] = port]
  /\ cur' = d
  /\ pnp' = "listen"
  /\ UNCHANGED <<conf, file, listening, todo, used, pub, hist>>

\* The device listens to port, which is what NewDevice advertises.
ListenTo(port) ==
  /\ listening' = [listening EXCEPT ![cur] = port]
  /\ last' = [last EXCEPT ![cur] = port]

\* "Try to allocate port used before", if it is in the configured range.
\* NewDevice saves the state later on if the name of the device has changed.
ListenOld ==
  /\ pnp = "listen"
  /\ LET port == mem[cur] IN
       \/ /\ port >= minPort /\ port # 0 /\ Free(port)
          /\ ListenTo(port)
          /\ \/ pnp' = "idle" /\ cur' = NoDev
             \/ pnp' = "truncate" /\ UNCHANGED cur
          /\ UNCHANGED <<todo, used, excused>>
       \/ /\ ~(port >= minPort /\ port # 0 /\ Free(port))
          /\ excused' = [excused EXCEPT ![cur] = @ \/ port # 0]
          /\ pnp' = "scan" /\ todo' = Dev /\ used' = {}
          /\ UNCHANGED <<listening, last, cur>>
  /\ UNCHANGED <<conf, file, mem, pub, overlap>>

\* The file of d has a port that only the file tells of: d is not the device
\* that looks for a port, and does not listen to this one.
OnlyInFile(d) == d # cur /\ file[d] \notin {0, listening[d]}

\* Mutant: only the devices that are running reserve their port.
LoadUsedPortsRunning ==
  /\ pnp = "scan"
  /\ \E d \in todo :
       /\ todo' = todo \ {d}
       /\ used' = IF file[d] = 0 \/ listening[d] = 0 THEN used
                                                     ELSE used \cup {file[d]}
  /\ pnp' = IF todo' = {} THEN "alloc" ELSE "scan"
  /\ UNCHANGED <<conf, file, mem, listening, cur, pub, hist>>

\* LoadUsedPorts reads one file, skips one that cannot be opened, locked or
\* parsed, or finds at the start that it cannot read the directory.
LoadUsedPorts ==
  /\ pnp = "scan"
  /\ \/ \E d \in todo :
          /\ todo' = todo \ {d}
          /\ \/ /\ used' = used \cup ({file[d]} \ {0})
                /\ UNCHANGED overlap
             \/ /\ overlap' = (overlap \/ OnlyInFile(d))
                /\ UNCHANGED used
     \/ /\ todo = Dev
        /\ todo' = {}
        /\ overlap' = (overlap \/ \E d \in Dev : OnlyInFile(d))
        /\ UNCHANGED used
  /\ pnp' = IF todo' = {} THEN "alloc" ELSE "scan"
  /\ UNCHANGED <<conf, file, mem, listening, cur, pub, last, excused>>

\* The first port of the range that is free and not in taken.
FirstFree(port, taken) ==
  /\ port >= minPort /\ port \notin taken /\ Free(port)
  /\ \A q \in minPort..(port - 1) : q \in taken \/ ~Free(q)

\* Mutant: the new port is used, and not remembered.
AllocateForgets ==
  /\ pnp = "alloc"
  /\ \E port \in Port :
       /\ FirstFree(port, used)
       /\ ListenTo(port)
       /\ pnp' = "truncate"
       /\ UNCHANGED <<cur, overlap, mem>>
  /\ used' = {}
  /\ UNCHANGED <<conf, file, todo, pub, excused>>

\* A port nobody has reserved; failing that, any; failing that, an error.  The
\* result of LoadUsedPorts is not kept.
Allocate ==
  /\ pnp = "alloc"
  /\ \/ \E port \in Port :
          /\ FirstFree(port, used)
             \/ /\ FirstFree(port, {})
                /\ \A q \in Port : ~FirstFree(q, used)
          /\ ListenTo(port)
          /\ mem' = [mem EXCEPT ![cur] = port]
          /\ overlap' = (overlap \/ port \in used)
          /\ pnp' = "truncate"
          /\ UNCHANGED cur
     \/ /\ \A q \in Port : ~FirstFree(q, {})
        /\ mem' = [mem EXCEPT ![cur] = 0]
        /\ pnp' = "idle" /\ cur' = NoDev
        /\ UNCHANGED <<listening, last, overlap>>
  /\ used' = {}
  /\ UNCHANGED <<conf, file, todo, pub, excused>>

-----------------------------------------------------------------------------
(* Save, by the PnP thread and by publishers.                              *)

\* os.OpenFile with O_TRUNC, which may fail.
SaveTruncate ==
  /\ pnp = "truncate"
  /\ \/ /\ file' = [file EXCEPT ![cur] = 0]
        /\ pnp' = "write"
        /\ UNCHANGED <<cur, excused>>
     \/ /\ excused' = [excused EXCEPT ![cur] = TRUE]
        /\ pnp' = "idle" /\ cur' = NoDev
        /\ UNCHANGED file
  /\ UNCHANGED <<conf, mem, listening, todo, used, pub, last, overlap>>

\* FileLock, Write and Close, any of which may fail.  A failure that leaves the
\* port in the file is as good as a success.
SaveWrite ==
  /\ pnp = "write"
  /\ \/ /\ file' = [file EXCEPT ![cur] = mem[cur]]
        /\ excused' = [excused EXCEPT ![cur] = FALSE]
     \/ /\ excused' = [excused EXCEPT ![cur] = TRUE]
        /\ UNCHANGED file
  /\ pnp' = "idle" /\ cur' = NoDev
  /\ UNCHANGED <<conf, mem, listening, todo, used, pub, last, overlap>>

\* The publisher of a device saves a name; it runs when NewDevice is done.  If
\* it fails to open the file, nothing changes.
PubTruncate(d) ==
  /\ listening[d] # 0 /\ d \notin pub /\ cur # d
  /\ pub' = pub \cup {d}
  /\ file' = [file EXCEPT ![d] = 0]
  /\ UNCHANGED <<conf, mem, listening, pnp, cur, todo, used, hist>>

\* Mutant: the publisher has a DevState of its own, without the port.
PubWriteNoPort(d) ==
  /\ d \in pub
  /\ pub' = pub \ {d}
  /\ excused' = [excused EXCEPT ![d] = FALSE]
  /\ UNCHANGED <<conf, file, mem, listening, pnp, cur, todo, used, last, overlap>>

\* FileLock, Write and Close, as above.
PubWrite(d) ==
  /\ d \in pub
  /\ pub' = pub \ {d}
  /\ \/ /\ file' = [file EXCEPT ![d] = mem[d]]
        /\ excused' = [excused EXCEPT ![d] = FALSE]
     \/ /\ excused' = [excused EXCEPT ![d] = TRUE]
        /\ UNCHANGED file
  /\ UNCHANGED <<conf, mem, listening, pnp, cur, todo, used, last, overlap>>

\* The device goes: the PnP thread waits for the publisher and closes it,
\* and its DevState is gone.
Close(d) ==
  /\ pnp = "idle"
  /\ listening[d] # 0 /\ d \notin pub
  /\ listening' = [listening EXCEPT ![d] = 0]
  /\ mem' = [mem EXCEPT ![d] = 0]
  /\ UNCHANGED <<conf, file, pnp, cur, todo, used, pub, hist>>

\* Another program takes or leaves a port.
OtherProgram(port) ==
  /\ port = 0 \/ Free(port)
  /\ foreign' = port
  /\ UNCHANGED <<minPort, file, mem, listening, pnp, cur, todo, used, pub, hist>>

\* ipp-usb dies, and is started again, perhaps with another configuration.
Crash ==
  /\ minPort' \in Port
  /\ listening' = [d \in Dev |-> 0] /\ mem' = [d \in Dev |-> 0]
  /\ excused' = [d \in Dev |-> excused[d] \/ d \in pub
                                 \/ (d = cur /\ pnp \in {"truncate", "write"})]
  /\ pnp' = "idle" /\ cur' = NoDev /\ pub' = {}
  /\ todo' = {} /\ used' = {}
  /\ UNCHANGED <<foreign, file, last, overlap>>

-----------------------------------------------------------------------------

StateNext ==
  \/ ListenOld \/ LoadUsedPorts \/ Allocate \/ SaveTruncate \/ SaveWrite
  \/ Crash
  \/ \E port \in 0..MaxPort : OtherProgram(port)
  \/ \E d \in Dev : LoadDevState(d) \/ PubTruncate(d) \/ PubWrite(d) \/ Close(d)

StateSpec == StateInit /\ [][StateNext]_stateVars

-----------------------------------------------------------------------------
(* Properties.                                                             *)

\* Variables are well typed, and DevState.HTTPPort, which NewDevice advertises,
\* is the port the device listens to, the port found anew included.
PortAdvertised ==
  /\ StateTypeOK
  /\ \A d \in Dev : listening[d] # 0 => mem[d] = listening[d]

\* "Don't reuse ports allocated by other devices": two state files claim one
\* port only after the range was exhausted, or after LoadUsedPorts could not
\* read the port of a device that was not running.  A file that it meets while
\* a publisher has it truncated, or that it cannot read while the device runs
\* on the port of the file, makes no exception.
SavedDistinct ==
  ~overlap =>
    \A d, e \in Dev : d # e /\ file[d] = file[e] => file[d] = 0

\* "The next time the device is plugged on, it will get the same port": the
\* file keeps the port the device had last, unless that port was a substitute
\* for one that was busy or out of range, a save failed, or a crash hit a save.
PortKept ==
  \A d \in Dev :
    last[d] # 0 /\ ~excused[d] /\ d \notin pub /\ d # cur => file[d] = last[d]
=============================================================================
