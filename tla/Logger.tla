------------------------------- MODULE Logger -------------------------------
(***************************************************************************)
(* The loggers of the daemon (logger.go) and how usbtransport.go sets one  *)
(* up: the logger of a device, which buffers until the device has a name,  *)
(* the main log, and the console, which gets copies of both.  A message is *)
(* a sequence of levels, one per line; the text of lines is left out.      *)
(*                                                                         *)
(* A Flush is a stack frame of its goroutine, as it flushes other loggers  *)
(* while it holds the lock of its own.  Each change of a file is a step,   *)
(* so that the process may die between any two.  Pause and Resume have no  *)
(* callers, and are left out.                                              *)
(***************************************************************************)
EXTENDS Integers, Sequences, Functions

CONSTANTS
  Writer,         \* goroutines
  Initializer,    \* the one that runs NewUsbTransport
  Kind,           \* messages: sequences of the levels of their lines
  MaxMsg,         \* bound on messages
  MaxFileSize,    \* Conf.LogMaxFileSize, in lines
  MaxBackup,      \* Conf.LogMaxBackupFiles
  MaxCrash,       \* bound on crashes
  OpenFails,      \* the log file may fail to open
  NoWriter

ASSUME LoggerAssumption ==
  /\ Initializer \in Writer /\ NoWriter \notin Writer
  /\ {MaxMsg, MaxFileSize, MaxBackup, MaxCrash} \subseteq Nat
  /\ Kind \subseteq Seq({"debug", "trace"}) /\ <<>> \notin Kind
  /\ OpenFails \in BOOLEAN

VARIABLES
  mode,      \* Logger.mode
  out,       \* Logger.out: "nil", "file", "nilfile" or "stream"
  cc,        \* Logger.cc
  lock,      \* the holder of Logger.lock
  root,      \* the lines of the root message
  stack,     \* the Flush calls of a goroutine, the innermost first
  file,      \* lines of the log file
  backup,    \* lines of path.0.gz and so on; none if it is missing or cut off
  console,   \* what the console shows
  msgs,      \* messages so far
  crashes,   \* crashes so far
  rot,       \* history: rotations begun
  born,      \* history: lines written to files, with rot at that time
  failed,    \* history: loggers whose file failed to open
  acked      \* history: lines whose Commit has returned, by logger

memVars  == <<mode, out, cc, lock, root, stack>>
diskVars == <<file, backup>>
histVars == <<rot, born, failed, acked>>
vars     == <<memVars, diskVars, console, msgs, crashes, histVars>>

Log     == {"dev", "main", "console"}
FileLog == {"dev", "main"}

\* The levels of a logger: LogAll, or LogDebug and what it implies.
Levels(l) == IF l = "dev" THEN {"debug", "trace"} ELSE {"debug"}

\* A line: its message, its place in the message, and the logger that passed
\* it on as a copy, if any.
Line(m, k, i) == [msg |-> m, i |-> i, level |-> k[i], via |-> "none"]

Message(m, k) == [i \in 1..Len(k) |-> Line(m, k, i)]

\* The lines of some levels, as loops of Add and Flush pick them.
OfLevels(lines, levels) ==
  LET sel[n \in 0..Len(lines)] ==
        IF n = 0 THEN <<>>
        ELSE IF lines[n].level \in levels THEN Append(sel[n - 1], lines[n])
        ELSE sel[n - 1]
  IN  sel[Len(lines)]

Init ==
  /\ mode = [dev |-> "none", main |-> "file", console |-> "console"]
  /\ out = [dev |-> "nil", main |-> "nil", console |-> "stream"]
  /\ cc = [dev |-> <<"console">>, main |-> <<"console">>, console |-> <<>>]
  /\ lock = [l \in Log |-> NoWriter]
  /\ root = [l \in Log |-> <<>>]
  /\ stack = [w \in Writer |-> <<>>]
  /\ file = [l \in FileLog |-> <<>>]
  /\ backup = [l \in FileLog |-> [i \in 0..MaxBackup - 1 |-> <<>>]]
  /\ console = <<>>
  /\ msgs = 0
  /\ crashes = 0
  /\ rot = [l \in FileLog |-> 0]
  /\ born = {}
  /\ failed = {}
  /\ acked = [l \in Log |-> {}]

-----------------------------------------------------------------------------
(* Callers.                                                                *)

\* Flush(lines) of a child message, or of the root (isRoot).  "mine" are the
\* lines whose Commit ends with this call.
Flush(l, lines, isRoot, mine) ==
  [log |-> l, lines |-> lines, isRoot |-> isRoot, phase |-> "lock", i |-> 0,
   mine |-> mine]

\* Until ToDevFile, only NewUsbTransport writes to the log of the device; when
\* it fails, nobody does.
MayLog(w, l) ==
  /\ l \in FileLog
  /\ mode[l] = "none" => w = Initializer
  /\ mode[l] # "discard"

\* Begin, Add for each line, Commit.
Commit(w, l, k) ==
  /\ stack[w] = <<>> /\ MayLog(w, l) /\ msgs < MaxMsg
  /\ msgs' = msgs + 1
  /\ LET lines == OfLevels(Message(msgs', k), Levels(l) \cup Levels("console"))
     IN  stack' = [stack EXCEPT ![w] = <<Flush(l, lines, FALSE, Range(lines))>>]
  /\ UNCHANGED <<mode, out, cc, lock, root, diskVars, console, crashes, histVars>>

\* Add of the root message: appendLineBuf unlocks before it calls Flush.
AddToRoot(w, l) ==
  /\ stack[w] = <<>> /\ MayLog(w, l) /\ msgs < MaxMsg
  /\ lock[l] = NoWriter
  /\ msgs' = msgs + 1
  /\ LET lines == Message(msgs', <<"debug">>)
     IN  /\ root' = [root EXCEPT ![l] = @ \o lines]
         /\ stack' = [stack EXCEPT ![w] = <<Flush(l, <<>>, TRUE, Range(lines))>>]
  /\ UNCHANGED <<mode, out, cc, lock, diskVars, console, crashes, histVars>>

\* Mutant: the buffered lines are not flushed.
ToDevFileOnly ==
  /\ mode["dev"] = "none" /\ stack[Initializer] = <<>>
  /\ mode' = [mode EXCEPT !["dev"] = "file"]
  /\ UNCHANGED <<out, cc, lock, root, stack, diskVars, console, msgs, crashes,
                 histVars>>

\* The device has a name: ToDevFile and Flush.
ToDevFile ==
  /\ mode["dev"] = "none" /\ stack[Initializer] = <<>>
  /\ mode' = [mode EXCEPT !["dev"] = "file"]
  /\ stack' = [stack EXCEPT ![Initializer] = <<Flush("dev", <<>>, TRUE, {})>>]
  /\ UNCHANGED <<out, cc, lock, root, diskVars, console, msgs, crashes, histVars>>

\* NewUsbTransport fails before that: what is buffered goes to the main log.
ToMainLog ==
  /\ mode["dev"] = "none" /\ stack[Initializer] = <<>>
  /\ cc' = [cc EXCEPT !["dev"] = Append(@, "main")]
  /\ mode' = [mode EXCEPT !["dev"] = "discard"]
  /\ out' = [out EXCEPT !["dev"] = "stream"]
  /\ stack' = [stack EXCEPT ![Initializer] = <<Flush("dev", <<>>, TRUE, {})>>]
  /\ UNCHANGED <<lock, root, diskVars, console, msgs, crashes, histVars>>

-----------------------------------------------------------------------------
(* Flush.                                                                  *)

Top(w) == Head(stack[w])

InPhase(w, p) == stack[w] # <<>> /\ Top(w).phase = p

Return(w) ==
  /\ stack' = [stack EXCEPT ![w] = Tail(@)]
  /\ acked' = [acked EXCEPT ![Top(w).log] = @ \cup Top(w).mine]

\* The innermost call goes on to another phase, or to its next turn there.
Goto(w, p, i) ==
  stack' = [stack EXCEPT ![w] =
              <<[Head(@) EXCEPT !.phase = p, !.i = i]>> \o Tail(@)]

\* Open on demand.  After a failure out holds a *os.File that is nil, and is
\* not nil itself.
OpenFile(l) ==
  IF out[l] = "nil" /\ mode[l] = "file"
  THEN \/ out' = [out EXCEPT ![l] = "file"] /\ UNCHANGED failed
       \/ /\ OpenFails
          /\ out' = [out EXCEPT ![l] = "nilfile"]
          /\ failed' = failed \cup {l}
  ELSE UNCHANGED <<out, failed>>

\* rotate() has something to do: Stat of a nil file fails.
NeedsRotate(l) == out'[l] = "file" /\ Len(file[l]) > MaxFileSize

\* Flush up to the output.
FlushLock(w) ==
  /\ InPhase(w, "lock")
  /\ LET f == Top(w)  l == f.log IN
     /\ lock[l] = NoWriter
     /\ IF (IF f.isRoot THEN root[l] ELSE f.lines) = <<>>
        THEN Return(w) /\ UNCHANGED <<root, out, failed, lock, rot>>
        ELSE /\ root' = [root EXCEPT ![l] = @ \o f.lines]
             /\ OpenFile(l)
             /\ IF out'[l] = "nil"
                THEN Return(w) /\ UNCHANGED <<lock, rot>>
                ELSE /\ lock' = [lock EXCEPT ![l] = w]
                     /\ IF NeedsRotate(l)
                        THEN /\ Goto(w, IF MaxBackup > 0 THEN "shift" ELSE "truncate", 0)
                             /\ rot' = [rot EXCEPT ![l] = @ + 1]
                        ELSE Goto(w, "write", 0) /\ UNCHANGED rot
                     /\ UNCHANGED acked
  /\ UNCHANGED <<mode, cc, diskVars, console, msgs, crashes, born>>

\* A backup is renamed to the next number; the last one is removed.  Errors of
\* os.Rename, as of Truncate, are ignored by the code and left out here: after
\* one, a backup would be overwritten, or lines would be in two backups.
Rename(l, n) ==
  backup' = [backup EXCEPT ![l] = [j \in DOMAIN @ |->
               IF j = n + 1 THEN @[n] ELSE IF j = n THEN <<>> ELSE @[j]]]

\* Mutant: backups are renamed from the first to the last.
RotateShiftUp(w) ==
  /\ InPhase(w, "shift")
  /\ LET n == Top(w).i IN
     /\ Rename(Top(w).log, n)
     /\ IF n = MaxBackup - 1 THEN Goto(w, "gzip", 0) ELSE Goto(w, "shift", n + 1)
  /\ UNCHANGED <<mode, out, cc, lock, root, file, console, msgs, crashes, histVars>>

\* One turn of the loop of rotate.
RotateShift(w) ==
  /\ InPhase(w, "shift")
  /\ LET n == MaxBackup - 1 - Top(w).i IN
     /\ Rename(Top(w).log, n)
     /\ IF n = 0 THEN Goto(w, "gzip", 0) ELSE Goto(w, "shift", Top(w).i + 1)
  /\ UNCHANGED <<mode, out, cc, lock, root, file, console, msgs, crashes, histVars>>

\* gzip: its output is removed if it fails.
RotateGzip(w) ==
  /\ InPhase(w, "gzip")
  /\ \/ /\ backup' = [backup EXCEPT ![Top(w).log][0] = file[Top(w).log]]
        /\ Goto(w, "truncate", 0)
     \/ Goto(w, "write", 0) /\ UNCHANGED backup
  /\ UNCHANGED <<mode, out, cc, lock, root, file, console, msgs, crashes, histVars>>

RotateTruncate(w) ==
  /\ InPhase(w, "truncate")
  /\ file' = [file EXCEPT ![Top(w).log] = <<>>]
  /\ Goto(w, "write", 0)
  /\ UNCHANGED <<mode, out, cc, lock, root, backup, console, msgs, crashes, histVars>>

\* Own output of a logger: the lines of its levels.
Output(l) == OfLevels(root[l], Levels(l))

\* One line goes to the file, to the console, or nowhere.  The code ignores
\* whether the write succeeds, so that a line for which the disk has no room is
\* lost without a trace; here writes succeed.
WriteLine(w) ==
  /\ InPhase(w, "write")
  /\ LET l == Top(w).log  n == Top(w).i + 1 IN
     /\ n <= Len(Output(l))
     /\ Goto(w, "write", n)
     /\ console' = IF l = "console" THEN Append(console, Output(l)[n]) ELSE console
     /\ IF out[l] = "file"
        THEN /\ file' = [file EXCEPT ![l] = Append(@, Output(l)[n])]
             /\ born' = born \cup {[log |-> l, line |-> Output(l)[n], rot |-> rot[l]]}
        ELSE UNCHANGED <<file, born>>
  /\ UNCHANGED <<mode, out, cc, lock, root, backup, msgs, crashes, rot, failed, acked>>

\* The lines of l that go to another logger, as a message of that.
Copies(l, to) ==
  LET sel == OfLevels(root[l], Levels(to))
  IN  [j \in DOMAIN sel |-> [sel[j] EXCEPT !.via = l]]

\* The carbon copies are committed, with the lock still held, ...
CommitCopy(w) ==
  /\ InPhase(w, "write")
  /\ LET l == Top(w).log  n == Top(w).i + 1 - Len(Output(l)) IN
     /\ n \in 1..Len(cc[l])
     /\ stack' = [stack EXCEPT ![w] =
          <<Flush(cc[l][n], Copies(l, cc[l][n]), FALSE, {}),
            [Top(w) EXCEPT !.i = @ + 1]>> \o Tail(@)]
  /\ UNCHANGED <<mode, out, cc, lock, root, diskVars, console, msgs, crashes,
                 histVars>>

\* Mutant: the lock is not released.
FlushEndHeld(w) ==
  /\ InPhase(w, "write")
  /\ LET l == Top(w).log IN
     /\ Top(w).i = Len(Output(l)) + Len(cc[l])
     /\ root' = [root EXCEPT ![l] = <<>>]
     /\ Return(w)
  /\ UNCHANGED <<mode, out, cc, lock, diskVars, console, msgs, crashes, rot, born,
                 failed>>

\* Mutant: the root message is not reset.
FlushEndKeeps(w) ==
  /\ InPhase(w, "write")
  /\ LET l == Top(w).log IN
     /\ Top(w).i = Len(Output(l)) + Len(cc[l])
     /\ lock' = [lock EXCEPT ![l] = NoWriter]
     /\ Return(w)
  /\ UNCHANGED <<mode, out, cc, root, diskVars, console, msgs, crashes, rot,
                 born, failed>>

\* ... and the root message is reset.
FlushEnd(w) ==
  /\ InPhase(w, "write")
  /\ LET l == Top(w).log IN
     /\ Top(w).i = Len(Output(l)) + Len(cc[l])
     /\ root' = [root EXCEPT ![l] = <<>>]
     /\ lock' = [lock EXCEPT ![l] = NoWriter]
     /\ Return(w)
  /\ UNCHANGED <<mode, out, cc, diskVars, console, msgs, crashes, rot, born, failed>>

-----------------------------------------------------------------------------

\* The process dies, and another one is started: only files remain.
Crash ==
  /\ crashes < MaxCrash
  /\ crashes' = crashes + 1
  /\ mode' = [mode EXCEPT !["dev"] = "none"]
  /\ out' = [out EXCEPT !["dev"] = "nil", !["main"] = "nil"]
  /\ cc' = [cc EXCEPT !["dev"] = <<"console">>]
  /\ lock' = [l \in Log |-> NoWriter]
  /\ root' = [l \in Log |-> <<>>]
  /\ stack' = [w \in Writer |-> <<>>]
  /\ acked' = [l \in Log |-> {}]
  /\ failed' = {}
  /\ UNCHANGED <<diskVars, console, msgs, rot, born>>

Write(w) ==
  \E l \in FileLog : AddToRoot(w, l) \/ \E k \in Kind : Commit(w, l, k)

FlushStep(w) ==
  \/ FlushLock(w)
  \/ RotateShift(w)
  \/ RotateGzip(w)
  \/ RotateTruncate(w)
  \/ WriteLine(w)
  \/ CommitCopy(w)
  \/ FlushEnd(w)

Next ==
  \/ \E w \in Writer : Write(w) \/ FlushStep(w)
  \/ ToDevFile
  \/ ToMainLog
  \/ Crash

Spec == Init /\ [][Next]_vars

-----------------------------------------------------------------------------
(* Properties.                                                             *)

OnDisk(l) == Range(file[l]) \cup UNION {Range(backup[l][j]) : j \in DOMAIN backup[l]}

\* A line that was written stays on disk until more than LogMaxBackupFiles
\* rotations have begun since, whether compression failed meanwhile or the
\* process died in the middle of a rotation.  Of the disk it is assumed that
\* os.Rename and Truncate succeed.
LinesKept ==
  \A b \in born : rot[b.log] - b.rot <= MaxBackup => b.line \in OnDisk(b.log)

\* Lines of a message are neighbours, in order.
Whole(s) ==
  \A p, q \in DOMAIN s :
    (p < q /\ s[p].msg = s[q].msg /\ s[p].via = s[q].via) =>
      /\ s[p].i < s[q].i
      /\ \A r \in p..q : s[r].msg = s[p].msg

\* A message "will appear in the output log atomically, and will be not
\* interrupted in the middle by other log activity": in the log file, in each
\* backup and on the console, whoever else writes, and whether it came from
\* the buffer, as a copy or before a rotation.
MessageWhole ==
  /\ Whole(console)
  /\ \A l \in FileLog :
       /\ Whole(file[l])
       /\ \A j \in DOMAIN backup[l] : Whole(backup[l][j])

Written(l, x) == \E b \in born : b.log = l /\ b.line = x

\* When Commit returns, or a line was added to the root message, the lines of
\* the message are in the file: nothing is left in the buffer, whoever flushed
\* it.  Lines of a device that has no log file yet are buffered, and are then
\* in its file, or, "if initialization fails before device identification is
\* obtained", in the main log.  The exception is a file that failed to open.
CommitWritten ==
  \A l \in FileLog : \A x \in acked[l] :
    \/ x.level \notin Levels(l) \/ Written(l, x) \/ l \in failed
    \/ x \in Range(root[l]) /\ (mode[l] = "none" \/ stack[Initializer] # <<>>)
    \/ /\ mode[l] = "discard"
       /\ \/ x.level \notin Levels("main") \/ "main" \in failed
          \/ Written("main", [x EXCEPT !.via = l])

\* The comment of Flush on a file that fails to open: "the logger will continue
\* to work in the buffering mode, which is desired behavior".  It does not
\* hold: out is an interface that holds a nil *os.File and is not nil itself,
\* so that lines are dropped and the file is never opened again.
OpenFailureBuffers ==
  \A l \in failed : \A x \in acked[l] :
    x.level \in Levels(l) => x \in Range(root[l])

\* Loggers that copy to each other with their locks held do not block each
\* other: while a Flush is in progress, one of them can go on.
FlushGoesOn ==
  (\E w \in Writer : stack[w] # <<>>) =>
    \E w \in Writer :
      /\ stack[w] # <<>>
      /\ InPhase(w, "lock") => lock[Top(w).log] = NoWriter
=============================================================================
