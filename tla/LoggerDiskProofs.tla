-------------------------- MODULE LoggerDiskProofs --------------------------
(***************************************************************************)
(* What is on disk: a line that was written stays there until its time is  *)
(* over, and a Commit that returned has done its work, with any number of  *)
(* goroutines, backups and crashes.                                        *)
(***************************************************************************)
EXTENDS LoggerProofs

\* Leaves that need arithmetic, or sequences, cite SMT.
USE Zenon

-----------------------------------------------------------------------------
(* Rotation.                                                               *)

\* Rotations begun since a line was written.
Age(b) == rot[b.log] - b.rot

InBackup(b, j) == j \in 0..MaxBackup - 1 /\ b.line \in Range(backup[b.log][j])

\* Where a line is that was written: each rotation moves it by one backup at
\* most.
Kept(b) ==
  /\ b.rot <= rot[b.log]
  /\ Age(b) <= MaxBackup =>
       b.line \in Range(file[b.log]) \/ \E j \in 0..Age(b) - 1 : InBackup(b, j)

\* In the middle of a rotation, backups that wait for their turn have a rotation
\* in hand.  What a rename or gzip overwrites is empty, and what a truncation
\* removes is in a backup.
Rotating(f) ==
  /\ f.phase \in {"shift", "gzip", "truncate"} =>
       \A b \in born : b.log = f.log => Age(b) > 0
  /\ f.phase = "shift" =>
       /\ f.i > 0 => backup[f.log][MaxBackup - f.i] = <<>>
       /\ \A b \in born : b.log = f.log /\ Age(b) <= MaxBackup =>
            \/ b.line \in Range(file[f.log])
            \/ \E j \in 0..Age(b) - 1 :
                 InBackup(b, j) /\ (j < MaxBackup - f.i => j + 1 < Age(b))
  /\ f.phase = "gzip" => backup[f.log][0] = <<>>
  /\ f.phase = "truncate" =>
       \A b \in born : b.log = f.log /\ Age(b) <= MaxBackup =>
         \E j \in 0..Age(b) - 1 : InBackup(b, j)

BackupInv ==
  /\ \A b \in born : Kept(b)
  /\ \A w \in Writer : stack[w] # <<>> => Rotating(Top(w))

\* A step changes the files of one logger only.
LocalDisk(l) ==
  /\ \A h \in FileLog \ {l} : file'[h] = file[h] /\ backup'[h] = backup[h] /\ rot'[h] = rot[h]
  /\ \A b \in born' : b \in born \/ b.log = l

\* What the others have written is where it was, ...
LEMMA KeptElsewhere ==
  ASSUME CallInv, CallInv', BackupInv, NEW l, LocalDisk(l), NEW b \in born', b.log # l
  PROVE  Kept(b)'
<1>1. b \in born /\ b.log \in FileLog
  BY DEF LocalDisk, CallInv, TypeInv, Born
<1>2. file'[b.log] = file[b.log] /\ backup'[b.log] = backup[b.log] /\ rot'[b.log] = rot[b.log]
  BY <1>1 DEF LocalDisk
<1>3. Kept(b)
  BY <1>1 DEF BackupInv
<1> QED
  BY <1>2, <1>3 DEF Kept, Age, InBackup

\* ... and nobody else rotates the same log.
LEMMA RotatingElsewhere ==
  ASSUME CallInv, BackupInv, NEW v \in Writer, stack'[v] = stack[v], stack[v] # <<>>,
         NEW l, LocalDisk(l), l \in Log => lock[l] # v
  PROVE  Rotating(Top(v))'
<1> DEFINE f == Top(v)
<1>1. /\ f = Top(v)' /\ f = stack[v][1] /\ f.log \in Log /\ f.phase \in Phase
      /\ 1 \in 1..Len(stack[v])
  BY TopFacts DEF Top, CallInv
<1>2. Rotating(f) /\ FrameInv(v, f)
  BY <1>1 DEF BackupInv, CallInv, StackInv, StackOf
<1> HIDE DEF f
<1>3. CASE f.phase \notin {"shift", "gzip", "truncate"}
  BY <1>1, <1>3 DEF Rotating
<1>4. CASE f.phase \in {"shift", "gzip", "truncate"}
  <2>1. f.log \in FileLog /\ f.log # l
    BY <1>1, <1>2, <1>4 DEF FrameInv
  <2>2. /\ file'[f.log] = file[f.log] /\ backup'[f.log] = backup[f.log]
        /\ rot'[f.log] = rot[f.log]
    BY <2>1 DEF LocalDisk
  <2>3. \A b \in born' : b.log = f.log => b \in born /\ Age(b)' = Age(b)
    BY <2>1, <2>2 DEF LocalDisk, Age
  <2>4. \A b \in born' : b.log = f.log => \A j : InBackup(b, j)' <=> InBackup(b, j)
    BY <2>2 DEF InBackup
  <2> QED
    BY <1>1, <1>2, <2>2, <2>3, <2>4 DEF Rotating
<1> QED
  BY <1>3, <1>4

\* A call that does not rotate asks for nothing.
LEMMA NotRotating ==
  ASSUME NEW w \in Writer, stack'[w] # <<>> => Top(w)'.phase \in {"lock", "write"}
  PROVE  stack'[w] # <<>> => Rotating(Top(w))'
BY DEF Rotating

\* Steps that leave files alone, and rotate nothing.
LEMMA BackupSame ==
  ASSUME CallInv, CallInv', BackupInv, NEW w \in Writer,
         UNCHANGED <<file, backup, rot, born>>,
         \A v \in Writer \ {w} : stack'[v] = stack[v],
         stack'[w] # <<>> => Top(w)'.phase \in {"lock", "write"}
  PROVE  BackupInv'
<1>1. LocalDisk("none") /\ "none" \notin Log
  BY DEF LocalDisk, Log
<1>2. \A b \in born' : Kept(b)'
  <2>1. \A b \in born' : b.log # "none"
    BY DEF CallInv, TypeInv, Born, FileLog
  <2> QED
    BY <1>1, <2>1, KeptElsewhere
<1>3. ASSUME NEW v \in Writer, stack'[v] # <<>> PROVE Rotating(Top(v))'
  <2>1. CASE v = w
    BY <1>3, <2>1, NotRotating
  <2>2. CASE v # w
    BY <1>1, <1>3, <2>2, RotatingElsewhere
  <2> QED
    BY <2>1, <2>2
<1> QED
  BY <1>2, <1>3 DEF BackupInv

\* Steps of a Flush: what is left to show for its logger.
LEMMA BackupLocal ==
  ASSUME CallInv, CallInv', BackupInv, NEW w \in Writer, stack[w] # <<>>, Local(w),
         LocalDisk(Top(w).log),
         \A b \in born' : b.log = Top(w).log => Kept(b)',
         stack'[w] # <<>> => Rotating(Top(w))'
  PROVE  BackupInv'
<1>1. NoWriter \notin Writer
  BY LoggerAssumption
<1>2. \A b \in born' : Kept(b)'
  BY KeptElsewhere
<1>3. ASSUME NEW v \in Writer, stack'[v] # <<>> PROVE Rotating(Top(v))'
  <2>1. CASE v = w
    BY <1>3, <2>1
  <2>2. CASE v # w
    <3>1. stack'[v] = stack[v] /\ lock[Top(w).log] # v
      BY <1>1, <2>2 DEF Local
    <3> QED
      BY <1>3, <3>1, RotatingElsewhere
  <2> QED
    BY <2>1, <2>2
<1> QED
  BY <1>2, <1>3 DEF BackupInv

\* What a step of a rotation starts from.
LEMMA RotationFacts ==
  ASSUME CallInv, BackupInv, NEW w \in Writer, stack[w] # <<>>,
         Top(w).phase \in {"shift", "gzip", "truncate"}
  PROVE  /\ Top(w).log \in FileLog /\ Top(w).i \in Nat /\ MaxBackup \in Nat
         /\ Top(w).phase = "shift" => Top(w).i < MaxBackup
         /\ Top(w).phase = "gzip" => MaxBackup > 0
         /\ Rotating(Top(w))
         /\ backup[Top(w).log] \in [0..MaxBackup - 1 -> Seq(Lines)]
         /\ file[Top(w).log] \in Seq(Lines)
         /\ \A b \in born : b.log = Top(w).log =>
              Kept(b) /\ b.line \in Lines /\ Age(b) \in Nat /\ Age(b) > 0
<1>1. /\ Top(w) = stack[w][1] /\ 1 \in 1..Len(stack[w]) /\ Top(w).i \in Nat
  BY TopFacts DEF CallInv
<1>2. FrameInv(w, Top(w)) /\ Rotating(Top(w))
  BY <1>1 DEF CallInv, StackInv, StackOf, BackupInv
<1>3. Top(w).log \in FileLog /\ MaxBackup \in Nat
  BY <1>2, LoggerAssumption DEF FrameInv
<1>4. ASSUME NEW b \in born, b.log = Top(w).log
      PROVE  Kept(b) /\ b.line \in Lines /\ Age(b) \in Nat /\ Age(b) > 0
  <2>1. Kept(b) /\ b \in Born /\ rot[b.log] \in Nat
    BY <1>3, <1>4 DEF BackupInv, CallInv, TypeInv
  <2>2. Age(b) > 0
    BY <1>2, <1>4 DEF Rotating
  <2>3. b.rot \in Nat /\ b.line \in Lines
    BY <2>1 DEF Born
  <2> QED
    BY <2>1, <2>2, <2>3, SMT DEF Kept, Age
<1> QED
  BY <1>1, <1>2, <1>3, <1>4 DEF FrameInv, CallInv, TypeInv

\* A rename loses no line that is to be kept: its target is empty, or the last
\* backup, whose lines have had their time.
LEMMA BackupShift ==
  ASSUME Picks, CallInv, CallInv', BackupInv, NEW w \in Writer, RotateShift(w)
  PROVE  BackupInv'
<1> DEFINE l == Top(w).log  i == Top(w).i  n == MaxBackup - 1 - i
<1>1. stack[w] # <<>> /\ Top(w).phase = "shift"
  BY DEF RotateShift, InPhase
<1>2. /\ l \in FileLog /\ i \in Nat /\ MaxBackup \in Nat /\ i < MaxBackup
      /\ Rotating(Top(w)) /\ backup[l] \in [0..MaxBackup - 1 -> Seq(Lines)]
  BY <1>1, RotationFacts
<1>3. \A b \in born : b.log = l => Kept(b) /\ Age(b) \in Nat /\ Age(b) > 0
  BY <1>1, RotationFacts
<1>4. /\ UNCHANGED <<file, rot, born>> /\ Rename(l, n)
      /\ IF n = 0 THEN Goto(w, "gzip", 0) ELSE Goto(w, "shift", i + 1)
  BY DEF RotateShift, histVars
<1>5. Local(w)
  BY CallShift
<1>6. n \in 0..MaxBackup - 1 /\ n = MaxBackup - 1 - i
  BY <1>2, SMT
<1>7. /\ \A h \in FileLog \ {l} : backup'[h] = backup[h]
      /\ \A j \in 0..MaxBackup - 1 : backup'[l][j] =
           IF j = n + 1 THEN backup[l][n] ELSE IF j = n THEN <<>> ELSE backup[l][j]
  <2> DEFINE c == [j \in DOMAIN backup[l] |->
                    IF j = n + 1 THEN backup[l][n] ELSE IF j = n THEN <<>> ELSE backup[l][j]]
  <2>1. backup' = [backup EXCEPT ![l] = c]
    BY <1>4 DEF Rename
  <2>2. \A j \in 0..MaxBackup - 1 : c[j] =
           IF j = n + 1 THEN backup[l][n] ELSE IF j = n THEN <<>> ELSE backup[l][j]
    BY <1>2
  <2> HIDE DEF c
  <2> QED
    BY <1>2, <2>1, <2>2 DEF CallInv, TypeInv
<1> HIDE DEF n
<1>8. LocalDisk(l)
  BY <1>4, <1>7 DEF LocalDisk
<1>9. ASSUME NEW b \in born', b.log = l
      PROVE  b \in born /\ Age(b)' = Age(b) /\ Age(b) \in Nat /\ b.rot <= rot[l] /\ Age(b) > 0
  BY <1>3, <1>4, <1>9 DEF Age, Kept
<1>10. ASSUME NEW b \in born', b.log = l, Age(b) <= MaxBackup, b.line \notin Range(file[l])
       PROVE  \E j \in 0..Age(b) - 1 : InBackup(b, j)' /\ (j < n => j + 1 < Age(b))
  <2>1. PICK j \in 0..Age(b) - 1 : InBackup(b, j) /\ (j < MaxBackup - i => j + 1 < Age(b))
    BY <1>1, <1>2, <1>9, <1>10 DEF Rotating
  <2>2. j \in 0..MaxBackup - 1 /\ b.line \in Range(backup[l][j])
    BY <1>10, <2>1 DEF InBackup
  <2>3. CASE j = n
    <3>1. PICK k : k = j + 1
      OBVIOUS
    <3>5. k < Age(b) /\ k \in 0..MaxBackup - 1 /\ k \in 0..Age(b) - 1
      BY <1>2, <1>6, <1>9, <1>10, <2>1, <2>3, <3>1, SMT
    <3>2. backup'[l][k] = backup[l][j]
      BY <1>7, <2>3, <3>1, <3>5
    <3>3. InBackup(b, k)'
      BY <1>10, <2>2, <3>2, <3>5 DEF InBackup
    <3>4. ~(k < n)
      BY <1>2, <1>6, <2>3, <3>1, SMT
    <3> QED
      BY <3>3, <3>4, <3>5
  <2>4. CASE j = n + 1
    <3>1. i > 0 /\ MaxBackup - i = j
      BY <1>2, <1>6, <2>2, <2>4, SMTT(30)
    <3>2. backup[l][j] = <<>>
      BY <1>1, <1>2, <3>1 DEF Rotating
    <3>3. Range(<<>>) = {}
      BY SMT DEF Range
    <3> QED
      BY <2>2, <3>2, <3>3
  <2>5. CASE j # n /\ j # n + 1
    <3>1. backup'[l][j] = backup[l][j]
      BY <1>7, <2>2, <2>5
    <3>2. InBackup(b, j)'
      BY <1>10, <2>2, <3>1 DEF InBackup
    <3>3. j < n => j + 1 < Age(b)
      BY <1>2, <1>6, <2>1, <2>2, SMTT(30)
    <3> QED
      BY <2>1, <3>2, <3>3
  <2> QED
    BY <2>3, <2>4, <2>5
<1>11. ASSUME NEW b \in born', b.log = l PROVE Kept(b)'
  BY <1>4, <1>9, <1>10, <1>11 DEF Kept
<1>12. Rotating(Top(w))'
  <2>0. backup'[l][n] = <<>>
    BY <1>2, <1>6, <1>7, SMTT(30)
  <2>1. CASE n = 0
    <3>1. "gzip" \in Phase /\ 0 \in Nat /\ Goto(w, "gzip", 0)
      BY <1>4, <2>1 DEF Phase
    <3>2. Gone(w, "gzip", 0)
      BY <1>1, <3>1, GotoStack DEF CallInv
    <3>3. Top(w)'.phase = "gzip" /\ Top(w)'.log = l
      BY <3>2, GoneTop
    <3> QED
      BY <1>9, <2>0, <2>1, <3>3 DEF Rotating
  <2>2. CASE n # 0
    <3>1. "shift" \in Phase /\ i + 1 \in Nat /\ Goto(w, "shift", i + 1)
      BY <1>2, <1>4, <2>2, SMT DEF Phase
    <3>2. Gone(w, "shift", i + 1)
      BY <1>1, <3>1, GotoStack DEF CallInv
    <3>3. Top(w)'.phase = "shift" /\ Top(w)'.log = l /\ Top(w)'.i = i + 1
      BY <3>2, GoneTop, SMT
    <3>4. MaxBackup - (i + 1) = n
      BY <1>2, <1>6, SMT
    <3> QED
      BY <1>4, <1>9, <1>10, <2>0, <3>3, <3>4 DEF Rotating
  <2> QED
    BY <2>1, <2>2
<1> QED
  BY <1>1, <1>5, <1>8, <1>11, <1>12, BackupLocal

\* Compression fills an empty backup with the file.
LEMMA BackupGzip ==
  ASSUME Picks, CallInv, CallInv', BackupInv, NEW w \in Writer, RotateGzip(w)
  PROVE  BackupInv'
<1> DEFINE l == Top(w).log
<1>1. stack[w] # <<>> /\ Top(w).phase = "gzip"
  BY DEF RotateGzip, InPhase
<1>2. /\ l \in FileLog /\ MaxBackup \in Nat /\ MaxBackup > 0
      /\ Rotating(Top(w)) /\ backup[l] \in [0..MaxBackup - 1 -> Seq(Lines)]
  BY <1>1, RotationFacts
<1>3. \A b \in born : b.log = l => Kept(b) /\ Age(b) \in Nat /\ Age(b) > 0
  BY <1>1, RotationFacts
<1>4. /\ UNCHANGED <<file, rot, born>>
      /\ \/ backup' = [backup EXCEPT ![l][0] = file[l]] /\ Goto(w, "truncate", 0)
         \/ backup' = backup /\ Goto(w, "write", 0)
  BY DEF RotateGzip, histVars
<1>5. Local(w)
  BY CallGzip
<1>6. "truncate" \in Phase /\ "write" \in Phase /\ 0 \in Nat
  BY DEF Phase
<1>7. CASE backup' = backup /\ Goto(w, "write", 0)
  <2>1. Gone(w, "write", 0)
    BY <1>1, <1>6, <1>7, GotoStack DEF CallInv
  <2>2. Top(w)'.phase = "write" /\ \A v \in Writer \ {w} : stack'[v] = stack[v]
    BY <2>1, GoneTop DEF Gone
  <2> QED
    BY <1>4, <1>7, <2>2, BackupSame
<1>8. CASE backup' = [backup EXCEPT ![l][0] = file[l]] /\ Goto(w, "truncate", 0)
  <2>1. Gone(w, "truncate", 0)
    BY <1>1, <1>6, <1>8, GotoStack DEF CallInv
  <2>2. stack'[w] # <<>> /\ Top(w)'.phase = "truncate" /\ Top(w)'.log = l
    BY <2>1, GoneTop
  <2>3. /\ \A h \in FileLog \ {l} : backup'[h] = backup[h]
        /\ \A j \in 0..MaxBackup - 1 : backup'[l][j] = IF j = 0 THEN file[l] ELSE backup[l][j]
    BY <1>2, <1>8 DEF CallInv, TypeInv
  <2>4. LocalDisk(l)
    BY <1>4, <2>3 DEF LocalDisk
  <2>5. ASSUME NEW b \in born', b.log = l
        PROVE  b \in born /\ Age(b)' = Age(b) /\ Age(b) \in Nat /\ b.rot <= rot[l] /\ Age(b) > 0
    BY <1>3, <1>4, <2>5 DEF Age, Kept
  <2>6. ASSUME NEW b \in born', b.log = l, Age(b) <= MaxBackup
        PROVE  \E j \in 0..Age(b) - 1 : InBackup(b, j)'
    <3>1. CASE b.line \in Range(file[l])
      <4>1. 0 \in 0..Age(b) - 1 /\ 0 \in 0..MaxBackup - 1
        BY <1>2, <2>5, <2>6, SMT
      <4>2. InBackup(b, 0)'
        BY <2>3, <2>6, <3>1, <4>1 DEF InBackup
      <4> QED
        BY <4>1, <4>2
    <3>2. CASE b.line \notin Range(file[l])
      <4>1. PICK j \in 0..Age(b) - 1 : InBackup(b, j)
        BY <1>3, <2>5, <2>6, <3>2 DEF Kept
      <4>2. backup[l][0] = <<>> /\ Range(<<>>) = {}
        BY <1>1, <1>2, SMT DEF Rotating, Range
      <4>3. j # 0
        BY <2>6, <4>1, <4>2 DEF InBackup
      <4>4. InBackup(b, j)'
        BY <2>3, <2>6, <4>1, <4>3 DEF InBackup
      <4> QED
        BY <4>1, <4>4
    <3> QED
      BY <3>1, <3>2
  <2>7. ASSUME NEW b \in born', b.log = l PROVE Kept(b)'
    BY <1>4, <2>5, <2>6, <2>7 DEF Kept
  <2>8. Rotating(Top(w))'
    BY <2>2, <2>5, <2>6 DEF Rotating
  <2> QED
    BY <1>1, <1>5, <2>4, <2>7, <2>8, BackupLocal
<1> QED
  BY <1>4, <1>7, <1>8

\* What truncation removes is in a backup.
LEMMA BackupTruncate ==
  ASSUME Picks, CallInv, CallInv', BackupInv, NEW w \in Writer, RotateTruncate(w)
  PROVE  BackupInv'
<1> DEFINE l == Top(w).log
<1>1. stack[w] # <<>> /\ Top(w).phase = "truncate"
  BY DEF RotateTruncate, InPhase
<1>2. l \in FileLog /\ Rotating(Top(w))
  BY <1>1, RotationFacts
<1>3. \A b \in born : b.log = l => Kept(b)
  BY <1>1, RotationFacts
<1>4. /\ UNCHANGED <<backup, rot, born>> /\ Goto(w, "write", 0)
      /\ file' = [file EXCEPT ![l] = <<>>]
  BY DEF RotateTruncate, histVars
<1>5. Local(w)
  BY CallTruncate
<1>6. LocalDisk(l)
  BY <1>4 DEF LocalDisk, CallInv, TypeInv
<1>7. ASSUME NEW b \in born', b.log = l PROVE Kept(b)'
  <2>1. b \in born /\ Age(b)' = Age(b) /\ b.rot <= rot[l]
    BY <1>3, <1>4, <1>7 DEF Age, Kept
  <2>2. Age(b) <= MaxBackup => \E j \in 0..Age(b) - 1 : InBackup(b, j)
    BY <1>1, <1>2, <1>7, <2>1 DEF Rotating
  <2> QED
    BY <1>4, <1>7, <2>1, <2>2 DEF Kept, InBackup
<1>8. Rotating(Top(w))'
  <2>1. "write" \in Phase /\ 0 \in Nat
    BY DEF Phase
  <2>2. Gone(w, "write", 0)
    BY <1>1, <1>4, <2>1, GotoStack DEF CallInv
  <2>3. Top(w)'.phase = "write"
    BY <2>2, GoneTop
  <2> QED
    BY <2>3 DEF Rotating
<1> QED
  BY <1>1, <1>5, <1>6, <1>7, <1>8, BackupLocal

\* A line that is written is in the file.
LEMMA BackupWrite ==
  ASSUME Picks, CallInv, CallInv', BackupInv, NEW w \in Writer, WriteLine(w)
  PROVE  BackupInv'
<1> DEFINE l == Top(w).log  n == Top(w).i + 1  x == Output(l)[n]
<1>1. stack[w] # <<>> /\ Top(w).phase = "write"
  BY DEF WriteLine, InPhase
<1>2. l \in Log /\ n \in Nat /\ n > 0
  BY <1>1, TopFacts, SMT DEF CallInv
<1>3. Output(l) \in Seq(Lines) /\ Len(Output(l)) \in Nat
  BY <1>2, OutputType DEF CallInv
<1>4. /\ UNCHANGED <<out, backup, rot>>
      /\ n <= Len(Output(l)) /\ Goto(w, "write", n)
      /\ IF out[l] = "file"
         THEN /\ file' = [file EXCEPT ![l] = Append(@, x)]
              /\ born' = born \cup {[log |-> l, line |-> x, rot |-> rot[l]]}
         ELSE UNCHANGED <<file, born>>
  BY DEF WriteLine
<1>5. Local(w)
  BY CallWriteLine
<1>6. x \in Lines
  BY <1>2, <1>3, <1>4, SMT
<1> HIDE DEF x
<1>7. "write" \in Phase /\ Gone(w, "write", n)
  <2>1. "write" \in Phase
    BY DEF Phase
  <2> QED
    BY <1>1, <1>2, <1>4, <2>1, GotoStack DEF CallInv
<1>8. stack'[w] # <<>> /\ Top(w)'.phase = "write" /\ \A v \in Writer \ {w} : stack'[v] = stack[v]
  BY <1>7, GoneTop DEF Gone
<1>9. CASE out[l] # "file"
  BY <1>4, <1>8, <1>9, BackupSame
<1>10. CASE out[l] = "file"
  <2>1. l \in FileLog
    BY <1>2, <1>10 DEF CallInv, ConfInv, Log, FileLog
  <2>2. /\ file[l] \in Seq(Lines) /\ rot[l] \in Nat
        /\ file'[l] = Append(file[l], x) /\ \A h \in FileLog \ {l} : file'[h] = file[h]
    BY <1>4, <1>10, <2>1 DEF CallInv, TypeInv
  <2>3. Range(file'[l]) = Range(file[l]) \cup {x}
    BY <1>6, <2>2, Members
  <2>4. LocalDisk(l)
    BY <1>4, <1>10, <2>2, SMT DEF LocalDisk
  <2>5. ASSUME NEW b \in born', b.log = l PROVE Kept(b)'
    <3>1. CASE b \in born
      <4>1. Kept(b)
        BY <3>1 DEF BackupInv
      <4>2. Age(b)' = Age(b) /\ \A j : InBackup(b, j)' <=> InBackup(b, j)
        BY <1>4 DEF Age, InBackup
      <4> QED
        BY <1>4, <2>3, <2>5, <4>1, <4>2 DEF Kept
    <3>2. CASE b = [log |-> l, line |-> x, rot |-> rot[l]]
      <4>1. b.rot = rot[l] /\ b.line = x
        BY <3>2
      <4>2. rot'[b.log] = rot[l] /\ rot[l] <= rot[l]
        <5>1. rot[l] <= rot[l]
          BY <2>2, SMT
        <5> QED
          BY <1>4, <2>5, <5>1
      <4>3. b.line \in Range(file'[b.log])
        BY <2>3, <2>5, <4>1
      <4> QED
        BY <4>1, <4>2, <4>3 DEF Kept
    <3> QED
      BY <1>4, <1>10, <3>1, <3>2
  <2>6. Rotating(Top(w))'
    BY <1>8 DEF Rotating
  <2> QED
    BY <1>1, <1>5, <2>4, <2>5, <2>6, BackupLocal
<1> QED
  BY <1>9, <1>10

\* When a rotation begins, all lines have one more rotation in hand.
LEMMA BackupLock ==
  ASSUME Picks, CallInv, CallInv', BackupInv, NEW w \in Writer, FlushLock(w)
  PROVE  BackupInv'
<1> DEFINE l == Top(w).log
<1>1. stack[w] # <<>> /\ UNCHANGED <<file, backup, born>>
  BY FlushLockCases
<1>2. Local(w) /\ TypeInv
  BY CallFlushLock DEF CallInv
<1>3. ASSUME Return(w), rot' = rot PROVE BackupInv'
  <2>1. /\ stack'[w] = Tail(stack[w]) /\ \A v \in Writer \ {w} : stack'[v] = stack[v]
    BY <1>1, <1>2, <1>3, ReturnStack
  <2>2. stack'[w] # <<>> => Top(w)'.phase \in {"lock", "write"}
    BY <1>1, <2>1, PoppedTop
  <2> QED
    BY <1>1, <1>3, <2>1, <2>2, BackupSame
<1>4. CASE FlushIdle(w)
  BY <1>3, <1>4 DEF FlushIdle
<1>5. CASE FlushBuffered(w)
  BY <1>3, <1>5 DEF FlushBuffered
<1>6. ASSUME NEW ph \in {"shift", "truncate", "write"}, FlushTaken(w, ph)
      PROVE  BackupInv'
  <2>1. Gone(w, ph, 0)
    <3>1. ph \in Phase /\ 0 \in Nat /\ Goto(w, ph, 0)
      BY <1>6 DEF Phase, FlushTaken
    <3> QED
      BY <1>1, <1>2, <3>1, GotoStack
  <2>2. /\ stack'[w] # <<>> /\ Top(w)'.phase = ph /\ Top(w)'.i = 0 /\ Top(w)'.log = l
        /\ \A v \in Writer \ {w} : stack'[v] = stack[v]
    BY <2>1, GoneTop, SMT DEF Gone
  <2>3. CASE ph = "write" /\ rot' = rot
    BY <1>1, <2>2, <2>3, BackupSame
  <2>4. CASE /\ l \in FileLog /\ rot' = [rot EXCEPT ![l] = @ + 1]
             /\ (ph = "shift" /\ MaxBackup > 0) \/ (ph = "truncate" /\ MaxBackup = 0)
    <3>1. /\ rot'[l] = rot[l] + 1 /\ rot[l] \in Nat /\ MaxBackup \in Nat
          /\ \A h \in FileLog \ {l} : rot'[h] = rot[h]
      BY <1>2, <2>4, LoggerAssumption DEF TypeInv
    <3>2. LocalDisk(l)
      BY <1>1, <3>1 DEF LocalDisk
    <3>3. ASSUME NEW b \in born', b.log = l
          PROVE  /\ b \in born /\ Kept(b) /\ Age(b) \in Nat /\ Age(b)' = Age(b) + 1
                 /\ b.rot <= rot'[l] /\ \A j : InBackup(b, j)' <=> InBackup(b, j)
      <4>1. b \in born /\ b \in Born /\ Kept(b)
        BY <1>1, <1>2 DEF BackupInv, TypeInv
      <4>2. b.rot \in Nat /\ b.rot <= rot[l]
        BY <3>3, <4>1 DEF Kept, Born
      <4>3. Age(b) \in Nat /\ Age(b)' = Age(b) + 1 /\ b.rot <= rot'[l]
        BY <3>1, <3>3, <4>2, SMT DEF Age
      <4> QED
        BY <1>1, <4>1, <4>3 DEF InBackup
    <3>4. ASSUME NEW b \in born', b.log = l, Age(b)' <= MaxBackup, b.line \notin Range(file[l])
          PROVE  \E j \in 0..Age(b)' - 1 : InBackup(b, j)' /\ j + 1 < Age(b)'
      <4>1. Age(b) <= MaxBackup
        BY <3>1, <3>3, <3>4, SMT
      <4>2. PICK j \in 0..Age(b) - 1 : InBackup(b, j)
        BY <3>3, <3>4, <4>1 DEF Kept
      <4>3. j \in 0..Age(b)' - 1 /\ j + 1 < Age(b)'
        BY <3>3, <3>4, <4>2, SMT
      <4> QED
        BY <3>3, <3>4, <4>2, <4>3
    <3>5. ASSUME NEW b \in born', b.log = l PROVE Kept(b)'
      BY <1>1, <3>3, <3>4, <3>5 DEF Kept
    <3>6. Rotating(Top(w))'
      <4>1. \A b \in born' : b.log = l => Age(b)' > 0
        BY <3>3, SMT
      <4>2. CASE ph = "shift"
        <5> DEFINE f == Top(w)'
        <5>1. f.phase = "shift" /\ f.i = 0 /\ f.log = l
          BY <2>2, <4>2
        <5>2. ASSUME NEW b \in born', b.log = l, Age(b)' <= MaxBackup
              PROVE  \/ b.line \in Range(file'[l])
                     \/ \E j \in 0..Age(b)' - 1 :
                          InBackup(b, j)' /\ (j < MaxBackup - f.i => j + 1 < Age(b)')
          BY <1>1, <3>4, <5>2
        <5> HIDE DEF f
        <5>3. /\ f.phase \in {"shift", "gzip", "truncate"} =>
                   \A b \in born' : b.log = f.log => Age(b)' > 0
              /\ f.phase # "gzip" /\ f.phase # "truncate" /\ ~(f.i > 0)
          BY <4>1, <5>1, SMTT(30)
        <5> QED
          BY <5>1, <5>2, <5>3 DEF Rotating, f
      <4>3. CASE ph = "truncate" /\ MaxBackup = 0
        BY <2>2, <3>3, <4>1, <4>3, SMT DEF Rotating
      <4> QED
        BY <2>4, <4>2, <4>3
    <3> QED
      BY <1>1, <1>2, <3>2, <3>5, <3>6, BackupLocal
  <2> QED
    BY <1>6, <2>3, <2>4 DEF FlushTaken
<1> QED
  BY <1>4, <1>5, <1>6, FlushLockCases

\* Every step keeps lines where they are to be found.
LEMMA BackupStep ==
  ASSUME Picks PROVE CallInv /\ BackupInv /\ [Next]_vars => BackupInv'
<1> SUFFICES ASSUME CallInv, BackupInv, [Next]_vars PROVE BackupInv'
  OBVIOUS
<1>1. CallInv'
  BY CallStep
<1>2. ASSUME NEW w \in Writer, Write(w) PROVE BackupInv'
  <2>1. /\ UNCHANGED <<file, backup, rot, born>>
        /\ \E f : f.phase = "lock" /\ stack' = [stack EXCEPT ![w] = <<f>>]
    BY <1>2 DEF Write, Commit, AddToRoot, Flush, diskVars, histVars
  <2>2. PICK f : f.phase = "lock" /\ stack' = [stack EXCEPT ![w] = <<f>>]
    BY <2>1
  <2>3. /\ stack'[w] = <<f>> /\ \A v \in Writer \ {w} : stack'[v] = stack[v]
    BY <2>2 DEF CallInv, TypeInv
  <2>4. Top(w)'.phase = "lock"
    BY <2>2, <2>3, SMT DEF Top
  <2> QED
    BY <1>1, <2>1, <2>3, <2>4, BackupSame
<1>3. CASE ToDevFile \/ ToMainLog
  <2> DEFINE w == Initializer  f == Flush("dev", <<>>, TRUE, {})
  <2>1. /\ UNCHANGED <<file, backup, rot, born>> /\ stack' = [stack EXCEPT ![w] = <<f>>]
        /\ w \in Writer
    BY <1>3, LoggerAssumption DEF ToDevFile, ToMainLog, diskVars, histVars
  <2>2. f.phase = "lock"
    BY DEF Flush
  <2> HIDE DEF f
  <2>3. /\ stack'[w] = <<f>> /\ \A v \in Writer \ {w} : stack'[v] = stack[v]
    BY <2>1 DEF CallInv, TypeInv
  <2>4. Top(w)'.phase = "lock"
    BY <2>2, <2>3, SMT DEF Top
  <2> QED
    BY <1>1, <2>1, <2>3, <2>4, BackupSame
<1>4. ASSUME NEW w \in Writer, CommitCopy(w) PROVE BackupInv'
  <2>1. \E k, ls : Called(w, k, ls)
    BY <1>4, CopyStack
  <2>2. PICK k, ls : Called(w, k, ls)
    BY <2>1
  <2>3. stack'[w] \in Seq(Frame) /\ stack'[w] # <<>> /\ stack'[w][1].phase = "lock"
    BY <2>2 DEF Called
  <2>4. Top(w)'.phase = "lock"
    BY <2>3, HeadAndTail DEF Top
  <2>5. UNCHANGED <<file, backup, rot, born>>
    BY <1>4 DEF CommitCopy, diskVars, histVars
  <2>6. \A v \in Writer \ {w} : stack'[v] = stack[v]
    BY <2>2 DEF Called
  <2> QED
    BY <1>1, <2>4, <2>5, <2>6, BackupSame
<1>5. ASSUME NEW w \in Writer, FlushEnd(w) PROVE BackupInv'
  <2>1. stack[w] # <<>> /\ Return(w) /\ UNCHANGED <<file, backup, rot, born>>
    BY <1>5 DEF FlushEnd, InPhase, diskVars
  <2>2. /\ stack'[w] = Tail(stack[w]) /\ \A v \in Writer \ {w} : stack'[v] = stack[v]
    BY <2>1, ReturnStack DEF CallInv
  <2>3. stack'[w] # <<>> => Top(w)'.phase \in {"lock", "write"}
    BY <2>1, <2>2, PoppedTop
  <2> QED
    BY <1>1, <2>1, <2>2, <2>3, BackupSame
<1>6. ASSUME NEW w \in Writer, FlushStep(w) PROVE BackupInv'
  BY <1>1, <1>4, <1>5, <1>6, BackupLock, BackupShift, BackupGzip, BackupTruncate, BackupWrite
     DEF FlushStep
<1>7. CASE Crash
  <2>1. UNCHANGED <<file, backup, rot, born>> /\ \A w \in Writer : stack'[w] = <<>>
    BY <1>7 DEF Crash, diskVars
  <2>2. \A b \in born' : Kept(b)'
    BY <2>1 DEF BackupInv, Kept, Age, InBackup
  <2> QED
    BY <2>1, <2>2 DEF BackupInv
<1>8. CASE UNCHANGED vars
  <2>1. UNCHANGED <<file, backup, rot, born, stack>>
    BY <1>8 DEF vars, memVars, diskVars, histVars
  <2> QED
    BY <2>1 DEF BackupInv, Kept, Age, InBackup, Rotating, Top
<1> QED
  BY <1>2, <1>3, <1>6, <1>7, <1>8 DEF Next

-----------------------------------------------------------------------------
(* Commit.                                                                 *)

\* Line x needs nothing more of logger l itself, ...
Settled(l, x) == x.level \notin Levels(l) \/ Written(l, x) \/ l \in failed

\* ... or l discards it and the main log needs nothing more.
Handled(l, x) ==
  Settled(l, x) \/ (mode[l] = "discard" /\ Settled("main", [x EXCEPT !.via = l]))

\* What a call f has done so far.  Lines of its message are in the root message
\* once it has the lock, or handled, maybe by another call.
CommitFrame(f) ==
  /\ f.log \in FileLog =>
       \A x \in f.mine :
         IF f.phase = "lock" /\ ~f.isRoot THEN x \in Range(f.lines)
         ELSE x \in Range(root[f.log]) \/ Handled(f.log, x)
  /\ f.phase # "lock" =>
       out[f.log] # "nil" /\ Range(f.lines) \subseteq Range(root[f.log])
  /\ f.phase = "write" /\ f.log \in FileLog /\ mode[f.log] # "discard" =>
       \A j \in 1..Len(Output(f.log)) : j <= f.i => Settled(f.log, Output(f.log)[j])

\* The call p of goroutine w has passed its lines on to the main log.
CopyDone(w, p) ==
  LET f == stack[w][p] IN
  f.phase = "write" /\ f.log = "dev" /\ f.i = Len(Output("dev")) + 2 =>
    IF p = 1 THEN \A x \in Range(Copies("dev", "main")) : Settled("main", x)
    ELSE stack[w][p - 1].log = "main" /\ stack[w][p - 1].lines = Copies("dev", "main")

\* Lines of the device are buffered, or NewUsbTransport is flushing them.
Buffering ==
  \/ mode["dev"] = "none"
  \/ /\ stack[Initializer] # <<>>
     /\ stack[Initializer][Len(stack[Initializer])].log = "dev"
     /\ stack[Initializer][Len(stack[Initializer])].isRoot

\* Lines whose Commit has returned are handled, or buffered.
Acked(l, x) == Handled(l, x) \/ (l = "dev" /\ x \in Range(root["dev"]) /\ Buffering)

CommitInv ==
  /\ \A w \in Writer : \A p \in 1..Len(stack[w]) : CommitFrame(stack[w][p]) /\ CopyDone(w, p)
  /\ \A l \in FileLog : \A x \in acked[l] : Acked(l, x)

\* Steps other than a crash: nothing that was done is undone, and lines leave
\* the root message when they have been handled.
Onward ==
  /\ born \subseteq born' /\ failed \subseteq failed'
  /\ \A l \in Log : /\ mode[l] = "discard" => mode'[l] = "discard"
                    /\ out[l] # "nil" => out'[l] # "nil"
  /\ \A l \in FileLog : \A x \in Range(root[l]) : x \in Range(root'[l]) \/ Handled(l, x)'

\* What is settled or handled stays so.
LEMMA HandledStays ==
  ASSUME Onward, NEW l \in Log, NEW x
  PROVE  (Settled(l, x) => Settled(l, x)') /\ (Handled(l, x) => Handled(l, x)')
<1>1. \A k, y : Settled(k, y) => Settled(k, y)'
  BY DEF Onward, Settled, Written
<1> QED
  BY <1>1 DEF Handled, Onward

\* So does what is known of a call.
LEMMA FrameStays ==
  ASSUME Onward, NEW g \in Frame, CommitFrame(g),
         g.phase # "lock" => root'[g.log] = root[g.log]
  PROVE  CommitFrame(g)'
<1>1. g.log \in Log /\ g.phase \in Phase
  BY DEF Frame
<1>2. \A x : (Settled(g.log, x) => Settled(g.log, x)') /\ (Handled(g.log, x) => Handled(g.log, x)')
  BY <1>1, HandledStays
<1>3. g.log \in FileLog =>
        \A x \in g.mine :
          IF g.phase = "lock" /\ ~g.isRoot THEN x \in Range(g.lines)
          ELSE x \in Range(root'[g.log]) \/ Handled(g.log, x)'
  <2> SUFFICES ASSUME g.log \in FileLog, NEW x \in g.mine, ~(g.phase = "lock" /\ ~g.isRoot)
               PROVE  x \in Range(root'[g.log]) \/ Handled(g.log, x)'
    BY DEF CommitFrame
  <2>1. x \in Range(root[g.log]) \/ Handled(g.log, x)
    BY DEF CommitFrame
  <2> QED
    BY <1>2, <2>1 DEF Onward
<1>4. g.phase # "lock" =>
        out'[g.log] # "nil" /\ Range(g.lines) \subseteq Range(root'[g.log])
  BY <1>1 DEF CommitFrame, Onward
<1>5. ASSUME g.phase = "write", g.log \in FileLog, mode'[g.log] # "discard"
      PROVE  \A j \in 1..Len(Output(g.log)') : j <= g.i => Settled(g.log, Output(g.log)[j])'
  <2>1. Output(g.log)' = Output(g.log)
    BY <1>5 DEF Output
  <2>2. mode[g.log] # "discard"
    BY <1>1, <1>5 DEF Onward
  <2>3. \A j \in 1..Len(Output(g.log)) : j <= g.i => Settled(g.log, Output(g.log)[j])
    BY <1>5, <2>2 DEF CommitFrame
  <2> QED
    BY <1>2, <2>1, <2>3
<1> QED
  BY <1>3, <1>4, <1>5 DEF CommitFrame

\* The other goroutines.
LEMMA OthersStay ==
  ASSUME CallInv, CommitInv, Onward, NEW v \in Writer, stack'[v] = stack[v],
         \A l \in Log : lock[l] = v => root'[l] = root[l],
         NEW p \in 1..Len(stack'[v])
  PROVE  CommitFrame(stack[v][p])' /\ CopyDone(v, p)'
<1>1. PICK g : g = stack[v][p]
  OBVIOUS
<1>2. g \in Frame /\ g = stack'[v][p]
  BY <1>1, SMT DEF CallInv, TypeInv
<1>3. CommitFrame(g) /\ CopyDone(v, p) /\ FrameInv(v, g)
  BY <1>1 DEF CommitInv, CallInv, StackInv, StackOf
<1>4. g.phase # "lock" => root'[g.log] = root[g.log]
  BY <1>2, <1>3 DEF FrameInv, Frame
<1>5. CommitFrame(g)'
  BY <1>2, <1>3, <1>4, FrameStays
<1>6. CopyDone(v, p)'
  <2> SUFFICES ASSUME g.phase = "write", g.log = "dev", g.i = Len(Output("dev")')+ 2
               PROVE  IF p = 1 THEN \A x \in Range(Copies("dev", "main"))' : Settled("main", x)'
                      ELSE /\ stack'[v][p - 1].log = "main"
                           /\ stack'[v][p - 1].lines = Copies("dev", "main")'
    BY <1>2 DEF CopyDone
  <2>1. root'["dev"] = root["dev"]
    BY <1>4
  <2>2. Output("dev")' = Output("dev") /\ Copies("dev", "main")' = Copies("dev", "main")
    BY <2>1 DEF Output, Copies
  <2>3. IF p = 1 THEN \A x \in Range(Copies("dev", "main")) : Settled("main", x)
        ELSE stack[v][p - 1].log = "main" /\ stack[v][p - 1].lines = Copies("dev", "main")
    BY <1>1, <1>3, <2>2 DEF CopyDone
  <2>4. \A x : Settled("main", x) => Settled("main", x)'
    BY HandledStays DEF Log
  <2>5. Range(Copies("dev", "main"))' = Range(Copies("dev", "main"))
    BY <2>2
  <2> QED
    BY <2>2, <2>3, <2>4, <2>5
<1> QED
  BY <1>2, <1>5, <1>6

\* What another goroutine has the lock of is as it was.
LEMMA LocalRoots ==
  ASSUME NEW w \in Writer, Local(w), NEW v \in Writer \ {w}
  PROVE  \A l \in Log : lock[l] = v => root'[l] = root[l]
BY LoggerAssumption DEF Local

\* Outer calls of the goroutine that makes a step.
LEMMA OuterStays ==
  ASSUME CallInv, CommitInv, Onward, NEW w \in Writer, stack[w] # <<>>, Local(w),
         NEW p \in 2..Len(stack[w]), NEW q \in 1..Len(stack'[w]),
         stack'[w][q] = stack[w][p]
  PROVE  /\ CommitFrame(stack[w][q])'
         /\ /\ q > 1 /\ stack'[w][q - 1].log = stack[w][p - 1].log
            /\ stack'[w][q - 1].lines = stack[w][p - 1].lines
            => CopyDone(w, q)'
<1>1. PICK g : g = stack[w][p]
  OBVIOUS
<1>2. /\ stack[w] \in Seq(Frame) /\ Len(stack[w]) \in Nat /\ Top(w) = stack[w][1]
      /\ Top(w).log \in Log
  BY TopFacts DEF CallInv
<1>3. p \in 1..Len(stack[w]) /\ p > 1 /\ 1 \in 1..p - 1
  BY <1>2, SMTT(30)
<1>10. g \in Frame /\ g = stack'[w][q]
  BY <1>1, <1>2, <1>3, SMT
<1>4. g \in Frame /\ g = stack'[w][q] /\ g.log \in Log
  BY <1>10 DEF Frame
<1>5. CommitFrame(g) /\ CopyDone(w, p) /\ Above(g.log, Top(w).log)
  BY <1>1, <1>2, <1>3 DEF CommitInv, CallInv, StackInv, StackOf
<1>9. g.log # Top(w).log
  BY <1>5, AboveOther
<1>6. root'[g.log] = root[g.log]
  BY <1>4, <1>9 DEF Local
<1>7. CommitFrame(g)'
  BY <1>4, <1>5, <1>6, FrameStays
<1>8. ASSUME q > 1, stack'[w][q - 1].log = stack[w][p - 1].log,
             stack'[w][q - 1].lines = stack[w][p - 1].lines
      PROVE  CopyDone(w, q)'
  <2> SUFFICES ASSUME g.phase = "write", g.log = "dev", g.i = Len(Output("dev")') + 2
               PROVE  /\ stack'[w][q - 1].log = "main"
                      /\ stack'[w][q - 1].lines = Copies("dev", "main")'
    BY <1>4, <1>8, SMT DEF CopyDone
  <2>1. root'["dev"] = root["dev"]
    BY <1>6
  <2>2. Output("dev")' = Output("dev") /\ Copies("dev", "main")' = Copies("dev", "main")
    BY <2>1 DEF Output, Copies
  <2>3. p # 1
    BY <1>3, SMT
  <2>4. stack[w][p - 1].log = "main" /\ stack[w][p - 1].lines = Copies("dev", "main")
    BY <1>1, <1>5, <2>2, <2>3 DEF CopyDone
  <2> QED
    BY <1>8, <2>2, <2>4
<1> QED
  BY <1>4, <1>7, <1>8

\* Lines whose Commit has returned.
LEMMA AckedStays ==
  ASSUME CommitInv, Onward, Buffering => Buffering' \/ Range(root'["dev"]) = {},
         NEW l \in FileLog, NEW x \in acked[l]
  PROVE  Acked(l, x)'
<1>1. Acked(l, x) /\ l \in Log
  BY DEF CommitInv, FileLog, Log
<1>2. CASE Handled(l, x)
  BY <1>1, <1>2, HandledStays DEF Acked
<1>3. CASE l = "dev" /\ x \in Range(root["dev"]) /\ Buffering
  BY <1>3 DEF Onward, Acked
<1> QED
  BY <1>1, <1>2, <1>3 DEF Acked

\* A step of a Flush that goes on: what is left to show is about that call.
LEMMA CommitGoto ==
  ASSUME Picks, CallInv, CallInv', CommitInv, Onward, NEW w \in Writer, stack[w] # <<>>, Local(w),
         NEW ph, NEW n \in Nat, Gone(w, ph, n), acked' = acked,
         CommitFrame(stack[w][1])',
         ph = "write" => n <= Len(Output(stack[w][1].log)')
  PROVE  CommitInv'
<1>1. /\ stack[w] \in Seq(Frame) /\ Len(stack[w]) \in Nat /\ Len(stack[w]) > 0
      /\ Top(w) = stack[w][1]
  BY TopFacts DEF CallInv
<1>2. /\ Len(stack'[w]) = Len(stack[w]) /\ stack'[w] # <<>>
      /\ \A p \in 2..Len(stack[w]) : stack'[w][p] = stack[w][p]
      /\ stack'[w][1].phase = ph
      /\ stack'[w][1].i = n /\ stack'[w][1].log = stack[w][1].log
      /\ stack'[w][1].lines = stack[w][1].lines /\ stack'[w][1].isRoot = stack[w][1].isRoot
  BY <1>1 DEF Gone
<1>3. CopyDone(w, 1)'
  <2> SUFFICES ASSUME stack'[w][1].phase = "write", stack'[w][1].log = "dev",
                      stack'[w][1].i = Len(Output("dev")') + 2
               PROVE  FALSE
    BY DEF CopyDone
  <2>1. Len(Output("dev")') \in Nat
    <3>1. Output("dev")' = OfLevels(root'["dev"], Levels("dev")) /\ root'["dev"] \in Seq(Lines)
      BY DEF Output, CallInv, TypeInv, Log
    <3>2. OfLevels(root'["dev"], Levels("dev")) \in Seq(Lines)
      BY <3>1, OfLevelsPicks
    <3> QED
      BY <3>1, <3>2, SMT
  <2>2. n <= Len(Output("dev")')
    BY <1>2
  <2> QED
    BY <1>2, <2>1, <2>2, SMT
<1>4. ASSUME NEW v \in Writer, NEW p \in 1..Len(stack'[v])
      PROVE  CommitFrame(stack[v][p])' /\ CopyDone(v, p)'
  <2>1. CASE v # w
    BY <1>4, <2>1, LocalRoots, OthersStay DEF Local
  <2>2. CASE v = w /\ p = 1
    BY <1>3, <2>2
  <2>3. CASE v = w /\ p # 1
    <3>1. p \in 2..Len(stack[w]) /\ stack'[w][p] = stack[w][p] /\ p > 1 /\ p - 1 \in 1..Len(stack[w])
      BY <1>1, <1>2, <1>4, <2>3, SMTT(30)
    <3>2. p - 1 = 1 \/ p - 1 \in 2..Len(stack[w])
      BY <1>1, <3>1, SMT
    <3>3. stack'[w][p - 1].log = stack[w][p - 1].log /\ stack'[w][p - 1].lines = stack[w][p - 1].lines
      BY <1>2, <3>2
    <3> QED
      BY <1>4, <2>3, <3>1, <3>3, OuterStays
  <2> QED
    BY <2>1, <2>2, <2>3
<1>5. Buffering => Buffering'
  <2> SUFFICES ASSUME Buffering, mode["dev"] # "none" PROVE Buffering'
    BY DEF Buffering, Local
  <2>1. CASE w # Initializer
    BY <2>1, LoggerAssumption DEF Buffering, Local
  <2>2. CASE w = Initializer
    <3>1. PICK m : m = Len(stack[w])
      OBVIOUS
    <3>4. m \in Nat /\ m > 0
      BY <1>1, <3>1
    <3>2. m = 1 \/ m \in 2..m
      BY <3>4, SMT
    <3>3. stack'[w][m].log = stack[w][m].log /\ stack'[w][m].isRoot = stack[w][m].isRoot
      BY <1>2, <3>1, <3>2
    <3> QED
      BY <1>2, <2>2, <3>1, <3>3 DEF Buffering
  <2> QED
    BY <2>1, <2>2
<1> QED
  BY <1>4, <1>5, AckedStays DEF CommitInv

\* A Flush that returns.
LEMMA CommitPop ==
  ASSUME CallInv, CommitInv, Onward, NEW w \in Writer, stack[w] # <<>>, Local(w), Return(w),
         NEW k, k = Top(w).log, k \in FileLog => \A x \in Top(w).mine : Acked(k, x)',
         Top(w).log = "main" => \A x \in Range(Top(w).lines) : Settled("main", x)',
         Top(w).log = "dev" /\ Top(w).isRoot /\ mode["dev"] # "none" => root'["dev"] = <<>>
  PROVE  CommitInv'
<1>1. /\ stack[w] \in Seq(Frame) /\ Len(stack[w]) \in Nat /\ Len(stack[w]) > 0
      /\ Top(w) = stack[w][1] /\ Top(w).log \in Log
  BY TopFacts DEF CallInv
<1>2. /\ stack'[w] = Tail(stack[w]) /\ \A v \in Writer \ {w} : stack'[v] = stack[v]
      /\ acked'[Top(w).log] = acked[Top(w).log] \cup Top(w).mine
      /\ \A l \in Log \ {Top(w).log} : acked'[l] = acked[l]
  BY ReturnStack DEF CallInv
<1>3. /\ Len(stack'[w]) = Len(stack[w]) - 1
      /\ \A p \in 1..Len(stack[w]) - 1 : stack'[w][p] = stack[w][p + 1]
  BY <1>1, <1>2, HeadAndTail, ZenonT(30)
<1>4. ASSUME NEW v \in Writer, NEW p \in 1..Len(stack'[v])
      PROVE  CommitFrame(stack[v][p])' /\ CopyDone(v, p)'
  <2>1. CASE v # w
    BY <1>2, <1>4, <2>1, LocalRoots, OthersStay
  <2>2. CASE v = w
    <3>1. p + 1 \in 2..Len(stack[w]) /\ stack'[w][p] = stack[w][p + 1] /\ (p + 1) - 1 = p
      BY <1>1, <1>3, <1>4, <2>2, SMTT(30)
    <3>2. CommitFrame(stack[w][p])'
      BY <1>4, <2>2, <3>1, OuterStays
    <3>3. CASE p > 1
      <4>1. p - 1 \in 1..Len(stack[w]) - 1 /\ (p - 1) + 1 = p
        BY <1>1, <3>1, <3>3, SMT
      <4>2. stack'[w][p - 1] = stack[w][p]
        BY <1>3, <4>1
      <4> QED
        BY <1>4, <2>2, <3>1, <3>2, <3>3, <4>2, OuterStays, ZenonT(30)
    <3>4. CASE p = 1
      <4>1. CopyDone(w, 2) /\ stack'[w][1] = stack[w][2] /\ Above(stack[w][2].log, Top(w).log)
        <5>1. 2 \in 1..Len(stack[w]) /\ 1 \in 1..2 - 1
          BY <1>1, <3>1, <3>4, SMT
        <5> QED
          BY <1>1, <3>1, <3>4, <5>1, SMTT(30)
          DEF CommitInv, CallInv, StackInv, StackOf
      <4>2. CopyDone(w, 1)'
        <5> SUFFICES ASSUME stack'[w][1].phase = "write", stack'[w][1].log = "dev",
                            stack'[w][1].i = Len(Output("dev")') + 2
                     PROVE  \A x \in Range(Copies("dev", "main"))' : Settled("main", x)'
          BY DEF CopyDone
        <5>1. "dev" # Top(w).log
          BY <4>1, AboveOther
        <5>2. root'["dev"] = root["dev"]
          BY <5>1 DEF Local, Log
        <5>3. /\ Output("dev")' = Output("dev")
              /\ Range(Copies("dev", "main"))' = Range(Copies("dev", "main"))
          BY <5>2 DEF Output, Copies, Range
        <5>4. Top(w).log = "main" /\ Top(w).lines = Copies("dev", "main")
          BY <1>1, <4>1, <5>3, SMT DEF CopyDone
        <5> QED
          BY <5>3, <5>4
      <4> QED
        BY <2>2, <3>2, <3>4, <4>2
    <3> QED
      BY <1>1, <1>3, <3>1, <3>3, <3>4, SMTT(30)
  <2> QED
    BY <2>1, <2>2
<1>5. Buffering => Buffering' \/ Range(root'["dev"]) = {}
  <2> SUFFICES ASSUME Buffering, mode["dev"] # "none", root'["dev"] # <<>> PROVE Buffering'
    BY SMT DEF Buffering, Local, Range
  <2>1. CASE w # Initializer
    BY <1>2, <2>1, LoggerAssumption DEF Buffering
  <2>2. CASE w = Initializer
    <3>1. PICK m : m = Len(stack[w])
      OBVIOUS
    <3>2. stack[w][m].log = "dev" /\ stack[w][m].isRoot
      BY <2>2, <3>1 DEF Buffering
    <3>3. m # 1
      BY <1>1, <3>2, SMT
    <3>6. m \in Nat /\ m > 0 /\ m - 1 = Len(stack'[w])
      BY <1>1, <1>3, <3>1
    <3>4. m - 1 \in 1..m - 1 /\ (m - 1) + 1 = m /\ m - 1 = Len(stack'[w])
      BY <3>3, <3>6, SMTT(30)
    <3>5. stack'[w][m - 1] = stack[w][m] /\ stack'[w] # <<>>
      BY <1>3, <3>1, <3>4, SMT
    <3> QED
      BY <2>2, <3>2, <3>4, <3>5 DEF Buffering
  <2> QED
    BY <2>1, <2>2
<1>6. ASSUME NEW l \in FileLog, NEW x \in acked'[l] PROVE Acked(l, x)'
  <2>1. CASE x \in acked[l]
    BY <1>5, <1>6, <2>1, AckedStays
  <2>2. CASE x \notin acked[l]
    <3>1. l \in Log
      BY DEF FileLog, Log
    <3>2. l = Top(w).log /\ x \in Top(w).mine
      BY <1>2, <1>6, <2>2, <3>1
    <3> QED
      BY <3>2
  <2> QED
    BY <2>1, <2>2
<1> QED
  BY <1>4, <1>6 DEF CommitInv

\* A goroutine that has no calls makes one.
LEMMA CommitPush ==
  ASSUME CallInv, CommitInv, Onward, NEW w \in Writer, stack[w] = <<>>,
         NEW f \in Frame, f.phase = "lock", stack' = [stack EXCEPT ![w] = <<f>>],
         \A l \in Log : lock[l] # NoWriter => root'[l] = root[l],
         acked' = acked, Buffering => Buffering',
         f.log \in FileLog => \A x \in f.mine :
           IF f.isRoot THEN x \in Range(root'[f.log]) ELSE x \in Range(f.lines)
  PROVE  CommitInv'
<1>1. /\ stack'[w] = <<f>> /\ \A v \in Writer \ {w} : stack'[v] = stack[v]
      /\ Len(<<f>>) = 1 /\ <<f>>[1] = f
  BY DEF CallInv, TypeInv
<1>2. ASSUME NEW v \in Writer, NEW p \in 1..Len(stack'[v])
      PROVE  CommitFrame(stack[v][p])' /\ CopyDone(v, p)'
  <2>1. CASE v # w
    <3>1. \A l \in Log : lock[l] = v => root'[l] = root[l]
      BY LoggerAssumption
    <3> QED
      BY <1>1, <1>2, <2>1, <3>1, OthersStay
  <2>2. CASE v = w
    <3>1. p = 1
      BY <1>1, <1>2, <2>2, SMT
    <3>2. stack'[v][p] = f
      BY <1>1, <2>2, <3>1
    <3>3. CommitFrame(f)'
      BY DEF CommitFrame
    <3>4. CopyDone(v, p)'
      BY <3>2 DEF CopyDone
    <3> QED
      BY <3>2, <3>3, <3>4
  <2> QED
    BY <2>1, <2>2
<1> QED
  BY <1>2, AckedStays DEF CommitInv

\* The buffer of a device is not flushed before its time.
LEMMA BufferingPush ==
  ASSUME NEW w \in Writer, stack[w] = <<>>, mode' = mode,
         \A v \in Writer \ {w} : stack'[v] = stack[v]
  PROVE  Buffering => Buffering'
BY LoggerAssumption DEF Buffering

\* Commit: its lines are those of the call.
LEMMA CommitCommit ==
  ASSUME Picks, CallInv, CommitInv, NEW w \in Writer, NEW l \in FileLog, NEW k \in Kind,
         Commit(w, l, k)
  PROVE  CommitInv'
<1> DEFINE ls == OfLevels(Message(msgs + 1, k), Levels(l) \cup Levels("console"))
           f == Flush(l, ls, FALSE, Range(ls))
<1>1. msgs + 1 \in Nat /\ k \in Seq({"debug", "trace"})
  BY LoggerAssumption, SMT DEF CallInv, TypeInv
<1>2. ls \in Seq(Lines)
  BY <1>1, MessageType, OfLevelsPicks
<1>3. stack' = [stack EXCEPT ![w] = <<f>>]
  BY DEF Commit
<1> HIDE DEF ls
<1>4. Range(ls) \in SUBSET Lines
  BY <1>2, SMT DEF Range
<1>5. f \in Frame /\ f.phase = "lock" /\ ~f.isRoot /\ f.mine = Range(f.lines)
  BY <1>2, <1>4 DEF Flush, Frame, Phase, Log, FileLog
<1> HIDE DEF f
<1>6. UNCHANGED <<mode, out, root, born, failed, acked>> /\ stack[w] = <<>>
  BY DEF Commit, histVars
<1>7. Onward
  BY <1>6 DEF Onward
<1>8. \A v \in Writer \ {w} : stack'[v] = stack[v]
  BY <1>3 DEF CallInv, TypeInv
<1> QED
  BY <1>3, <1>5, <1>6, <1>7, <1>8, BufferingPush, CommitPush

\* Add: its line is in the root message, until someone has handled it.
LEMMA CommitAddToRoot ==
  ASSUME CallInv, CommitInv, NEW w \in Writer, NEW l \in FileLog, AddToRoot(w, l)
  PROVE  CommitInv'
<1> DEFINE ls == Message(msgs + 1, <<"debug">>)
           f == Flush(l, <<>>, TRUE, Range(ls))
<1>1. msgs + 1 \in Nat /\ l \in Log
  BY SMT DEF CallInv, TypeInv, FileLog, Log
<1>2. ls \in Seq(Lines) /\ Range(ls) \in SUBSET Lines
  BY <1>1, DebugMessage
<1>3. /\ stack' = [stack EXCEPT ![w] = <<f>>]
      /\ root' = [root EXCEPT ![l] = root[l] \o ls]
  BY DEF AddToRoot
<1> HIDE DEF ls
<1>5. f \in Frame /\ f.phase = "lock" /\ f.isRoot /\ f.mine = Range(ls) /\ f.log = l
  BY <1>1, <1>2, SMT DEF Flush, Frame, Phase
<1> HIDE DEF f
<1>6. UNCHANGED <<mode, out, born, failed, acked>> /\ stack[w] = <<>> /\ lock[l] = NoWriter
  BY DEF AddToRoot, histVars
<1>8. \A v \in Writer \ {w} : stack'[v] = stack[v]
  BY <1>3 DEF CallInv, TypeInv
<1>9. root'[l] = root[l] \o ls /\ \A h \in Log \ {l} : root'[h] = root[h]
  BY <1>1, <1>3 DEF CallInv, TypeInv
<1>10. Range(root'[l]) = Range(root[l]) \cup Range(ls)
  <2>1. root[l] \in Seq(Lines)
    BY <1>1 DEF CallInv, TypeInv
  <2> QED
    BY <1>2, <1>9, <2>1, Members, SMT
<1>7. Onward
  <2>1. \A h \in FileLog : \A x \in Range(root[h]) : x \in Range(root'[h])
    BY <1>9, <1>10 DEF FileLog, Log
  <2> QED
    BY <1>6, <2>1 DEF Onward
<1>11. \A h \in Log : lock[h] # NoWriter => root'[h] = root[h]
  BY <1>6, <1>9
<1>12. Buffering => Buffering'
  BY <1>6, <1>8, BufferingPush
<1> QED
  BY <1>3, <1>5, <1>6, <1>7, <1>10, <1>11, <1>12, CommitPush

\* ToDevFile and ToMainLog: what is buffered is flushed next.
LEMMA CommitNamed ==
  ASSUME CallInv, CommitInv, ToDevFile \/ ToMainLog
  PROVE  CommitInv'
<1> DEFINE f == Flush("dev", <<>>, TRUE, {})
<1>1. /\ stack' = [stack EXCEPT ![Initializer] = <<f>>]
      /\ UNCHANGED <<root, born, failed, acked>>
      /\ stack[Initializer] = <<>> /\ Initializer \in Writer
      /\ mode["dev"] = "none"
      /\ \E m : mode' = [mode EXCEPT !["dev"] = m]
      /\ out' = out \/ out' = [out EXCEPT !["dev"] = "stream"]
  BY LoggerAssumption DEF ToDevFile, ToMainLog, histVars
<1>2. f \in Frame /\ f.phase = "lock" /\ f.isRoot /\ f.mine = {} /\ f.log = "dev"
  BY SMT DEF Flush, Frame, Phase, Log
<1> HIDE DEF f
<1>3. \A h \in Log : (mode[h] = "discard" => mode'[h] = "discard") /\ (out[h] # "nil" => out'[h] # "nil")
  BY <1>1 DEF CallInv, ConfInv, Log
<1>4. Onward
  BY <1>1, <1>3 DEF Onward
<1>5. Buffering'
  <2>1. stack'[Initializer] = <<f>> /\ Len(<<f>>) = 1 /\ <<f>>[1] = f /\ <<f>> # <<>>
    BY <1>1 DEF CallInv, TypeInv
  <2> QED
    BY <1>2, <2>1 DEF Buffering
<1> QED
  BY <1>1, <1>2, <1>4, <1>5, CommitPush

\* A call that has the lock goes on.
LEMMA CommitOn ==
  ASSUME Picks, CallInv, CallInv', CommitInv, Onward, NEW w \in Writer, stack[w] # <<>>, Local(w),
         Top(w).phase # "lock", NEW ph \in Phase \ {"lock"}, NEW n \in Nat,
         Gone(w, ph, n), acked' = acked, root' = root,
         NEW l, l = Top(w).log, NEW o, o = Output(l),
         ph = "write" => n <= Len(o),
         ph = "write" /\ l \in FileLog /\ mode[l] # "discard" =>
           \A j \in 1..Len(o) : j <= n => Settled(l, o[j])'
  PROVE  CommitInv'
<1>1. PICK g : g = stack'[w][1]
  OBVIOUS
<1>2. /\ Top(w) = stack[w][1] /\ l \in Log /\ 1 \in 1..Len(stack[w])
      /\ g \in Frame /\ g.phase = ph /\ g.i = n /\ g.log = l /\ g.lines = Top(w).lines
      /\ g.mine = Top(w).mine /\ g.isRoot = Top(w).isRoot
  BY <1>1, TopFacts DEF CallInv, Gone
<1>3. CommitFrame(Top(w))
  BY <1>2 DEF CommitInv
<1>4. Output(l)' = o /\ mode' = mode
  BY DEF Output, Local
<1>5. ASSUME l \in FileLog, NEW x \in g.mine
      PROVE  x \in Range(root'[l]) \/ Handled(l, x)'
  <2>1. x \in Range(root[l]) \/ Handled(l, x)
    BY <1>2, <1>3, <1>5 DEF CommitFrame
  <2> QED
    BY <1>2, <1>5, <2>1, HandledStays
<1>6. out'[l] # "nil" /\ Range(g.lines) \subseteq Range(root'[l])
  BY <1>2, <1>3 DEF CommitFrame, Onward
<1>7. CommitFrame(g)'
  <2>1. g.phase # "lock"
    BY <1>2
  <2>2. g.log \in FileLog => \A x \in g.mine : x \in Range(root'[g.log]) \/ Handled(g.log, x)'
    BY <1>2, <1>5
  <2>3. out'[g.log] # "nil" /\ Range(g.lines) \subseteq Range(root'[g.log])
    BY <1>2, <1>6
  <2>4. g.phase = "write" /\ g.log \in FileLog /\ mode'[g.log] # "discard" =>
          \A j \in 1..Len(Output(g.log)') : j <= g.i => Settled(g.log, Output(g.log)[j])'
    <3>1. Output(g.log)' = o
      BY <1>2, <1>4
    <3> QED
      BY <1>2, <1>4, <3>1
  <2> QED
    BY <2>1, <2>2, <2>3, <2>4 DEF CommitFrame
<1>8. CommitFrame(stack[w][1])'
  BY <1>1, <1>7
<1>9. ph = "write" => n <= Len(Output(stack[w][1].log)')
  BY <1>1, <1>2, <1>4
<1> QED
  BY <1>8, <1>9, CommitGoto

\* A rotation does nothing to messages.
LEMMA CommitRotate ==
  ASSUME Picks, CallInv, CallInv', CommitInv, NEW w \in Writer,
         RotateShift(w) \/ RotateGzip(w) \/ RotateTruncate(w)
  PROVE  CommitInv'
<1>1. /\ stack[w] # <<>> /\ Top(w).phase # "lock"
      /\ UNCHANGED <<mode, out, root, born, failed, acked>>
      /\ \E ph \in Phase \ {"lock"} : \E n \in Nat : Goto(w, ph, n) /\ (ph = "write" => n = 0)
  <2>1. stack[w] # <<>> /\ Top(w).phase # "lock"
    BY DEF RotateShift, RotateGzip, RotateTruncate, InPhase
  <2>2. UNCHANGED <<mode, out, root, born, failed, acked>>
    BY DEF RotateShift, RotateGzip, RotateTruncate, histVars
  <2>3. Top(w).i + 1 \in Nat
    BY <2>1, TopFacts, SMT DEF CallInv
  <2>4. {"shift", "gzip", "truncate", "write"} \subseteq Phase \ {"lock"}
    BY DEF Phase
  <2>5. \/ Goto(w, "gzip", 0) \/ Goto(w, "shift", Top(w).i + 1) \/ Goto(w, "truncate", 0)
        \/ Goto(w, "write", 0)
    BY DEF RotateShift, RotateGzip, RotateTruncate
  <2> QED
    BY <2>1, <2>2, <2>3, <2>4, <2>5
<1>2. Onward
  BY <1>1 DEF Onward
<1>3. Local(w)
  BY CallShift, CallGzip, CallTruncate
<1>4. PICK ph \in Phase \ {"lock"}, n \in Nat : Goto(w, ph, n) /\ (ph = "write" => n = 0)
  BY <1>1
<1>5. Gone(w, ph, n)
  BY <1>1, <1>4, GotoStack DEF CallInv
<1>6. PICK l : l = Top(w).log
  OBVIOUS
<1>7. PICK o : o = Output(l)
  OBVIOUS
<1>8. Len(o) \in Nat
  BY <1>1, <1>6, <1>7, TopFacts, OutputType DEF CallInv
<1>9. ph = "write" => n <= Len(o) /\ \A j \in 1..Len(o) : ~(j <= n)
  BY <1>4, <1>8, SMT
<1> QED
  BY <1>1, <1>2, <1>3, <1>5, <1>6, <1>7, <1>9, CommitOn

\* A line of the output is written, unless the file failed to open.
LEMMA CommitWriteLine ==
  ASSUME Picks, CallInv, CallInv', CommitInv, NEW w \in Writer, WriteLine(w)
  PROVE  CommitInv'
<1>1. PICK l, n, o : l = Top(w).log /\ n = Top(w).i + 1 /\ o = Output(l)
  OBVIOUS
<1>2. stack[w] # <<>> /\ Top(w).phase = "write"
  BY DEF WriteLine, InPhase
<1>3. /\ Top(w) = stack[w][1] /\ l \in Log /\ 1 \in 1..Len(stack[w])
      /\ Top(w).i \in Nat /\ n \in Nat /\ n > 0
  BY <1>1, <1>2, TopFacts, SMT DEF CallInv
<1>4. /\ UNCHANGED <<mode, out, root, failed, acked>>
      /\ n <= Len(o) /\ Goto(w, "write", n)
      /\ IF out[l] = "file"
         THEN born' = born \cup {[log |-> l, line |-> o[n], rot |-> rot[l]]}
         ELSE born' = born
  BY <1>1 DEF WriteLine
<1>5. Local(w) /\ Gone(w, "write", n) /\ "write" \in Phase \ {"lock"}
  BY <1>2, <1>3, <1>4, CallWriteLine, GotoStack DEF CallInv, Phase
<1>6. Onward
  <2>1. born \subseteq born'
    BY <1>4
  <2> QED
    BY <1>4, <2>1 DEF Onward
<1>7. CommitFrame(Top(w))
  BY <1>3 DEF CommitInv
<1>8. ASSUME l \in FileLog, mode[l] # "discard", NEW j \in 1..Len(o), j <= n
      PROVE  Settled(l, o[j])'
  <2>1. CASE j # n
    <3>1. j <= Top(w).i
      BY <1>1, <1>3, <1>8, <2>1, SMT
    <3>2. Settled(l, o[j])
      BY <1>1, <1>2, <1>7, <1>8, <3>1 DEF CommitFrame
    <3> QED
      BY <1>3, <1>6, <3>2, HandledStays
  <2>2. CASE j = n
    <3>1. out[l] # "nil"
      BY <1>1, <1>2, <1>7 DEF CommitFrame
    <3>2. out[l] = "file" \/ out[l] = "nilfile"
      BY <1>8, <3>1 DEF CallInv, ConfInv, FileLog, Log
    <3>3. CASE out[l] = "file"
      <4>1. [log |-> l, line |-> o[n], rot |-> rot[l]] \in born'
        BY <1>4, <3>3
      <4> QED
        BY <2>2, <4>1 DEF Settled, Written
    <3>4. CASE out[l] = "nilfile"
      BY <1>4, <1>8, <3>4 DEF CallInv, ConfInv, Settled
    <3> QED
      BY <3>2, <3>3, <3>4
  <2> QED
    BY <2>1, <2>2
<1>9. Top(w).phase # "lock"
  BY <1>2
<1> QED
  BY <1>1, <1>2, <1>3, <1>4, <1>5, <1>6, <1>8, <1>9, CommitOn

\* The lines of a call go to another logger: that of the main log has all that
\* are left.
LEMMA CommitCall ==
  ASSUME Picks, CallInv, CommitInv, NEW w \in Writer, CommitCopy(w)
  PROVE  CommitInv'
<1>1. stack[w] # <<>> /\ Top(w).phase = "write" /\ Top(w).log \in Log
  BY CopyStack
<1>2. PICK n \in 1..Len(cc[Top(w).log]) :
        /\ Top(w).i + 1 = Len(Output(Top(w).log)) + n
        /\ n = 1 => cc[Top(w).log][n] = "console"
        /\ n # 1 => n = 2 /\ Top(w).log = "dev" /\ cc[Top(w).log][n] = "main"
        /\ Called(w, cc[Top(w).log][n], Copies(Top(w).log, cc[Top(w).log][n]))
  BY CopyStack
<1>3. PICK l, k, ls, o : /\ l = Top(w).log /\ k = cc[l][n] /\ ls = Copies(l, k)
                         /\ o = Output(l)
  OBVIOUS
<1>4. /\ stack[w] \in Seq(Frame) /\ Len(stack[w]) \in Nat /\ Len(stack[w]) > 0
      /\ Top(w) = stack[w][1] /\ 1 \in 1..Len(stack[w]) /\ l \in Log /\ Top(w).i \in Nat
      /\ Len(o) \in Nat
  BY <1>1, <1>3, TopFacts, OutputType DEF CallInv
<1>5. Called(w, k, ls) /\ Local(w)
  BY <1>2, <1>3, CallCopy
<1>6. UNCHANGED <<mode, out, root, born, failed, acked>>
  BY DEF CommitCopy, histVars
<1>7. Onward
  BY <1>6 DEF Onward
<1>8. CommitFrame(stack[w][1])' /\ CopyDone(w, 1)'
  BY <1>5 DEF Called, CommitFrame, CopyDone
<1>9. PICK g : g = stack'[w][2]
  OBVIOUS
<1>10. /\ g \in Frame /\ g.phase = "write" /\ g.i = Top(w).i + 1 /\ g.log = l
       /\ g.lines = Top(w).lines /\ g.mine = Top(w).mine /\ g.isRoot = Top(w).isRoot
  BY <1>1, <1>3, <1>5, <1>9 DEF Called
<1>11. Output(l)' = o /\ Copies(l, k)' = ls
  BY <1>3, <1>6 DEF Output, Copies
<1>12. CommitFrame(stack[w][2])'
  <2>1. CommitFrame(Top(w))
    BY <1>4 DEF CommitInv
  <2>2. g.log \in FileLog => \A x \in g.mine : x \in Range(root'[g.log]) \/ Handled(g.log, x)'
    <3>1. ASSUME l \in FileLog, NEW x \in g.mine
          PROVE  x \in Range(root'[l]) \/ Handled(l, x)'
      <4>1. x \in Range(root[l]) \/ Handled(l, x)
        BY <1>1, <1>3, <1>10, <2>1, <3>1 DEF CommitFrame
      <4> QED
        BY <1>4, <1>6, <1>7, <4>1, HandledStays
    <3> QED
      BY <1>10, <3>1
  <2>3. out'[g.log] # "nil" /\ Range(g.lines) \subseteq Range(root'[g.log])
    BY <1>1, <1>3, <1>6, <1>10, <2>1 DEF CommitFrame
  <2>4. ASSUME l \in FileLog, mode[l] # "discard", NEW j \in 1..Len(o)
        PROVE  Settled(l, o[j])'
    <3>1. j <= Top(w).i
      BY <1>2, <1>3, <1>4, SMTT(30)
    <3>2. Settled(l, o[j])
      BY <1>1, <1>3, <2>1, <2>4, <3>1 DEF CommitFrame
    <3> QED
      BY <1>4, <1>7, <3>2, HandledStays, ZenonT(30)
  <2>5. g.log \in FileLog /\ mode'[g.log] # "discard" =>
          \A j \in 1..Len(Output(g.log)') : Settled(g.log, Output(g.log)[j])'
    <3>1. Output(g.log)' = o
      BY <1>10, <1>11
    <3> QED
      BY <1>6, <1>10, <2>4, <3>1
  <2>6. CommitFrame(g)'
    BY <1>10, <2>2, <2>3, <2>5 DEF CommitFrame
  <2> QED
    BY <1>9, <2>6
<1>13. CopyDone(w, 2)'
  <2> SUFFICES ASSUME g.log = "dev", g.i = Len(Output("dev")') + 2
               PROVE  /\ stack'[w][1].log = "main"
                      /\ stack'[w][1].lines = Copies("dev", "main")'
    BY <1>9, SMT DEF CopyDone
  <2>1. l = "dev" /\ Top(w).i + 1 = Len(o) + 2
    BY <1>10, <1>11, ZenonT(30)
  <2>2. n # 1
    BY <1>2, <1>3, <1>4, <2>1, SMTT(30)
  <2>3. k = "main"
    BY <1>2, <1>3, <2>2
  <2> QED
    BY <1>5, <1>11, <2>1, <2>3 DEF Called
<1>14. ASSUME NEW v \in Writer, NEW p \in 1..Len(stack'[v])
       PROVE  CommitFrame(stack[v][p])' /\ CopyDone(v, p)'
  <2>1. CASE v # w
    BY <1>5, <1>7, <1>14, <2>1, LocalRoots, OthersStay, SMTT(30) DEF Local
  <2>2. CASE v = w /\ (p = 1 \/ p = 2)
    BY <1>8, <1>12, <1>13, <2>2
  <2>3. CASE v = w /\ p # 1 /\ p # 2
    <3>1. /\ p - 1 \in 2..Len(stack[w]) /\ (p - 1) + 1 = p /\ p > 1
          /\ (p - 1) - 1 = 1 \/ (p - 1) - 1 \in 2..Len(stack[w])
          /\ ((p - 1) - 1) + 1 = p - 1
      <4>1. PICK m \in Nat : m = Len(stack[w])
        BY <1>4
      <4>2. p \in 1..m + 1
        BY <1>5, <1>14, <2>3, <4>1 DEF Called
      <4>3. p - 1 \in 2..m /\ (p - 1) + 1 = p /\ p > 1 /\ ((p - 1) - 1) + 1 = p - 1
        BY <2>3, <4>2, SMT
      <4>4. (p - 1) - 1 = 1 \/ (p - 1) - 1 \in 2..m
        BY <2>3, <4>2, SMT
      <4> QED
        BY <4>1, <4>3, <4>4
    <3>2. stack'[w][p] = stack[w][p - 1]
      BY <1>5, <3>1 DEF Called
    <3>3. /\ stack'[w][p - 1].log = stack[w][(p - 1) - 1].log
          /\ stack'[w][p - 1].lines = stack[w][(p - 1) - 1].lines
      <4>1. CASE (p - 1) - 1 = 1
        BY <1>3, <1>4, <1>9, <1>10, <3>1, <4>1, SMTT(30)
      <4>2. CASE (p - 1) - 1 \in 2..Len(stack[w])
        BY <1>5, <3>1, <4>2 DEF Called
      <4> QED
        BY <3>1, <4>1, <4>2
    <3> QED
      BY <1>1, <1>5, <1>7, <1>14, <2>3, <3>1, <3>2, <3>3, OuterStays, ZenonT(30)
  <2> QED
    BY <2>1, <2>2, <2>3
<1>15. Buffering => Buffering'
  <2> SUFFICES ASSUME Buffering, mode["dev"] # "none" PROVE Buffering'
    BY <1>6 DEF Buffering
  <2>1. CASE w # Initializer
    BY <1>5, <2>1, LoggerAssumption DEF Buffering, Called
  <2>2. CASE w = Initializer
    <3>1. PICK m : m = Len(stack[w])
      OBVIOUS
    <3>2. m \in Nat /\ m > 0 /\ stack[w][m].log = "dev" /\ stack[w][m].isRoot
      BY <1>4, <2>2, <3>1 DEF Buffering
    <3>3. m = 1 \/ m \in 2..m
      BY <3>2, SMT
    <3>4. Len(stack'[w]) = m + 1 /\ stack'[w] # <<>>
      BY <1>5, <3>1 DEF Called
    <3>5. stack'[w][m + 1].log = "dev" /\ stack'[w][m + 1].isRoot
      <4>1. CASE m = 1
        BY <1>3, <1>4, <1>9, <1>10, <3>2, <4>1, SMTT(30)
      <4>2. CASE m \in 2..m
        BY <1>5, <3>1, <3>2, <4>2 DEF Called
      <4> QED
        BY <3>3, <4>1, <4>2
    <3> QED
      BY <2>2, <3>4, <3>5 DEF Buffering
  <2> QED
    BY <2>1, <2>2
<1> QED
  BY <1>6, <1>7, <1>14, <1>15, AckedStays DEF CommitInv

\* When a Flush ends, all lines of the root message are handled.
LEMMA RootHandled ==
  ASSUME Picks, CallInv, CommitInv, NEW w \in Writer, stack[w] # <<>>, Top(w).phase = "write",
         NEW l \in FileLog, l = Top(w).log, Top(w).i = Len(Output(l)) + Len(cc[l]),
         NEW x \in Range(root[l])
  PROVE  Handled(l, x)
<1>1. Top(w) = stack[w][1] /\ 1 \in 1..Len(stack[w]) /\ l \in Log
  BY TopFacts DEF CallInv, FileLog, Log
<1>2. /\ root[l] \in Seq(Lines) /\ Len(Output(l)) \in Nat /\ Len(cc[l]) \in Nat
      /\ x \in Lines /\ Output(l) \in Seq(Lines)
  <2>1. root[l] \in Seq(Lines) /\ cc[l] \in Seq(Log)
    BY <1>1 DEF CallInv, TypeInv, ConfInv
  <2>2. x \in Lines
    BY <2>1, Members
  <2> QED
    BY <1>1, <2>1, <2>2, OutputType, SMT DEF CallInv
<1>3. CASE x.level \notin Levels(l)
  BY <1>3 DEF Handled, Settled
<1>4. CASE x.level \in Levels(l) /\ mode[l] # "discard"
  <2>1. x \in Range(Output(l))
    BY <1>2, <1>4, OfLevelsPicks DEF Output
  <2>2. PICK j \in 1..Len(Output(l)) : Output(l)[j] = x
    BY <1>2, <2>1, Members
  <2>3. j <= Top(w).i
    <3>1. PICK a \in Nat, b \in Nat : a = Len(Output(l)) /\ b = Len(cc[l])
      BY <1>2
    <3>2. j \in 1..a /\ Top(w).i = a + b
      BY <2>2, <3>1
    <3>3. j <= a + b
      BY <3>2, SMT
    <3> QED
      BY <3>2, <3>3
  <2>4. CommitFrame(Top(w))
    BY <1>1 DEF CommitInv
  <2>5. Settled(l, x)
    BY <1>4, <2>2, <2>3, <2>4 DEF CommitFrame
  <2> QED
    BY <2>5 DEF Handled
<1>5. CASE mode[l] = "discard"
  <2> DEFINE y == [x EXCEPT !.via = l]
  <2>1. l = "dev" /\ cc[l] = <<"console", "main">>
    BY <1>5 DEF CallInv, ConfInv, FileLog
  <2>2. Top(w).i = Len(Output("dev")) + 2
    BY <2>1
  <2>3. \A z \in Range(Copies("dev", "main")) : Settled("main", z)
    <3>1. CopyDone(w, 1)
      BY <1>1 DEF CommitInv
    <3> QED
      BY <1>1, <2>1, <2>2, <3>1 DEF CopyDone
  <2>4. y.level = x.level
    BY <1>2 DEF Lines
  <2>5. x.level \in Levels("main") => y \in Range(Copies("dev", "main"))
    BY <1>1, <2>1, CopiesType DEF CallInv
  <2> HIDE DEF y
  <2>6. Settled("main", y)
    BY <2>3, <2>4, <2>5 DEF Settled
  <2> QED
    BY <1>5, <2>6 DEF Handled, y
<1> QED
  BY <1>3, <1>4, <1>5

\* The end of a Flush.
LEMMA CommitEnd ==
  ASSUME Picks, CallInv, CommitInv, NEW w \in Writer, FlushEnd(w)
  PROVE  CommitInv'
<1>1. PICK l : l = Top(w).log
  OBVIOUS
<1>2. /\ stack[w] # <<>> /\ Top(w).phase = "write"
      /\ Top(w).i = Len(Output(l)) + Len(cc[l])
      /\ root' = [root EXCEPT ![l] = <<>>] /\ Return(w)
      /\ UNCHANGED <<mode, out, born, failed>>
  BY <1>1 DEF FlushEnd, InPhase
<1>3. Local(w)
  BY CallEnd
<1>4. Top(w) = stack[w][1] /\ 1 \in 1..Len(stack[w]) /\ l \in Log
  BY <1>1, <1>2, TopFacts DEF CallInv
<1>5. root'[l] = <<>> /\ \A h \in Log \ {l} : root'[h] = root[h]
  BY <1>2, <1>4 DEF CallInv, TypeInv
<1>6. \A h, x : Settled(h, x) => Settled(h, x)'
  BY <1>2 DEF Settled, Written
<1>7. \A h, x : Handled(h, x) => Handled(h, x)'
  BY <1>2, <1>6 DEF Handled
<1>8. l \in FileLog => \A x \in Range(root[l]) : Handled(l, x)
  BY <1>1, <1>2, RootHandled
<1>9. Onward
  <2>1. \A h \in FileLog : \A x \in Range(root[h]) : x \in Range(root'[h]) \/ Handled(h, x)'
    BY <1>5, <1>7, <1>8 DEF FileLog, Log
  <2> QED
    BY <1>2, <2>1 DEF Onward
<1>10. CommitFrame(Top(w))
  BY <1>4 DEF CommitInv
<1>11. l \in FileLog => \A x \in Top(w).mine : Acked(l, x)'
  BY <1>1, <1>2, <1>7, <1>8, <1>10 DEF CommitFrame, Acked
<1>12. Top(w).log = "main" => \A x \in Range(Top(w).lines) : Settled("main", x)'
  <2> SUFFICES ASSUME l = "main", NEW x \in Range(Top(w).lines) PROVE Settled("main", x)'
    BY <1>1
  <2>1. x \in Range(root["main"])
    BY <1>1, <1>2, <1>10 DEF CommitFrame
  <2>2. Handled("main", x) /\ mode["main"] = "file"
    BY <1>8, <2>1 DEF FileLog, CallInv, ConfInv
  <2> QED
    BY <1>6, <2>2 DEF Handled
<1> QED
  BY <1>1, <1>2, <1>3, <1>5, <1>9, <1>11, <1>12, CommitPop, ZenonT(30)

\* A call takes the lock, and its lines are added to the root message.
LEMMA CommitTake ==
  ASSUME Picks, CallInv, CallInv', CommitInv, NEW w \in Writer, stack[w] # <<>>, Local(w),
         Top(w).phase = "lock", NEW ph \in {"shift", "truncate", "write"}, FlushTaken(w, ph),
         UNCHANGED <<mode, born>>
  PROVE  CommitInv'
<1>1. PICK l, g : l = Top(w).log /\ g = stack'[w][1]
  OBVIOUS
<1>2. /\ root' = [root EXCEPT ![l] = @ \o Top(w).lines] /\ acked' = acked
      /\ failed \subseteq failed' /\ out'[l] # "nil" /\ Goto(w, ph, 0)
      /\ \A h \in Log \ {l} : out'[h] = out[h]
  BY <1>1 DEF FlushTaken
<1>3. /\ Top(w) = stack[w][1] /\ 1 \in 1..Len(stack[w]) /\ l \in Log
      /\ Top(w).lines \in Seq(Lines) /\ root[l] \in Seq(Lines) /\ Top(w).isRoot \in BOOLEAN
  BY <1>1, TopFacts DEF CallInv, TypeInv
<1>4. Gone(w, ph, 0) /\ ph \in Phase \ {"lock"}
  BY <1>2, GotoStack DEF Phase, CallInv
<1>5. Range(root'[l]) = Range(root[l]) \cup Range(Top(w).lines)
  <2>1. root'[l] = root[l] \o Top(w).lines
    BY <1>2, <1>3 DEF CallInv, TypeInv
  <2> QED
    BY <1>3, <2>1, Members, SMT
<1>6. Onward
  <2>1. \A h \in Log : out[h] # "nil" => out'[h] # "nil"
    BY <1>2
  <2>2. \A h \in FileLog : \A x \in Range(root[h]) : x \in Range(root'[h])
    BY <1>1, <1>5 DEF Local, FileLog, Log
  <2> QED
    BY <1>2, <2>1, <2>2 DEF Onward
<1>7. CommitFrame(Top(w))
  BY <1>3 DEF CommitInv
<1>8. /\ g.phase = ph /\ g.i = 0 /\ g.log = l /\ g.lines = Top(w).lines
      /\ g.mine = Top(w).mine
  BY <1>1, <1>4 DEF Gone
<1>9. ASSUME l \in FileLog, NEW x \in g.mine
      PROVE  x \in Range(root'[l]) \/ Handled(l, x)'
  <2>1. x \in Range(Top(w).lines) \/ x \in Range(root[l]) \/ Handled(l, x)
    BY <1>1, <1>7, <1>8, <1>9 DEF CommitFrame
  <2> QED
    BY <1>3, <1>5, <1>6, <2>1, HandledStays
<1>10. CommitFrame(g)'
  <2>1. g.log \in FileLog => \A x \in g.mine : x \in Range(root'[g.log]) \/ Handled(g.log, x)'
    BY <1>8, <1>9
  <2>2. out'[g.log] # "nil" /\ Range(g.lines) \subseteq Range(root'[g.log])
    BY <1>2, <1>5, <1>8
  <2>3. \A j \in 1..Len(Output(g.log)') : ~(j <= g.i)
    BY <1>8, SMT
  <2>4. g.phase # "lock"
    BY <1>4, <1>8
  <2> QED
    BY <2>1, <2>2, <2>3, <2>4 DEF CommitFrame
<1>11. CommitFrame(stack[w][1])'
  BY <1>1, <1>10
<1>12. 0 <= Len(Output(stack[w][1].log)')
  <2>1. \A h \in Log : Len(Output(h)') \in Nat
    <3>1. ASSUME NEW h \in Log PROVE Len(Output(h)') \in Nat
      <4>1. Output(h)' = OfLevels(root'[h], Levels(h)) /\ root'[h] \in Seq(Lines)
        BY DEF Output, CallInv, TypeInv
      <4>2. OfLevels(root'[h], Levels(h)) \in Seq(Lines)
        BY <4>1, OfLevelsPicks
      <4> QED
        BY <4>1, <4>2, SMTT(30)
    <3> QED
      BY <3>1
  <2>2. Len(Output(g.log)') \in Nat
    BY <1>3, <1>8, <2>1
  <2> QED
    BY <1>1, <2>2, SMT
<1> QED
  BY <1>2, <1>4, <1>6, <1>11, <1>12, CommitGoto

\* A call that has nothing to do, or whose lines are buffered.
LEMMA CommitLock ==
  ASSUME Picks, CallInv, CallInv', CommitInv, NEW w \in Writer, FlushLock(w)
  PROVE  CommitInv'
<1>1. /\ stack[w] # <<>> /\ Top(w).phase = "lock"
      /\ UNCHANGED <<mode, born>> /\ Local(w)
  BY FlushLockCases, CallFlushLock
<1>2. PICK l : l = Top(w).log
  OBVIOUS
<1>3. /\ Top(w) = stack[w][1] /\ 1 \in 1..Len(stack[w]) /\ l \in Log
      /\ Top(w).lines \in Seq(Lines) /\ root[l] \in Seq(Lines) /\ Top(w).isRoot \in BOOLEAN
  BY <1>1, <1>2, TopFacts DEF CallInv, TypeInv
<1>4. CommitFrame(Top(w)) /\ (Top(w).isRoot => Top(w).lines = <<>>)
  <2>1. CommitFrame(Top(w))
    BY <1>3 DEF CommitInv
  <2>2. FrameInv(w, Top(w))
    BY <1>3 DEF CallInv, StackInv, StackOf
  <2> QED
    BY <2>1, <2>2 DEF FrameInv
<1>5. Range(<<>>) = {}
  BY SMT DEF Range
<1>6. CASE FlushIdle(w)
  <2>1. /\ (IF Top(w).isRoot THEN root[l] ELSE Top(w).lines) = <<>>
        /\ Return(w) /\ UNCHANGED <<root, out, failed>>
    BY <1>2, <1>6 DEF FlushIdle
  <2>2. Onward
    BY <1>1, <2>1 DEF Onward
  <2>3. Top(w).lines = <<>>
    BY <1>3, <1>4, <2>1
  <2>4. ASSUME l \in FileLog, NEW x \in Top(w).mine PROVE Acked(l, x)'
    <3>1. Handled(l, x)
      BY <1>1, <1>2, <1>3, <1>4, <1>5, <2>1, <2>4, ZenonT(30) DEF CommitFrame
    <3> QED
      BY <1>3, <2>2, <3>1, HandledStays DEF Acked
  <2> QED
    BY <1>1, <1>2, <1>5, <2>1, <2>2, <2>3, <2>4, CommitPop
<1>7. CASE FlushBuffered(w)
  <2>1. /\ l = "dev" /\ mode["dev"] = "none" /\ Return(w)
        /\ root' = [root EXCEPT !["dev"] = @ \o Top(w).lines]
        /\ UNCHANGED <<out, failed>>
    BY <1>2, <1>7, ZenonT(30) DEF FlushBuffered
  <2>2. Range(root'["dev"]) = Range(root["dev"]) \cup Range(Top(w).lines)
    <3>1. root'["dev"] = root["dev"] \o Top(w).lines
      <4>1. "dev" \in DOMAIN root
        BY <1>3, <2>1 DEF CallInv, TypeInv
      <4> QED
        BY <2>1, <4>1
    <3>2. root["dev"] \in Seq(Lines)
      BY <1>3, <2>1
    <3> QED
      BY <1>3, <3>1, <3>2, Members, SMTT(30)
  <2>3. Onward
    <3>1. \A h \in FileLog : \A x \in Range(root[h]) : x \in Range(root'[h])
      BY <1>1, <1>2, <2>1, <2>2 DEF Local, FileLog, Log
    <3> QED
      BY <1>1, <2>1, <3>1 DEF Onward
  <2>4. Buffering'
    BY <1>1, <2>1 DEF Buffering
  <2>5. ASSUME l \in FileLog, NEW x \in Top(w).mine PROVE Acked(l, x)'
    <3>1. x \in Range(root'["dev"]) \/ Handled(l, x)
      BY <1>1, <1>2, <1>4, <2>1, <2>2, <2>5 DEF CommitFrame
    <3>2. Handled(l, x) => Handled(l, x)'
      BY <1>3, <2>3, HandledStays
    <3> QED
      BY <2>1, <2>4, <3>1, <3>2 DEF Acked
  <2>6. Top(w).log # "main" /\ mode["dev"] = "none"
    BY <1>2, <2>1
  <2> QED
    BY <1>1, <1>2, <2>1, <2>3, <2>5, <2>6, CommitPop, ZenonT(30)
<1>8. CASE \E ph \in {"shift", "truncate", "write"} : FlushTaken(w, ph)
  BY <1>1, <1>8, CommitTake
<1> QED
  BY <1>6, <1>7, <1>8, FlushLockCases

\* Steps keep the invariant.
LEMMA CommitStep ==
  ASSUME Picks PROVE CallInv /\ CommitInv /\ [Next]_vars => CommitInv'
<1> SUFFICES ASSUME CallInv, CommitInv, [Next]_vars PROVE CommitInv'
  OBVIOUS
<1>1. CallInv'
  BY CallStep
<1>2. CASE UNCHANGED vars
  <2>1. UNCHANGED <<mode, out, cc, root, stack, born, failed, acked>>
    BY <1>2 DEF vars, memVars, histVars
  <2>2. Onward
    BY <2>1 DEF Onward
  <2>3. Buffering => Buffering'
    BY <2>1 DEF Buffering
  <2>4. \A v \in Writer : \A p \in 1..Len(stack'[v]) : CommitFrame(stack[v][p])' /\ CopyDone(v, p)'
    BY <2>1, <2>2, OthersStay
  <2> QED
    BY <2>1, <2>2, <2>3, <2>4, AckedStays DEF CommitInv
<1>3. ASSUME NEW w \in Writer, Write(w) PROVE CommitInv'
  BY <1>3, CommitCommit, CommitAddToRoot DEF Write
<1>4. ASSUME NEW w \in Writer, FlushStep(w) PROVE CommitInv'
  <2>1. CASE FlushLock(w)
    BY <1>1, <2>1, CommitLock
  <2>2. CASE RotateShift(w) \/ RotateGzip(w) \/ RotateTruncate(w)
    BY <1>1, <2>2, CommitRotate
  <2>3. CASE WriteLine(w)
    BY <1>1, <2>3, CommitWriteLine
  <2>4. CASE CommitCopy(w)
    BY <2>4, CommitCall
  <2>5. CASE FlushEnd(w)
    BY <2>5, CommitEnd
  <2> QED
    BY <1>4, <2>1, <2>2, <2>3, <2>4, <2>5 DEF FlushStep
<1>5. CASE ToDevFile \/ ToMainLog
  BY <1>5, CommitNamed
<1>6. CASE Crash
  <2>1. /\ stack' = [w \in Writer |-> <<>>] /\ acked' = [l \in Log |-> {}]
    BY <1>6 DEF Crash
  <2>2. \A w \in Writer : Len(stack'[w]) = 0
    BY <2>1
  <2>3. \A l \in FileLog : acked'[l] = {}
    BY <2>1 DEF FileLog, Log
  <2> QED
    BY <2>2, <2>3, SMT DEF CommitInv
<1> QED
  BY <1>2, <1>3, <1>4, <1>5, <1>6 DEF Next

-----------------------------------------------------------------------------
(* Theorems.                                                               *)

\* Lines that were written are on disk until their time is over, for any number
\* of goroutines, rotations, backups and crashes.
THEOREM LinesKeptTheorem == Spec => []LinesKept
<1>1. Init => BackupInv
  BY DEF Init, BackupInv
<1>2. CallInv /\ BackupInv => LinesKept
  <2> SUFFICES ASSUME CallInv, BackupInv, NEW b \in born, rot[b.log] - b.rot <= MaxBackup
               PROVE  b.line \in OnDisk(b.log)
    BY DEF LinesKept
  <2>1. b.log \in FileLog /\ DOMAIN backup[b.log] = 0..MaxBackup - 1
    BY DEF CallInv, TypeInv, Born
  <2>2. b.line \in Range(file[b.log]) \/ \E j \in 0..Age(b) - 1 : InBackup(b, j)
    BY DEF BackupInv, Kept, Age
  <2>3. CASE b.line \in Range(file[b.log])
    BY <2>3 DEF OnDisk
  <2>4. ASSUME NEW j, InBackup(b, j) PROVE b.line \in OnDisk(b.log)
    BY <2>1, <2>4 DEF OnDisk, InBackup
  <2> QED
    BY <2>2, <2>3, <2>4
<1>3. CallInv /\ BackupInv /\ [Next]_vars => BackupInv'
  BY PicksHolds, BackupStep, ZenonT(30)
<1> QED
  BY <1>1, <1>2, <1>3, LoggerInvariant, PTL DEF Spec

\* When Commit returns, or a line was added to the root message, the lines of
\* the message are in the file, whoever flushed them, however many goroutines
\* log, and whether the device got a name meanwhile or its messages went to the
\* main log.
THEOREM CommitWrittenTheorem == Spec => []CommitWritten
<1>1. Init => CommitInv
  <2> SUFFICES ASSUME Init PROVE CommitInv
    OBVIOUS
  <2>1. \A w \in Writer : Len(stack[w]) = 0
    BY DEF Init
  <2>2. \A l \in FileLog : acked[l] = {}
    BY DEF Init, FileLog, Log
  <2> QED
    BY <2>1, <2>2, SMTT(30) DEF CommitInv
<1>2. CallInv /\ CommitInv => CommitWritten
  <2> SUFFICES ASSUME CallInv, CommitInv, NEW l \in FileLog, NEW x \in acked[l]
               PROVE  \/ x.level \notin Levels(l) \/ Written(l, x) \/ l \in failed
                      \/ x \in Range(root[l]) /\ (mode[l] = "none" \/ stack[Initializer] # <<>>)
                      \/ /\ mode[l] = "discard"
                         /\ \/ x.level \notin Levels("main") \/ "main" \in failed
                            \/ Written("main", [x EXCEPT !.via = l])
    BY DEF CommitWritten
  <2>1. Acked(l, x)
    BY DEF CommitInv
  <2>2. [x EXCEPT !.via = l].level = x.level
    <3>1. x \in Lines
      BY DEF CallInv, TypeInv, FileLog, Log
    <3> QED
      BY <3>1 DEF Lines
  <2> QED
    BY <2>1, <2>2 DEF Acked, Handled, Settled, Buffering
<1>3. CallInv /\ CommitInv /\ [Next]_vars => CommitInv'
  BY PicksHolds, CommitStep
<1> QED
  BY <1>1, <1>2, <1>3, LoggerInvariant, PTL DEF Spec
=============================================================================
