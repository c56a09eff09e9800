---------------------------- MODULE LoggerProofs ----------------------------
(***************************************************************************)
(* The calls of the loggers, with any number of goroutines, messages,      *)
(* backups and crashes: they hold the locks they need, and do not block    *)
(* each other.  LoggerDiskProofs and LoggerWholeProofs build on this.      *)
(***************************************************************************)
EXTENDS Logger, TLAPS

\* Leaves that need arithmetic, or sequences, cite SMT.
USE Zenon

-----------------------------------------------------------------------------
(* The invariants.                                                         *)

Lines == [msg : Nat, i : Nat, level : {"debug", "trace"}, via : Log \cup {"none"}]

Phase == {"lock", "shift", "gzip", "truncate", "write"}

Frame == [log : Log, lines : Seq(Lines), isRoot : BOOLEAN, phase : Phase, i : Nat,
          mine : SUBSET Lines]

Born == [log : FileLog, line : Lines, rot : Nat]

TypeInv ==
  /\ lock \in [Log -> Writer \cup {NoWriter}]
  /\ root \in [Log -> Seq(Lines)]
  /\ stack \in [Writer -> Seq(Frame)]
  /\ file \in [FileLog -> Seq(Lines)]
  /\ backup \in [FileLog -> [0..MaxBackup - 1 -> Seq(Lines)]]
  /\ console \in Seq(Lines)
  /\ msgs \in Nat
  /\ rot \in [FileLog -> Nat]
  /\ born \subseteq Born
  /\ failed \subseteq FileLog
  /\ acked \in [Log -> SUBSET Lines]

\* How a logger is set up: buffering, writing to a file that is opened on
\* demand, or discarding, with the main log for copies.
ConfInv ==
  /\ mode \in [Log -> {"none", "file", "discard", "console"}]
  /\ out \in [Log -> {"nil", "file", "nilfile", "stream"}]
  /\ cc \in [Log -> Seq(Log)]
  /\ mode["console"] = "console" /\ out["console"] = "stream" /\ cc["console"] = <<>>
  /\ mode["main"] = "file" /\ out["main"] # "stream" /\ cc["main"] = <<"console">>
  /\ mode["dev"] # "console"
  /\ mode["dev"] = "none" => out["dev"] = "nil"
  /\ mode["dev"] = "file" => out["dev"] # "stream"
  /\ mode["dev"] = "discard" => out["dev"] = "stream"
  /\ cc["dev"] = IF mode["dev"] = "discard" THEN <<"console", "main">> ELSE <<"console">>
  /\ \A l \in FileLog : out[l] = "nilfile" => l \in failed

\* The order in which locks are taken: a logger copies to those below it.
Above(l, k) == <<l, k>> \in {<<"dev", "main">>, <<"dev", "console">>, <<"main", "console">>}

\* What a call of goroutine w holds, how far it is, and who made it.
FrameInv(w, f) ==
  /\ f.phase # "lock" => lock[f.log] = w
  /\ f.phase = "write" => f.i <= Len(Output(f.log)) + Len(cc[f.log])
  /\ f.phase \in {"shift", "gzip", "truncate"} => f.log \in FileLog
  /\ f.phase = "shift" => f.i < MaxBackup
  /\ f.phase = "gzip" => MaxBackup > 0
  /\ f.log = "dev" /\ mode["dev"] = "none" => w = Initializer
  /\ f.isRoot => f.lines = <<>>

\* Only the innermost call of a goroutine waits for a lock; the others wait
\* for a copy to be committed, to a logger below theirs.
StackOf(w) ==
  \A p \in 1..Len(stack[w]) :
    /\ FrameInv(w, stack[w][p])
    /\ p > 1 => /\ stack[w][p].phase = "write"
                /\ stack[w][p].i > Len(Output(stack[w][p].log))
    /\ \A q \in 1..p - 1 : Above(stack[w][p].log, stack[w][q].log)

StackInv == \A w \in Writer : StackOf(w)

\* A lock that is held is held by a call that goes on.
LockInv ==
  \A l \in Log : lock[l] # NoWriter =>
    \E p \in 1..Len(stack[lock[l]]) :
      stack[lock[l]][p].log = l /\ stack[lock[l]][p].phase # "lock"

CallInv == TypeInv /\ ConfInv /\ StackInv /\ LockInv

-----------------------------------------------------------------------------
(* What OfLevels computes.                                                 *)

\* OfLevels picks the lines of some levels, and does not tear messages apart.
\* This is proved last, by induction.
Picks ==
  \A s \in Seq(Lines) : \A levels :
    /\ OfLevels(s, levels) \in Seq(Lines)
    /\ \A x : x \in Range(OfLevels(s, levels)) <=> x \in Range(s) /\ x.level \in levels
    /\ s = <<>> => OfLevels(s, levels) = <<>>
    /\ Whole(s) => Whole(OfLevels(s, levels))

\* The same, for one sequence.
LEMMA OfLevelsPicks ==
  ASSUME Picks, NEW s \in Seq(Lines), NEW levels
  PROVE  /\ OfLevels(s, levels) \in Seq(Lines)
         /\ \A x : x \in Range(OfLevels(s, levels)) <=> x \in Range(s) /\ x.level \in levels
         /\ s = <<>> => OfLevels(s, levels) = <<>>
         /\ Whole(s) => Whole(OfLevels(s, levels))
BY DEF Picks

-----------------------------------------------------------------------------
(* The calls.                                                              *)

\* The innermost call, and the ones below it.
LEMMA HeadAndTail ==
  ASSUME NEW s \in Seq(Frame), s # <<>>
  PROVE  /\ Head(s) = s[1] /\ s[1] \in Frame /\ Len(s) \in Nat /\ Len(s) > 0
         /\ Tail(s) \in Seq(Frame) /\ Len(Tail(s)) = Len(s) - 1
         /\ \A p \in 1..Len(s) - 1 : Tail(s)[p] = s[p + 1]
BY SMT

\* The innermost call is replaced.
LEMMA ReplaceHead ==
  ASSUME NEW s \in Seq(Frame), s # <<>>, NEW g \in Frame
  PROVE  /\ <<g>> \o Tail(s) \in Seq(Frame)
         /\ Len(<<g>> \o Tail(s)) = Len(s)
         /\ (<<g>> \o Tail(s))[1] = g
         /\ \A p \in 2..Len(s) : (<<g>> \o Tail(s))[p] = s[p]
<1>1. Tail(s) \in Seq(Frame) /\ Len(Tail(s)) = Len(s) - 1 /\ Len(s) \in Nat /\ Len(s) > 0
  BY SMT
<1>2. \A p \in 1..Len(s) - 1 : Tail(s)[p] = s[p + 1]
  BY SMT
<1>3. <<g>> \in Seq(Frame) /\ Len(<<g>>) = 1 /\ <<g>>[1] = g
  BY SMT
<1>4. ASSUME NEW p \in 2..Len(s) PROVE (<<g>> \o Tail(s))[p] = s[p]
  <2>1. (<<g>> \o Tail(s))[p] = Tail(s)[p - 1]
    BY <1>1, <1>3, SMT
  <2>2. p - 1 \in 1..Len(s) - 1 /\ (p - 1) + 1 = p
    BY <1>1, SMT
  <2> QED
    BY <1>2, <2>1, <2>2
<1> QED
  BY <1>1, <1>3, <1>4, SMT

\* The innermost call makes another one.
LEMMA CallFromHead ==
  ASSUME NEW s \in Seq(Frame), s # <<>>, NEW f \in Frame, NEW g \in Frame
  PROVE  /\ <<f, g>> \o Tail(s) \in Seq(Frame)
         /\ Len(<<f, g>> \o Tail(s)) = Len(s) + 1
         /\ (<<f, g>> \o Tail(s))[1] = f
         /\ (<<f, g>> \o Tail(s))[2] = g
         /\ \A p \in 2..Len(s) : (<<f, g>> \o Tail(s))[p + 1] = s[p]
<1>1. Tail(s) \in Seq(Frame) /\ Len(Tail(s)) = Len(s) - 1 /\ Len(s) \in Nat /\ Len(s) > 0
  BY SMT
<1>2. \A p \in 1..Len(s) - 1 : Tail(s)[p] = s[p + 1]
  BY SMT
<1>3. <<f, g>> \in Seq(Frame) /\ Len(<<f, g>>) = 2 /\ <<f, g>>[1] = f /\ <<f, g>>[2] = g
  BY SMT
<1>4. ASSUME NEW p \in 2..Len(s) PROVE (<<f, g>> \o Tail(s))[p + 1] = s[p]
  <2>1. (<<f, g>> \o Tail(s))[p + 1] = Tail(s)[p - 1]
    BY <1>1, <1>3, SMT
  <2>2. p - 1 \in 1..Len(s) - 1 /\ (p - 1) + 1 = p
    BY <1>1, SMT
  <2> QED
    BY <1>2, <2>1, <2>2
<1> QED
  BY <1>1, <1>3, <1>4, SMT

\* A logger does not copy to itself.
LEMMA AboveOther ==
  ASSUME NEW a, NEW b, Above(a, b)
  PROVE  a # b
<1>1. (a = "dev" /\ b = "main") \/ (a = "dev" /\ b = "console") \/ (a = "main" /\ b = "console")
  BY DEF Above
<1> QED
  BY <1>1

\* Own output of a logger is a sequence of lines.
LEMMA OutputType ==
  ASSUME Picks, TypeInv, NEW l \in Log
  PROVE  Output(l) \in Seq(Lines) /\ Len(Output(l)) \in Nat
<1>1. root[l] \in Seq(Lines)
  BY DEF TypeInv
<1>2. Output(l) \in Seq(Lines)
  BY <1>1, OfLevelsPicks DEF Output
<1> QED
  BY <1>2, SMT

\* Its output comes before its copies.
LEMMA WriteFits ==
  ASSUME Picks, CallInv, NEW l \in Log
  PROVE  /\ Len(cc[l]) \in Nat
         /\ 0 <= Len(Output(l)) + Len(cc[l])
         /\ \A n \in Nat : n <= Len(Output(l)) => n <= Len(Output(l)) + Len(cc[l])
<1> DEFINE a == Len(Output(l))  b == Len(cc[l])
<1>1. a \in Nat
  BY OutputType DEF CallInv
<1>2. b \in Nat
  <2>1. cc[l] \in Seq(Log)
    BY DEF CallInv, ConfInv
  <2> QED
    BY <2>1, SMT
<1> HIDE DEF a, b
<1>3. 0 <= a + b /\ \A n \in Nat : n <= a => n <= a + b
  BY <1>1, <1>2, SMT
<1> QED
  BY <1>2, <1>3 DEF a, b

\* The other goroutines, whose calls stay as they are: nobody changes what they
\* hold the lock of.
LEMMA OthersKept ==
  ASSUME Picks, CallInv, NEW v \in Writer, stack'[v] = stack[v],
         \A l \in Log : lock[l] = v => lock'[l] = v /\ root'[l] = root[l],
         \A l \in Log : cc'[l] \in Seq(Log) /\ Len(cc'[l]) >= Len(cc[l]),
         mode'["dev"] = "none" => mode["dev"] = "none"
  PROVE  StackOf(v)'
<1> SUFFICES ASSUME NEW p \in 1..Len(stack[v])
             PROVE  /\ FrameInv(v, stack[v][p])'
                    /\ p > 1 => /\ stack'[v][p].phase = "write"
                                /\ stack'[v][p].i > Len(Output(stack[v][p].log))'
                    /\ \A q \in 1..p - 1 : Above(stack'[v][p].log, stack'[v][q].log)
  BY DEF StackOf, Above
<1> DEFINE f == stack[v][p]
<1>1. f \in Frame /\ f = stack'[v][p]
  BY SMT DEF CallInv, TypeInv
<1>2. /\ FrameInv(v, f)
      /\ p > 1 => f.phase = "write" /\ f.i > Len(Output(f.log))
      /\ \A q \in 1..p - 1 : Above(f.log, stack[v][q].log)
  BY DEF CallInv, StackInv, StackOf
<1>3. f.log \in Log /\ f.i \in Nat
  BY <1>1 DEF Frame
<1>4. f.phase # "lock" => lock[f.log] = v /\ lock'[f.log] = v /\ root'[f.log] = root[f.log]
  BY <1>2, <1>3 DEF FrameInv
<1>5. f.phase # "lock" => Output(f.log)' = Output(f.log)
  BY <1>1, <1>4 DEF Output
<1>6. f.phase = "write" =>
        f.i <= Len(Output(f.log)) + Len(cc'[f.log])
  <2>1. cc[f.log] \in Seq(Log) /\ cc'[f.log] \in Seq(Log)
    BY <1>3 DEF CallInv, ConfInv
  <2>2. Len(cc[f.log]) \in Nat /\ Len(cc'[f.log]) \in Nat /\ Len(Output(f.log)) \in Nat
    BY <1>3, <2>1, OutputType, SMT DEF CallInv
  <2>3. Len(cc[f.log]) <= Len(cc'[f.log])
    BY <1>3, <2>2
  <2>4. f.phase = "write" => f.i <= Len(Output(f.log)) + Len(cc[f.log])
    BY <1>2 DEF FrameInv
  <2> DEFINE n == Len(Output(f.log))  c == Len(cc[f.log])  d == Len(cc'[f.log])  i == f.i
  <2>5. i \in Nat /\ n \in Nat /\ c \in Nat /\ d \in Nat /\ c <= d
    BY <1>3, <2>2, <2>3
  <2>6. i <= n + c => i <= n + d
    <3> HIDE DEF n, c, d, i
    <3> QED
      BY <2>5, SMT
  <2> QED
    BY <2>4, <2>6
<1>7. FrameInv(v, stack[v][p])'
  BY <1>1, <1>2, <1>4, <1>5, <1>6 DEF FrameInv
<1> QED
  BY <1>1, <1>2, <1>5, <1>7

\* What is known of the innermost call from its type.
LEMMA TopFacts ==
  ASSUME TypeInv, NEW w \in Writer, stack[w] # <<>>
  PROVE  /\ stack[w] \in Seq(Frame) /\ Len(stack[w]) \in Nat /\ Len(stack[w]) > 0
         /\ 1 \in 1..Len(stack[w])
         /\ Top(w) = stack[w][1] /\ Top(w) \in Frame
         /\ Top(w).log \in Log /\ Top(w).lines \in Seq(Lines) /\ Top(w).isRoot \in BOOLEAN
         /\ Top(w).phase \in Phase /\ Top(w).i \in Nat /\ Top(w).mine \in SUBSET Lines
<1>1. stack[w] \in Seq(Frame)
  BY DEF TypeInv
<1>2. /\ Head(stack[w]) = stack[w][1] /\ stack[w][1] \in Frame
      /\ Len(stack[w]) \in Nat /\ Len(stack[w]) > 0
  BY <1>1, HeadAndTail
<1>3. Top(w) \in Frame
  BY <1>2 DEF Top
<1>4. /\ Top(w).log \in Log /\ Top(w).lines \in Seq(Lines) /\ Top(w).isRoot \in BOOLEAN
      /\ Top(w).phase \in Phase /\ Top(w).i \in Nat /\ Top(w).mine \in SUBSET Lines
  BY <1>3 DEF Frame
<1>5. 1 \in 1..Len(stack[w])
  BY <1>2, SMT
<1> QED
  BY <1>1, <1>2, <1>3, <1>4, <1>5 DEF Top

\* A step of a Flush changes nothing but the logger it is about, and that only
\* with the lock.
Local(w) ==
  /\ \A l \in Log \ {Top(w).log} : lock'[l] = lock[l] /\ root'[l] = root[l]
  /\ lock[Top(w).log] \in {w, NoWriter}
  /\ \A v \in Writer \ {w} : stack'[v] = stack[v]
  /\ cc' = cc /\ mode' = mode

\* Such a step keeps the calls of other goroutines, ...
LEMMA LocalOthers ==
  ASSUME Picks, CallInv, NEW w \in Writer, stack[w] # <<>>, Local(w), NEW v \in Writer \ {w}
  PROVE  StackOf(v)'
<1>1. NoWriter \notin Writer
  BY LoggerAssumption
<1>2. \A l \in Log : lock[l] = v => lock'[l] = v /\ root'[l] = root[l]
  BY <1>1, ZenonT(30) DEF Local
<1>3. \A l \in Log : cc'[l] \in Seq(Log) /\ Len(cc'[l]) >= Len(cc[l])
  <2>1. \A l \in Log : cc'[l] = cc[l] /\ cc[l] \in Seq(Log) /\ Len(cc[l]) \in Nat
    BY SMT DEF Local, CallInv, ConfInv
  <2> QED
    BY <2>1, SMT
<1> QED
  BY <1>2, <1>3, OthersKept DEF Local

\* ... and the outer calls of its own, wherever they are on the stack.
LEMMA LocalOuter ==
  ASSUME CallInv, NEW w \in Writer, stack[w] # <<>>, Local(w),
         NEW p \in 2..Len(stack[w]), NEW q \in 1..Len(stack'[w]),
         stack'[w][q] = stack[w][p]
  PROVE  /\ FrameInv(w, stack[w][q])'
         /\ stack'[w][q].phase = "write"
         /\ stack'[w][q].i > Len(Output(stack[w][q].log))'
         /\ Above(stack'[w][q].log, Top(w).log)
<1> DEFINE f == stack[w][p]
<1>1. stack[w] \in Seq(Frame) /\ Len(stack[w]) \in Nat
  BY SMT DEF CallInv, TypeInv
<1>2. f \in Frame /\ p \in 1..Len(stack[w]) /\ p > 1 /\ 1 \in 1..p - 1
  BY <1>1, SMT
<1>3. /\ FrameInv(w, f)
      /\ f.phase = "write" /\ f.i > Len(Output(f.log))
      /\ Above(f.log, stack[w][1].log)
  BY <1>2 DEF CallInv, StackInv, StackOf
<1>4. Top(w) = stack[w][1]
  BY <1>1, SMT DEF Top
<1>5. f.log \in Log /\ f.log # Top(w).log
  BY <1>2, <1>3, <1>4 DEF Frame, Above
<1>6. /\ lock'[f.log] = lock[f.log] /\ root'[f.log] = root[f.log]
      /\ cc'[f.log] = cc[f.log] /\ mode' = mode
  BY <1>5 DEF Local
<1>7. f = stack'[w][q]
  OBVIOUS
<1>8. Output(stack[w][q].log)' = Output(f.log)
  BY <1>6, <1>7 DEF Output
<1> HIDE DEF f
<1>9. FrameInv(w, stack[w][q])'
  BY <1>3, <1>6, <1>7, <1>8 DEF FrameInv
<1> QED
  BY <1>3, <1>4, <1>7, <1>8, <1>9

\* The innermost call goes on.
LEMMA GotoKeeps ==
  ASSUME Picks, CallInv, NEW w \in Writer, stack[w] # <<>>, Local(w),
         stack'[w] \in Seq(Frame), Len(stack'[w]) = Len(stack[w]),
         \A p \in 2..Len(stack[w]) : stack'[w][p] = stack[w][p],
         stack'[w][1].log = Top(w).log, stack'[w][1].phase # "lock",
         FrameInv(w, stack[w][1])'
  PROVE  StackInv' /\ LockInv'
<1>1. /\ stack[w] \in Seq(Frame) /\ Len(stack[w]) \in Nat /\ Len(stack[w]) > 0
      /\ Top(w) = stack[w][1] /\ Top(w) \in Frame /\ Top(w).log \in Log
  BY TopFacts DEF CallInv
<1>2. StackOf(w)'
  <2> SUFFICES ASSUME NEW p \in 1..Len(stack'[w])
               PROVE  /\ FrameInv(w, stack[w][p])'
                      /\ p > 1 => /\ stack'[w][p].phase = "write"
                                  /\ stack'[w][p].i > Len(Output(stack[w][p].log))'
                      /\ \A q \in 1..p - 1 : Above(stack'[w][p].log, stack'[w][q].log)
    BY DEF StackOf, Above
  <2>1. CASE p = 1
    BY <2>1, SMT
  <2>2. CASE p > 1
    <3>1. p \in 2..Len(stack[w]) /\ stack'[w][p] = stack[w][p]
      BY <1>1, <2>2, SMT
    <3>2. /\ FrameInv(w, stack[w][p])'
          /\ stack'[w][p].phase = "write"
          /\ stack'[w][p].i > Len(Output(stack[w][p].log))'
          /\ Above(stack'[w][p].log, Top(w).log)
      BY <3>1, LocalOuter
    <3>3. ASSUME NEW q \in 1..p - 1 PROVE Above(stack'[w][p].log, stack'[w][q].log)
      <4>1. CASE q = 1
        BY <3>2, <4>1
      <4>2. CASE q > 1
        <5>1. q \in 2..Len(stack[w]) /\ p \in 1..Len(stack[w])
          BY <1>1, <3>1, <4>2, SMT
        <5>2. Above(stack[w][p].log, stack[w][q].log)
          BY <5>1 DEF CallInv, StackInv, StackOf
        <5> QED
          BY <3>1, <5>1, <5>2
      <4> QED
        BY <3>1, <4>1, <4>2, SMT
    <3> QED
      BY <3>2, <3>3
  <2> QED
    BY <1>1, <2>1, <2>2, SMT
<1>3. StackInv'
  BY <1>2, LocalOthers DEF StackInv
<1>4. ASSUME NEW l \in Log, lock'[l] # NoWriter
      PROVE  \E p \in 1..Len(stack'[lock'[l]]) :
               stack'[lock'[l]][p].log = l /\ stack'[lock'[l]][p].phase # "lock"
  <2>1. CASE l = Top(w).log
    <3>1. lock'[l] = w
      BY <2>1 DEF FrameInv
    <3>2. 1 \in 1..Len(stack'[w])
      BY <1>1, SMT
    <3> QED
      BY <2>1, <3>1, <3>2
  <2>2. CASE l # Top(w).log
    <3>1. lock'[l] = lock[l] /\ lock[l] \in Writer
      BY <1>4, <2>2 DEF Local, CallInv, TypeInv
    <3>2. PICK p \in 1..Len(stack[lock[l]]) :
            stack[lock[l]][p].log = l /\ stack[lock[l]][p].phase # "lock"
      BY <1>4, <3>1 DEF CallInv, LockInv
    <3>3. CASE lock[l] = w
      <4>1. p # 1
        BY <1>1, <2>2, <3>2, <3>3
      <4>2. p \in 2..Len(stack[w])
        BY <1>1, <3>2, <3>3, <4>1, SMT
      <4> QED
        BY <3>1, <3>2, <3>3, <4>2, SMT
    <3>4. CASE lock[l] # w
      <4>1. stack'[lock[l]] = stack[lock[l]]
        BY <3>1, <3>4 DEF Local
      <4> QED
        BY <3>1, <3>2, <4>1
    <3> QED
      BY <3>3, <3>4
  <2> QED
    BY <2>1, <2>2
<1> QED
  BY <1>3, <1>4 DEF LockInv

\* The innermost call returns.
LEMMA PopKeeps ==
  ASSUME Picks, CallInv, NEW w \in Writer, stack[w] # <<>>, Local(w),
         lock'[Top(w).log] = NoWriter, stack'[w] = Tail(stack[w])
  PROVE  StackInv' /\ LockInv'
<1>1. /\ stack[w] \in Seq(Frame) /\ Len(stack[w]) \in Nat /\ Len(stack[w]) > 0
      /\ Top(w) = stack[w][1] /\ Top(w) \in Frame /\ Top(w).log \in Log
  BY TopFacts DEF CallInv
<1>0. /\ Len(stack'[w]) = Len(stack[w]) - 1
      /\ \A p \in 1..Len(stack[w]) - 1 : stack'[w][p] = stack[w][p + 1]
  BY <1>1, HeadAndTail
<1>2. StackOf(w)'
  <2> SUFFICES ASSUME NEW p \in 1..Len(stack'[w])
               PROVE  /\ FrameInv(w, stack[w][p])'
                      /\ p > 1 => /\ stack'[w][p].phase = "write"
                                  /\ stack'[w][p].i > Len(Output(stack[w][p].log))'
                      /\ \A q \in 1..p - 1 : Above(stack'[w][p].log, stack'[w][q].log)
    BY DEF StackOf, Above
  <2>1. p + 1 \in 2..Len(stack[w]) /\ stack'[w][p] = stack[w][p + 1]
    BY <1>0, <1>1, SMT
  <2>2. /\ FrameInv(w, stack[w][p])'
        /\ stack'[w][p].phase = "write"
        /\ stack'[w][p].i > Len(Output(stack[w][p].log))'
    BY <2>1, LocalOuter
  <2>3. ASSUME NEW q \in 1..p - 1 PROVE Above(stack'[w][p].log, stack'[w][q].log)
    <3>1. /\ q + 1 \in 1..(p + 1) - 1 /\ p + 1 \in 1..Len(stack[w])
          /\ stack'[w][q] = stack[w][q + 1]
      BY <1>0, <1>1, <2>1, SMT
    <3>2. Above(stack[w][p + 1].log, stack[w][q + 1].log)
      BY <3>1 DEF CallInv, StackInv, StackOf
    <3> QED
      BY <2>1, <3>1, <3>2
  <2> QED
    BY <2>2, <2>3
<1>3. StackInv'
  BY <1>2, LocalOthers DEF StackInv
<1>4. ASSUME NEW l \in Log, lock'[l] # NoWriter
      PROVE  \E p \in 1..Len(stack'[lock'[l]]) :
               stack'[lock'[l]][p].log = l /\ stack'[lock'[l]][p].phase # "lock"
  <2>2. l # Top(w).log
    BY <1>4
  <2>3. lock'[l] = lock[l] /\ lock[l] \in Writer
    BY <1>4, <2>2 DEF Local, CallInv, TypeInv
  <2>4. PICK p \in 1..Len(stack[lock[l]]) :
          stack[lock[l]][p].log = l /\ stack[lock[l]][p].phase # "lock"
    BY <1>4, <2>3 DEF CallInv, LockInv
  <2>5. CASE lock[l] = w
    <3>1. p # 1
      BY <1>1, <2>2, <2>4, <2>5
    <3>2. p - 1 \in 1..Len(stack[w]) - 1 /\ (p - 1) + 1 = p
      BY <1>1, <2>4, <2>5, <3>1, SMT
    <3>3. stack'[w][p - 1] = stack[w][p] /\ p - 1 \in 1..Len(stack'[w])
      BY <1>0, <3>2
    <3> QED
      BY <2>3, <2>4, <2>5, <3>3
  <2>6. CASE lock[l] # w
    <3>1. stack'[lock[l]] = stack[lock[l]]
      BY <2>3, <2>6 DEF Local
    <3> QED
      BY <2>3, <2>4, <3>1
  <2> QED
    BY <2>5, <2>6
<1> QED
  BY <1>3, <1>4 DEF LockInv

\* The lock of the innermost call, once it has it.
LEMMA TopHolds ==
  ASSUME CallInv, NEW w \in Writer, stack[w] # <<>>, Top(w).phase # "lock"
  PROVE  lock[Top(w).log] = w
<1>1. 1 \in 1..Len(stack[w]) /\ Top(w) = stack[w][1]
  BY TopFacts DEF CallInv
<1>2. FrameInv(w, stack[w][1])
  BY <1>1 DEF CallInv, StackInv, StackOf
<1> QED
  BY <1>1, <1>2 DEF FrameInv

\* What Goto does to the stack.
Gone(w, ph, n) ==
  /\ stack' \in [Writer -> Seq(Frame)]
  /\ stack'[w] # <<>> /\ Len(stack'[w]) = Len(stack[w])
  /\ \A p \in 2..Len(stack[w]) : stack'[w][p] = stack[w][p]
  /\ stack'[w][1] \in Frame
  /\ stack'[w][1].phase = ph /\ stack'[w][1].i = n
  /\ stack'[w][1].log = Top(w).log /\ stack'[w][1].lines = Top(w).lines
  /\ stack'[w][1].isRoot = Top(w).isRoot /\ stack'[w][1].mine = Top(w).mine
  /\ \A v \in Writer \ {w} : stack'[v] = stack[v]

\* It replaces the innermost call.
LEMMA GotoStack ==
  ASSUME TypeInv, NEW w \in Writer, stack[w] # <<>>, NEW ph \in Phase, NEW n \in Nat,
         Goto(w, ph, n)
  PROVE  Gone(w, ph, n)
<1> DEFINE g == [Top(w) EXCEPT !.phase = ph, !.i = n]
<1>1. stack[w] \in Seq(Frame) /\ Top(w) \in Frame /\ Len(stack[w]) > 0
  BY TopFacts
<1>2. /\ g \in Frame /\ g.phase = ph /\ g.i = n /\ g.log = Top(w).log
      /\ g.lines = Top(w).lines /\ g.isRoot = Top(w).isRoot /\ g.mine = Top(w).mine
  BY <1>1 DEF Frame
<1>3. stack' = [stack EXCEPT ![w] = <<g>> \o Tail(stack[w])]
  BY DEF Goto, Top
<1> HIDE DEF g
<1>4. /\ <<g>> \o Tail(stack[w]) \in Seq(Frame)
      /\ Len(<<g>> \o Tail(stack[w])) = Len(stack[w])
      /\ (<<g>> \o Tail(stack[w]))[1] = g
      /\ \A p \in 2..Len(stack[w]) : (<<g>> \o Tail(stack[w]))[p] = stack[w][p]
  BY <1>1, <1>2, ReplaceHead
<1>5. stack' \in [Writer -> Seq(Frame)] /\ stack'[w] = <<g>> \o Tail(stack[w])
  BY <1>3, <1>4 DEF TypeInv
<1>6. \A v \in Writer \ {w} : stack'[v] = stack[v]
  BY <1>3 DEF TypeInv
<1>7. stack'[w] # <<>>
  BY <1>1, <1>4, <1>5, SMT
<1> QED
  BY <1>2, <1>4, <1>5, <1>6, <1>7 DEF Gone

\* What Return does to the stack.
LEMMA ReturnStack ==
  ASSUME TypeInv, NEW w \in Writer, stack[w] # <<>>, Return(w)
  PROVE  /\ stack' \in [Writer -> Seq(Frame)]
         /\ stack'[w] = Tail(stack[w])
         /\ \A v \in Writer \ {w} : stack'[v] = stack[v]
         /\ acked' \in [Log -> SUBSET Lines]
         /\ acked'[Top(w).log] = acked[Top(w).log] \cup Top(w).mine
         /\ \A l \in Log \ {Top(w).log} : acked'[l] = acked[l]
<1>1. /\ stack[w] \in Seq(Frame) /\ Top(w).log \in Log /\ Top(w).mine \in SUBSET Lines
  BY TopFacts
<1>2. Tail(stack[w]) \in Seq(Frame)
  BY <1>1, HeadAndTail
<1>3. /\ stack' \in [Writer -> Seq(Frame)] /\ stack'[w] = Tail(stack[w])
      /\ \A v \in Writer \ {w} : stack'[v] = stack[v]
  BY <1>2 DEF TypeInv, Return
<1>4. /\ acked' \in [Log -> SUBSET Lines]
      /\ acked'[Top(w).log] = acked[Top(w).log] \cup Top(w).mine
      /\ \A l \in Log \ {Top(w).log} : acked'[l] = acked[l]
  BY <1>1 DEF TypeInv, Return
<1> QED
  BY <1>3, <1>4

\* A goroutine that has no calls makes one.
LEMMA PushKeeps ==
  ASSUME Picks, CallInv, NEW w \in Writer, stack[w] = <<>>, NEW f \in Frame, f.phase = "lock",
         stack' = [stack EXCEPT ![w] = <<f>>], lock' = lock,
         \A l \in Log : lock[l] # NoWriter => root'[l] = root[l],
         \A l \in Log : cc'[l] \in Seq(Log) /\ Len(cc'[l]) >= Len(cc[l]),
         mode'["dev"] = "none" => mode["dev"] = "none",
         f.log = "dev" /\ mode'["dev"] = "none" => w = Initializer,
         f.isRoot => f.lines = <<>>
  PROVE  stack' \in [Writer -> Seq(Frame)] /\ StackInv' /\ LockInv'
<1>1. stack \in [Writer -> Seq(Frame)] /\ NoWriter \notin Writer
  BY LoggerAssumption DEF CallInv, TypeInv
<1>2. /\ stack' \in [Writer -> Seq(Frame)] /\ stack'[w] = <<f>>
      /\ \A v \in Writer \ {w} : stack'[v] = stack[v]
  BY <1>1, SMT
<1>3. Len(stack'[w]) = 1 /\ stack'[w][1] = f
  BY <1>2
<1>4. FrameInv(w, stack[w][1])'
  BY <1>3 DEF FrameInv
<1>5. StackOf(w)'
  <2>1. ASSUME NEW p \in 1..Len(stack'[w]) PROVE p = 1 /\ 1..p - 1 = {}
    BY <1>3, SMT
  <2> QED
    BY <1>4, <2>1, SMT DEF StackOf
<1>6. ASSUME NEW v \in Writer \ {w} PROVE StackOf(v)'
  <2>1. \A l \in Log : lock[l] = v => lock'[l] = v /\ root'[l] = root[l]
    BY <1>1
  <2> QED
    BY <1>2, <2>1, OthersKept
<1>7. StackInv'
  BY <1>5, <1>6 DEF StackInv
<1>8. ASSUME NEW l \in Log, lock'[l] # NoWriter
      PROVE  \E p \in 1..Len(stack'[lock'[l]]) :
               stack'[lock'[l]][p].log = l /\ stack'[lock'[l]][p].phase # "lock"
  <2>1. lock'[l] = lock[l] /\ lock[l] \in Writer
    BY <1>8 DEF CallInv, TypeInv
  <2>2. PICK p \in 1..Len(stack[lock[l]]) :
          stack[lock[l]][p].log = l /\ stack[lock[l]][p].phase # "lock"
    BY <1>8, <2>1 DEF CallInv, LockInv
  <2>3. lock[l] # w
    BY <2>2, SMT
  <2>4. stack'[lock[l]] = stack[lock[l]]
    BY <1>2, <2>1, <2>3
  <2> QED
    BY <2>1, <2>2, <2>4
<1> QED
  BY <1>2, <1>7, <1>8 DEF LockInv

\* The lines of a new message.
LEMMA MessageType ==
  ASSUME NEW m \in Nat, NEW k \in Seq({"debug", "trace"})
  PROVE  /\ Message(m, k) \in Seq(Lines) /\ Whole(Message(m, k))
         /\ \A x \in Range(Message(m, k)) : x.msg = m /\ x.via = "none"
<1>1. \A i \in 1..Len(k) :
        Line(m, k, i) \in Lines /\ Line(m, k, i).msg = m /\ Line(m, k, i).i = i
        /\ Line(m, k, i).via = "none"
  BY SMT DEF Line, Lines, Log
<1>2. Message(m, k) \in Seq(Lines) /\ Len(Message(m, k)) = Len(k)
  BY <1>1, SMT DEF Message
<1>3. DOMAIN Message(m, k) = 1..Len(k) /\ \A i \in 1..Len(k) : Message(m, k)[i] = Line(m, k, i)
  BY DEF Message
<1>4. Whole(Message(m, k))
  <2>1. Len(k) \in Nat
    BY SMT
  <2> QED
    BY <1>1, <1>3, <2>1, SMT DEF Whole
<1>5. \A x \in Range(Message(m, k)) : x.msg = m /\ x.via = "none"
  BY <1>1, <1>3, SMT DEF Range
<1> QED
  BY <1>2, <1>4, <1>5

\* Nothing is flushed at first.
LEMMA CallInit == Init => CallInv
<1> SUFFICES ASSUME Init PROVE CallInv
  OBVIOUS
<1>1. TypeInv
  BY LoggerAssumption, SMT DEF Init, TypeInv, Log, FileLog
<1>2. ConfInv
  <2>1. mode \in [Log -> {"none", "file", "discard", "console"}]
    BY SMT DEF Init, Log
  <2>2. out \in [Log -> {"nil", "file", "nilfile", "stream"}]
    BY SMT DEF Init, Log
  <2>3. cc \in [Log -> Seq(Log)]
    <3>1. <<"console">> \in Seq(Log) /\ <<>> \in Seq(Log)
      BY SMT DEF Log
    <3>2. DOMAIN cc = Log /\ \A l \in Log : cc[l] \in {<<"console">>, <<>>}
      BY SMT DEF Init, Log
    <3>3. cc = [l \in Log |-> cc[l]]
      BY <3>2 DEF Init, Log
    <3> QED
      BY <3>1, <3>2, <3>3
  <2>4. /\ mode["console"] = "console" /\ out["console"] = "stream"
        /\ mode["main"] = "file" /\ out["main"] # "stream"
        /\ mode["dev"] = "none" /\ out["dev"] = "nil"
    BY DEF Init
  <2>5. cc["console"] = <<>> /\ cc["main"] = <<"console">> /\ cc["dev"] = <<"console">>
    BY DEF Init
  <2>6. \A l \in FileLog : out[l] # "nilfile"
    BY SMT DEF Init, FileLog
  <2> QED
    BY <2>1, <2>2, <2>3, <2>4, <2>5, <2>6 DEF ConfInv
<1>3. \A w \in Writer : stack[w] = <<>> /\ 1..Len(stack[w]) = {}
  BY SMT DEF Init
<1>4. StackInv
  BY <1>3 DEF StackInv, StackOf
<1>5. LockInv
  BY DEF Init, LockInv
<1> QED
  BY <1>1, <1>2, <1>4, <1>5 DEF CallInv

\* A call that has the lock goes on.
LEMMA GotoHeld ==
  ASSUME Picks, CallInv, NEW w \in Writer, stack[w] # <<>>, Top(w).phase # "lock",
         NEW ph \in Phase \ {"lock"}, NEW n \in Nat, Goto(w, ph, n),
         mode' = mode, cc' = cc, lock' = lock, root' = root,
         ph = "write" => n <= Len(Output(Top(w).log)) + Len(cc[Top(w).log]),
         ph # "write" => Top(w).log \in FileLog,
         ph = "shift" => n < MaxBackup, ph = "gzip" => MaxBackup > 0
  PROVE  Local(w) /\ Gone(w, ph, n) /\ StackInv' /\ LockInv'
<1>1. /\ Top(w) = stack[w][1] /\ Top(w) \in Frame /\ Top(w).log \in Log
      /\ 1 \in 1..Len(stack[w])
  BY TopFacts DEF CallInv
<1>2. lock[Top(w).log] = w
  BY TopHolds
<1>10. Gone(w, ph, n)
  <2>1. TypeInv /\ ph \in Phase
    BY DEF CallInv
  <2> QED
    BY <2>1, GotoStack
<1>3. /\ stack' \in [Writer -> Seq(Frame)] /\ Len(stack'[w]) = Len(stack[w])
      /\ \A p \in 2..Len(stack[w]) : stack'[w][p] = stack[w][p]
      /\ stack'[w][1].phase = ph /\ stack'[w][1].i = n
      /\ stack'[w][1].log = Top(w).log /\ stack'[w][1].lines = Top(w).lines
      /\ stack'[w][1].isRoot = Top(w).isRoot
      /\ \A v \in Writer \ {w} : stack'[v] = stack[v]
  BY <1>10 DEF Gone
<1>4. Local(w)
  BY <1>2, <1>3 DEF Local
<1>5. FrameInv(w, Top(w))
  BY <1>1 DEF CallInv, StackInv, StackOf
<1>6. Output(stack[w][1].log)' = Output(Top(w).log)
  BY <1>3 DEF Output
<1>7. FrameInv(w, stack[w][1])'
  BY <1>2, <1>3, <1>5, <1>6 DEF FrameInv, Phase
<1>8. stack'[w] \in Seq(Frame) /\ stack'[w][1].phase # "lock"
  BY <1>3
<1>9. StackInv' /\ LockInv'
  BY <1>3, <1>4, <1>7, <1>8, GotoKeeps
<1> QED
  BY <1>4, <1>9, <1>10

\* Commit keeps the invariant: the call has lines of the new message.
LEMMA CallCommit ==
  ASSUME Picks, CallInv, NEW w \in Writer, NEW l \in FileLog, NEW k \in Kind, Commit(w, l, k)
  PROVE  CallInv'
<1> DEFINE ls == OfLevels(Message(msgs + 1, k), Levels(l) \cup Levels("console"))
           f == Flush(l, ls, FALSE, Range(ls))
<1>1. msgs + 1 \in Nat /\ k \in Seq({"debug", "trace"})
  BY LoggerAssumption, SMT DEF CallInv, TypeInv
<1>2. ls \in Seq(Lines)
  BY <1>1, MessageType, OfLevelsPicks
<1>3. stack' = [stack EXCEPT ![w] = <<f>>]
  BY DEF Commit
<1> HIDE DEF ls
<1>4. Range(ls) \in SUBSET Lines
  BY <1>2, SMT DEF Range
<1>5. f \in Frame /\ f.phase = "lock" /\ f.log = l /\ ~f.isRoot
  BY <1>2, <1>4 DEF Flush, Frame, Phase, Log, FileLog
<1> HIDE DEF f
<1>6. /\ UNCHANGED <<mode, out, cc, lock, root, file, backup, console, rot, born, failed, acked>>
      /\ msgs' = msgs + 1
      /\ l = "dev" /\ mode["dev"] = "none" => w = Initializer
      /\ stack[w] = <<>>
  BY DEF Commit, MayLog, diskVars, histVars
<1>7. \A h \in Log : cc'[h] \in Seq(Log) /\ Len(cc'[h]) >= Len(cc[h])
  <2>1. \A h \in Log : cc'[h] = cc[h] /\ cc[h] \in Seq(Log) /\ Len(cc[h]) \in Nat
    BY <1>6, SMT DEF CallInv, ConfInv
  <2> QED
    BY <2>1, SMT
<1>8. stack' \in [Writer -> Seq(Frame)] /\ StackInv' /\ LockInv'
  BY <1>3, <1>5, <1>6, <1>7, PushKeeps
<1>9. TypeInv'
  BY <1>1, <1>6, <1>8 DEF CallInv, TypeInv
<1>10. ConfInv'
  BY <1>6 DEF CallInv, ConfInv
<1> QED
  BY <1>8, <1>9, <1>10 DEF CallInv

\* The line of an Add.
LEMMA DebugMessage ==
  ASSUME NEW m \in Nat
  PROVE  /\ Message(m, <<"debug">>) \in Seq(Lines)
         /\ Range(Message(m, <<"debug">>)) \in SUBSET Lines
<1>1. Message(m, <<"debug">>) \in Seq(Lines)
  <2>1. <<"debug">> \in Seq({"debug", "trace"})
    BY SMT
  <2> QED
    BY <2>1, MessageType
<1> QED
  BY <1>1, SMT DEF Range

\* Add keeps the invariant: the line is added while nobody has the lock.
LEMMA CallAddToRoot ==
  ASSUME Picks, CallInv, NEW w \in Writer, NEW l \in FileLog, AddToRoot(w, l)
  PROVE  CallInv'
<1> DEFINE ls == Message(msgs + 1, <<"debug">>)
           f == Flush(l, <<>>, TRUE, Range(ls))
<1>1. msgs + 1 \in Nat /\ l \in Log
  BY SMT DEF CallInv, TypeInv, FileLog, Log
<1>2. ls \in Seq(Lines) /\ Range(ls) \in SUBSET Lines
  BY <1>1, DebugMessage
<1>3. /\ stack' = [stack EXCEPT ![w] = <<f>>]
      /\ root' = [root EXCEPT ![l] = root[l] \o ls]
  BY DEF AddToRoot
<1> HIDE DEF ls
<1>5. f \in Frame /\ f.phase = "lock" /\ f.log = l /\ f.lines = <<>>
  BY <1>1, <1>2, SMT DEF Flush, Frame, Phase
<1> HIDE DEF f
<1>6. /\ UNCHANGED <<mode, out, cc, lock, file, backup, console, rot, born, failed, acked>>
      /\ msgs' = msgs + 1
      /\ l = "dev" /\ mode["dev"] = "none" => w = Initializer
      /\ stack[w] = <<>> /\ lock[l] = NoWriter
  BY DEF AddToRoot, MayLog, diskVars, histVars
<1>7. \A h \in Log : cc'[h] \in Seq(Log) /\ Len(cc'[h]) >= Len(cc[h])
  <2>1. \A h \in Log : cc'[h] = cc[h] /\ cc[h] \in Seq(Log) /\ Len(cc[h]) \in Nat
    BY <1>6, SMT DEF CallInv, ConfInv
  <2> QED
    BY <2>1, SMT
<1>11. root' \in [Log -> Seq(Lines)] /\ \A h \in Log : lock[h] # NoWriter => root'[h] = root[h]
  BY <1>1, <1>2, <1>3, <1>6, SMT DEF CallInv, TypeInv
<1>8. stack' \in [Writer -> Seq(Frame)] /\ StackInv' /\ LockInv'
  BY <1>3, <1>5, <1>6, <1>7, <1>11, PushKeeps
<1>9. TypeInv'
  BY <1>1, <1>6, <1>8, <1>11 DEF CallInv, TypeInv
<1>10. ConfInv'
  BY <1>6 DEF CallInv, ConfInv
<1> QED
  BY <1>8, <1>9, <1>10 DEF CallInv

\* ToDevFile keeps the invariant.
LEMMA CallToDevFile ==
  ASSUME Picks, CallInv, ToDevFile
  PROVE  CallInv'
<1> DEFINE f == Flush("dev", <<>>, TRUE, {})
<1>3. stack' = [stack EXCEPT ![Initializer] = <<f>>]
  BY DEF ToDevFile
<1>5. f \in Frame /\ f.phase = "lock" /\ f.lines = <<>>
  BY SMT DEF Flush, Frame, Phase, Log
<1> HIDE DEF f
<1>6. /\ UNCHANGED <<out, cc, lock, root, file, backup, console, msgs, rot, born, failed, acked>>
      /\ mode' = [mode EXCEPT !["dev"] = "file"] /\ mode["dev"] = "none"
      /\ stack[Initializer] = <<>> /\ Initializer \in Writer
  BY LoggerAssumption DEF ToDevFile, diskVars, histVars
<1>7. \A h \in Log : cc'[h] \in Seq(Log) /\ Len(cc'[h]) >= Len(cc[h])
  <2>1. \A h \in Log : cc'[h] = cc[h] /\ cc[h] \in Seq(Log) /\ Len(cc[h]) \in Nat
    BY <1>6, SMT DEF CallInv, ConfInv
  <2> QED
    BY <2>1, SMT
<1>10. ConfInv'
  BY <1>6 DEF CallInv, ConfInv, Log
<1>11. mode'["dev"] # "none"
  BY <1>6 DEF CallInv, ConfInv, Log
<1>8. stack' \in [Writer -> Seq(Frame)] /\ StackInv' /\ LockInv'
  BY <1>3, <1>5, <1>6, <1>7, <1>11, PushKeeps
<1>9. TypeInv'
  BY <1>6, <1>8 DEF CallInv, TypeInv
<1> QED
  BY <1>8, <1>9, <1>10 DEF CallInv

\* So does the failure before that, which adds the main log to the copies.
LEMMA CallToMainLog ==
  ASSUME Picks, CallInv, ToMainLog
  PROVE  CallInv'
<1> DEFINE f == Flush("dev", <<>>, TRUE, {})
<1>3. stack' = [stack EXCEPT ![Initializer] = <<f>>]
  BY DEF ToMainLog
<1>5. f \in Frame /\ f.phase = "lock" /\ f.lines = <<>>
  BY SMT DEF Flush, Frame, Phase, Log
<1> HIDE DEF f
<1>6. /\ UNCHANGED <<lock, root, file, backup, console, msgs, rot, born, failed, acked>>
      /\ mode' = [mode EXCEPT !["dev"] = "discard"] /\ mode["dev"] = "none"
      /\ out' = [out EXCEPT !["dev"] = "stream"]
      /\ cc' = [cc EXCEPT !["dev"] = Append(cc["dev"], "main")]
      /\ stack[Initializer] = <<>> /\ Initializer \in Writer
  BY LoggerAssumption DEF ToMainLog, diskVars, histVars
<1>1. cc["dev"] = <<"console">> /\ Append(cc["dev"], "main") = <<"console", "main">>
  <2>1. cc["dev"] = <<"console">>
    BY <1>6 DEF CallInv, ConfInv
  <2>2. Append(<<"console">>, "main") = <<"console", "main">>
    <3> DEFINE a == Append(<<"console">>, "main")  b == <<"console", "main">>
    <3>1. a \in Seq(Log) /\ Len(a) = 2 /\ a[1] = "console" /\ a[2] = "main"
      BY SMT DEF Log
    <3>2. b \in Seq(Log) /\ Len(b) = 2 /\ b[1] = "console" /\ b[2] = "main"
      BY SMT DEF Log
    <3> HIDE DEF a, b
    <3>3. \A i \in 1..Len(a) : a[i] = b[i]
      BY <3>1, <3>2, SMT
    <3>4. a = b
      BY <3>1, <3>2, <3>3, SMT
    <3> QED
      BY <3>4 DEF a, b
  <2> QED
    BY <2>1, <2>2
<1>2. /\ <<"console", "main">> \in Seq(Log)
      /\ Len(<<"console", "main">>) = 2 /\ Len(<<"console">>) = 1
  BY SMT DEF Log
<1>4. /\ cc \in [Log -> Seq(Log)] /\ "dev" \in Log
      /\ cc' = [cc EXCEPT !["dev"] = <<"console", "main">>]
  BY <1>1, <1>6 DEF CallInv, ConfInv, Log
<1>12. cc'["dev"] = <<"console", "main">> /\ \A h \in Log : h # "dev" => cc'[h] = cc[h]
  BY <1>4
<1>13. cc' \in [Log -> Seq(Log)]
  BY <1>2, <1>4
<1>7. \A h \in Log : cc'[h] \in Seq(Log) /\ Len(cc'[h]) >= Len(cc[h])
  <2>1. \A h \in Log \ {"dev"} : Len(cc'[h]) = Len(cc[h]) /\ Len(cc[h]) \in Nat
    BY <1>4, <1>12, SMT
  <2>2. Len(cc'["dev"]) = 2 /\ Len(cc["dev"]) = 1
    BY <1>1, <1>2, <1>12
  <2>3. Len(cc'["dev"]) >= Len(cc["dev"])
    BY <2>2, SMT
  <2>4. \A h \in Log \ {"dev"} : Len(cc'[h]) >= Len(cc[h])
    BY <2>1, SMT
  <2> QED
    BY <1>13, <2>3, <2>4
<1>11. mode'["dev"] = "discard" /\ out'["dev"] = "stream"
  BY <1>6 DEF CallInv, ConfInv, Log
<1>14. cc'["console"] = <<>> /\ cc'["main"] = <<"console">>
  BY <1>12 DEF CallInv, ConfInv, Log
<1>10. ConfInv'
  <2>1. /\ mode' \in [Log -> {"none", "file", "discard", "console"}]
        /\ out' \in [Log -> {"nil", "file", "nilfile", "stream"}]
        /\ mode'["console"] = "console" /\ out'["console"] = "stream"
        /\ mode'["main"] = "file" /\ out'["main"] # "stream"
        /\ \A l \in FileLog : out'[l] = "nilfile" => l \in failed'
    BY <1>6 DEF CallInv, ConfInv, Log, FileLog
  <2> QED
    BY <1>11, <1>12, <1>13, <1>14, <2>1 DEF ConfInv
<1>8. stack' \in [Writer -> Seq(Frame)] /\ StackInv' /\ LockInv'
  BY <1>3, <1>5, <1>6, <1>7, <1>11, PushKeeps
<1>9. TypeInv'
  BY <1>6, <1>8 DEF CallInv, TypeInv
<1> QED
  BY <1>8, <1>9, <1>10 DEF CallInv

\* After a crash there are no calls.
LEMMA CallCrash ==
  ASSUME CallInv, Crash
  PROVE  CallInv'
<1>1. TypeInv'
  BY LoggerAssumption, SMTT(30) DEF CallInv, TypeInv, Crash, diskVars, Log
<1>2. /\ mode' = [mode EXCEPT !["dev"] = "none"]
      /\ out' = [out EXCEPT !["dev"] = "nil", !["main"] = "nil"]
      /\ cc' = [cc EXCEPT !["dev"] = <<"console">>]
  BY DEF Crash
<1>3. cc' \in [Log -> Seq(Log)]
  <2>1. <<"console">> \in Seq(Log)
    BY SMT DEF Log
  <2> QED
    BY <1>2, <2>1 DEF CallInv, ConfInv
<1>4. cc'["dev"] = <<"console">> /\ cc'["console"] = <<>> /\ cc'["main"] = <<"console">>
  BY <1>2 DEF CallInv, ConfInv, Log
<1>5. /\ mode' \in [Log -> {"none", "file", "discard", "console"}]
      /\ out' \in [Log -> {"nil", "file", "nilfile", "stream"}]
      /\ mode'["console"] = "console" /\ out'["console"] = "stream"
      /\ mode'["main"] = "file" /\ out'["main"] = "nil"
      /\ mode'["dev"] = "none" /\ out'["dev"] = "nil"
  BY <1>2 DEF CallInv, ConfInv, Log
<1>6. ConfInv'
  BY <1>3, <1>4, <1>5 DEF ConfInv, FileLog
<1>7. \A w \in Writer : stack'[w] = <<>> /\ 1..Len(stack'[w]) = {}
  BY SMT DEF Crash
<1>8. StackInv'
  BY <1>7 DEF StackInv, StackOf
<1>9. LockInv'
  BY DEF Crash, LockInv
<1> QED
  BY <1>1, <1>6, <1>8, <1>9 DEF CallInv

\* A turn of the loop of rotate keeps the invariant.
LEMMA CallShift ==
  ASSUME Picks, CallInv, NEW w \in Writer, RotateShift(w)
  PROVE  CallInv' /\ Local(w)
<1> DEFINE n == MaxBackup - 1 - Top(w).i  l == Top(w).log
<1>1. stack[w] # <<>> /\ Top(w).phase = "shift"
  BY DEF RotateShift, InPhase
<1>2. Top(w) = stack[w][1] /\ l \in Log /\ Top(w).i \in Nat /\ 1 \in 1..Len(stack[w])
  BY <1>1, TopFacts DEF CallInv
<1>3. l \in FileLog /\ Top(w).i < MaxBackup /\ MaxBackup \in Nat
  BY <1>1, <1>2, LoggerAssumption DEF CallInv, StackInv, StackOf, FrameInv
<1>4. /\ UNCHANGED <<mode, out, cc, lock, root, file, console, msgs, rot, born, failed, acked>>
      /\ Rename(l, n)
      /\ IF n = 0 THEN Goto(w, "gzip", 0) ELSE Goto(w, "shift", Top(w).i + 1)
  BY DEF RotateShift, histVars
<1>5. Local(w) /\ StackInv' /\ LockInv' /\ stack' \in [Writer -> Seq(Frame)]
  <2>1. CASE n = 0
    <3>1. "gzip" \in Phase \ {"lock"} /\ 0 \in Nat
      BY DEF Phase
    <3>2. Goto(w, "gzip", 0) /\ MaxBackup > 0
      BY <1>2, <1>3, <1>4, <2>1, SMT
    <3> QED
      BY <1>1, <1>3, <1>4, <3>1, <3>2, GotoHeld DEF Gone
  <2>2. CASE n # 0
    <3>1. /\ "shift" \in Phase \ {"lock"}
          /\ Top(w).i + 1 \in Nat /\ Top(w).i + 1 < MaxBackup
      BY <1>2, <1>3, <2>2, SMTT(30) DEF Phase
    <3>2. Goto(w, "shift", Top(w).i + 1)
      BY <1>4, <2>2
    <3> QED
      BY <1>1, <1>3, <1>4, <3>1, <3>2, GotoHeld DEF Gone
  <2> QED
    BY <2>1, <2>2
<1>6. backup' \in [FileLog -> [0..MaxBackup - 1 -> Seq(Lines)]]
  <2> DEFINE b == [j \in DOMAIN backup[l] |->
                    IF j = n + 1 THEN backup[l][n] ELSE IF j = n THEN <<>> ELSE backup[l][j]]
  <2>1. backup' = [backup EXCEPT ![l] = b]
    BY <1>4 DEF Rename
  <2>2. MaxBackup \in Nat /\ backup[l] \in [0..MaxBackup - 1 -> Seq(Lines)]
    BY <1>3, LoggerAssumption DEF CallInv, TypeInv
  <2>3. n \in 0..MaxBackup - 1
    <3>1. PICK i \in Nat : i = Top(w).i /\ i < MaxBackup
      BY <1>2, <1>3
    <3> QED
      BY <2>2, <3>1, SMT
  <2>4. b \in [0..MaxBackup - 1 -> Seq(Lines)]
    <3>1. ASSUME NEW j \in 0..MaxBackup - 1 PROVE b[j] \in Seq(Lines)
      <4>1. CASE j = n + 1
        BY <2>2, <2>3, <4>1
      <4>2. CASE j # n + 1
        BY <2>2, <2>3, <4>2, SMT
      <4> QED
        BY <4>1, <4>2
    <3> QED
      BY <2>2, <3>1
  <2> QED
    BY <1>3, <2>1, <2>4 DEF CallInv, TypeInv
<1>7. TypeInv'
  BY <1>4, <1>5, <1>6 DEF CallInv, TypeInv
<1>8. ConfInv'
  BY <1>4 DEF CallInv, ConfInv
<1> QED
  BY <1>5, <1>7, <1>8 DEF CallInv

\* So do compression, ...
LEMMA CallGzip ==
  ASSUME Picks, CallInv, NEW w \in Writer, RotateGzip(w)
  PROVE  CallInv' /\ Local(w)
<1> DEFINE l == Top(w).log
<1>1. stack[w] # <<>> /\ Top(w).phase = "gzip"
  BY DEF RotateGzip, InPhase
<1>2. Top(w) = stack[w][1] /\ l \in Log /\ 1 \in 1..Len(stack[w])
  BY <1>1, TopFacts DEF CallInv
<1>3. l \in FileLog
  BY <1>1, <1>2 DEF CallInv, StackInv, StackOf, FrameInv
<1>4. /\ UNCHANGED <<mode, out, cc, lock, root, file, console, msgs, rot, born, failed, acked>>
      /\ \/ backup' = [backup EXCEPT ![l][0] = file[l]] /\ Goto(w, "truncate", 0)
         \/ backup' = backup /\ Goto(w, "write", 0)
  BY DEF RotateGzip, histVars
<1>5. Local(w) /\ StackInv' /\ LockInv' /\ stack' \in [Writer -> Seq(Frame)]
  <2>1. "truncate" \in Phase \ {"lock"} /\ "write" \in Phase \ {"lock"} /\ 0 \in Nat
    BY DEF Phase
  <2>2. 0 <= Len(Output(l)) + Len(cc[l])
    BY <1>2, WriteFits
  <2>3. CASE Goto(w, "truncate", 0)
    BY <1>1, <1>3, <1>4, <2>1, <2>3, GotoHeld DEF Gone
  <2>4. CASE Goto(w, "write", 0)
    BY <1>1, <1>4, <2>1, <2>2, <2>4, GotoHeld DEF Gone
  <2> QED
    BY <1>4, <2>3, <2>4
<1>6. backup' \in [FileLog -> [0..MaxBackup - 1 -> Seq(Lines)]]
  <2> DEFINE b == [backup[l] EXCEPT ![0] = file[l]]
  <2>1. backup[l] \in [0..MaxBackup - 1 -> Seq(Lines)] /\ file[l] \in Seq(Lines)
    BY <1>3 DEF CallInv, TypeInv
  <2>2. b \in [0..MaxBackup - 1 -> Seq(Lines)]
    BY <2>1
  <2>3. backup' = backup \/ backup' = [backup EXCEPT ![l] = b]
    BY <1>4
  <2> HIDE DEF b
  <2> QED
    BY <2>2, <2>3 DEF CallInv, TypeInv
<1>7. TypeInv'
  BY <1>4, <1>5, <1>6 DEF CallInv, TypeInv
<1>8. ConfInv'
  BY <1>4 DEF CallInv, ConfInv
<1> QED
  BY <1>5, <1>7, <1>8 DEF CallInv

\* ... truncation, ...
LEMMA CallTruncate ==
  ASSUME Picks, CallInv, NEW w \in Writer, RotateTruncate(w)
  PROVE  CallInv' /\ Local(w)
<1> DEFINE l == Top(w).log
<1>1. stack[w] # <<>> /\ Top(w).phase = "truncate"
  BY DEF RotateTruncate, InPhase
<1>2. Top(w) = stack[w][1] /\ l \in Log /\ 1 \in 1..Len(stack[w])
  BY <1>1, TopFacts DEF CallInv
<1>4. /\ UNCHANGED <<mode, out, cc, lock, root, backup, console, msgs, rot, born, failed, acked>>
      /\ file' = [file EXCEPT ![l] = <<>>] /\ Goto(w, "write", 0)
  BY DEF RotateTruncate, histVars
<1>5. Local(w) /\ StackInv' /\ LockInv' /\ stack' \in [Writer -> Seq(Frame)]
  <2>1. "write" \in Phase \ {"lock"} /\ 0 \in Nat
    BY DEF Phase
  <2>2. 0 <= Len(Output(l)) + Len(cc[l])
    BY <1>2, WriteFits
  <2> QED
    BY <1>1, <1>4, <2>1, <2>2, GotoHeld DEF Gone
<1>6. file' \in [FileLog -> Seq(Lines)]
  <2>1. <<>> \in Seq(Lines) /\ file \in [FileLog -> Seq(Lines)]
    BY SMT DEF CallInv, TypeInv
  <2> QED
    BY <1>4, <2>1
<1>7. TypeInv'
  BY <1>4, <1>5, <1>6 DEF CallInv, TypeInv
<1>8. ConfInv'
  BY <1>4 DEF CallInv, ConfInv
<1> QED
  BY <1>5, <1>7, <1>8 DEF CallInv

\* ... and output of a line.
LEMMA CallWriteLine ==
  ASSUME Picks, CallInv, NEW w \in Writer, WriteLine(w)
  PROVE  CallInv' /\ Local(w)
<1> DEFINE l == Top(w).log  n == Top(w).i + 1
<1>1. stack[w] # <<>> /\ Top(w).phase = "write"
  BY DEF WriteLine, InPhase
<1>2. Top(w) = stack[w][1] /\ l \in Log /\ 1 \in 1..Len(stack[w]) /\ n \in Nat /\ n > 0
  BY <1>1, TopFacts, SMT DEF CallInv
<1>3. Output(l) \in Seq(Lines) /\ Len(Output(l)) \in Nat /\ cc[l] \in Seq(Log)
  BY <1>2, OutputType DEF CallInv, ConfInv
<1>4. /\ UNCHANGED <<mode, out, cc, lock, root, backup, msgs, rot, failed, acked>>
      /\ n <= Len(Output(l)) /\ Goto(w, "write", n)
      /\ console' = IF l = "console" THEN Append(console, Output(l)[n]) ELSE console
      /\ IF out[l] = "file"
         THEN /\ file' = [file EXCEPT ![l] = Append(@, Output(l)[n])]
              /\ born' = born \cup {[log |-> l, line |-> Output(l)[n], rot |-> rot[l]]}
         ELSE UNCHANGED <<file, born>>
  BY DEF WriteLine
<1>5. Local(w) /\ StackInv' /\ LockInv' /\ stack' \in [Writer -> Seq(Frame)]
  <2>1. "write" \in Phase \ {"lock"}
    BY DEF Phase
  <2>2. n <= Len(Output(l)) + Len(cc[l])
    BY <1>2, <1>4, WriteFits
  <2> QED
    BY <1>1, <1>2, <1>4, <2>1, <2>2, GotoHeld, ZenonT(30) DEF Gone
<1>6. Output(l)[n] \in Lines
  BY <1>2, <1>3, <1>4, SMT
<1>9. console' \in Seq(Lines)
  BY <1>4, <1>6, SMT DEF CallInv, TypeInv
<1>10. out[l] = "file" => l \in FileLog
  BY <1>2 DEF CallInv, ConfInv, Log, FileLog
<1>11. file' \in [FileLog -> Seq(Lines)] /\ born' \subseteq Born
  <2>1. CASE out[l] = "file"
    <3>1. l \in FileLog /\ rot[l] \in Nat /\ file[l] \in Seq(Lines)
      BY <1>10, <2>1 DEF CallInv, TypeInv
    <3>2. [log |-> l, line |-> Output(l)[n], rot |-> rot[l]] \in Born
      BY <1>6, <3>1 DEF Born
    <3>3. Append(file[l], Output(l)[n]) \in Seq(Lines)
      BY <1>6, <3>1, SMT
    <3>4. born' \subseteq Born
      BY <1>4, <2>1, <3>2 DEF CallInv, TypeInv
    <3>5. file' \in [FileLog -> Seq(Lines)]
      BY <1>4, <2>1, <3>1, <3>3 DEF CallInv, TypeInv
    <3> QED
      BY <3>4, <3>5
  <2>2. CASE out[l] # "file"
    BY <1>4, <2>2 DEF CallInv, TypeInv
  <2> QED
    BY <2>1, <2>2
<1>7. TypeInv'
  BY <1>4, <1>5, <1>9, <1>11 DEF CallInv, TypeInv
<1>8. ConfInv'
  BY <1>4 DEF CallInv, ConfInv
<1> QED
  BY <1>5, <1>7, <1>8 DEF CallInv

\* The lines that are copied: the same, with the logger they come from.
LEMMA CopiesType ==
  ASSUME Picks, TypeInv, NEW l \in Log, NEW to
  PROVE  /\ Copies(l, to) \in Seq(Lines)
         /\ \A x : x \in Range(Copies(l, to)) <=>
              \E y \in Range(root[l]) : y.level \in Levels(to) /\ x = [y EXCEPT !.via = l]
<1> DEFINE sel == OfLevels(root[l], Levels(to))
<1>1. root[l] \in Seq(Lines)
  BY DEF TypeInv
<1>2. /\ sel \in Seq(Lines)
      /\ \A x : x \in Range(sel) <=> x \in Range(root[l]) /\ x.level \in Levels(to)
  BY <1>1, OfLevelsPicks
<1>3. Copies(l, to) = [j \in DOMAIN sel |-> [sel[j] EXCEPT !.via = l]]
  BY DEF Copies
<1> HIDE DEF sel
<1>4. DOMAIN sel = 1..Len(sel) /\ Len(sel) \in Nat
  BY <1>2, SMT
<1>5. \A j \in 1..Len(sel) : [sel[j] EXCEPT !.via = l] \in Lines
  <2>1. ASSUME NEW j \in 1..Len(sel) PROVE [sel[j] EXCEPT !.via = l] \in Lines
    <3>1. sel[j] \in Lines
      BY <1>2, SMT
    <3> QED
      BY <3>1 DEF Lines
  <2> QED
    BY <2>1
<1>6. Copies(l, to) \in Seq(Lines)
  <2>1. Copies(l, to) = [j \in 1..Len(sel) |-> [sel[j] EXCEPT !.via = l]]
    BY <1>3, <1>4
  <2>2. Copies(l, to) \in [1..Len(sel) -> Lines]
    BY <1>5, <2>1
  <2> QED
    BY <1>4, <2>2, SMT
<1>7. ASSUME NEW x
      PROVE  x \in Range(Copies(l, to)) <=>
               \E y \in Range(root[l]) : y.level \in Levels(to) /\ x = [y EXCEPT !.via = l]
  <2>1. x \in Range(Copies(l, to)) <=> \E j \in DOMAIN sel : x = [sel[j] EXCEPT !.via = l]
    BY <1>3 DEF Range
  <2>2. (\E j \in DOMAIN sel : x = [sel[j] EXCEPT !.via = l]) <=>
          \E y \in Range(sel) : x = [y EXCEPT !.via = l]
    BY DEF Range
  <2> QED
    BY <1>2, <2>1, <2>2
<1> QED
  BY <1>6, <1>7

\* What CommitCopy does to the stack: a call to the next logger, on top.
Called(w, k, ls) ==
  /\ stack' \in [Writer -> Seq(Frame)]
  /\ stack'[w] # <<>> /\ Len(stack'[w]) = Len(stack[w]) + 1
  /\ \A p \in 2..Len(stack[w]) : stack'[w][p + 1] = stack[w][p]
  /\ stack'[w][1] = Flush(k, ls, FALSE, {})
  /\ stack'[w][1] \in Frame
  /\ stack'[w][1].phase = "lock" /\ stack'[w][1].log = k /\ stack'[w][1].lines = ls
  /\ stack'[w][1].mine = {} /\ ~stack'[w][1].isRoot
  /\ stack'[w][2] \in Frame
  /\ stack'[w][2].phase = Top(w).phase /\ stack'[w][2].i = Top(w).i + 1
  /\ stack'[w][2].log = Top(w).log /\ stack'[w][2].lines = Top(w).lines
  /\ stack'[w][2].isRoot = Top(w).isRoot /\ stack'[w][2].mine = Top(w).mine
  /\ \A v \in Writer \ {w} : stack'[v] = stack[v]

\* It does so, with one of the copies of the logger.
LEMMA CopyStack ==
  ASSUME Picks, CallInv, NEW w \in Writer, CommitCopy(w)
  PROVE  /\ stack[w] # <<>> /\ Top(w).phase = "write" /\ Top(w).log \in Log
         /\ \E n \in 1..Len(cc[Top(w).log]) :
              /\ Top(w).i + 1 = Len(Output(Top(w).log)) + n
              /\ Above(Top(w).log, cc[Top(w).log][n])
              /\ n = 1 => cc[Top(w).log][n] = "console"
              /\ n # 1 => n = 2 /\ Top(w).log = "dev" /\ cc[Top(w).log][n] = "main"
              /\ Called(w, cc[Top(w).log][n], Copies(Top(w).log, cc[Top(w).log][n]))
<1> DEFINE l == Top(w).log  n == Top(w).i + 1 - Len(Output(l))
<1>1. stack[w] # <<>> /\ Top(w).phase = "write"
  BY DEF CommitCopy, InPhase
<1>2. /\ l \in Log /\ Top(w).i \in Nat /\ Top(w) \in Frame /\ Len(Output(l)) \in Nat
      /\ stack[w] \in Seq(Frame) /\ Len(stack[w]) \in Nat /\ Len(stack[w]) > 0
  BY <1>1, TopFacts, OutputType DEF CallInv
<1>3. n \in 1..Len(cc[l])
  BY DEF CommitCopy
<1>4. Top(w).i + 1 = Len(Output(l)) + n /\ n \in Int
  BY <1>2, SMT
<1> DEFINE k == cc[l][n]  ls == Copies(l, k)  f == Flush(k, ls, FALSE, {})
           g == [Top(w) EXCEPT !.i = @ + 1]
<1>5. /\ Above(l, k) /\ k \in Log
      /\ n = 1 => k = "console"
      /\ n # 1 => n = 2 /\ l = "dev" /\ k = "main"
  <2> HIDE DEF n
  <2>1. CASE l = "console"
    <3>1. Len(cc[l]) = 0
      BY <2>1, SMT DEF CallInv, ConfInv
    <3> QED
      BY <1>3, <3>1, SMT
  <2>2. CASE l = "main" \/ (l = "dev" /\ mode["dev"] # "discard")
    <3>1. cc[l] = <<"console">>
      BY <2>2 DEF CallInv, ConfInv
    <3>2. n = 1
      BY <1>3, <3>1, SMT
    <3> QED
      BY <2>2, <3>1, <3>2, SMT DEF Above, Log
  <2>3. CASE l = "dev" /\ mode["dev"] = "discard"
    <3>1. cc[l] = <<"console", "main">>
      BY <2>3 DEF CallInv, ConfInv
    <3>2. n \in 1..2
      BY <1>3, <3>1
    <3>3. n = 1 \/ n = 2
      BY <3>2, SMT
    <3> QED
      BY <2>3, <3>1, <3>3, SMT DEF Above, Log
  <2> QED
    BY <1>2, <2>1, <2>2, <2>3 DEF Log
<1>6. ls \in Seq(Lines)
  BY <1>2, CopiesType DEF CallInv
<1>7. stack' = [stack EXCEPT ![w] = <<f, g>> \o Tail(stack[w])]
  BY Zenon DEF CommitCopy
<1> HIDE DEF n, k, ls
<1>8. /\ f \in Frame /\ f.phase = "lock" /\ f.log = k /\ f.lines = ls
      /\ f.mine = {} /\ ~f.isRoot
  BY <1>5, <1>6 DEF Flush, Frame, Phase
<1>9. /\ g \in Frame /\ g.phase = Top(w).phase /\ g.i = Top(w).i + 1 /\ g.log = l
      /\ g.lines = Top(w).lines /\ g.isRoot = Top(w).isRoot /\ g.mine = Top(w).mine
  BY <1>2, SMTT(30) DEF Frame
<1> DEFINE s == <<f, g>> \o Tail(stack[w])
<1>10. stack' = [stack EXCEPT ![w] = s] /\ f = Flush(k, ls, FALSE, {})
  BY <1>7
<1> HIDE DEF f, g
<1>11. /\ s \in Seq(Frame) /\ Len(s) = Len(stack[w]) + 1 /\ s[1] = f /\ s[2] = g
       /\ \A p \in 2..Len(stack[w]) : s[p + 1] = stack[w][p]
  BY <1>1, <1>2, <1>8, <1>9, CallFromHead, SMT
<1> HIDE DEF s
<1>12. /\ stack' \in [Writer -> Seq(Frame)] /\ stack'[w] = s
       /\ \A v \in Writer \ {w} : stack'[v] = stack[v]
  BY <1>10, <1>11 DEF CallInv, TypeInv
<1>13. s # <<>>
  BY <1>2, <1>11, SMT
<1>14. Called(w, k, ls)
  BY <1>8, <1>9, <1>10, <1>11, <1>12, <1>13 DEF Called
<1> QED
  BY <1>1, <1>2, <1>3, <1>4, <1>5, <1>14 DEF k, ls

\* A copy keeps the invariant: its logger is below all that wait for it.
LEMMA CallCopy ==
  ASSUME Picks, CallInv, NEW w \in Writer, CommitCopy(w)
  PROVE  CallInv' /\ Local(w)
<1> DEFINE l == Top(w).log
<1>1. stack[w] # <<>> /\ Top(w).phase = "write" /\ l \in Log
  BY CopyStack
<1>2. PICK n \in 1..Len(cc[l]) :
        /\ Top(w).i + 1 = Len(Output(l)) + n
        /\ Above(l, cc[l][n])
        /\ n = 1 => cc[l][n] = "console"
        /\ n # 1 => n = 2 /\ l = "dev" /\ cc[l][n] = "main"
        /\ Called(w, cc[l][n], Copies(l, cc[l][n]))
  BY CopyStack
<1> DEFINE k == cc[l][n]  ls == Copies(l, k)
<1>3. Called(w, k, ls) /\ Above(l, k)
  BY <1>2
<1> HIDE DEF k, ls
<1>4. /\ Top(w) = stack[w][1] /\ stack[w] \in Seq(Frame) /\ Len(stack[w]) \in Nat
      /\ Len(stack[w]) > 0 /\ Top(w).i \in Nat
      /\ Len(Output(l)) \in Nat /\ Len(cc[l]) \in Nat
  BY <1>1, TopFacts, OutputType, WriteFits DEF CallInv
<1>5. UNCHANGED <<mode, out, cc, lock, root, file, backup, console, msgs, rot, born, failed, acked>>
  BY DEF CommitCopy, diskVars, histVars
<1>6. lock[l] = w
  BY <1>1, TopHolds
<1>7. Local(w)
  BY <1>3, <1>5, <1>6 DEF Local, Called
<1>8. FrameInv(w, Top(w))
  BY <1>1, <1>4, SMT DEF CallInv, StackInv, StackOf
<1>9. FrameInv(w, stack[w][1])'
  BY <1>3 DEF FrameInv, Called, Above
<1>10. /\ stack'[w][2].log = l /\ stack'[w][2].i = Top(w).i + 1 /\ stack'[w][2].phase = "write"
       /\ stack'[w][2].isRoot = Top(w).isRoot /\ stack'[w][2].lines = Top(w).lines
  BY <1>1, <1>3 DEF Called
<1>11. Output(stack[w][2].log)' = Output(l)
  BY <1>5, <1>10 DEF Output
<1>12. FrameInv(w, stack[w][2])' /\ stack'[w][2].i > Len(Output(stack[w][2].log))'
  <2>1. Top(w).i + 1 <= Len(Output(l)) + Len(cc[l]) /\ Top(w).i + 1 > Len(Output(l))
    <3> DEFINE a == Len(Output(l))  b == Len(cc[l])  i == Top(w).i
    <3>1. a \in Nat /\ b \in Nat /\ i \in Nat /\ n \in 1..b /\ i + 1 = a + n
      BY <1>2, <1>4
    <3>2. i + 1 <= a + b /\ i + 1 > a
      <4> HIDE DEF a, b, i
      <4> QED
        BY <3>1, SMT
    <3> QED
      BY <3>2
  <2>2. stack'[w][2].i <= Len(Output(l)) + Len(cc'[l]) /\ stack'[w][2].i > Len(Output(l))
    BY <1>5, <1>10, <2>1
  <2> QED
    BY <1>5, <1>6, <1>8, <1>10, <1>11, <2>2 DEF FrameInv
<1>13. ASSUME NEW p \in 3..Len(stack'[w])
       PROVE  /\ p - 1 \in 2..Len(stack[w]) /\ stack'[w][p] = stack[w][p - 1]
              /\ FrameInv(w, stack[w][p])' /\ stack'[w][p].phase = "write"
              /\ stack'[w][p].i > Len(Output(stack[w][p].log))'
              /\ Above(stack'[w][p].log, l)
  <2>1. /\ p - 1 \in 2..Len(stack[w]) /\ (p - 1) + 1 = p /\ p \in 1..Len(stack'[w])
    BY <1>3, <1>4, SMT DEF Called
  <2>2. stack'[w][p] = stack[w][p - 1]
    BY <1>3, <2>1 DEF Called
  <2>3. /\ FrameInv(w, stack[w][p])' /\ stack'[w][p].phase = "write"
        /\ stack'[w][p].i > Len(Output(stack[w][p].log))'
        /\ Above(stack'[w][p].log, l)
    BY <1>1, <1>7, <2>1, <2>2, LocalOuter
  <2> QED
    BY <2>1, <2>2, <2>3
<1>14. StackOf(w)'
  <2> SUFFICES ASSUME NEW p \in 1..Len(stack'[w])
               PROVE  /\ FrameInv(w, stack[w][p])'
                      /\ p > 1 => /\ stack'[w][p].phase = "write"
                                  /\ stack'[w][p].i > Len(Output(stack[w][p].log))'
                      /\ \A q \in 1..p - 1 : Above(stack'[w][p].log, stack'[w][q].log)
    BY DEF StackOf, Above
  <2>0. Len(stack'[w]) \in Nat /\ stack'[w][1].log = k
    <3>1. Len(stack'[w]) = Len(stack[w]) + 1 /\ stack'[w][1].log = k
      BY <1>3 DEF Called
    <3> QED
      BY <1>4, <3>1, SMT
  <2>1. CASE p = 1
    BY <1>9, <2>1, SMT
  <2>2. CASE p = 2
    <3>1. ASSUME NEW q \in 1..p - 1 PROVE q = 1
      BY <2>2, SMT
    <3> QED
      BY <1>3, <1>10, <1>12, <2>0, <2>2, <3>1
  <2>3. CASE p \in 3..Len(stack'[w])
    <3>1. ASSUME NEW q \in 1..p - 1 PROVE Above(stack'[w][p].log, stack'[w][q].log)
      <4>1. CASE q = 1
        BY <1>3, <1>13, <2>0, <2>3, <4>1 DEF Above
      <4>2. CASE q = 2
        BY <1>10, <1>13, <2>3, <4>2
      <4>3. CASE q > 2
        <5>1. q \in 3..Len(stack'[w]) /\ q - 1 \in 1..(p - 1) - 1 /\ p - 1 \in 1..Len(stack[w])
          BY <1>13, <2>0, <2>3, <4>3, SMT
        <5>2. stack'[w][q] = stack[w][q - 1] /\ stack'[w][p] = stack[w][p - 1]
          BY <1>13, <2>3, <5>1
        <5>3. Above(stack[w][p - 1].log, stack[w][q - 1].log)
          BY <5>1 DEF CallInv, StackInv, StackOf
        <5> QED
          BY <5>2, <5>3
      <4> QED
        BY <2>0, <4>1, <4>2, <4>3, SMT
    <3> QED
      BY <1>13, <2>3, <3>1
  <2> QED
    BY <2>0, <2>1, <2>2, <2>3, SMT
<1>15. StackInv'
  BY <1>1, <1>7, <1>14, LocalOthers DEF StackInv
<1>16. LockInv'
  <2> SUFFICES ASSUME NEW h \in Log, lock'[h] # NoWriter
               PROVE  \E p \in 1..Len(stack'[lock'[h]]) :
                        stack'[lock'[h]][p].log = h /\ stack'[lock'[h]][p].phase # "lock"
    BY DEF LockInv
  <2>1. lock'[h] = lock[h] /\ lock[h] \in Writer
    BY <1>5 DEF CallInv, TypeInv
  <2>2. PICK p \in 1..Len(stack[lock[h]]) :
          stack[lock[h]][p].log = h /\ stack[lock[h]][p].phase # "lock"
    BY <2>1 DEF CallInv, LockInv
  <2>3. CASE lock[h] = w
    <3>1. CASE p = 1
      <4>1. h = l /\ 2 \in 1..Len(stack'[w])
        BY <1>3, <1>4, <2>2, <2>3, <3>1, SMT DEF Called
      <4> QED
        BY <1>10, <2>1, <2>3, <4>1
    <3>2. CASE p # 1
      <4>1. p \in 2..Len(stack[w]) /\ p + 1 \in 1..Len(stack'[w])
        BY <1>3, <1>4, <2>2, <2>3, <3>2, SMT DEF Called
      <4>2. stack'[w][p + 1] = stack[w][p]
        BY <1>3, <4>1 DEF Called
      <4> QED
        BY <2>1, <2>2, <2>3, <4>1, <4>2
    <3> QED
      BY <3>1, <3>2
  <2>4. CASE lock[h] # w
    <3>1. stack'[lock[h]] = stack[lock[h]]
      BY <1>7, <2>1, <2>4 DEF Local
    <3> QED
      BY <2>1, <2>2, <3>1
  <2> QED
    BY <2>3, <2>4
<1>17. TypeInv'
  BY <1>3, <1>5 DEF CallInv, TypeInv, Called
<1>18. ConfInv'
  BY <1>5 DEF CallInv, ConfInv
<1> QED
  BY <1>7, <1>15, <1>16, <1>17, <1>18 DEF CallInv

\* The end of a Flush keeps it: the lock is released with the last call that
\* used it.
LEMMA CallEnd ==
  ASSUME Picks, CallInv, NEW w \in Writer, FlushEnd(w)
  PROVE  CallInv' /\ Local(w)
<1> DEFINE l == Top(w).log
<1>1. stack[w] # <<>> /\ Top(w).phase = "write"
  BY DEF FlushEnd, InPhase
<1>2. l \in Log
  BY <1>1, TopFacts DEF CallInv
<1>3. lock[l] = w
  BY <1>1, TopHolds
<1>4. /\ UNCHANGED <<mode, out, cc, file, backup, console, msgs, rot, born, failed>>
      /\ root' = [root EXCEPT ![l] = <<>>] /\ lock' = [lock EXCEPT ![l] = NoWriter]
      /\ Return(w)
  BY DEF FlushEnd, diskVars
<1>5. /\ stack' \in [Writer -> Seq(Frame)] /\ stack'[w] = Tail(stack[w])
      /\ \A v \in Writer \ {w} : stack'[v] = stack[v]
      /\ acked' \in [Log -> SUBSET Lines]
  BY <1>1, <1>4, ReturnStack DEF CallInv
<1>6. /\ root' \in [Log -> Seq(Lines)] /\ lock' \in [Log -> Writer \cup {NoWriter}]
      /\ lock'[l] = NoWriter
      /\ \A h \in Log \ {l} : lock'[h] = lock[h] /\ root'[h] = root[h]
  <2>1. <<>> \in Seq(Lines) /\ root \in [Log -> Seq(Lines)]
        /\ lock \in [Log -> Writer \cup {NoWriter}]
    BY SMT DEF CallInv, TypeInv
  <2> QED
    BY <1>2, <1>4, <2>1
<1>7. Local(w)
  BY <1>3, <1>4, <1>5, <1>6 DEF Local
<1>8. StackInv' /\ LockInv'
  BY <1>1, <1>5, <1>6, <1>7, PopKeeps
<1>9. TypeInv'
  BY <1>4, <1>5, <1>6 DEF CallInv, TypeInv
<1>10. ConfInv'
  BY <1>4 DEF CallInv, ConfInv
<1> QED
  BY <1>7, <1>8, <1>9, <1>10 DEF CallInv

\* What FlushLock does: it finds nothing to flush, ...
FlushIdle(w) ==
  /\ (IF Top(w).isRoot THEN root[Top(w).log] ELSE Top(w).lines) = <<>>
  /\ Return(w) /\ UNCHANGED <<root, out, failed, lock, rot>>

\* ... the device has no log file yet, ...
FlushBuffered(w) ==
  /\ Top(w).log = "dev" /\ mode["dev"] = "none"
  /\ root' = [root EXCEPT !["dev"] = @ \o Top(w).lines]
  /\ Return(w) /\ UNCHANGED <<out, failed, lock, rot>>

\* ... or the call goes on with the lock, and with the file open if there is one.
FlushTaken(w, ph) ==
  LET l == Top(w).log IN
  /\ root' = [root EXCEPT ![l] = @ \o Top(w).lines]
  /\ lock' = [lock EXCEPT ![l] = w] /\ acked' = acked
  /\ out' \in [Log -> {"nil", "file", "nilfile", "stream"}]
  /\ \A h \in Log \ {l} : out'[h] = out[h]
  /\ out'[l] # "nil"
  /\ failed \subseteq failed' /\ failed' \subseteq FileLog
  /\ \A h \in FileLog : out'[h] = "nilfile" => h \in failed'
  /\ out'[l] = out[l] \/ (out[l] = "nil" /\ mode[l] = "file" /\ out'[l] \in {"file", "nilfile"})
  /\ Goto(w, ph, 0)
  /\ \/ ph = "write" /\ rot' = rot
     \/ /\ l \in FileLog /\ rot' = [rot EXCEPT ![l] = @ + 1]
        /\ \/ ph = "shift" /\ MaxBackup > 0
           \/ ph = "truncate" /\ MaxBackup = 0

\* There are no other cases.
LEMMA FlushLockCases ==
  ASSUME CallInv, NEW w \in Writer, FlushLock(w)
  PROVE  /\ stack[w] # <<>> /\ Top(w).phase = "lock" /\ lock[Top(w).log] = NoWriter
         /\ UNCHANGED <<mode, cc, file, backup, console, msgs, crashes, born>>
         /\ \/ FlushIdle(w) \/ FlushBuffered(w)
            \/ \E ph \in {"shift", "truncate", "write"} : FlushTaken(w, ph)
<1> DEFINE l == Top(w).log
<1>1. stack[w] # <<>> /\ Top(w).phase = "lock"
  BY DEF FlushLock, InPhase
<1>2. l \in Log /\ out \in [Log -> {"nil", "file", "nilfile", "stream"}] /\ MaxBackup \in Nat
  BY <1>1, TopFacts, LoggerAssumption DEF CallInv, ConfInv
<1>3. /\ lock[l] = NoWriter
      /\ UNCHANGED <<mode, cc, file, backup, console, msgs, crashes, born>>
  BY DEF FlushLock, diskVars
<1>4. CASE (IF Top(w).isRoot THEN root[l] ELSE Top(w).lines) = <<>>
  BY <1>1, <1>3, <1>4 DEF FlushLock, FlushIdle
<1>5. CASE (IF Top(w).isRoot THEN root[l] ELSE Top(w).lines) # <<>>
  <2>1. /\ root' = [root EXCEPT ![l] = @ \o Top(w).lines]
        /\ OpenFile(l)
        /\ IF out'[l] = "nil"
           THEN Return(w) /\ UNCHANGED <<lock, rot>>
           ELSE /\ lock' = [lock EXCEPT ![l] = w]
                /\ IF NeedsRotate(l)
                   THEN /\ Goto(w, IF MaxBackup > 0 THEN "shift" ELSE "truncate", 0)
                        /\ rot' = [rot EXCEPT ![l] = @ + 1]
                   ELSE Goto(w, "write", 0) /\ UNCHANGED rot
                /\ UNCHANGED acked
    BY <1>5 DEF FlushLock
  <2>2. /\ out' \in [Log -> {"nil", "file", "nilfile", "stream"}]
        /\ \A h \in Log \ {l} : out'[h] = out[h]
        /\ failed \subseteq failed'
        /\ \/ out' = out /\ failed' = failed /\ ~(out[l] = "nil" /\ mode[l] = "file")
           \/ /\ out[l] = "nil" /\ mode[l] = "file"
              /\ \/ out'[l] = "file" /\ failed' = failed
                 \/ out'[l] = "nilfile" /\ failed' = failed \cup {l}
    BY <1>2, <2>1 DEF OpenFile
  <2>3. l = "console" => out[l] = "stream" /\ mode[l] = "console"
    BY DEF CallInv, ConfInv
  <2>4. out'[l] \in {"file", "nilfile", "nil"} => l \in FileLog
    BY <1>2, <2>2, <2>3 DEF Log, FileLog
  <2>5. failed' \subseteq FileLog /\ \A h \in FileLog : out'[h] = "nilfile" => h \in failed'
    <3>1. failed \subseteq FileLog /\ \A h \in FileLog : out[h] = "nilfile" => h \in failed
      BY DEF CallInv, ConfInv, TypeInv
    <3>2. FileLog \subseteq Log
      BY DEF FileLog, Log
    <3>3. failed' \subseteq FileLog
      BY <2>2, <2>4, <3>1
    <3>4. ASSUME NEW h \in FileLog, out'[h] = "nilfile" PROVE h \in failed'
      <4>1. CASE h = l
        BY <2>2, <3>1, <3>4, <4>1
      <4>2. CASE h # l
        BY <2>2, <3>1, <3>2, <3>4, <4>2
      <4> QED
        BY <4>1, <4>2
    <3> QED
      BY <3>3, <3>4
  <2>6. CASE out'[l] = "nil"
    <3>1. out' = out /\ failed' = failed /\ out[l] = "nil" /\ mode[l] # "file"
      BY <2>2, <2>6, SMT
    <3>2. l = "dev" /\ mode["dev"] = "none"
      <4>1. l # "main" /\ l # "console"
        BY <3>1 DEF CallInv, ConfInv
      <4>2. l = "dev"
        BY <1>2, <4>1 DEF Log
      <4> QED
        BY <3>1, <4>2 DEF CallInv, ConfInv, Log
    <3> QED
      BY <1>1, <1>3, <2>1, <2>6, <3>1, <3>2 DEF FlushBuffered
  <2>7. CASE out'[l] # "nil"
    <3>1. out'[l] = out[l] \/ (out[l] = "nil" /\ mode[l] = "file" /\ out'[l] \in {"file", "nilfile"})
      BY <2>2
    <3>2. CASE NeedsRotate(l)
      <4>1. l \in FileLog
        BY <2>4, <3>2 DEF NeedsRotate
      <4>2. CASE MaxBackup > 0
        <5>1. FlushTaken(w, "shift")
          BY <2>1, <2>2, <2>5, <2>7, <3>1, <3>2, <4>1, <4>2 DEF FlushTaken
        <5> QED
          BY <1>1, <1>3, <5>1
      <4>3. CASE ~(MaxBackup > 0)
        <5>1. MaxBackup = 0
          BY <1>2, <4>3, SMT
        <5>2. FlushTaken(w, "truncate")
          BY <2>1, <2>2, <2>5, <2>7, <3>1, <3>2, <4>1, <4>3, <5>1 DEF FlushTaken
        <5> QED
          BY <1>1, <1>3, <5>2
      <4> QED
        BY <4>2, <4>3
    <3>3. CASE ~NeedsRotate(l)
      <4>1. FlushTaken(w, "write")
        BY <2>1, <2>2, <2>5, <2>7, <3>1, <3>3 DEF FlushTaken
      <4> QED
        BY <1>1, <1>3, <4>1
    <3> QED
      BY <3>2, <3>3
  <2> QED
    BY <2>6, <2>7
<1> QED
  BY <1>4, <1>5

\* FlushLock keeps the invariant.
LEMMA CallFlushLock ==
  ASSUME Picks, CallInv, NEW w \in Writer, FlushLock(w)
  PROVE  CallInv' /\ Local(w)
<1> DEFINE l == Top(w).log
<1>1. /\ stack[w] # <<>> /\ Top(w).phase = "lock" /\ lock[l] = NoWriter
      /\ UNCHANGED <<mode, cc, file, backup, console, msgs, born>>
  BY FlushLockCases
<1>2. /\ l \in Log /\ Top(w) = stack[w][1] /\ 1 \in 1..Len(stack[w])
      /\ Top(w).lines \in Seq(Lines) /\ Len(stack[w]) \in Nat
  BY <1>1, TopFacts DEF CallInv
<1>3. TypeInv /\ NoWriter \notin Writer /\ FileLog \subseteq Log
  BY LoggerAssumption DEF CallInv, FileLog, Log
<1>4. ASSUME root' = [root EXCEPT ![l] = @ \o Top(w).lines]
      PROVE  /\ root' \in [Log -> Seq(Lines)] /\ root'[l] = root[l] \o Top(w).lines
             /\ \A h \in Log \ {l} : root'[h] = root[h]
  <2>1. root \in [Log -> Seq(Lines)] /\ root[l] \o Top(w).lines \in Seq(Lines)
    BY <1>2, <1>3, SMT DEF TypeInv
  <2> QED
    BY <1>2, <1>4, <2>1
<1>5. ASSUME Return(w), lock' = lock, root' \in [Log -> Seq(Lines)],
             \A h \in Log \ {l} : root'[h] = root[h],
             UNCHANGED <<out, failed, rot>>
      PROVE  CallInv' /\ Local(w)
  <2>1. /\ stack' \in [Writer -> Seq(Frame)] /\ stack'[w] = Tail(stack[w])
        /\ \A v \in Writer \ {w} : stack'[v] = stack[v]
        /\ acked' \in [Log -> SUBSET Lines]
    BY <1>1, <1>3, <1>5, ReturnStack
  <2>2. Local(w)
    BY <1>1, <1>5, <2>1 DEF Local
  <2>3. StackInv' /\ LockInv'
    BY <1>1, <1>5, <2>1, <2>2, PopKeeps
  <2>4. TypeInv'
    BY <1>1, <1>3, <1>5, <2>1 DEF TypeInv
  <2>5. ConfInv'
    BY <1>1, <1>5 DEF CallInv, ConfInv
  <2> QED
    BY <2>2, <2>3, <2>4, <2>5 DEF CallInv
<1>6. CASE FlushIdle(w)
  <2>1. Return(w) /\ UNCHANGED <<root, out, failed, lock, rot>>
    BY <1>6 DEF FlushIdle
  <2>2. root' \in [Log -> Seq(Lines)] /\ \A h \in Log \ {l} : root'[h] = root[h]
    BY <1>3, <2>1 DEF TypeInv
  <2> QED
    BY <1>5, <2>1, <2>2
<1>7. CASE FlushBuffered(w)
  <2>1. /\ Return(w) /\ UNCHANGED <<out, failed, lock, rot>>
        /\ root' = [root EXCEPT ![l] = @ \o Top(w).lines]
    BY <1>7 DEF FlushBuffered
  <2> QED
    BY <1>4, <1>5, <2>1
<1>8. ASSUME NEW ph \in {"shift", "truncate", "write"}, FlushTaken(w, ph)
      PROVE  CallInv' /\ Local(w)
  <2>1. /\ root' = [root EXCEPT ![l] = @ \o Top(w).lines]
        /\ lock' = [lock EXCEPT ![l] = w] /\ acked' = acked /\ Goto(w, ph, 0)
        /\ ph = "write" \/ l \in FileLog
        /\ ph = "shift" => MaxBackup > 0
    BY <1>8 DEF FlushTaken
  <2>2. /\ root' \in [Log -> Seq(Lines)]
        /\ \A h \in Log \ {l} : root'[h] = root[h]
    BY <1>4, <2>1
  <2>3. /\ lock' \in [Log -> Writer \cup {NoWriter}] /\ lock'[l] = w
        /\ \A h \in Log \ {l} : lock'[h] = lock[h]
    BY <1>2, <1>3, <2>1 DEF TypeInv
  <2>4. Gone(w, ph, 0)
    <3>1. ph \in Phase /\ 0 \in Nat
      BY DEF Phase
    <3> QED
      BY <1>1, <1>3, <2>1, <3>1, GotoStack
  <2>5. Local(w)
    BY <1>1, <2>2, <2>3, <2>4 DEF Local, Gone
  <2>6. FrameInv(w, Top(w))
    BY <1>2 DEF CallInv, StackInv, StackOf
  <2>7. 0 <= Len(Output(stack[w][1].log))' + Len(cc'[l])
    <3>1. Output(stack[w][1].log)' = OfLevels(root'[l], Levels(l))
      BY <2>4 DEF Output, Gone
    <3>2. OfLevels(root'[l], Levels(l)) \in Seq(Lines)
      BY <1>2, <2>2, OfLevelsPicks
    <3>3. Len(cc'[l]) \in Nat
      BY <1>1, <1>2, WriteFits
    <3>4. Len(Output(stack[w][1].log))' \in Nat
      BY <3>1, <3>2, SMT
    <3>5. \A a, b \in Nat : 0 <= a + b
      BY SMT
    <3> QED
      BY <3>3, <3>4, <3>5, Zenon
  <2>8. /\ stack'[w] \in Seq(Frame) /\ Len(stack'[w]) = Len(stack[w])
        /\ \A p \in 2..Len(stack[w]) : stack'[w][p] = stack[w][p]
        /\ stack'[w][1].phase = ph /\ stack'[w][1].i = 0
        /\ stack'[w][1].log = l /\ stack'[w][1].lines = Top(w).lines
        /\ stack'[w][1].isRoot = Top(w).isRoot
    BY <2>4 DEF Gone
  <2>9. FrameInv(w, stack[w][1])'
    BY <1>1, <2>1, <2>3, <2>6, <2>7, <2>8 DEF FrameInv
  <2>10. StackInv' /\ LockInv'
    <3>1. stack'[w][1].phase # "lock"
      BY <2>8
    <3> QED
      BY <1>1, <2>5, <2>8, <2>9, <3>1, GotoKeeps
  <2>11. rot' \in [FileLog -> Nat] /\ failed' \subseteq FileLog
    BY <1>3, <1>8, SMTT(30) DEF FlushTaken, TypeInv
  <2>12. TypeInv'
    BY <1>1, <1>3, <2>1, <2>2, <2>3, <2>4, <2>11 DEF TypeInv, Gone
  <2>13. ConfInv'
    <3>1. /\ out' \in [Log -> {"nil", "file", "nilfile", "stream"}]
          /\ \A h \in Log \ {l} : out'[h] = out[h]
          /\ out'[l] # "nil"
          /\ \A h \in FileLog : out'[h] = "nilfile" => h \in failed'
          /\ out'[l] = out[l] \/ (mode[l] = "file" /\ out'[l] \in {"file", "nilfile"})
      BY <1>8 DEF FlushTaken
    <3>2. out'["console"] = "stream"
      BY <3>1 DEF CallInv, ConfInv, Log
    <3>3. out'["main"] # "stream"
      BY <3>1 DEF CallInv, ConfInv, Log
    <3>4. mode["dev"] = "none" => out'["dev"] = "nil"
      <4>1. ASSUME mode["dev"] = "none" PROVE out'["dev"] = "nil"
        <5>1. l # "dev"
          BY <3>1, <4>1 DEF CallInv, ConfInv
        <5> QED
          BY <3>1, <4>1, <5>1 DEF CallInv, ConfInv, Log
      <4> QED
        BY <4>1
    <3>5. /\ mode["dev"] = "file" => out'["dev"] # "stream"
          /\ mode["dev"] = "discard" => out'["dev"] = "stream"
      BY <3>1 DEF CallInv, ConfInv, Log
    <3> QED
      BY <1>1, <3>1, <3>2, <3>3, <3>4, <3>5 DEF CallInv, ConfInv
  <2> QED
    BY <2>5, <2>10, <2>12, <2>13 DEF CallInv
<1> QED
  BY <1>6, <1>7, <1>8, FlushLockCases

\* Every step keeps it.
LEMMA CallStep ==
  ASSUME Picks PROVE CallInv /\ [Next]_vars => CallInv'
<1> SUFFICES ASSUME CallInv, [Next]_vars PROVE CallInv'
  OBVIOUS
<1>1. ASSUME NEW w \in Writer, Write(w) PROVE CallInv'
  BY <1>1, CallCommit, CallAddToRoot DEF Write
<1>2. ASSUME NEW w \in Writer, FlushStep(w) PROVE CallInv'
  BY <1>2, CallFlushLock, CallShift, CallGzip, CallTruncate, CallWriteLine, CallCopy,
     CallEnd DEF FlushStep
<1>3. CASE UNCHANGED vars
  <2>1. UNCHANGED <<mode, out, cc, lock, root, stack, file, backup, console, msgs, rot,
                    born, failed, acked>>
    BY <1>3 DEF vars, memVars, diskVars, histVars
  <2>2. TypeInv'
    BY <2>1 DEF CallInv, TypeInv
  <2>3. ConfInv'
    BY <2>1 DEF CallInv, ConfInv
  <2>4. \A l \in Log : cc'[l] \in Seq(Log) /\ Len(cc'[l]) >= Len(cc[l])
    <3>1. \A l \in Log : cc'[l] = cc[l] /\ cc[l] \in Seq(Log) /\ Len(cc[l]) \in Nat
      BY <2>1, SMT DEF CallInv, ConfInv
    <3> QED
      BY <3>1, SMT
  <2>5. StackInv'
    BY <2>1, <2>4, OthersKept DEF StackInv
  <2>6. LockInv'
    BY <2>1 DEF CallInv, LockInv
  <2> QED
    BY <2>2, <2>3, <2>5, <2>6 DEF CallInv
<1> QED
  BY <1>1, <1>2, <1>3, CallToDevFile, CallToMainLog, CallCrash DEF Next

-----------------------------------------------------------------------------
(* Calls do not block each other.                                          *)

\* A call that can go on: it has its lock, or may take it.
LEMMA MayGoOn ==
  ASSUME CallInv, NEW w \in Writer, stack[w] # <<>>,
         Top(w).phase = "lock" => lock[Top(w).log] = NoWriter
  PROVE  FlushGoesOn
BY DEF FlushGoesOn, InPhase

\* Who holds a lock, and has nothing to wait for at a logger below it.
LEMMA HolderGoesOn ==
  ASSUME CallInv, NEW l \in Log, lock[l] # NoWriter,
         \A k \in Log : Above(l, k) => lock[k] = NoWriter
  PROVE  FlushGoesOn
<1> DEFINE w == lock[l]
<1>1. w \in Writer
  BY DEF CallInv, TypeInv
<1>2. PICK p \in 1..Len(stack[w]) : stack[w][p].log = l /\ stack[w][p].phase # "lock"
  BY DEF CallInv, LockInv
<1>3. stack[w] # <<>>
  BY <1>2, SMT
<1> HIDE DEF w
<1>4. /\ Top(w) = stack[w][1] /\ Len(stack[w]) \in Nat /\ Top(w).log \in Log
  BY <1>1, <1>3, TopFacts DEF CallInv
<1>5. ASSUME Top(w).phase = "lock" PROVE lock[Top(w).log] = NoWriter
  <2>1. p # 1
    BY <1>2, <1>4, <1>5
  <2>2. 1 \in 1..p - 1
    BY <1>2, <1>4, <2>1, SMT
  <2>3. Above(l, Top(w).log)
    BY <1>1, <1>2, <1>4, <2>2 DEF CallInv, StackInv, StackOf
  <2> QED
    BY <1>4, <2>3
<1> QED
  BY <1>1, <1>3, <1>5, MayGoOn

-----------------------------------------------------------------------------
(* Lines of sequences, and the innermost call.                             *)

\* The lines of a sequence.
LEMMA Members ==
  ASSUME NEW s \in Seq(Lines)
  PROVE  /\ \A x : x \in Range(s) <=> \E p \in 1..Len(s) : s[p] = x
         /\ Range(s) \subseteq Lines
         /\ \A x \in Lines : Range(Append(s, x)) = Range(s) \cup {x}
         /\ \A t \in Seq(Lines) : Range(s \o t) = Range(s) \cup Range(t)
         /\ s # <<>> <=> Range(s) # {}
<1>1. DOMAIN s = 1..Len(s) /\ Len(s) \in Nat
  BY SMT
<1>2. \A x : x \in Range(s) <=> \E p \in 1..Len(s) : s[p] = x
  BY <1>1 DEF Range
<1>3. Range(s) \subseteq Lines
  BY <1>2, SMT
<1>4. ASSUME NEW x \in Lines PROVE Range(Append(s, x)) = Range(s) \cup {x}
  <2> DEFINE t == Append(s, x)
  <2>1. /\ DOMAIN t = 1..Len(s) + 1 /\ t[Len(s) + 1] = x
        /\ \A p \in 1..Len(s) : t[p] = s[p]
    BY SMT
  <2> HIDE DEF t
  <2>2. ASSUME NEW y PROVE y \in Range(t) <=> y \in Range(s) \cup {x}
    <3>1. y \in Range(t) <=> \E p \in 1..Len(s) + 1 : t[p] = y
      BY <2>1 DEF Range
    <3>2. (\E p \in 1..Len(s) + 1 : t[p] = y) <=> (\E p \in 1..Len(s) : t[p] = y) \/ t[Len(s) + 1] = y
      <4>1. 1..Len(s) + 1 = (1..Len(s)) \cup {Len(s) + 1}
        BY <1>1, SMT
      <4> QED
        BY <4>1
    <3> QED
      BY <1>2, <2>1, <3>1, <3>2
  <2> QED
    BY <2>2 DEF t
<1>5. ASSUME NEW t \in Seq(Lines) PROVE Range(s \o t) = Range(s) \cup Range(t)
  <2> DEFINE u == s \o t
  <2>1. Len(t) \in Nat /\ DOMAIN t = 1..Len(t)
    BY SMT
  <2>2. /\ DOMAIN u = 1..Len(s) + Len(t)
        /\ \A p \in 1..Len(s) : u[p] = s[p]
        /\ \A p \in 1..Len(t) : u[Len(s) + p] = t[p]
    BY SMT
  <2> HIDE DEF u
  <2>3. ASSUME NEW y, y \in Range(u) PROVE y \in Range(s) \cup Range(t)
    <3>1. PICK p \in 1..Len(s) + Len(t) : u[p] = y
      BY <2>2, <2>3 DEF Range
    <3>2. CASE p <= Len(s)
      BY <1>1, <1>2, <2>1, <2>2, <3>1, <3>2, SMT
    <3>3. CASE p > Len(s)
      <4>1. p - Len(s) \in 1..Len(t) /\ Len(s) + (p - Len(s)) = p
        BY <1>1, <2>1, <3>1, <3>3, SMT
      <4>2. t[p - Len(s)] = y
        BY <2>2, <3>1, <4>1
      <4> QED
        BY <2>1, <4>1, <4>2 DEF Range
    <3> QED
      BY <1>1, <2>1, <3>2, <3>3, SMT
  <2>4. ASSUME NEW y, y \in Range(s) \cup Range(t) PROVE y \in Range(u)
    <3>1. CASE y \in Range(s)
      <4>1. PICK p \in 1..Len(s) : s[p] = y
        BY <1>2, <3>1
      <4>2. p \in 1..Len(s) + Len(t) /\ u[p] = y
        BY <1>1, <2>1, <2>2, <4>1, SMT
      <4> QED
        BY <2>2, <4>2 DEF Range
    <3>2. CASE y \in Range(t)
      <4>1. PICK p \in 1..Len(t) : t[p] = y
        BY <2>1, <3>2 DEF Range
      <4>2. Len(s) + p \in 1..Len(s) + Len(t) /\ u[Len(s) + p] = y
        BY <1>1, <2>1, <2>2, <4>1, SMT
      <4> QED
        BY <2>2, <4>2 DEF Range
    <3> QED
      BY <2>4, <3>1, <3>2
  <2> QED
    BY <2>3, <2>4 DEF u
<1>6. s # <<>> <=> Range(s) # {}
  <2>1. s # <<>> <=> Len(s) # 0
    BY SMT
  <2>2. (Len(s) # 0 => 1 \in 1..Len(s)) /\ (Len(s) = 0 => 1..Len(s) = {})
    BY <1>1, SMT
  <2>3. CASE Len(s) = 0
    BY <1>2, <2>1, <2>2, <2>3, Zenon
  <2>4. CASE Len(s) # 0
    <3>1. s[1] \in Range(s)
      BY <1>2, <2>2, <2>4
    <3> QED
      BY <2>1, <2>4, <3>1
  <2> QED
    BY <2>3, <2>4
<1> QED
  BY <1>2, <1>3, <1>4, <1>5, <1>6

\* The innermost call after Goto.
LEMMA GoneTop ==
  ASSUME NEW w \in Writer, NEW ph, NEW n, Gone(w, ph, n)
  PROVE  /\ stack'[w] # <<>> /\ Top(w)'.phase = ph /\ Top(w)'.i = n
         /\ Top(w)'.log = Top(w).log /\ Top(w)'.lines = Top(w).lines
         /\ Top(w)'.isRoot = Top(w).isRoot /\ Top(w)'.mine = Top(w).mine
<1>1. stack'[w] \in Seq(Frame) /\ stack'[w] # <<>>
  BY DEF Gone
<1>2. Top(w)' = stack'[w][1]
  BY <1>1, HeadAndTail DEF Top
<1> QED
  BY <1>2 DEF Gone

\* The innermost call after Return waits for its copies.
LEMMA PoppedTop ==
  ASSUME CallInv, NEW w \in Writer, stack[w] # <<>>, stack'[w] = Tail(stack[w]),
         stack'[w] # <<>>
  PROVE  /\ Top(w)' = stack[w][2] /\ 2 \in 1..Len(stack[w])
         /\ Top(w)'.phase = "write" /\ Top(w)'.i > Len(Output(stack[w][2].log))
<1>1. stack[w] \in Seq(Frame) /\ Len(stack[w]) \in Nat /\ Len(stack[w]) > 0
  BY TopFacts DEF CallInv
<1>2. /\ stack'[w] \in Seq(Frame) /\ Len(stack'[w]) = Len(stack[w]) - 1
      /\ \A p \in 1..Len(stack[w]) - 1 : stack'[w][p] = stack[w][p + 1]
  BY <1>1, HeadAndTail
<1>3. Top(w)' = stack'[w][1] /\ Len(stack'[w]) > 0
  BY <1>2, HeadAndTail DEF Top
<1>4. 1 \in 1..Len(stack[w]) - 1 /\ 2 \in 1..Len(stack[w]) /\ 1 + 1 = 2
  BY <1>1, <1>2, <1>3, SMT
<1>5. stack'[w][1] = stack[w][2]
  BY <1>2, <1>4
<1>6. stack[w][2].phase = "write" /\ stack[w][2].i > Len(Output(stack[w][2].log))
  BY <1>4, SMT DEF CallInv, StackInv, StackOf
<1> QED
  BY <1>3, <1>4, <1>5, <1>6

-----------------------------------------------------------------------------
(* Induction, and what OfLevels computes.                                  *)

INSTANCE WellFoundedInduction

\* A set of natural numbers has a least element.
LEMMA LeastNat ==
  ASSUME NEW T, T \subseteq Nat, T # {}
  PROVE  \E x \in T : \A y \in T : x <= y
<1> DEFINE R == {ss \in Nat \X Nat : ss[1] < ss[2]}
<1>1. IsWellFoundedOn(R, Nat)
  <2>1. OpToRel(<, Nat) = R
    BY Zenon DEF OpToRel
  <2> QED
    BY <2>1, NatLessThanWellFounded, Zenon
<1>2. PICK x \in T : \A y \in T : ~(<<y, x>> \in R)
  <2> HIDE DEF R
  <2> QED
    BY <1>1, WFMin
<1>3. ASSUME NEW y \in T PROVE x <= y
  <2>1. <<y, x>> \in Nat \X Nat
    OBVIOUS
  <2>2. ~(y < x)
    BY <2>1, <1>2
  <2> QED
    BY <2>2, SMTT(30)
<1> QED
  BY <1>3

\* Induction up to N, for a property that is given as a set.
LEMMA InductionTo ==
  ASSUME NEW N \in Nat, NEW S, 0 \in S,
         \A n \in 0..N - 1 : n \in S => n + 1 \in S
  PROVE  \A n \in 0..N : n \in S
<1> DEFINE T == {n \in 0..N : n \notin S}
<1> SUFFICES ASSUME T # {} PROVE FALSE
  OBVIOUS
<1>1. PICK x \in T : \A y \in T : x <= y
  <2>1. T \subseteq Nat
    BY SMTT(30)
  <2> HIDE DEF T
  <2> QED
    BY <2>1, LeastNat
<1>2. x # 0 /\ x - 1 \in 0..N - 1
  BY SMTT(30)
<1>3. x - 1 \in S
  BY <1>1, <1>2, SMTT(30)
<1>4. (x - 1) + 1 \in S
  BY <1>2, <1>3
<1> QED
  BY <1>2, <1>4, SMTT(30)

\* The function that OfLevels defines.
SelStep(f, s, levels, n) ==
  IF n = 0 THEN <<>>
  ELSE IF s[n].level \in levels THEN Append(f[n - 1], s[n])
  ELSE f[n - 1]

IsSel(f, s, levels, m) == f = [n \in 0..m |-> SelStep(f, s, levels, n)]

\* There is such a function: it is extended line by line.
LEMMA SelExists ==
  ASSUME NEW s \in Seq(Lines), NEW levels
  PROVE  \E f : IsSel(f, s, levels, Len(s))
<1> DEFINE S == {m \in Nat : \E f : IsSel(f, s, levels, m)}
<1>1. 0 \in S
  <2> DEFINE f == [n \in 0..0 |-> <<>>]
  <2>1. f = [n \in 0..0 |-> SelStep(f, s, levels, n)]
    BY SMTT(30) DEF SelStep
  <2> QED
    BY <2>1 DEF IsSel
<1>2. ASSUME NEW m \in 0..Len(s) - 1, m \in S PROVE m + 1 \in S
  <2>1. PICK f : IsSel(f, s, levels, m)
    BY <1>2
  <2> DEFINE g == [n \in 0..m + 1 |->
                    IF n <= m THEN f[n] ELSE SelStep(f, s, levels, m + 1)]
  <2>2. \A n \in 0..m + 1 : g[n] = SelStep(g, s, levels, n)
    <3>1. \A n \in 0..m : g[n] = f[n]
      BY SMTT(30)
    <3>2. ASSUME NEW n \in 0..m PROVE g[n] = SelStep(g, s, levels, n)
      <4>1. f[n] = SelStep(f, s, levels, n)
        BY <2>1 DEF IsSel
      <4>2. n # 0 => g[n - 1] = f[n - 1]
        BY SMTT(30)
      <4> HIDE DEF g
      <4> QED
        BY <3>1, <4>1, <4>2 DEF SelStep
    <3>3. g[m + 1] = SelStep(g, s, levels, m + 1)
      <4>1. g[m] = f[m] /\ g[m + 1] = SelStep(f, s, levels, m + 1)
        BY SMT
      <4> HIDE DEF g
      <4> QED
        BY <4>1, SMTT(30) DEF SelStep
    <3> HIDE DEF g
    <3> QED
      BY <3>2, <3>3, SMTT(30)
  <2>3. g = [n \in 0..m + 1 |-> SelStep(g, s, levels, n)]
    BY <2>2
  <2>4. IsSel(g, s, levels, m + 1) /\ m + 1 \in Nat
    BY <2>3, SMTT(30) DEF IsSel
  <2> HIDE DEF g
  <2> QED
    BY <2>4
<1>3. \A n \in 0..Len(s) : n \in S
  <2>1. Len(s) \in Nat
    BY SMTT(30)
  <2> HIDE DEF S
  <2> QED
    BY <1>1, <1>2, <2>1, InductionTo
<1> QED
  BY <1>3, SMTT(30)

\* A selection o of the first n lines of s, with the places e they are from.
Embeds(e, o, s, levels, n) ==
  /\ e \in [1..Len(o) -> 1..n]
  /\ \A p, q \in 1..Len(o) : p < q => e[p] < e[q]
  /\ \A p \in 1..Len(o) : o[p] = s[e[p]] /\ s[e[p]].level \in levels
  /\ \A k \in 1..n : s[k].level \in levels => \E p \in 1..Len(o) : e[p] = k

\* OfLevels picks lines in their order, all of the levels and no others.
LEMMA OfLevelsEmbeds ==
  ASSUME NEW s \in Seq(Lines), NEW levels
  PROVE  /\ OfLevels(s, levels) \in Seq(Lines)
         /\ \E e : Embeds(e, OfLevels(s, levels), s, levels, Len(s))
<1> DEFINE f == CHOOSE f : IsSel(f, s, levels, Len(s))
<1>1. OfLevels(s, levels) = f[Len(s)]
  BY Zenon DEF OfLevels, IsSel, SelStep
<1>2. \A n \in 0..Len(s) : f[n] = SelStep(f, s, levels, n)
  <2>1. IsSel(f, s, levels, Len(s))
    BY SelExists, Zenon
  <2> HIDE DEF f
  <2> QED
    BY <2>1 DEF IsSel
<1> HIDE DEF f
<1> DEFINE S == {n \in Nat : f[n] \in Seq(Lines) /\ \E e : Embeds(e, f[n], s, levels, n)}
<1>3. 0 \in S
  <2>1. 0 \in 0..Len(s)
    BY SMTT(30)
  <2>2. f[0] = <<>>
    BY <1>2, <2>1 DEF SelStep
  <2>3. /\ <<>> \in Seq(Lines) /\ <<>> \in [1..0 -> 1..0]
        /\ Len(<<>>) = 0 /\ 1..0 = {}
    BY SMTT(30)
  <2>4. Embeds(<<>>, <<>>, s, levels, 0)
    BY <2>3 DEF Embeds
  <2> QED
    BY <2>2, <2>3, <2>4
<1>4. ASSUME NEW n \in 0..Len(s) - 1, n \in S PROVE n + 1 \in S
  <2>1. PICK e : Embeds(e, f[n], s, levels, n)
    BY <1>4
  <2>2. f[n] \in Seq(Lines) /\ n + 1 \in 1..Len(s) /\ s[n + 1] \in Lines
    BY <1>4, SMTT(30)
  <2>5. f[n + 1] = SelStep(f, s, levels, n + 1) /\ n + 1 # 0 /\ (n + 1) - 1 = n
    BY <1>2, <2>2, SMTT(30)
  <2>6. /\ e \in [1..Len(f[n]) -> 1..n]
        /\ \A p, q \in 1..Len(f[n]) : p < q => e[p] < e[q]
        /\ \A p \in 1..Len(f[n]) : f[n][p] = s[e[p]] /\ s[e[p]].level \in levels
        /\ \A k \in 1..n : s[k].level \in levels => \E p \in 1..Len(f[n]) : e[p] = k
    BY <2>1 DEF Embeds
  <2>8. \A p \in 1..Len(f[n]) : e[p] \in 1..n
    BY <2>6
  <2>7. Len(f[n]) \in Nat /\ n \in Nat
    BY <2>2, SMTT(30)
  <2>3. CASE s[n + 1].level \in levels
    <3>1. f[n + 1] = Append(f[n], s[n + 1])
      BY <2>3, <2>5 DEF SelStep
    <3> DEFINE g == [p \in 1..Len(f[n]) + 1 |-> IF p <= Len(f[n]) THEN e[p] ELSE n + 1]
    <3>2. /\ f[n + 1] \in Seq(Lines) /\ Len(f[n + 1]) = Len(f[n]) + 1
          /\ \A p \in 1..Len(f[n]) : f[n + 1][p] = f[n][p]
          /\ f[n + 1][Len(f[n]) + 1] = s[n + 1]
      BY <2>2, <3>1, SMTT(30)
    <3>3. g \in [1..Len(f[n + 1]) -> 1..n + 1]
      <4>1. \A p \in 1..Len(f[n]) : e[p] \in 1..n + 1
        BY <2>7, <2>8, SMTT(30)
      <4> QED
        BY <2>7, <3>2, <4>1, SMTT(30)
    <3>8. /\ \A p \in 1..Len(f[n]) : g[p] = e[p]
          /\ g[Len(f[n]) + 1] = n + 1
      BY <2>7, SMTT(30)
    <3>9. \A p \in 1..Len(f[n + 1]) : p \in 1..Len(f[n]) \/ p = Len(f[n]) + 1
      BY <2>7, <3>2, SMTT(30)
    <3> HIDE DEF g
    <3>4. ASSUME NEW p \in 1..Len(f[n + 1]), NEW q \in 1..Len(f[n + 1]), p < q
          PROVE  g[p] < g[q]
      <4>1. p \in 1..Len(f[n])
        BY <2>7, <3>2, <3>4, SMTT(30)
      <4>2. CASE q \in 1..Len(f[n])
        BY <2>6, <3>4, <3>8, <4>1, <4>2
      <4>3. CASE q = Len(f[n]) + 1
        <5>1. e[p] \in 1..n
          BY <2>8, <4>1
        <5> QED
          BY <2>7, <3>8, <4>1, <4>3, <5>1, SMTT(30)
      <4> QED
        BY <3>9, <4>2, <4>3
    <3>5. \A p \in 1..Len(f[n + 1]) :
            f[n + 1][p] = s[g[p]] /\ s[g[p]].level \in levels
      BY <2>6, <2>3, <3>2, <3>8, <3>9
    <3>6. ASSUME NEW k \in 1..n + 1, s[k].level \in levels
          PROVE  \E p \in 1..Len(f[n + 1]) : g[p] = k
      <4>1. CASE k = n + 1
        BY <2>7, <3>2, <3>8, <4>1, SMTT(30)
      <4>2. CASE k \in 1..n
        <5>1. PICK p \in 1..Len(f[n]) : e[p] = k
          BY <2>6, <3>6, <4>2
        <5> QED
          BY <2>7, <3>2, <3>8, <5>1, SMTT(30)
      <4> QED
        BY <2>7, <4>1, <4>2, SMTT(30)
    <3>7. Embeds(g, f[n + 1], s, levels, n + 1)
      BY <3>3, <3>4, <3>5, <3>6 DEF Embeds
    <3> QED
      BY <3>2, <3>7, SMTT(30)
  <2>4. CASE s[n + 1].level \notin levels
    <3>1. f[n + 1] = f[n]
      BY <2>4, <2>5 DEF SelStep
    <3>2. e \in [1..Len(f[n]) -> 1..n + 1]
      BY <2>6, <2>7, SMTT(30)
    <3>3. \A k \in 1..n + 1 : s[k].level \in levels => k \in 1..n
      BY <2>4, <2>7, SMTT(30)
    <3>4. Embeds(e, f[n], s, levels, n + 1)
      BY <2>6, <3>2, <3>3 DEF Embeds
    <3> QED
      BY <2>2, <3>1, <3>4, SMTT(30)
  <2> QED
    BY <2>3, <2>4
<1>5. \A n \in 0..Len(s) : n \in S
  <2>1. Len(s) \in Nat
    BY SMT
  <2> HIDE DEF S
  <2> QED
    BY <1>3, <1>4, <2>1, InductionTo
<1> QED
  BY <1>1, <1>5, SMTT(30)

\* What the other proofs use of OfLevels: the lines it picks, and that it does
\* not tear messages apart.
LEMMA PicksOne ==
  ASSUME NEW s \in Seq(Lines), NEW levels
  PROVE  /\ OfLevels(s, levels) \in Seq(Lines)
         /\ \A x : x \in Range(OfLevels(s, levels)) <=> x \in Range(s) /\ x.level \in levels
         /\ s = <<>> => OfLevels(s, levels) = <<>>
         /\ Whole(s) => Whole(OfLevels(s, levels))
<1> DEFINE o == OfLevels(s, levels)
<1>1. o \in Seq(Lines)
  BY OfLevelsEmbeds
<1>2. PICK e : Embeds(e, o, s, levels, Len(s))
  BY OfLevelsEmbeds
<1> HIDE DEF o
<1>3. DOMAIN o = 1..Len(o) /\ DOMAIN s = 1..Len(s) /\ Len(o) \in Nat /\ Len(s) \in Nat
  BY <1>1, SMTT(30)
<1>4. \A x : x \in Range(o) <=> x \in Range(s) /\ x.level \in levels
  <2>1. ASSUME NEW x, x \in Range(o) PROVE x \in Range(s) /\ x.level \in levels
    <3>1. PICK p \in 1..Len(o) : x = o[p]
      BY <1>3, <2>1 DEF Range
    <3>2. x = s[e[p]] /\ e[p] \in 1..Len(s) /\ x.level \in levels
      BY <1>2, <3>1 DEF Embeds
    <3> QED
      BY <1>3, <3>2 DEF Range
  <2>2. ASSUME NEW x, x \in Range(s), x.level \in levels PROVE x \in Range(o)
    <3>1. PICK k \in 1..Len(s) : x = s[k]
      BY <1>3, <2>2 DEF Range
    <3>2. PICK p \in 1..Len(o) : e[p] = k
      BY <1>2, <2>2, <3>1 DEF Embeds
    <3>3. o[p] = x
      BY <1>2, <3>1, <3>2 DEF Embeds
    <3> QED
      BY <1>3, <3>3 DEF Range
  <2> QED
    BY <2>1, <2>2
<1>5. s = <<>> => o = <<>>
  BY <1>1, <1>2, <1>3, SMTT(30) DEF Embeds
<1>6. ASSUME Whole(s) PROVE Whole(o)
  <2> SUFFICES ASSUME NEW p \in 1..Len(o), NEW q \in 1..Len(o), p < q,
                      o[p].msg = o[q].msg, o[p].via = o[q].via
               PROVE  o[p].i < o[q].i /\ \A r \in p..q : o[r].msg = o[p].msg
    BY <1>3 DEF Whole
  <2>1. /\ e[p] \in 1..Len(s) /\ e[q] \in 1..Len(s) /\ e[p] < e[q]
        /\ o[p] = s[e[p]] /\ o[q] = s[e[q]]
    BY <1>2, <1>3 DEF Embeds
  <2>2. s[e[p]].i < s[e[q]].i /\ \A r \in e[p]..e[q] : s[r].msg = s[e[p]].msg
    BY <1>3, <1>6, <2>1, SMTT(30) DEF Whole
  <2>3. ASSUME NEW r \in p..q PROVE o[r] = s[e[r]] /\ e[r] \in e[p]..e[q]
    <3>1. r \in 1..Len(o) /\ (p < r \/ p = r) /\ (r < q \/ r = q)
      BY <1>3, SMTT(30)
    <3>2. o[r] = s[e[r]] /\ e[r] \in 1..Len(s)
      BY <1>2, <3>1 DEF Embeds
    <3>3. e[p] <= e[r] /\ e[r] <= e[q]
      BY <1>2, <1>3, <2>1, <3>1, <3>2, SMTT(30) DEF Embeds
    <3> QED
      BY <1>3, <2>1, <3>2, <3>3, SMTT(30)
  <2> QED
    BY <2>1, <2>2, <2>3
<1> QED
  BY <1>1, <1>4, <1>5, <1>6 DEF o

\* For all sequences of lines.
LEMMA PicksHolds == Picks
BY PicksOne DEF Picks

-----------------------------------------------------------------------------
(* Theorems.                                                               *)

\* In every state, calls hold the locks they need and wait only for loggers
\* below theirs, and the set-up of loggers is one of those NewUsbTransport
\* and Flush make.
THEOREM LoggerInvariant == Spec => []CallInv
<1>1. CallInv /\ [Next]_vars => CallInv'
  BY PicksHolds, CallStep
<1> QED
  BY <1>1, CallInit, PTL DEF Spec

\* Loggers that copy to each other with their locks held do not block each
\* other, whatever calls goroutines have made.
THEOREM FlushGoesOnTheorem == Spec => []FlushGoesOn
<1>1. ASSUME CallInv PROVE FlushGoesOn
  <2>1. CASE lock["console"] # NoWriter
    <3>1. "console" \in Log /\ \A k \in Log : ~Above("console", k)
      BY DEF Log, Above
    <3> QED
      BY <1>1, <2>1, <3>1, HolderGoesOn
  <2>2. CASE lock["console"] = NoWriter /\ lock["main"] # NoWriter
    <3>1. "main" \in Log /\ \A k \in Log : Above("main", k) => k = "console"
      BY DEF Log, Above
    <3> QED
      BY <1>1, <2>2, <3>1, HolderGoesOn
  <2>3. CASE lock["console"] = NoWriter /\ lock["main"] = NoWriter /\ lock["dev"] # NoWriter
    <3>1. "dev" \in Log /\ \A k \in Log : Above("dev", k) => k \in {"console", "main"}
      BY DEF Log, Above
    <3> QED
      BY <1>1, <2>3, <3>1, HolderGoesOn
  <2>4. CASE \A l \in Log : lock[l] = NoWriter
    <3>1. ASSUME NEW w \in Writer, stack[w] # <<>> PROVE FlushGoesOn
      <4>1. Top(w).log \in Log
        BY <1>1, <3>1, TopFacts DEF CallInv
      <4> QED
        BY <1>1, <2>4, <3>1, <4>1, MayGoOn
    <3> QED
      BY <3>1 DEF FlushGoesOn
  <2> QED
    BY <2>1, <2>2, <2>3, <2>4 DEF Log
<1> QED
  BY <1>1, LoggerInvariant, PTL
=============================================================================
