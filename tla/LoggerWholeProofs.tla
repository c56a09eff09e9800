------------------------- MODULE LoggerWholeProofs --------------------------
(***************************************************************************)
(* Messages stay in one piece, with any number of goroutines, copies,      *)
(* rotations and crashes.                                                  *)
(***************************************************************************)
EXTENDS LoggerProofs

\* Leaves that need arithmetic, or sequences, cite SMT.
USE Zenon

-----------------------------------------------------------------------------
(* Messages in one piece.                                                  *)

\* What a logger writes to.
Outs(l) == IF l = "console" THEN console ELSE file[l]

\* Lines of the same message, on the same way.
Same(x, y) == x.msg = y.msg /\ x.via = y.via

\* The last k lines of o are the first ones of u, and those before have nothing
\* in common with r.
GoesOn(o, u, r, k) ==
  /\ k <= Len(u) /\ k <= Len(o)
  /\ \A j \in 1..k : o[Len(o) - k + j] = u[j]
  /\ \A a \in 1..Len(o) - k : \A x \in Range(r) : ~Same(o[a], x)

\* k lines of the root message were written last, and none before.
Progress(l, k) == GoesOn(Outs(l), Output(l), root[l], k)

\* The lines that the call f has written.
Count(f) ==
  IF f.phase = "write" /\ (f.log = "console" \/ out[f.log] = "file")
  THEN IF f.i <= Len(Output(f.log)) THEN f.i ELSE Len(Output(f.log))
  ELSE 0

\* The lines of a call are in one piece, and what it writes next goes on with
\* what it wrote last.
WholeFrame(f) ==
  IF f.phase = "lock" THEN Whole(f.lines) ELSE Progress(f.log, Count(f))

\* The same of a logger.
WholeLog(l) ==
  /\ Whole(root[l]) /\ Whole(Outs(l))
  /\ lock[l] = NoWriter => Progress(l, 0)

WholeInv ==
  /\ \A l \in Log : WholeLog(l)
  /\ \A l \in FileLog : \A j \in 0..MaxBackup - 1 : Whole(backup[l][j])
  /\ \A w \in Writer : \A p \in 1..Len(stack[w]) : WholeFrame(stack[w][p])

\* The lines that wait with goroutine w for the lock of logger l, ...
WaitingOf(w, l) ==
  IF InPhase(w, "lock") /\ Top(w).log = l THEN Range(Top(w).lines) ELSE {}

Waiting(l) == UNION {WaitingOf(w, l) : w \in Writer}

\* ... those it has got, those it has to deal with, and all of them.
Got(l) == Range(Outs(l)) \cup Range(root[l])

Pending(l) == Range(root[l]) \cup Waiting(l)

At(l) == Got(l) \cup Waiting(l)

\* The first n copies of the root message of l are made, ...
Copied(l, n) ==
  \E w \in Writer : \E p \in 1..Len(stack[w]) :
    /\ stack[w][p].log = l /\ stack[w][p].phase = "write"
    /\ stack[w][p].i >= Len(Output(l)) + n

\* ... and the lines whose n-th copy is to be made.
Uncopied(l, n) == Waiting(l) \cup IF Copied(l, n) THEN {} ELSE Range(root[l])

\* No line of message m has come to l from v.
Clear(l, v, m) == \A x \in At(l) : ~(x.msg = m /\ x.via = v)

\* No line of message m has come to the main log.
ClearMain(m) == \A x \in At("main") : x.msg # m

\* Each message is in one place: lines that wait are nowhere else, and those
\* that are to be copied have not been.
KeyInv ==
  /\ \A l \in Log : \A x \in At(l) : x.msg <= msgs
  /\ \A l \in Log : \A w \in Writer : \A x \in WaitingOf(w, l) :
       /\ \A y \in Got(l) : ~Same(x, y)
       /\ \A v \in Writer \ {w} : \A y \in WaitingOf(v, l) : ~Same(x, y)
  /\ \A x \in Pending("dev") : x.via = "none"
  /\ \A x, y \in Pending("main") : x.msg = y.msg => x.via = y.via
  /\ \A x \in Uncopied("dev", 1) : Clear("console", "dev", x.msg)
  /\ \A x \in Uncopied("dev", 2) : ClearMain(x.msg) /\ Clear("console", "main", x.msg)
  /\ \A x \in Uncopied("main", 1) : Clear("console", "main", x.msg)

\* Whole, for a sequence of lines.
LEMMA WholeSeq ==
  ASSUME NEW s \in Seq(Lines)
  PROVE  Whole(s) <=>
           \A p, q \in 1..Len(s) : p < q /\ Same(s[p], s[q]) =>
             /\ s[p].i < s[q].i
             /\ \A r \in p..q : s[r].msg = s[p].msg
BY SMTT(30) DEF Whole, Same

\* Messages that have nothing in common, one after the other.
LEMMA WholeConcat ==
  ASSUME NEW s \in Seq(Lines), NEW t \in Seq(Lines), Whole(s), Whole(t),
         \A x \in Range(s), y \in Range(t) : ~Same(x, y)
  PROVE  Whole(s \o t)
<1> DEFINE c == s \o t
<1>1. PICK m \in Nat, n \in Nat : m = Len(s) /\ n = Len(t)
  BY SMT
<1>2. /\ c \in Seq(Lines) /\ Len(c) = m + n
      /\ \A p \in 1..m : c[p] = s[p]
      /\ \A p \in m + 1..m + n : c[p] = t[p - m]
  BY <1>1, SMTT(30)
<1> HIDE DEF c
<1>3. ASSUME NEW p \in 1..m + n, NEW q \in 1..m + n, p < q, Same(c[p], c[q])
      PROVE  c[p].i < c[q].i /\ \A r \in p..q : c[r].msg = c[p].msg
  <2>1. CASE q <= m
    <3>1. p \in 1..m /\ q \in 1..m /\ c[p] = s[p] /\ c[q] = s[q]
      BY <1>2, <1>3, <2>1, SMTT(30)
    <3>2. s[p].i < s[q].i /\ \A r \in p..q : s[r].msg = s[p].msg
      BY <1>1, <1>3, <3>1, WholeSeq
    <3>3. \A r \in p..q : c[r] = s[r]
      BY <1>2, <3>1, SMT
    <3> QED
      BY <3>1, <3>2, <3>3
  <2>2. CASE p > m
    <3>0. \A r \in p..q : r \in m + 1..m + n /\ r - m \in p - m..q - m
      BY <1>3, <2>2, SMT
    <3>1. /\ p - m \in 1..n /\ q - m \in 1..n /\ p - m < q - m
          /\ c[p] = t[p - m] /\ c[q] = t[q - m]
      <4>1. p - m \in 1..n /\ q - m \in 1..n /\ p - m < q - m /\ p \in p..q /\ q \in p..q
        BY <1>3, <2>2, SMT
      <4> QED
        BY <1>2, <3>0, <4>1
    <3>2. t[p - m].i < t[q - m].i /\ \A r \in p - m..q - m : t[r].msg = t[p - m].msg
      BY <1>1, <1>3, <3>1, WholeSeq
    <3>3. \A r \in p..q : c[r] = t[r - m] /\ r - m \in p - m..q - m
      BY <1>2, <3>0
    <3> QED
      BY <3>1, <3>2, <3>3
  <2>3. CASE p <= m /\ q > m
    <3>1. p \in 1..m /\ q - m \in 1..n /\ c[p] = s[p] /\ c[q] = t[q - m]
      BY <1>2, <1>3, <2>3, SMTT(30)
    <3>2. s[p] \in Range(s) /\ t[q - m] \in Range(t)
      BY <1>1, <3>1, SMTT(30) DEF Range
    <3> QED
      BY <1>3, <3>1, <3>2
  <2> QED
    BY <1>3, <2>1, <2>2, <2>3, SMTT(30)
<1> QED
  BY <1>2, <1>3, WholeSeq DEF c

\* The next line of a message that is being written.
LEMMA WholeNext ==
  ASSUME NEW o \in Seq(Lines), NEW u \in Seq(Lines), Whole(o), Whole(u),
         NEW k \in Nat, k + 1 <= Len(u), k <= Len(o),
         \A j \in 1..k : o[Len(o) - k + j] = u[j],
         \A a \in 1..Len(o) - k : ~Same(o[a], u[k + 1])
  PROVE  Whole(Append(o, u[k + 1]))
<1> DEFINE c == Append(o, u[k + 1])
<1>1. PICK m \in Nat, n \in Nat : m = Len(o) /\ n = Len(u)
  BY SMT
<1>2. k + 1 \in 1..n /\ k <= m /\ u[k + 1] \in Lines
  BY <1>1, SMTT(30)
<1>3. /\ c \in Seq(Lines) /\ Len(c) = m + 1 /\ c[m + 1] = u[k + 1]
      /\ \A p \in 1..m : c[p] = o[p]
  BY <1>1, <1>2, SMT
<1>4. /\ \A j \in 1..k : o[m - k + j] = u[j]
      /\ \A a \in 1..m - k : ~Same(o[a], u[k + 1])
  BY <1>1
<1> HIDE DEF c
<1>5. ASSUME NEW p \in 1..m + 1, NEW q \in 1..m + 1, p < q, Same(c[p], c[q])
      PROVE  c[p].i < c[q].i /\ \A r \in p..q : c[r].msg = c[p].msg
  <2>1. CASE q <= m
    <3>0. p \in 1..m /\ q \in 1..m
      BY <1>5, <2>1, SMT
    <3>1. p \in 1..m /\ q \in 1..m /\ c[p] = o[p] /\ c[q] = o[q]
      BY <1>3, <3>0
    <3>2. o[p].i < o[q].i /\ \A r \in p..q : o[r].msg = o[p].msg
      BY <1>1, <1>5, <3>1, WholeSeq
    <3>3. \A r \in p..q : c[r] = o[r]
      <4>1. \A r \in p..q : r \in 1..m
        BY <3>1, SMT
      <4> QED
        BY <1>3, <4>1
    <3> QED
      BY <3>1, <3>2, <3>3
  <2>2. CASE q > m
    <3>1. q = m + 1 /\ p \in 1..m /\ c[p] = o[p] /\ c[q] = u[k + 1]
      <4>1. q = m + 1 /\ p \in 1..m
        BY <1>5, <2>2, SMT
      <4> QED
        BY <1>3, <4>1
    <3>2. ~(p <= m - k)
      BY <1>2, <1>4, <1>5, <3>1, SMT
    <3>3. PICK j \in 1..k : p = m - k + j
      <4>1. p - (m - k) \in 1..k /\ p = m - k + (p - (m - k))
        BY <1>2, <3>1, <3>2, SMTT(30)
      <4> QED
        BY <4>1
    <3>4. c[p] = u[j] /\ j \in 1..n /\ j < k + 1
      BY <1>2, <1>4, <3>1, <3>3, SMTT(30)
    <3>5. u[j].i < u[k + 1].i /\ \A r \in j..k + 1 : u[r].msg = u[j].msg
      BY <1>1, <1>2, <1>5, <3>1, <3>4, WholeSeq
    <3>6. ASSUME NEW r \in p..q PROVE c[r].msg = c[p].msg
      <4>1. CASE r = q
        BY <1>2, <3>1, <3>4, <3>5, <4>1, SMTT(30)
      <4>2. CASE r # q
        <5>0. r \in 1..m /\ r >= m - k + j /\ j >= 1
          BY <1>2, <3>1, <3>3, <3>6, <4>2, SMTT(30)
        <5>1. r - (m - k) \in 1..k /\ r - (m - k) \in j..k + 1 /\ r = m - k + (r - (m - k)) /\ r \in 1..m
          BY <1>2, <3>3, <5>0, SMTT(30)
        <5>2. o[r] = u[r - (m - k)] /\ c[r] = o[r]
          BY <1>3, <1>4, <5>1
        <5> QED
          BY <3>4, <3>5, <5>1, <5>2, SMTT(30)
      <4> QED
        BY <4>1, <4>2
    <3> QED
      BY <3>1, <3>4, <3>5, <3>6
  <2> QED
    BY <1>5, <2>1, <2>2, SMTT(30)
<1> QED
  BY <1>3, <1>5, WholeSeq DEF c

\* Copies of lines whose messages came on one way each.
LEMMA WholeVia ==
  ASSUME NEW s \in Seq(Lines), Whole(s), NEW v \in Log,
         \A x, y \in Range(s) : x.msg = y.msg => x.via = y.via
  PROVE  Whole([j \in DOMAIN s |-> [s[j] EXCEPT !.via = v]])
<1> DEFINE c == [j \in DOMAIN s |-> [s[j] EXCEPT !.via = v]]
<1>1. PICK m \in Nat : m = Len(s) /\ DOMAIN s = 1..m
  BY SMT
<1>2. \A j \in 1..m : /\ c[j].msg = s[j].msg /\ c[j].i = s[j].i /\ c[j].via = v
                      /\ s[j] \in Range(s)
  <2>1. ASSUME NEW j \in 1..m
        PROVE  c[j].msg = s[j].msg /\ c[j].i = s[j].i /\ c[j].via = v
    <3>1. s[j] \in Lines /\ c[j] = [s[j] EXCEPT !.via = v]
      BY <1>1, <2>1, SMT
    <3> HIDE DEF c
    <3> QED
      BY <3>1 DEF Lines
  <2>2. \A j \in 1..m : s[j] \in Range(s)
    BY <1>1 DEF Range
  <2> HIDE DEF c
  <2> QED
    BY <2>1, <2>2
<1>3. DOMAIN c = 1..m
  BY <1>1
<1> HIDE DEF c
<1>4. ASSUME NEW p \in 1..m, NEW q \in 1..m, p < q, c[p].msg = c[q].msg
      PROVE  c[p].i < c[q].i /\ \A r \in p..q : c[r].msg = c[p].msg
  <2>1. Same(s[p], s[q])
    BY <1>2, <1>4 DEF Same
  <2>2. s[p].i < s[q].i /\ \A r \in p..q : s[r].msg = s[p].msg
    BY <1>1, <1>4, <2>1, WholeSeq
  <2>3. \A r \in p..q : r \in 1..m
    BY <1>4, SMT
  <2> QED
    BY <1>2, <1>4, <2>2, <2>3
<1>5. Whole(c)
  BY <1>3, <1>4 DEF Whole
<1> QED
  BY <1>5 DEF c

-----------------------------------------------------------------------------
(* Each message is in one place.                                           *)

\* Lines move on within their logger only, and none is copied once more.
Moves ==
  /\ msgs' = msgs
  /\ \A l \in Log :
       /\ At(l)' \subseteq At(l) /\ Pending(l)' \subseteq Pending(l)
       /\ \A n \in {1, 2} : Uncopied(l, n)' \subseteq Uncopied(l, n)
       /\ \A w \in Writer : WaitingOf(w, l)' \subseteq WaitingOf(w, l)
       /\ \A y \in Got(l)' :
            y \in Got(l) \/ \E v \in Writer : y \in WaitingOf(v, l) /\ WaitingOf(v, l)' = {}

\* That keeps each message in one place.
LEMMA KeyMoves ==
  ASSUME KeyInv, Moves
  PROVE  KeyInv'
<1>1. \A l \in Log : \A x \in At(l)' : x.msg <= msgs'
  BY DEF KeyInv, Moves
<1>2. ASSUME NEW l \in Log, NEW w \in Writer, NEW x \in WaitingOf(w, l)'
      PROVE  /\ \A y \in Got(l)' : ~Same(x, y)
             /\ \A v \in Writer \ {w} : \A y \in WaitingOf(v, l)' : ~Same(x, y)
  <2>1. x \in WaitingOf(w, l)
    BY <1>2 DEF Moves
  <2>2. \A v \in Writer \ {w} : \A y \in WaitingOf(v, l)' : ~Same(x, y)
    BY <2>1 DEF KeyInv, Moves
  <2>3. ASSUME NEW y \in Got(l)' PROVE ~Same(x, y)
    <3>1. CASE y \in Got(l)
      BY <2>1, <3>1 DEF KeyInv
    <3>2. ASSUME NEW v \in Writer, y \in WaitingOf(v, l), WaitingOf(v, l)' = {}
          PROVE  ~Same(x, y)
      <4>1. v # w
        BY <1>2, <3>2
      <4> QED
        BY <2>1, <3>2, <4>1 DEF KeyInv
    <3> QED
      BY <2>3, <3>1, <3>2 DEF Moves
  <2> QED
    BY <2>2, <2>3
<1>3. /\ \A x \in Pending("dev")' : x.via = "none"
      /\ \A x, y \in Pending("main")' : x.msg = y.msg => x.via = y.via
  BY DEF KeyInv, Moves, Log
<1>4. \A l \in Log : \A v, m : Clear(l, v, m) => Clear(l, v, m)'
  BY DEF Moves, Clear
<1>5. \A m : ClearMain(m) => ClearMain(m)'
  BY DEF Moves, ClearMain, Log
<1>6. /\ Uncopied("dev", 1)' \subseteq Uncopied("dev", 1)
      /\ Uncopied("dev", 2)' \subseteq Uncopied("dev", 2)
      /\ Uncopied("main", 1)' \subseteq Uncopied("main", 1)
  BY DEF Moves, Log
<1>7. \A x \in Uncopied("dev", 1)' : Clear("console", "dev", x.msg)'
  BY <1>4, <1>6 DEF KeyInv, Log
<1>8. \A x \in Uncopied("dev", 2)' : ClearMain(x.msg)' /\ Clear("console", "main", x.msg)'
  BY <1>4, <1>5, <1>6 DEF KeyInv, Log
<1>9. \A x \in Uncopied("main", 1)' : Clear("console", "main", x.msg)'
  BY <1>4, <1>6 DEF KeyInv, Log
<1> QED
  BY <1>1, <1>2, <1>3, <1>7, <1>8, <1>9 DEF KeyInv

\* What waits with others does so still.
LEMMA OthersWait ==
  ASSUME NEW v \in Writer, stack'[v] = stack[v], NEW l
  PROVE  WaitingOf(v, l)' = WaitingOf(v, l)
BY DEF WaitingOf, InPhase, Top

\* A step in which no call of goroutine w comes to wait with lines.
LEMMA MovesBy ==
  ASSUME NEW w \in Writer, NEW l \in Log, msgs' = msgs,
         \A v \in Writer \ {w} : stack'[v] = stack[v],
         \A k \in Log : WaitingOf(w, k)' = {},
         \A k \in Log \ {l} : Outs(k)' = Outs(k) /\ root'[k] = root[k],
         Range(Outs(l))' \subseteq Got(l),
         Range(root'[l]) \subseteq Range(root[l]) \cup WaitingOf(w, l),
         \A k \in Log, n \in {1, 2} : Copied(k, n) => Copied(k, n)' \/ Range(root'[k]) = {}
  PROVE  Moves
<1>1. \A k \in Log : \A v \in Writer : WaitingOf(v, k)' \subseteq WaitingOf(v, k)
  BY OthersWait
<1>2. \A k \in Log : Waiting(k)' \subseteq Waiting(k) /\ WaitingOf(w, k) \subseteq Waiting(k)
  BY <1>1, SMT DEF Waiting
<1>3. \A k \in Log : Range(root'[k]) \subseteq Range(root[k]) \cup WaitingOf(w, k)
  OBVIOUS
<1>4. \A k \in Log : Range(Outs(k))' \subseteq Got(k)
  <2>1. ASSUME NEW k \in Log PROVE Range(Outs(k))' \subseteq Got(k)
    <3>1. CASE k = l
      BY <3>1
    <3>2. CASE k # l
      <4>1. Range(Outs(k))' = Range(Outs(k))
        BY <3>2
      <4> QED
        BY <4>1 DEF Got
    <3> QED
      BY <3>1, <3>2
  <2> QED
    BY <2>1
<1>5. ASSUME NEW k \in Log
      PROVE  /\ At(k)' \subseteq At(k) /\ Pending(k)' \subseteq Pending(k)
             /\ \A y \in Got(k)' : y \in Got(k) \/ y \in WaitingOf(w, k)
  BY <1>2, <1>3, <1>4, <1>5 DEF At, Got, Pending
<1>6. ASSUME NEW k \in Log, NEW n \in {1, 2}
      PROVE  Uncopied(k, n)' \subseteq Uncopied(k, n)
  BY <1>2, <1>3, <1>6 DEF Uncopied
<1> QED
  BY <1>1, <1>5, <1>6 DEF Moves

\* Copies that were made stay made while the root message stays.
LEMMA CopiedStays ==
  ASSUME Picks, CallInv, TypeInv', NEW k \in Log, NEW n \in {1, 2}, Copied(k, n),
         root'[k] = root[k],
         \A v \in Writer : \A p \in 1..Len(stack[v]) :
           stack[v][p].log = k /\ stack[v][p].phase = "write" =>
             \E q \in 1..Len(stack'[v]) :
               /\ stack'[v][q].log = k /\ stack'[v][q].phase = "write"
               /\ stack'[v][q].i >= stack[v][p].i
  PROVE  Copied(k, n)'
<1>0. PICK v \in Writer : \E p \in 1..Len(stack[v]) :
        /\ stack[v][p].log = k /\ stack[v][p].phase = "write"
        /\ stack[v][p].i >= Len(Output(k)) + n
  BY DEF Copied
<1>1. PICK p \in 1..Len(stack[v]) :
        /\ stack[v][p].log = k /\ stack[v][p].phase = "write"
        /\ stack[v][p].i >= Len(Output(k)) + n
  BY <1>0
<1>2. PICK q \in 1..Len(stack'[v]) :
        /\ stack'[v][q].log = k /\ stack'[v][q].phase = "write"
        /\ stack'[v][q].i >= stack[v][p].i
  BY <1>1
<1>3. PICK m \in Nat : m = Len(Output(k)) /\ m = Len(Output(k))'
  BY OutputType DEF Output, CallInv
<1>4. stack[v][p].i \in Nat /\ stack'[v][q].i \in Nat
  <2>1. stack[v][p] \in Frame /\ stack'[v][q] \in Frame
    BY <1>1, <1>2, SMTT(30) DEF CallInv, TypeInv
  <2> QED
    BY <2>1 DEF Frame
<1>5. stack'[v][q].i >= m + n
  BY <1>1, <1>2, <1>3, <1>4, SMTT(30)
<1> QED
  BY <1>2, <1>3, <1>5 DEF Copied

\* No call copies the root message of a logger whose lock is free.
LEMMA NotCopied ==
  ASSUME CallInv, NEW k \in Log, lock[k] = NoWriter, NEW n
  PROVE  ~Copied(k, n)
<1>1. ASSUME NEW v \in Writer, NEW p \in 1..Len(stack[v]),
             stack[v][p].log = k, stack[v][p].phase = "write"
      PROVE  FALSE
  <2>1. FrameInv(v, stack[v][p])
    BY DEF CallInv, StackInv, StackOf
  <2> QED
    BY <1>1, <2>1, LoggerAssumption DEF FrameInv
<1> QED
  BY <1>1 DEF Copied

\* All those are lines.
LEMMA AtType ==
  ASSUME TypeInv, NEW l \in Log
  PROVE  /\ Outs(l) \in Seq(Lines) /\ root[l] \in Seq(Lines)
         /\ At(l) \subseteq Lines /\ Got(l) \subseteq Lines /\ Pending(l) \subseteq Lines
         /\ \A w \in Writer : WaitingOf(w, l) \subseteq Lines /\ WaitingOf(w, l) \subseteq At(l)
         /\ \A n : Uncopied(l, n) \subseteq At(l)
<1>1. Outs(l) \in Seq(Lines) /\ root[l] \in Seq(Lines)
  BY DEF TypeInv, Outs, Log, FileLog
<1>2. Range(Outs(l)) \subseteq Lines /\ Range(root[l]) \subseteq Lines
  BY <1>1, Members
<1>3. ASSUME NEW w \in Writer PROVE WaitingOf(w, l) \subseteq Lines
  <2>1. CASE InPhase(w, "lock")
    <3>1. Top(w).lines \in Seq(Lines)
      BY <2>1, TopFacts DEF InPhase
    <3> QED
      BY <3>1, Members DEF WaitingOf
  <2> QED
    BY <2>1 DEF WaitingOf
<1>4. Waiting(l) \subseteq Lines /\ \A w \in Writer : WaitingOf(w, l) \subseteq Waiting(l)
  BY <1>3 DEF Waiting
<1>5. \A n : Uncopied(l, n) \subseteq At(l)
  BY DEF Uncopied, At, Got
<1> QED
  BY <1>1, <1>2, <1>4, <1>5 DEF At, Got, Pending

\* A new message comes to wait at logger l with goroutine w, or to its root
\* message.
LEMMA KeyFresh ==
  ASSUME TypeInv, KeyInv, NEW w \in Writer, NEW l \in FileLog, NEW N,
         msgs' = msgs + 1, \A x \in N : x.msg = msgs + 1 /\ x.via = "none",
         \A v \in Writer \ {w} : stack'[v] = stack[v], stack[w] = <<>>,
         \A k \in Log \ {l} : WaitingOf(w, k)' = {} /\ root'[k] = root[k],
         WaitingOf(w, l)' \subseteq N,
         Range(root'[l]) \subseteq Range(root[l]) \cup N,
         WaitingOf(w, l)' = {} \/ root'[l] = root[l],
         \A k \in Log : Outs(k)' = Outs(k),
         \A k \in Log, n \in {1, 2} : Copied(k, n) => Copied(k, n)'
  PROVE  KeyInv'
<1>1. /\ \A k \in Log : WaitingOf(w, k) = {}
      /\ \A k \in Log, v \in Writer \ {w} : WaitingOf(v, k)' = WaitingOf(v, k)
  <2>1. \A k \in Log : WaitingOf(w, k) = {}
    BY DEF WaitingOf, InPhase
  <2> QED
    BY <2>1, OthersWait
<1>2. /\ \A k \in Log : Waiting(k)' \subseteq Waiting(k) \cup WaitingOf(w, k)'
      /\ \A k \in Log : Range(Outs(k))' = Range(Outs(k))
  BY <1>1 DEF Waiting
<1>3. l \in Log /\ l # "console" /\ msgs \in Nat
  BY DEF Log, FileLog, TypeInv
<1>4. ASSUME NEW k \in Log \ {l}
      PROVE  /\ At(k)' \subseteq At(k) /\ Pending(k)' \subseteq Pending(k) /\ Got(k)' = Got(k)
             /\ \A n \in {1, 2} : Uncopied(k, n)' \subseteq Uncopied(k, n)
  <2>1. Waiting(k)' \subseteq Waiting(k) /\ Range(root'[k]) = Range(root[k])
    BY <1>2
  <2>2. Got(k)' = Got(k)
    BY <1>2, <2>1 DEF Got
  <2>3. \A n \in {1, 2} : Uncopied(k, n)' \subseteq Uncopied(k, n)
    BY <2>1 DEF Uncopied
  <2> QED
    BY <2>1, <2>2, <2>3 DEF At, Pending
<1>5. /\ At(l)' \subseteq At(l) \cup N /\ Pending(l)' \subseteq Pending(l) \cup N
      /\ Got(l)' \subseteq Got(l) \cup N
      /\ WaitingOf(w, l)' = {} \/ Got(l)' = Got(l)
      /\ \A n \in {1, 2} : Uncopied(l, n)' \subseteq Uncopied(l, n) \cup N
  <2>1. Waiting(l)' \subseteq Waiting(l) \cup N
    BY <1>2, <1>3
  <2>2. Got(l)' \subseteq Got(l) \cup N /\ (WaitingOf(w, l)' = {} \/ Got(l)' = Got(l))
    BY <1>2, <1>3 DEF Got
  <2>3. \A n \in {1, 2} : Uncopied(l, n)' \subseteq Uncopied(l, n) \cup N
    BY <1>3, <2>1 DEF Uncopied
  <2> QED
    BY <2>1, <2>2, <2>3 DEF At, Pending
<1>6. \A k \in Log : \A x \in At(k) : x.msg \in Nat /\ x.msg <= msgs /\ x.msg # msgs + 1
  <2>1. \A k \in Log : \A x \in At(k) : x.msg \in Nat /\ x.msg <= msgs
    BY AtType DEF KeyInv, Lines
  <2> QED
    BY <1>3, <2>1, SMTT(30)
<1>7. /\ \A k \in Log : Got(k) \subseteq At(k) /\ Pending(k) \subseteq At(k)
      /\ \A k \in Log, v \in Writer : WaitingOf(v, k) \subseteq At(k)
      /\ \A k \in Log, n \in {1, 2} : Uncopied(k, n) \subseteq At(k)
  BY AtType DEF At, Got, Pending
<1>8. \A k \in Log : \A x \in At(k)' : x.msg <= msgs'
  <2>1. \A k \in Log : \A x \in At(k)' : x.msg = msgs + 1 \/ x \in At(k)
    BY <1>4, <1>5
  <2> QED
    BY <1>3, <1>6, <2>1, SMTT(30)
<1>9. ASSUME NEW k \in Log, NEW v \in Writer, NEW x \in WaitingOf(v, k)'
      PROVE  /\ \A y \in Got(k)' : ~Same(x, y)
             /\ \A u \in Writer \ {v} : \A y \in WaitingOf(u, k)' : ~Same(x, y)
  <2>1. CASE v = w
    <3>1. k = l /\ x.msg = msgs + 1 /\ Got(k)' = Got(k)
      BY <1>5, <1>9, <2>1
    <3>2. \A y \in Got(k)' : ~Same(x, y)
      BY <1>6, <1>7, <3>1, SMTT(30) DEF Same
    <3>3. \A u \in Writer \ {v} : \A y \in WaitingOf(u, k)' : ~Same(x, y)
      BY <1>1, <1>6, <1>7, <2>1, <3>1, SMTT(30) DEF Same
    <3> QED
      BY <3>2, <3>3
  <2>2. CASE v # w
    <3>1. x \in WaitingOf(v, k) /\ x.msg # msgs + 1
      BY <1>1, <1>6, <1>7, <1>9, <2>2, SMTT(30)
    <3>2. \A y \in Got(k)' : y \in Got(k) \/ y.msg = msgs + 1
      BY <1>4, <1>5
    <3>3. \A y \in Got(k)' : ~Same(x, y)
      BY <3>1, <3>2 DEF KeyInv, Same
    <3>4. ASSUME NEW u \in Writer \ {v}, NEW y \in WaitingOf(u, k)' PROVE ~Same(x, y)
      <4>1. y \in WaitingOf(u, k) \/ y.msg = msgs + 1
        BY <1>1, <3>4
      <4> QED
        BY <3>1, <3>4, <4>1, SMTT(30) DEF KeyInv, Same
    <3> QED
      BY <3>3, <3>4
  <2> QED
    BY <2>1, <2>2
<1>10. "dev" \in Log /\ "main" \in Log /\ "console" \in Log
  BY DEF Log
<1>11. \A x \in Pending("dev")' : x.via = "none"
  BY <1>4, <1>5, <1>10 DEF KeyInv
<1>12. ASSUME NEW x \in Pending("main")', NEW y \in Pending("main")', x.msg = y.msg
       PROVE  x.via = y.via
  <2>1. \A z \in Pending("main")' : z \in Pending("main") \/ (z.msg = msgs + 1 /\ z.via = "none")
    BY <1>4, <1>5, <1>10
  <2>2. \A z \in Pending("main") : z.msg # msgs + 1
    BY <1>6, <1>7, <1>10
  <2> QED
    BY <1>12, <2>1, <2>2 DEF KeyInv
<1>13. /\ At("console")' \subseteq At("console")
       /\ \A x \in At("main")' : x \in At("main") \/ (l = "main" /\ x.msg = msgs + 1)
  BY <1>3, <1>4, <1>5, <1>10
<1>14. \A n \in {1, 2} :
         /\ \A x \in Uncopied("dev", n)' :
              x \in Uncopied("dev", n) \/ (l = "dev" /\ x.msg = msgs + 1)
         /\ \A x \in Uncopied("main", n)' :
              x \in Uncopied("main", n) \/ x.msg = msgs + 1
  BY <1>4, <1>5, <1>10
<1>15. \A v, m : m = msgs + 1 => Clear("console", v, m)'
  BY <1>6, <1>10, <1>13 DEF Clear
<1>16. \A v, m : Clear("console", v, m) => Clear("console", v, m)'
  BY <1>13 DEF Clear
<1>17. \A x \in Uncopied("dev", 1)' : Clear("console", "dev", x.msg)'
  BY <1>14, <1>15, <1>16 DEF KeyInv
<1>18. \A x \in Uncopied("main", 1)' : Clear("console", "main", x.msg)'
  BY <1>14, <1>15, <1>16 DEF KeyInv
<1>19. ASSUME NEW x \in Uncopied("dev", 2)'
       PROVE  ClearMain(x.msg)' /\ Clear("console", "main", x.msg)'
  <2>1. CASE x \in Uncopied("dev", 2)
    <3>1. x.msg # msgs + 1
      BY <1>6, <1>7, <1>10, <2>1
    <3>2. ClearMain(x.msg) /\ Clear("console", "main", x.msg)
      BY <2>1 DEF KeyInv
    <3>3. ClearMain(x.msg)'
      BY <1>13, <3>1, <3>2 DEF ClearMain
    <3> QED
      BY <1>16, <3>2, <3>3
  <2>2. CASE l = "dev" /\ x.msg = msgs + 1
    <3>1. ClearMain(x.msg)'
      BY <1>6, <1>10, <1>13, <2>2 DEF ClearMain
    <3> QED
      BY <1>15, <2>2, <3>1
  <2> QED
    BY <1>14, <1>19, <2>1, <2>2
<1> QED
  BY <1>8, <1>9, <1>11, <1>12, <1>17, <1>18, <1>19 DEF KeyInv

\* Copies of the root message of l come to wait at k.
LEMMA KeyCopy ==
  ASSUME TypeInv, KeyInv, NEW w \in Writer, NEW l \in Log, NEW k \in Log, NEW n \in {1, 2},
         \/ l = "dev" /\ k = "console" /\ n = 1
         \/ l = "main" /\ k = "console" /\ n = 1
         \/ l = "dev" /\ k = "main" /\ n = 2,
         NEW N, \A x \in N : x.via = l /\ \E z \in Range(root[l]) : x.msg = z.msg,
         msgs' = msgs, \A h \in Log : Outs(h)' = Outs(h) /\ root'[h] = root[h],
         \A v \in Writer \ {w} : stack'[v] = stack[v],
         \A h \in Log : WaitingOf(w, h) = {},
         \A h \in Log \ {k} : WaitingOf(w, h)' = {}, WaitingOf(w, k)' = N,
         ~Copied(l, n), Copied(l, n)',
         \A h \in Log, m \in {1, 2} : Copied(h, m) => Copied(h, m)'
  PROVE  KeyInv'
<1>1. \A h \in Log, v \in Writer \ {w} : WaitingOf(v, h)' = WaitingOf(v, h)
  BY OthersWait
<1>2. /\ \A h \in Log \ {k} : Waiting(h)' = Waiting(h)
      /\ Waiting(k)' = Waiting(k) \cup N
      /\ \A h \in Log : Range(Outs(h))' = Range(Outs(h)) /\ Range(root[h])' = Range(root[h])
  <2>1. \A h \in Log \ {k} : Waiting(h)' = Waiting(h)
    BY <1>1, SMTT(30) DEF Waiting
  <2>2. Waiting(k)' = Waiting(k) \cup N
    BY <1>1, SMT DEF Waiting
  <2>3. \A h \in Log : Range(Outs(h))' = Range(Outs(h)) /\ Range(root[h])' = Range(root[h])
    OBVIOUS
  <2> QED
    BY <2>1, <2>2, <2>3
<1>3. /\ \A h \in Log : Got(h)' = Got(h)
      /\ \A h \in Log \ {k} : /\ At(h)' = At(h) /\ Pending(h)' = Pending(h)
                              /\ \A m \in {1, 2} : Uncopied(h, m)' \subseteq Uncopied(h, m)
      /\ At(k)' = At(k) \cup N /\ Pending(k)' = Pending(k) \cup N
      /\ \A m \in {1, 2} : Uncopied(k, m)' \subseteq Uncopied(k, m) \cup N
      /\ Uncopied(l, n)' \subseteq Waiting(l)
  <2>1. \A h \in Log : Got(h)' = Got(h)
    BY <1>2 DEF Got
  <2>2. /\ \A h \in Log \ {k} : /\ At(h)' = At(h) /\ Pending(h)' = Pending(h)
        /\ At(k)' = At(k) \cup N /\ Pending(k)' = Pending(k) \cup N
    BY <1>2, <2>1 DEF At, Pending
  <2>3. \A h \in Log \ {k} : \A m \in {1, 2} : Uncopied(h, m)' \subseteq Uncopied(h, m)
    BY <1>2 DEF Uncopied
  <2>4. \A m \in {1, 2} : Uncopied(k, m)' \subseteq Uncopied(k, m) \cup N
    BY <1>2 DEF Uncopied
  <2>5. Uncopied(l, n)' \subseteq Waiting(l)
    BY <1>2 DEF Uncopied
  <2> QED
    BY <2>1, <2>2, <2>3, <2>4, <2>5
<1>4. /\ "dev" \in Log /\ "main" \in Log /\ "console" \in Log
      /\ Range(root[l]) \subseteq Uncopied(l, n) /\ Range(root[l]) \subseteq Got(l)
      /\ Range(root[l]) \subseteq Pending(l) /\ Range(root[l]) \subseteq At(l)
      /\ Waiting(l) \subseteq Pending(l)
      /\ Got(k) \subseteq At(k) /\ Pending(k) \subseteq At(k)
      /\ \A v \in Writer : WaitingOf(v, k) \subseteq At(k)
  BY AtType DEF Log, Uncopied, Got, Pending, At
\* What is copied has not come to k before.
<1>5. ASSUME NEW x \in N, NEW y \in At(k) PROVE ~Same(x, y)
  <2>1. PICK z \in Range(root[l]) : x.msg = z.msg
    OBVIOUS
  <2>2. z \in Uncopied(l, n) /\ x.via = l
    BY <1>4
  <2>3. ~(y.msg = z.msg /\ y.via = l)
    <3>1. CASE k = "console"
      BY <2>2, <3>1, SMTT(30) DEF KeyInv, Clear
    <3>2. CASE k = "main"
      BY <2>2, <3>2 DEF KeyInv, ClearMain
    <3> QED
      BY <3>1, <3>2
  <2> QED
    BY <2>1, <2>2, <2>3 DEF Same
\* What waits at l is of other messages.
<1>6. ASSUME NEW x \in Waiting(l), NEW z \in Range(root[l]) PROVE x.msg # z.msg
  <2>1. PICK v \in Writer : x \in WaitingOf(v, l)
    BY DEF Waiting
  <2>2. ~Same(x, z)
    BY <1>4, <2>1 DEF KeyInv
  <2>3. x \in Pending(l) /\ z \in Pending(l)
    BY <1>4
  <2>4. x.msg = z.msg => x.via = z.via
    BY <2>3 DEF KeyInv
  <2> QED
    BY <2>2, <2>4 DEF Same
<1>7. \A h \in Log : \A x \in At(h)' : x.msg <= msgs'
  <2>1. \A x \in N : x.msg <= msgs
    BY <1>4, SMTT(30) DEF KeyInv
  <2> QED
    BY <1>3, <2>1, SMTT(30) DEF KeyInv
<1>8. ASSUME NEW h \in Log, NEW v \in Writer, NEW x \in WaitingOf(v, h)'
      PROVE  /\ \A y \in Got(h)' : ~Same(x, y)
             /\ \A u \in Writer \ {v} : \A y \in WaitingOf(u, h)' : ~Same(x, y)
  <2>1. CASE v = w
    <3>1. h = k /\ x \in N
      BY <1>8, <2>1
    <3> QED
      BY <1>1, <1>3, <1>4, <1>5, <2>1, <3>1, SMTT(30)
  <2>2. CASE v # w
    <3>1. x \in WaitingOf(v, h)
      BY <1>1, <1>8, <2>2
    <3>2. \A y \in Got(h)' : ~Same(x, y)
      BY <1>3, <3>1, SMTT(30) DEF KeyInv
    <3>3. ASSUME NEW u \in Writer \ {v}, NEW y \in WaitingOf(u, h)' PROVE ~Same(x, y)
      <4>1. CASE u = w
        <5>1. h = k /\ y \in N /\ x \in At(k)
          BY <1>4, <3>1, <3>3, <4>1
        <5> QED
          BY <1>5, <5>1 DEF Same
      <4>2. CASE u # w
        BY <1>1, <3>1, <3>3, <4>2, SMTT(30) DEF KeyInv
      <4> QED
        BY <4>1, <4>2
    <3> QED
      BY <3>2, <3>3
  <2> QED
    BY <2>1, <2>2
<1>9. \A x \in Pending("dev")' : x.via = "none"
  BY <1>3, <1>4, SMTT(30) DEF KeyInv
<1>10. \A x, y \in Pending("main")' : x.msg = y.msg => x.via = y.via
  <2>1. CASE k = "main"
    <3>1. \A x \in N : x.via = "dev" /\ \A y \in Pending("main") : x.msg # y.msg
      BY <1>4, <2>1, SMTT(30) DEF KeyInv, ClearMain
    <3> QED
      BY <1>3, <2>1, <3>1, SMTT(30) DEF KeyInv
  <2>2. CASE k = "console"
    BY <1>3, <1>4, <2>2, SMTT(30) DEF KeyInv
  <2> QED
    BY <2>1, <2>2
<1>11. \A x \in Uncopied("dev", 1)' : Clear("console", "dev", x.msg)'
  <2>1. \A x \in Uncopied("dev", 1)' : Clear("console", "dev", x.msg)
    BY <1>3, <1>4 DEF KeyInv
  <2>2. CASE l = "dev" /\ k = "console" /\ n = 1
    BY <1>3, <1>6, <2>1, <2>2, SMTT(30) DEF Clear
  <2>3. CASE l = "main"
    BY <1>3, <2>1, <2>3 DEF Clear
  <2>4. CASE k = "main"
    BY <1>3, <1>4, <2>1, <2>4, SMTT(30) DEF Clear
  <2> QED
    BY <2>2, <2>3, <2>4
<1>12. \A x \in Uncopied("dev", 2)' : ClearMain(x.msg)' /\ Clear("console", "main", x.msg)'
  <2>1. \A x \in Uncopied("dev", 2)' : ClearMain(x.msg) /\ Clear("console", "main", x.msg)
    BY <1>3, <1>4 DEF KeyInv
  <2>2. CASE l = "dev" /\ k = "console" /\ n = 1
    BY <1>3, <1>4, <2>1, <2>2, SMTT(30) DEF Clear, ClearMain
  <2>3. CASE l = "main" /\ k = "console"
    BY <1>3, <1>4, <2>1, <2>3, SMTT(30) DEF Clear, ClearMain
  <2>4. CASE l = "dev" /\ k = "main" /\ n = 2
    BY <1>3, <1>4, <1>6, <2>1, <2>4, SMTT(30) DEF Clear, ClearMain
  <2> QED
    BY <2>2, <2>3, <2>4
<1>13. \A x \in Uncopied("main", 1)' : Clear("console", "main", x.msg)'
  <2>1. CASE l = "dev" /\ k = "console"
    BY <1>3, <1>4, <2>1, SMTT(30) DEF KeyInv, Clear
  <2>2. CASE l = "main" /\ k = "console" /\ n = 1
    <3>1. \A x \in Uncopied("main", 1)' : Clear("console", "main", x.msg)
      BY <1>3, <1>4, <2>2 DEF KeyInv
    <3> QED
      BY <1>3, <1>6, <2>2, <3>1, SMTT(30) DEF Clear
  <2>3. CASE l = "dev" /\ k = "main" /\ n = 2
    <3>1. \A x \in N : Clear("console", "main", x.msg)
      BY <1>4, <2>3, SMTT(30) DEF KeyInv
    <3>2. \A x \in Uncopied("main", 1)' : Clear("console", "main", x.msg)
      BY <1>3, <1>4, <2>3, <3>1 DEF KeyInv
    <3> QED
      BY <1>3, <1>4, <2>3, <3>2, SMTT(30) DEF Clear
  <2> QED
    BY <2>1, <2>2, <2>3
<1> QED
  BY <1>7, <1>8, <1>9, <1>10, <1>11, <1>12, <1>13 DEF KeyInv

\* A call that goes on, or has returned, does not wait with lines.
LEMMA NoneWait ==
  ASSUME CallInv, NEW w \in Writer, stack[w] # <<>>, NEW k,
         \/ stack'[w] = Tail(stack[w])
         \/ \E ph \in Phase \ {"lock"}, n \in Nat : Gone(w, ph, n)
  PROVE  WaitingOf(w, k)' = {}
<1>1. CASE stack'[w] = Tail(stack[w])
  <2>1. CASE stack'[w] # <<>>
    <3>1. Top(w)'.phase = "write"
      BY <1>1, <2>1, PoppedTop
    <3> QED
      BY <3>1 DEF WaitingOf, InPhase
  <2> QED
    BY <2>1 DEF WaitingOf, InPhase
<1>2. ASSUME NEW ph \in Phase \ {"lock"}, NEW n \in Nat, Gone(w, ph, n)
      PROVE  WaitingOf(w, k)' = {}
  BY <1>2, GoneTop, SMTT(30) DEF WaitingOf, InPhase
<1> QED
  BY <1>1, <1>2

\* Copies that were made stay made when the innermost call goes on, ...
LEMMA CopiedGone ==
  ASSUME Picks, CallInv, TypeInv', NEW w \in Writer, stack[w] # <<>>,
         NEW ph, NEW i \in Nat, Gone(w, ph, i),
         Top(w).phase = "write" => ph = "write" /\ i >= Top(w).i,
         NEW k \in Log, NEW n \in {1, 2}, Copied(k, n), root'[k] = root[k]
  PROVE  Copied(k, n)'
<1>1. ASSUME NEW v \in Writer, NEW p \in 1..Len(stack[v]),
             stack[v][p].log = k, stack[v][p].phase = "write"
      PROVE  \E q \in 1..Len(stack'[v]) :
               /\ stack'[v][q].log = k /\ stack'[v][q].phase = "write"
               /\ stack'[v][q].i >= stack[v][p].i
  <2>1. stack[v][p].i \in Nat
    <3>1. stack[v][p] \in Frame
      BY SMTT(30) DEF CallInv, TypeInv
    <3> QED
      BY <3>1 DEF Frame
  <2>2. CASE v # w
    <3>1. stack'[v] = stack[v]
      BY <2>2 DEF Gone
    <3> QED
      BY <1>1, <2>1, <3>1, SMTT(30)
  <2>3. CASE v = w /\ p # 1
    <3>1. p \in 2..Len(stack[w]) /\ p \in 1..Len(stack[w])
      BY <2>3, TopFacts, SMTT(30) DEF CallInv
    <3>2. stack'[w][p] = stack[w][p] /\ p \in 1..Len(stack'[w])
      BY <3>1 DEF Gone
    <3> QED
      BY <1>1, <2>1, <2>3, <3>2, SMTT(30)
  <2>4. CASE v = w /\ p = 1
    <3>1. Top(w) = stack[w][1]
      BY TopFacts DEF CallInv
    <3>2. /\ stack'[w][1].log = k /\ stack'[w][1].phase = "write"
          /\ stack'[w][1].i >= stack[w][1].i
      BY <1>1, <2>4, <3>1 DEF Gone
    <3>3. 1 \in 1..Len(stack'[w])
      BY <2>4 DEF Gone
    <3> QED
      BY <2>4, <3>2, <3>3
  <2> QED
    BY <2>2, <2>3, <2>4
<1> QED
  BY <1>1, CopiedStays

\* ... when one that copied nothing of it returns, ...
LEMMA CopiedPop ==
  ASSUME Picks, CallInv, TypeInv', NEW w \in Writer, stack[w] # <<>>,
         stack'[w] = Tail(stack[w]), \A v \in Writer \ {w} : stack'[v] = stack[v],
         NEW k \in Log, NEW n \in {1, 2}, Copied(k, n), root'[k] = root[k],
         Top(w).phase # "write" \/ Top(w).log # k
  PROVE  Copied(k, n)'
<1>1. ASSUME NEW v \in Writer, NEW p \in 1..Len(stack[v]),
             stack[v][p].log = k, stack[v][p].phase = "write"
      PROVE  \E q \in 1..Len(stack'[v]) :
               /\ stack'[v][q].log = k /\ stack'[v][q].phase = "write"
               /\ stack'[v][q].i >= stack[v][p].i
  <2>1. stack[v][p].i \in Nat
    <3>1. stack[v][p] \in Frame
      BY SMTT(30) DEF CallInv, TypeInv
    <3> QED
      BY <3>1 DEF Frame
  <2>2. CASE v # w
    BY <1>1, <2>1, <2>2, SMTT(30)
  <2>3. CASE v = w
    <3>1. p # 1
      BY <1>1, <2>3, TopFacts DEF CallInv
    <3>2. PICK m \in Nat : m = Len(stack[w]) /\ m - 1 = Len(stack'[w])
      BY HeadAndTail, TopFacts, ZenonT(30) DEF CallInv
    <3>3. p - 1 \in 1..m - 1 /\ (p - 1) + 1 = p
      BY <2>3, <3>1, <3>2, SMT
    <3>4. \A q \in 1..m - 1 : stack'[w][q] = stack[w][q + 1]
      BY <3>2, HeadAndTail, TopFacts, SMTT(30) DEF CallInv
    <3>5. stack'[w][p - 1] = stack[w][p]
      BY <3>3, <3>4
    <3>6. p - 1 \in 1..Len(stack'[v]) /\ stack'[v][p - 1] = stack[v][p]
      BY <2>3, <3>2, <3>3, <3>5
    <3>7. stack[v][p].i >= stack[v][p].i
      BY <2>1, SMT
    <3> QED
      BY <1>1, <3>6, <3>7
  <2> QED
    BY <2>2, <2>3
<1> QED
  BY <1>1, CopiedStays

\* ... and when a goroutine that did not call Flush does.
LEMMA CopiedPush ==
  ASSUME Picks, CallInv, TypeInv', NEW w \in Writer, stack[w] = <<>>,
         \A v \in Writer \ {w} : stack'[v] = stack[v],
         NEW k \in Log, NEW n \in {1, 2}, Copied(k, n), root'[k] = root[k]
  PROVE  Copied(k, n)'
<1>1. ASSUME NEW v \in Writer, NEW p \in 1..Len(stack[v]),
             stack[v][p].log = k, stack[v][p].phase = "write"
      PROVE  \E q \in 1..Len(stack'[v]) :
               /\ stack'[v][q].log = k /\ stack'[v][q].phase = "write"
               /\ stack'[v][q].i >= stack[v][p].i
  <2>1. stack[v][p].i \in Nat
    <3>1. stack[v][p] \in Frame
      BY SMTT(30) DEF CallInv, TypeInv
    <3> QED
      BY <3>1 DEF Frame
  <2>2. v # w
    BY SMT
  <2> QED
    BY <1>1, <2>1, <2>2, SMTT(30)
<1> QED
  BY <1>1, CopiedStays

\* A call that has the lock goes on.
LEMMA KeyGoesOn ==
  ASSUME Picks, CallInv, CallInv', KeyInv, NEW w \in Writer, stack[w] # <<>>,
         NEW ph \in Phase \ {"lock"}, NEW i \in Nat, Gone(w, ph, i),
         Top(w).phase = "write" => ph = "write" /\ i >= Top(w).i,
         root' = root, msgs' = msgs,
         \A k \in Log \ {Top(w).log} : Outs(k)' = Outs(k),
         NEW l, l = Top(w).log, Range(Outs(l))' \subseteq Got(l)
  PROVE  KeyInv'
<1>1. l \in Log
  BY TopFacts DEF CallInv
<1>2. \A k \in Log : WaitingOf(w, k)' = {}
  BY NoneWait
<1>3. \A k \in Log, n \in {1, 2} : Copied(k, n) => Copied(k, n)'
  BY CopiedGone DEF CallInv
<1>4. \A v \in Writer \ {w} : stack'[v] = stack[v]
  BY DEF Gone
<1>5. Moves
  BY <1>1, <1>2, <1>3, <1>4, MovesBy
<1> QED
  BY <1>5, KeyMoves

\* A rotation removes lines from the file at most.
LEMMA KeyRotate ==
  ASSUME Picks, CallInv, CallInv', KeyInv, NEW w \in Writer,
         RotateShift(w) \/ RotateGzip(w) \/ RotateTruncate(w)
  PROVE  KeyInv'
<1>1. /\ stack[w] # <<>> /\ Top(w).phase # "write" /\ Top(w).phase # "lock"
      /\ root' = root /\ msgs' = msgs /\ console' = console
  BY DEF RotateShift, RotateGzip, RotateTruncate, InPhase
<1>2. PICK l \in Log : l = Top(w).log
  BY <1>1, TopFacts DEF CallInv
<1>3. l \in FileLog
  <2>1. FrameInv(w, Top(w)) /\ Top(w).phase \in {"shift", "gzip", "truncate"}
    BY <1>1, TopFacts, SMTT(30)
    DEF CallInv, StackInv, StackOf, RotateShift, RotateGzip, RotateTruncate, InPhase
  <2> QED
    BY <1>2, <2>1 DEF FrameInv
<1>4. PICK ph \in Phase \ {"lock"}, i \in Nat : Goto(w, ph, i)
  <2>1. CASE RotateShift(w)
    <3>1. Top(w).i \in Nat
      BY <1>1, TopFacts DEF CallInv
    <3> QED
      BY <2>1, <3>1, SMTT(30) DEF RotateShift, Phase
  <2>2. CASE RotateGzip(w) \/ RotateTruncate(w)
    BY <2>2 DEF RotateGzip, RotateTruncate, Phase
  <2> QED
    BY <2>1, <2>2
<1>5. Gone(w, ph, i)
  BY <1>1, <1>4, GotoStack DEF CallInv
<1>6. /\ \A k \in Log \ {l} : Outs(k)' = Outs(k)
      /\ Outs(l)' = Outs(l) \/ Outs(l)' = <<>>
  <2>1. CASE RotateTruncate(w)
    BY <1>1, <1>2, <1>3, <2>1 DEF RotateTruncate, Outs, CallInv, TypeInv, Log, FileLog
  <2>2. CASE RotateShift(w) \/ RotateGzip(w)
    BY <1>1, <2>2 DEF RotateShift, RotateGzip, Outs
  <2> QED
    BY <2>1, <2>2
<1>7. Range(Outs(l))' \subseteq Got(l)
  <2>1. Range(<<>>) = {}
    BY SMT DEF Range
  <2> QED
    BY <1>6, <2>1 DEF Got
<1> QED
  BY <1>1, <1>2, <1>5, <1>6, <1>7, KeyGoesOn

\* A line that is written is one of the root message.
LEMMA KeyWriteLine ==
  ASSUME Picks, CallInv, CallInv', KeyInv, NEW w \in Writer, WriteLine(w)
  PROVE  KeyInv'
<1>1. /\ stack[w] # <<>> /\ Top(w).phase = "write"
      /\ root' = root /\ msgs' = msgs
  BY DEF WriteLine, InPhase
<1>2. PICK l \in Log : l = Top(w).log
  BY <1>1, TopFacts DEF CallInv
<1>3. PICK i \in Nat : i = Top(w).i + 1 /\ i >= Top(w).i /\ i >= 1
  <2>1. Top(w).i \in Nat
    BY <1>1, TopFacts DEF CallInv
  <2> QED
    BY <2>1, SMT
<1>4. Goto(w, "write", i) /\ i <= Len(Output(l))
  BY <1>2, <1>3 DEF WriteLine
<1>5. Gone(w, "write", i)
  BY <1>1, <1>4, GotoStack DEF CallInv, Phase
<1>6. Output(l) \in Seq(Lines) /\ Range(Output(l)) \subseteq Range(root[l])
  BY OfLevelsPicks DEF Output, CallInv, TypeInv
<1>7. Output(l)[i] \in Lines /\ Output(l)[i] \in Range(root[l])
  <2>1. i \in 1..Len(Output(l))
    BY <1>3, <1>4, <1>6, SMTT(30)
  <2> QED
    BY <1>6, <2>1, Members
<1>8. /\ \A k \in Log \ {l} : Outs(k)' = Outs(k)
      /\ Outs(l)' = Outs(l) \/ Outs(l)' = Append(Outs(l), Output(l)[i])
  <2>1. /\ console' = IF l = "console" THEN Append(console, Output(l)[i]) ELSE console
        /\ \/ out[l] = "file" /\ file' = [file EXCEPT ![l] = Append(@, Output(l)[i])]
           \/ file' = file
    BY <1>2, <1>3 DEF WriteLine
  <2>2. file \in [FileLog -> Seq(Lines)] /\ out["console"] # "file"
    BY DEF CallInv, TypeInv, ConfInv
  <2>3. CASE l = "console"
    BY <2>1, <2>2, <2>3 DEF Outs
  <2>4. CASE l # "console"
    <3>1. l \in FileLog
      BY <2>4 DEF Log, FileLog
    <3> QED
      BY <2>1, <2>2, <2>4, <3>1 DEF Outs, Log, FileLog
  <2> QED
    BY <2>3, <2>4
<1>9. Range(Outs(l))' \subseteq Got(l)
  <2>1. Outs(l) \in Seq(Lines)
    BY AtType DEF CallInv
  <2>2. Range(Append(Outs(l), Output(l)[i])) = Range(Outs(l)) \cup {Output(l)[i]}
    BY <1>7, <2>1, Members
  <2>3. Range(Outs(l))' = Range(Outs(l)) \/ Range(Outs(l))' = Range(Append(Outs(l), Output(l)[i]))
    BY <1>8
  <2> QED
    BY <1>7, <2>2, <2>3 DEF Got
<1> QED
  BY <1>1, <1>2, <1>3, <1>5, <1>8, <1>9, KeyGoesOn DEF Phase

\* Lines that waited for the lock come to the root message.
LEMMA KeyFlushLock ==
  ASSUME Picks, CallInv, CallInv', KeyInv, NEW w \in Writer, FlushLock(w)
  PROVE  KeyInv'
<1>1. /\ stack[w] # <<>> /\ Top(w).phase = "lock" /\ lock[Top(w).log] = NoWriter
      /\ msgs' = msgs /\ file' = file /\ console' = console
      /\ \/ FlushIdle(w) \/ FlushBuffered(w)
         \/ \E ph \in {"shift", "truncate", "write"} : FlushTaken(w, ph)
  BY FlushLockCases
<1>2. PICK l \in Log : l = Top(w).log
  BY <1>1, TopFacts DEF CallInv
<1>3. \A k \in Log : Outs(k)' = Outs(k)
  BY <1>1 DEF Outs
<1>4. Range(Outs(l))' \subseteq Got(l)
  BY <1>3 DEF Got
<1>5. WaitingOf(w, l) = Range(Top(w).lines)
  BY <1>1, <1>2 DEF WaitingOf, InPhase
<1>6. /\ \A k \in Log \ {l} : root'[k] = root[k]
      /\ Range(root'[l]) \subseteq Range(root[l]) \cup WaitingOf(w, l)
  <2>1. CASE root' = root
    BY <2>1
  <2>2. CASE root' = [root EXCEPT ![l] = @ \o Top(w).lines]
    <3>1. /\ root'[l] = root[l] \o Top(w).lines
          /\ root[l] \in Seq(Lines) /\ Top(w).lines \in Seq(Lines)
          /\ \A k \in Log \ {l} : root'[k] = root[k]
      BY <1>1, <2>2, TopFacts DEF CallInv, TypeInv
    <3> QED
      BY <1>5, <3>1, Members, SMTT(30)
  <2> QED
    BY <1>1, <1>2, <2>1, <2>2 DEF FlushIdle, FlushBuffered, FlushTaken
<1>7. /\ \A v \in Writer \ {w} : stack'[v] = stack[v]
      /\ \A k \in Log : WaitingOf(w, k)' = {}
      /\ \A k \in Log \ {l}, n \in {1, 2} : Copied(k, n) => Copied(k, n)'
  <2>1. CASE Return(w)
    <3>1. stack'[w] = Tail(stack[w]) /\ \A v \in Writer \ {w} : stack'[v] = stack[v]
      BY <1>1, <2>1, ReturnStack DEF CallInv
    <3>2. \A k \in Log : WaitingOf(w, k)' = {}
      BY <1>1, <3>1, NoneWait
    <3>3. \A k \in Log \ {l}, n \in {1, 2} : Copied(k, n) => Copied(k, n)'
      BY <1>1, <1>6, <3>1, CopiedPop DEF CallInv
    <3> QED
      BY <3>1, <3>2, <3>3
  <2>2. ASSUME NEW ph \in {"shift", "truncate", "write"}, Goto(w, ph, 0)
        PROVE  <1>7!1 /\ <1>7!2 /\ <1>7!3
    <3>1. ph \in Phase \ {"lock"} /\ Gone(w, ph, 0)
      BY <1>1, <2>2, GotoStack DEF CallInv, Phase
    <3>2. \A v \in Writer \ {w} : stack'[v] = stack[v]
      BY <3>1 DEF Gone
    <3>3. \A k \in Log : WaitingOf(w, k)' = {}
      BY <1>1, <3>1, NoneWait
    <3>4. \A k \in Log \ {l}, n \in {1, 2} : Copied(k, n) => Copied(k, n)'
      BY <1>1, <1>6, <3>1, CopiedGone DEF CallInv
    <3> QED
      BY <3>2, <3>3, <3>4
  <2> QED
    BY <1>1, <2>1, <2>2 DEF FlushIdle, FlushBuffered, FlushTaken
<1>8. \A n \in {1, 2} : ~Copied(l, n)
  BY <1>1, <1>2, NotCopied
<1>9. Moves
  BY <1>1, <1>3, <1>4, <1>6, <1>7, <1>8, MovesBy, ZenonT(30)
<1> QED
  BY <1>9, KeyMoves

\* The root message is reset.
LEMMA KeyEnd ==
  ASSUME Picks, CallInv, CallInv', KeyInv, NEW w \in Writer, FlushEnd(w)
  PROVE  KeyInv'
<1>1. /\ stack[w] # <<>> /\ Top(w).phase = "write" /\ Return(w)
      /\ msgs' = msgs /\ file' = file /\ console' = console
  BY DEF FlushEnd, InPhase, diskVars
<1>2. PICK l \in Log : l = Top(w).log
  BY <1>1, TopFacts DEF CallInv
<1>3. \A k \in Log : Outs(k)' = Outs(k)
  BY <1>1 DEF Outs
<1>4. Range(Outs(l))' \subseteq Got(l)
  BY <1>3 DEF Got
<1>5. Range(root'[l]) = {} /\ \A k \in Log \ {l} : root'[k] = root[k]
  BY <1>2, SMTT(30) DEF FlushEnd, CallInv, TypeInv, Range
<1>6. stack'[w] = Tail(stack[w]) /\ \A v \in Writer \ {w} : stack'[v] = stack[v]
  BY <1>1, ReturnStack DEF CallInv
<1>7. \A k \in Log : WaitingOf(w, k)' = {}
  BY <1>1, <1>6, NoneWait
<1>8. \A k \in Log \ {l}, n \in {1, 2} : Copied(k, n) => Copied(k, n)'
  BY <1>1, <1>2, <1>5, <1>6, CopiedPop DEF CallInv
<1>9. Moves
  BY <1>1, <1>3, <1>4, <1>5, <1>6, <1>7, <1>8, MovesBy
<1> QED
  BY <1>9, KeyMoves

\* A Flush of what is buffered brings no lines.
LEMMA KeyName ==
  ASSUME Picks, CallInv, CallInv', KeyInv, ToDevFile \/ ToMainLog
  PROVE  KeyInv'
<1> DEFINE w == Initializer
<1>1. /\ w \in Writer /\ stack[w] = <<>>
      /\ stack' = [stack EXCEPT ![w] = <<Flush("dev", <<>>, TRUE, {})>>]
      /\ root' = root /\ msgs' = msgs /\ file' = file /\ console' = console
  BY LoggerAssumption DEF ToDevFile, ToMainLog, diskVars
<1>2. /\ \A v \in Writer \ {w} : stack'[v] = stack[v]
      /\ stack'[w] = <<Flush("dev", <<>>, TRUE, {})>>
  BY <1>1 DEF CallInv, TypeInv
<1>3. \A k \in Log : Outs(k)' = Outs(k)
  BY <1>1 DEF Outs
<1>4. Range(<<>>) = {} /\ Top(w)'.lines = <<>>
  BY <1>2, SMT DEF Top, Flush, Range
<1>5. \A k \in Log : WaitingOf(w, k)' = {}
  BY <1>4 DEF WaitingOf
<1> HIDE DEF w
<1>6. \A k \in Log, n \in {1, 2} : Copied(k, n) => Copied(k, n)'
  BY <1>1, <1>2, CopiedPush DEF CallInv
<1>7. "dev" \in Log /\ Range(Outs("dev"))' \subseteq Got("dev")
  BY <1>3 DEF Got, Log
<1>8. Moves
  BY <1>1, <1>2, <1>3, <1>5, <1>6, <1>7, MovesBy
<1> QED
  BY <1>8, KeyMoves

\* After a crash there are only files, and what the console shows.
LEMMA KeyCrash ==
  ASSUME CallInv, KeyInv, Crash
  PROVE  KeyInv'
<1>1. /\ msgs' = msgs /\ \A k \in Log : Outs(k)' = Outs(k) /\ root'[k] = <<>>
      /\ \A w \in Writer : stack'[w] = <<>>
  BY DEF Crash, Outs, diskVars
<1>2. Range(<<>>) = {}
  BY SMT DEF Range
<1>3. \A k \in Log, w \in Writer : WaitingOf(w, k)' = {}
  BY <1>1 DEF WaitingOf, InPhase
<1>4. \A k \in Log : /\ Waiting(k)' = {} /\ Range(root[k])' = {}
                     /\ Range(Outs(k))' = Range(Outs(k))
  <2>1. \A k \in Log : Waiting(k)' = {}
    BY <1>3 DEF Waiting
  <2> QED
    BY <1>1, <1>2, <2>1
<1>5. \A k \in Log : /\ At(k)' \subseteq At(k) /\ Pending(k)' = {} /\ Got(k)' \subseteq Got(k)
                     /\ \A n \in {1, 2} : Uncopied(k, n)' = {}
  <2>1. \A k \in Log : \A n \in {1, 2} : Uncopied(k, n)' = {}
    BY <1>4 DEF Uncopied
  <2>2. \A k \in Log : Got(k)' \subseteq Got(k)
    BY <1>4 DEF Got
  <2>3. \A k \in Log : At(k)' \subseteq At(k) /\ Pending(k)' = {}
    BY <1>4, <2>2 DEF At, Pending
  <2> QED
    BY <2>1, <2>2, <2>3
<1>6. Moves
  BY <1>1, <1>3, <1>5 DEF Moves
<1> QED
  BY <1>6, KeyMoves

\* A new message waits for the lock.
LEMMA KeyCommit ==
  ASSUME Picks, CallInv, CallInv', KeyInv, NEW w \in Writer, NEW l \in FileLog, NEW k \in Kind,
         Commit(w, l, k)
  PROVE  KeyInv'
<1> DEFINE m == msgs + 1
           ls == OfLevels(Message(m, k), Levels(l) \cup Levels("console"))
           N == Range(ls)
<1>1. /\ stack[w] = <<>> /\ msgs' = m /\ root' = root /\ file' = file /\ console' = console
      /\ stack' = [stack EXCEPT ![w] = <<Flush(l, ls, FALSE, Range(ls))>>]
  BY DEF Commit, diskVars
<1>2. m \in Nat /\ k \in Seq({"debug", "trace"}) /\ l \in Log
  BY LoggerAssumption, SMTT(30) DEF CallInv, TypeInv, FileLog, Log
<1> HIDE DEF m
<1>3. \A x \in N : x.msg = m /\ x.via = "none"
  BY <1>2, MessageType, OfLevelsPicks, SMTT(30)
<1> HIDE DEF ls
<1>4. /\ \A v \in Writer \ {w} : stack'[v] = stack[v]
      /\ stack'[w] = <<Flush(l, ls, FALSE, Range(ls))>>
  BY <1>1 DEF CallInv, TypeInv
<1>5. Top(w)'.lines = ls /\ Top(w)'.log = l
  BY <1>4, SMT DEF Top, Flush
<1> HIDE DEF N
<1>6. WaitingOf(w, l)' \subseteq N /\ \A h \in Log \ {l} : WaitingOf(w, h)' = {}
  BY <1>5 DEF WaitingOf, N
<1>7. \A h \in Log : Outs(h)' = Outs(h)
  BY <1>1 DEF Outs
<1>8. \A h \in Log, n \in {1, 2} : Copied(h, n) => Copied(h, n)'
  BY <1>1, <1>4, CopiedPush DEF CallInv
<1> QED
  BY <1>1, <1>3, <1>4, <1>6, <1>7, <1>8, KeyFresh, SMTT(30) DEF CallInv, m

\* A new line is added to the root message.
LEMMA KeyAddToRoot ==
  ASSUME Picks, CallInv, CallInv', KeyInv, NEW w \in Writer, NEW l \in FileLog, AddToRoot(w, l)
  PROVE  KeyInv'
<1> DEFINE m == msgs + 1
           ls == Message(m, <<"debug">>)
           N == Range(ls)
<1>1. /\ stack[w] = <<>> /\ msgs' = m /\ file' = file /\ console' = console
      /\ lock[l] = NoWriter /\ root' = [root EXCEPT ![l] = @ \o ls]
      /\ stack' = [stack EXCEPT ![w] = <<Flush(l, <<>>, TRUE, Range(ls))>>]
  BY DEF AddToRoot, diskVars
<1>2. m \in Nat /\ <<"debug">> \in Seq({"debug", "trace"}) /\ l \in Log
  BY SMT DEF CallInv, TypeInv, FileLog, Log
<1> HIDE DEF m
<1>3. ls \in Seq(Lines) /\ \A x \in N : x.msg = m /\ x.via = "none"
  BY <1>2, MessageType
<1> HIDE DEF ls
<1>4. /\ \A v \in Writer \ {w} : stack'[v] = stack[v]
      /\ stack'[w] = <<Flush(l, <<>>, TRUE, Range(ls))>>
  BY <1>1 DEF CallInv, TypeInv
<1>5. Top(w)'.lines = <<>> /\ Range(<<>>) = {}
  BY <1>4, SMT DEF Top, Flush, Range
<1>6. \A h \in Log : WaitingOf(w, h)' = {}
  BY <1>5 DEF WaitingOf
<1>7. \A h \in Log : Outs(h)' = Outs(h)
  BY <1>1 DEF Outs
<1>8. /\ \A h \in Log \ {l} : root'[h] = root[h]
      /\ root'[l] = root[l] \o ls /\ root[l] \in Seq(Lines)
  BY <1>1, <1>2 DEF CallInv, TypeInv
<1>9. Range(root'[l]) \subseteq Range(root[l]) \cup N
  BY <1>3, <1>8, Members, SMTT(30)
<1> HIDE DEF N
<1>10. \A h \in Log, n \in {1, 2} : Copied(h, n) => Copied(h, n)'
  <2>1. \A n \in {1, 2} : ~Copied(l, n)
    BY <1>1, <1>2, NotCopied
  <2> QED
    BY <1>1, <1>4, <1>8, <2>1, CopiedPush DEF CallInv
<1> QED
  BY <1>1, <1>2, <1>3, <1>4, <1>6, <1>7, <1>8, <1>9, <1>10, KeyFresh, ZenonT(30)
  DEF CallInv, m

\* The n-th copy of a root message is made once.
LEMMA CopyOnce ==
  ASSUME Picks, CallInv, TypeInv', NEW w \in Writer, stack[w] # <<>>, Top(w).phase = "write",
         NEW l \in Log, l = Top(w).log, NEW n \in {1, 2}, Top(w).i + 1 = Len(Output(l)) + n,
         NEW k, NEW ls, Called(w, k, ls), root' = root
  PROVE  /\ ~Copied(l, n) /\ Copied(l, n)'
         /\ \A h \in Log, m \in {1, 2} : Copied(h, m) => Copied(h, m)'
<1>1. PICK d \in Nat : d = Len(Output(l)) /\ d = Len(Output(l))'
  BY OutputType DEF Output, CallInv
<1>2. Top(w) = stack[w][1] /\ Top(w).i \in Nat /\ lock[l] = w
  BY TopFacts, TopHolds DEF CallInv
<1>3. ASSUME NEW v \in Writer, NEW p \in 1..Len(stack[v]),
             stack[v][p].log = l, stack[v][p].phase = "write"
      PROVE  stack[v][p].i < d + n
  <2>1. FrameInv(v, stack[v][p])
    BY DEF CallInv, StackInv, StackOf
  <2>2. v = w
    BY <1>2, <1>3, <2>1 DEF FrameInv
  <2>3. p = 1
    <3>1. SUFFICES ASSUME p # 1 PROVE FALSE
      OBVIOUS
    <3>2. 1 \in 1..p - 1
      BY <3>1, SMTT(30)
    <3>3. Above(stack[w][p].log, stack[w][1].log)
      BY <2>2, <3>2 DEF CallInv, StackInv, StackOf
    <3> QED
      BY <1>2, <1>3, <2>2, <3>3, AboveOther
  <2> QED
    BY <1>1, <1>2, <2>2, <2>3, SMTT(30)
<1>4. ~Copied(l, n)
  <2>1. \A v \in Writer : \A p \in 1..Len(stack[v]) : stack[v][p].i \in Nat
    <3>1. \A v \in Writer : \A p \in 1..Len(stack[v]) : stack[v][p] \in Frame
      BY SMTT(30) DEF CallInv, TypeInv
    <3> QED
      BY <3>1 DEF Frame
  <2> QED
    BY <1>1, <1>3, <2>1, SMTT(30) DEF Copied
<1>5. PICK c \in Nat : c = Len(stack[w]) /\ c + 1 = Len(stack'[w]) /\ c >= 1
  BY TopFacts, SMT DEF CallInv, Called
<1>6. Copied(l, n)'
  <2>1. 2 \in 1..Len(stack'[w])
    BY <1>5, SMTT(30)
  <2>2. /\ stack'[w][2].log = l /\ stack'[w][2].phase = "write"
        /\ stack'[w][2].i >= d + n
    BY <1>1, <1>2, SMTT(30) DEF Called
  <2> QED
    BY <1>1, <2>1, <2>2 DEF Copied
<1>7. ASSUME NEW v \in Writer, NEW p \in 1..Len(stack[v])
      PROVE  \E q \in 1..Len(stack'[v]) :
               /\ stack'[v][q].log = stack[v][p].log /\ stack'[v][q].phase = stack[v][p].phase
               /\ stack'[v][q].i >= stack[v][p].i
  <2>1. stack[v][p].i \in Nat
    <3>1. stack[v][p] \in Frame
      BY SMTT(30) DEF CallInv, TypeInv
    <3> QED
      BY <3>1 DEF Frame
  <2>2. CASE v # w
    <3>1. stack'[v] = stack[v]
      BY <2>2 DEF Called
    <3> QED
      BY <2>1, <3>1, SMTT(30)
  <2>3. CASE v = w /\ p # 1
    <3>1. p \in 2..Len(stack[w]) /\ p + 1 \in 1..Len(stack'[w])
      BY <1>5, <2>3, SMTT(30)
    <3>2. stack'[w][p + 1] = stack[w][p]
      BY <3>1 DEF Called
    <3>3. stack'[w][p + 1].i >= stack[w][p].i
      BY <2>1, <2>3, <3>2, SMTT(30)
    <3> QED
      BY <2>3, <3>1, <3>2, <3>3
  <2>4. CASE v = w /\ p = 1
    <3>1. /\ stack'[w][2].log = stack[w][1].log /\ stack'[w][2].phase = stack[w][1].phase
          /\ stack'[w][2].i >= stack[w][1].i
      BY <1>2, SMTT(30) DEF Called
    <3>2. 2 \in 1..Len(stack'[w])
      BY <1>5, SMT
    <3> QED
      BY <2>4, <3>1, <3>2, ZenonT(30)
  <2> QED
    BY <2>2, <2>3, <2>4
<1>8. \A h \in Log, m \in {1, 2} : Copied(h, m) => Copied(h, m)'
  <2>1. ASSUME NEW h \in Log, NEW m \in {1, 2}, Copied(h, m) PROVE Copied(h, m)'
    <3>1. \A v \in Writer : \A p \in 1..Len(stack[v]) :
            stack[v][p].log = h /\ stack[v][p].phase = "write" =>
              \E q \in 1..Len(stack'[v]) :
                /\ stack'[v][q].log = h /\ stack'[v][q].phase = "write"
                /\ stack'[v][q].i >= stack[v][p].i
      <4> SUFFICES ASSUME NEW v \in Writer, NEW p \in 1..Len(stack[v]),
                          stack[v][p].log = h, stack[v][p].phase = "write"
                   PROVE  \E q \in 1..Len(stack'[v]) :
                            /\ stack'[v][q].log = h /\ stack'[v][q].phase = "write"
                            /\ stack'[v][q].i >= stack[v][p].i
        OBVIOUS
      <4>1. PICK q \in 1..Len(stack'[v]) :
              /\ stack'[v][q].log = stack[v][p].log
              /\ stack'[v][q].phase = stack[v][p].phase
              /\ stack'[v][q].i >= stack[v][p].i
        BY <1>7
      <4> QED
        BY <4>1
    <3> QED
      BY <2>1, <3>1, CopiedStays
  <2> QED
    BY <2>1
<1> QED
  BY <1>4, <1>6, <1>8

\* Copies wait for the lock of another logger.
LEMMA KeyCommitCopy ==
  ASSUME Picks, CallInv, CallInv', KeyInv, NEW w \in Writer, CommitCopy(w)
  PROVE  KeyInv'
<1>1. /\ stack[w] # <<>> /\ Top(w).phase = "write"
      /\ root' = root /\ msgs' = msgs /\ file' = file /\ console' = console
  BY DEF CommitCopy, InPhase, diskVars
<1>2. PICK l \in Log : l = Top(w).log
  BY <1>1, TopFacts DEF CallInv
<1>3. PICK n \in 1..Len(cc[l]) :
        /\ Top(w).i + 1 = Len(Output(l)) + n
        /\ Above(l, cc[l][n])
        /\ n = 1 => cc[l][n] = "console"
        /\ n # 1 => n = 2 /\ l = "dev" /\ cc[l][n] = "main"
        /\ Called(w, cc[l][n], Copies(l, cc[l][n]))
  BY <1>2, CopyStack
<1>4. PICK k \in Log : k = cc[l][n]
  BY <1>3 DEF Log
<1>5. /\ n \in {1, 2}
      /\ \/ l = "dev" /\ k = "console" /\ n = 1
         \/ l = "main" /\ k = "console" /\ n = 1
         \/ l = "dev" /\ k = "main" /\ n = 2
  BY <1>3, <1>4 DEF Above, Log
<1>6. /\ ~Copied(l, n) /\ Copied(l, n)'
      /\ \A h \in Log, m \in {1, 2} : Copied(h, m) => Copied(h, m)'
  BY <1>1, <1>2, <1>3, <1>5, CopyOnce DEF CallInv
<1> DEFINE N == Range(Copies(l, k))
<1>7. \A x \in N : x.via = l /\ \E z \in Range(root[l]) : x.msg = z.msg
  <2>1. ASSUME NEW x \in N
        PROVE  x.via = l /\ \E z \in Range(root[l]) : x.msg = z.msg
    <3>1. PICK y \in Range(root[l]) : x = [y EXCEPT !.via = l]
      BY <2>1, CopiesType, SMTT(30) DEF CallInv
    <3>2. y \in Lines
      BY Members DEF CallInv, TypeInv
    <3> QED
      BY <3>1, <3>2 DEF Lines
  <2> QED
    BY <2>1
<1>8. \A h \in Log : Outs(h)' = Outs(h) /\ root'[h] = root[h]
  BY <1>1 DEF Outs
<1>9. \A h \in Log : WaitingOf(w, h) = {}
  BY <1>1 DEF WaitingOf, InPhase
<1>10. /\ Top(w)'.phase = "lock" /\ Top(w)'.log = k /\ Top(w)'.lines = Copies(l, k)
       /\ stack'[w] # <<>> /\ \A v \in Writer \ {w} : stack'[v] = stack[v]
  <2>1. /\ stack'[w] \in Seq(Frame) /\ stack'[w] # <<>>
        /\ stack'[w][1].phase = "lock" /\ stack'[w][1].log = k
        /\ stack'[w][1].lines = Copies(l, k)
        /\ \A v \in Writer \ {w} : stack'[v] = stack[v]
    BY <1>3, <1>4 DEF Called
  <2>2. Top(w)' = stack'[w][1]
    BY <2>1, HeadAndTail DEF Top
  <2> QED
    BY <2>1, <2>2
<1>11. WaitingOf(w, k)' = N /\ \A h \in Log \ {k} : WaitingOf(w, h)' = {}
  BY <1>10 DEF WaitingOf, InPhase
<1> HIDE DEF N
<1> QED
  BY <1>1, <1>5, <1>6, <1>7, <1>8, <1>9, <1>10, <1>11, KeyCopy, SMTT(30) DEF CallInv

\* So each message stays in one place.
LEMMA KeyStep ==
  ASSUME Picks PROVE CallInv /\ KeyInv /\ [Next]_vars => KeyInv'
<1> SUFFICES ASSUME CallInv, KeyInv, [Next]_vars PROVE KeyInv'
  OBVIOUS
<1>1. CallInv'
  BY CallStep
<1>2. ASSUME NEW w \in Writer, Write(w) PROVE KeyInv'
  BY <1>1, <1>2, KeyCommit, KeyAddToRoot DEF Write
<1>3. ASSUME NEW w \in Writer, FlushStep(w) PROVE KeyInv'
  BY <1>1, <1>3, KeyFlushLock, KeyRotate, KeyWriteLine, KeyCommitCopy, KeyEnd DEF FlushStep
<1>4. CASE UNCHANGED vars
  <2>1. UNCHANGED <<file, console, root, stack, msgs>>
    BY <1>4 DEF vars, memVars, diskVars
  <2>2. \A l \in Log : /\ Outs(l)' = Outs(l) /\ root'[l] = root[l]
                       /\ \A w \in Writer : WaitingOf(w, l)' = WaitingOf(w, l)
    BY <2>1 DEF Outs, WaitingOf, InPhase, Top
  <2>3. \A l \in Log, n \in {1, 2} : Copied(l, n)' = Copied(l, n)
    BY <2>1 DEF Copied, Output
  <2>4. \A l \in Log : Waiting(l)' = Waiting(l) /\ Got(l)' = Got(l)
    BY <2>2 DEF Waiting, Got
  <2>5. \A l \in Log : At(l)' = At(l) /\ Pending(l)' = Pending(l)
    BY <2>2, <2>4 DEF At, Pending
  <2>6. \A l \in Log, n \in {1, 2} : Uncopied(l, n)' \subseteq Uncopied(l, n)
    BY <2>2, <2>3, <2>4 DEF Uncopied
  <2>7. Moves
    BY <2>1, <2>2, <2>4, <2>5, <2>6 DEF Moves
  <2> QED
    BY <2>7, KeyMoves
<1> QED
  BY <1>1, <1>2, <1>3, <1>4, KeyName, KeyCrash DEF Next

-----------------------------------------------------------------------------
(* What is written goes on with what was written last.                     *)

\* Progress that does not change, ...
LEMMA ProgressStays ==
  ASSUME NEW l, NEW k, root'[l] = root[l], Outs(l)' = Outs(l), Progress(l, k)
  PROVE  Progress(l, k)'
BY DEF Progress, Output

\* ... what it is for a call, ...
LEMMA WholeFrameStays ==
  ASSUME NEW f, root'[f.log] = root[f.log], Outs(f.log)' = Outs(f.log),
         out'[f.log] = "file" <=> out[f.log] = "file", WholeFrame(f)
  PROVE  WholeFrame(f)'
<1>1. Output(f.log)' = Output(f.log)
  BY DEF Output
<1>2. Count(f)' = Count(f)
  BY <1>1 DEF Count
<1>3. CASE f.phase = "lock"
  BY <1>3 DEF WholeFrame
<1>4. CASE f.phase # "lock"
  <2>1. PICK k : k = Count(f)
    OBVIOUS
  <2>2. Progress(f.log, k)
    BY <1>4, <2>1 DEF WholeFrame
  <2>3. Progress(f.log, k)'
    BY <2>2, ProgressStays
  <2> QED
    BY <1>2, <1>4, <2>1, <2>3 DEF WholeFrame
<1> QED
  BY <1>3, <1>4

\* ... at the beginning, ...
LEMMA GoesOnBegins ==
  ASSUME NEW o \in Seq(Lines), NEW u \in Seq(Lines), NEW r
  PROVE  GoesOn(o, u, r, 0) <=> \A x \in Range(o), y \in Range(r) : ~Same(x, y)
<1>1. /\ 0 <= Len(u) /\ 0 <= Len(o) /\ Len(o) - 0 = Len(o)
      /\ \A x : x \in Range(o) <=> \E p \in 1..Len(o) : o[p] = x
  BY Members, SMT
<1>2. \A j \in 1..0 : FALSE
  BY SMT
<1> QED
  BY <1>1, <1>2 DEF GoesOn

\* ... and after a step.
LEMMA ProgressBegins ==
  ASSUME Picks, TypeInv', NEW l \in Log,
         \A x \in Range(Outs(l))', y \in Range(root[l])' : ~Same(x, y)
  PROVE  Progress(l, 0)'
<1>1. Output(l)' \in Seq(Lines) /\ Outs(l)' \in Seq(Lines)
  <2>1. Outs(l)' \in Seq(Lines)
    BY DEF TypeInv, Outs, Log, FileLog
  <2> QED
    BY <2>1, OfLevelsPicks DEF Output, TypeInv
<1> QED
  BY <1>1, GoesOnBegins DEF Progress

\* There is none with an empty root message.
LEMMA WholeReset ==
  ASSUME Picks, TypeInv', NEW l \in Log, root'[l] = <<>>
  PROVE  Whole(root[l])' /\ Progress(l, 0)'
<1>1. Whole(<<>>) /\ Range(<<>>) = {}
  BY SMTT(30) DEF Whole, Range
<1> QED
  BY <1>1, ProgressBegins

\* A step of the innermost call of goroutine w changes what its own logger
\* writes to, and no other.
LocalOut(w) ==
  \A k \in Log \ {Top(w).log} : Outs(k)' = Outs(k) /\ out'[k] = out[k]

\* The calls of others are not disturbed.
LEMMA WholeLocal ==
  ASSUME CallInv, TypeInv', WholeInv, NEW w \in Writer, stack[w] # <<>>, Local(w), LocalOut(w),
         \A p \in 1..Len(stack'[w]) :
           \/ \E q \in 2..Len(stack[w]) : stack'[w][p] = stack[w][q]
           \/ WholeFrame(stack[w][p])',
         \A h \in FileLog : \A j \in 0..MaxBackup - 1 : Whole(backup'[h][j]),
         NEW l \in Log, l = Top(w).log, WholeLog(l)'
  PROVE  WholeInv'
<1>1. ASSUME NEW k \in Log PROVE WholeLog(k)'
  <2>1. CASE k # l
    <3>1. Outs(k)' = Outs(k) /\ root'[k] = root[k] /\ lock'[k] = lock[k]
      BY <2>1 DEF Local, LocalOut
    <3>2. Progress(k, 0) => Progress(k, 0)'
      BY <3>1, ProgressStays
    <3> QED
      BY <3>1, <3>2 DEF WholeInv, WholeLog
  <2> QED
    BY <2>1
<1>2. ASSUME NEW v \in Writer, NEW q \in 1..Len(stack[v]), v # w \/ q # 1
      PROVE  WholeFrame(stack[v][q]) /\ (stack[v][q].phase = "lock" \/ stack[v][q].log # l)
  <2>1. WholeFrame(stack[v][q]) /\ FrameInv(v, stack[v][q])
    BY ZenonT(30) DEF WholeInv, CallInv, StackInv, StackOf
  <2>2. CASE v # w
    BY <2>1, <2>2, LoggerAssumption, SMTT(60) DEF FrameInv, Local
  <2>3. CASE v = w
    <3>1. 1 \in 1..q - 1
      BY <1>2, <2>3, SMTT(30)
    <3>2. Above(stack[w][q].log, stack[w][1].log)
      BY <2>3, <3>1 DEF CallInv, StackInv, StackOf
    <3> QED
      BY <2>1, <2>3, <3>2, AboveOther, TopFacts, ZenonT(30) DEF CallInv
  <2> QED
    BY <2>2, <2>3
<1>3. ASSUME NEW f \in Frame, WholeFrame(f), f.phase = "lock" \/ f.log # l
      PROVE  WholeFrame(f)'
  <2>1. CASE f.phase = "lock"
    BY <1>3, <2>1 DEF WholeFrame
  <2>2. CASE f.log # l
    <3>1. f.log \in Log
      BY DEF Frame
    <3>2. /\ Outs(f.log)' = Outs(f.log) /\ root'[f.log] = root[f.log]
          /\ out'[f.log] = out[f.log]
      BY <2>2, <3>1 DEF Local, LocalOut
    <3> QED
      BY <1>3, <3>2, WholeFrameStays
  <2> QED
    BY <1>3, <2>1, <2>2
<1>4. ASSUME NEW v \in Writer, NEW p \in 1..Len(stack'[v]) PROVE WholeFrame(stack[v][p])'
  <2>1. ASSUME NEW q \in 1..Len(stack[v]), v # w \/ q # 1, stack'[v][p] = stack[v][q]
        PROVE  WholeFrame(stack[v][p])'
    <3>1. PICK f \in Frame : f = stack[v][q] /\ f = stack'[v][p]
      BY <2>1, SMTT(30) DEF CallInv, TypeInv
    <3>2. WholeFrame(f)'
      BY <1>2, <1>3, <2>1, <3>1
    <3> QED
      BY <3>1, <3>2 DEF WholeFrame, Count
  <2>2. CASE v # w
    <3>1. stack'[v] = stack[v]
      BY <2>2 DEF Local
    <3> QED
      BY <2>1, <2>2, <3>1
  <2>3. CASE v = w
    <3>1. ASSUME NEW q \in 2..Len(stack[w]), stack'[w][p] = stack[w][q]
          PROVE  WholeFrame(stack[v][p])'
      BY <2>1, <2>3, <3>1, SMTT(30)
    <3> QED
      BY <2>3, <3>1
  <2> QED
    BY <2>2, <2>3
<1> QED
  BY <1>1, <1>4 DEF WholeInv

\* Nor are they by a call that begins to wait.
LEMMA WholePush ==
  ASSUME CallInv, TypeInv', WholeInv, NEW w \in Writer, stack[w] = <<>>,
         NEW f \in Frame, f.phase = "lock", Whole(f.lines),
         stack' = [stack EXCEPT ![w] = <<f>>], lock' = lock, backup' = backup,
         \A k \in Log : Outs(k)' = Outs(k) /\ (out'[k] = "file" <=> out[k] = "file"),
         \A k \in Log : \/ root'[k] = root[k]
                        \/ lock[k] = NoWriter /\ Whole(root[k])' /\ Progress(k, 0)'
  PROVE  WholeInv'
<1>1. ASSUME NEW k \in Log PROVE WholeLog(k)'
  <2>1. Whole(Outs(k))'
    BY DEF WholeInv, WholeLog
  <2>2. CASE root'[k] = root[k]
    <3>1. Progress(k, 0) => Progress(k, 0)'
      BY <2>2, ProgressStays
    <3> QED
      BY <2>1, <2>2, <3>1 DEF WholeInv, WholeLog
  <2> QED
    BY <2>1, <2>2 DEF WholeLog
<1>2. /\ stack'[w] = <<f>> /\ Len(<<f>>) = 1 /\ <<f>>[1] = f
      /\ \A v \in Writer \ {w} : stack'[v] = stack[v]
  BY DEF CallInv, TypeInv
<1>3. ASSUME NEW v \in Writer, NEW p \in 1..Len(stack'[v]) PROVE WholeFrame(stack[v][p])'
  <2>1. CASE v = w
    <3>1. stack'[v][p] = f
      BY <1>2, <1>3, <2>1, SMTT(30)
    <3> QED
      BY <3>1 DEF WholeFrame
  <2>2. CASE v # w
    <3>1. stack'[v] = stack[v] /\ p \in 1..Len(stack[v])
      BY <1>2, <2>2
    <3>2. PICK g \in Frame : g = stack[v][p] /\ g = stack'[v][p]
      BY <3>1, SMTT(30) DEF CallInv, TypeInv
    <3>3. WholeFrame(g) /\ FrameInv(v, g) /\ g.log \in Log
      BY <3>1, <3>2 DEF WholeInv, CallInv, StackInv, StackOf, Frame
    <3>4. WholeFrame(g)'
      <4>1. CASE g.phase = "lock"
        BY <3>3, <4>1 DEF WholeFrame
      <4>2. CASE g.phase # "lock"
        <5>1. root'[g.log] = root[g.log]
          BY <3>3, <4>2, LoggerAssumption DEF FrameInv
        <5> QED
          BY <3>3, <5>1, WholeFrameStays
      <4> QED
        BY <4>1, <4>2
    <3> QED
      BY <3>2, <3>4 DEF WholeFrame, Count
  <2> QED
    BY <2>1, <2>2
<1> QED
  BY <1>1, <1>3 DEF WholeInv

\* Commit, and Add of the root message.
LEMMA WholeWrite ==
  ASSUME Picks, CallInv, CallInv', KeyInv, WholeInv, NEW w \in Writer, Write(w)
  PROVE  WholeInv'
<1>1. PICK l \in FileLog : AddToRoot(w, l) \/ \E k \in Kind : Commit(w, l, k)
  BY DEF Write
<1> DEFINE m == msgs + 1
<1>2. m \in Nat /\ l \in Log /\ msgs \in Nat
  BY SMT DEF CallInv, TypeInv, FileLog, Log
<1>3. ASSUME NEW k \in Kind, Commit(w, l, k) PROVE WholeInv'
  <2> DEFINE ls == OfLevels(Message(m, k), Levels(l) \cup Levels("console"))
             f == Flush(l, ls, FALSE, Range(ls))
  <2>1. /\ stack[w] = <<>> /\ UNCHANGED <<root, out, lock, file, backup, console>>
        /\ stack' = [stack EXCEPT ![w] = <<f>>]
    BY <1>3 DEF Commit, diskVars
  <2>2. k \in Seq({"debug", "trace"})
    BY LoggerAssumption
  <2>3. ls \in Seq(Lines) /\ Whole(ls)
    BY <1>2, <2>2, MessageType, OfLevelsPicks
  <2>4. Range(ls) \in SUBSET Lines
    BY <2>3, Members
  <2> HIDE DEF ls
  <2>5. f \in Frame /\ f.phase = "lock" /\ Whole(f.lines)
    BY <1>2, <2>3, <2>4 DEF Flush, Frame, Phase
  <2> HIDE DEF f
  <2>6. \A h \in Log : Outs(h)' = Outs(h)
    BY <2>1 DEF Outs
  <2> QED
    BY <2>1, <2>5, <2>6, WholePush DEF CallInv
<1>4. CASE AddToRoot(w, l)
  <2> DEFINE ls == Message(m, <<"debug">>)
             f == Flush(l, <<>>, TRUE, Range(ls))
  <2>1. /\ stack[w] = <<>> /\ UNCHANGED <<out, lock, file, backup, console>>
        /\ lock[l] = NoWriter /\ root' = [root EXCEPT ![l] = @ \o ls]
        /\ stack' = [stack EXCEPT ![w] = <<f>>]
    BY <1>4 DEF AddToRoot, diskVars
  <2>2. /\ ls \in Seq(Lines) /\ Whole(ls)
        /\ \A x \in Range(ls) : x.msg = m /\ x.via = "none"
    <3>1. <<"debug">> \in Seq({"debug", "trace"})
      BY SMT
    <3> QED
      BY <1>2, <3>1, MessageType
  <2>3. Range(ls) \in SUBSET Lines
    BY <2>2, Members
  <2> HIDE DEF ls
  <2>4. f \in Frame /\ f.phase = "lock" /\ f.lines = <<>>
    BY <1>2, <2>3, SMTT(30) DEF Flush, Frame, Phase
  <2>5. Whole(f.lines)
    <3>1. Whole(<<>>)
      BY SMT DEF Whole
    <3> HIDE DEF f
    <3> QED
      BY <2>4, <3>1
  <2> HIDE DEF f
  <2>6. \A h \in Log : Outs(h)' = Outs(h)
    BY <2>1 DEF Outs
  <2>7. /\ \A h \in Log \ {l} : root'[h] = root[h]
        /\ root'[l] = root[l] \o ls /\ root[l] \in Seq(Lines) /\ Outs(l) \in Seq(Lines)
    BY <1>2, <2>1, AtType DEF CallInv, TypeInv
  <2>8. \A x \in Got(l) : x.msg # m
    <3>1. \A x \in Got(l) : x.msg \in Nat /\ x.msg <= msgs
      BY <1>2, AtType DEF CallInv, KeyInv, At, Lines
    <3> QED
      BY <1>2, <3>1, SMTT(30)
  <2> HIDE DEF m
  <2>9. Whole(root[l])'
    <3>1. \A x \in Range(root[l]), y \in Range(ls) : ~Same(x, y)
      BY <2>2, <2>8 DEF Got, Same
    <3>2. Whole(root[l])
      BY <1>2 DEF WholeInv, WholeLog
    <3> QED
      BY <2>2, <2>7, <3>1, <3>2, WholeConcat
  <2>10. Progress(l, 0)'
    <3>1. \A x \in Range(Outs(l)), y \in Range(root[l]) : ~Same(x, y)
      <4>1. GoesOn(Outs(l), Output(l), root[l], 0)
        BY <1>2, <2>1 DEF WholeInv, WholeLog, Progress
      <4> QED
        BY <1>2, <2>7, <4>1, GoesOnBegins, OutputType DEF CallInv
    <3>2. Range(root[l])' = Range(root[l]) \cup Range(ls) /\ Range(Outs(l))' = Range(Outs(l))
      BY <1>2, <2>2, <2>6, <2>7, Members, SMTT(30)
    <3>3. \A x \in Range(Outs(l))', y \in Range(root[l])' : ~Same(x, y)
      BY <2>2, <2>8, <3>1, <3>2 DEF Got, Same
    <3> QED
      BY <1>2, <3>3, ProgressBegins DEF CallInv
  <2> QED
    BY <2>1, <2>4, <2>5, <2>6, <2>7, <2>9, <2>10, WholePush DEF CallInv
<1> QED
  BY <1>1, <1>3, <1>4

\* The innermost call goes on, ...
LEMMA WholeGone ==
  ASSUME CallInv, TypeInv', WholeInv, NEW w \in Writer, stack[w] # <<>>, Local(w), LocalOut(w),
         NEW ph, NEW i \in Nat, Gone(w, ph, i), ph # "lock",
         \A h \in FileLog : \A j \in 0..MaxBackup - 1 : Whole(backup'[h][j]),
         NEW l \in Log, l = Top(w).log, WholeLog(l)',
         NEW c, c = Count(stack[w][1])', Progress(l, c)'
  PROVE  WholeInv'
<1>1. WholeFrame(stack[w][1])'
  <2>1. stack'[w][1].phase # "lock" /\ stack'[w][1].log = l
    BY DEF Gone
  <2> QED
    BY <2>1 DEF WholeFrame
<1>2. ASSUME NEW p \in 1..Len(stack'[w])
      PROVE  \/ \E q \in 2..Len(stack[w]) : stack'[w][p] = stack[w][q]
             \/ WholeFrame(stack[w][p])'
  <2>1. CASE p = 1
    BY <1>1, <2>1
  <2>2. CASE p # 1
    <3>1. Len(stack'[w]) = Len(stack[w]) /\ Len(stack[w]) \in Nat
      BY TopFacts, ZenonT(30) DEF Gone, CallInv
    <3>2. p \in 2..Len(stack[w])
      BY <2>2, <3>1, SMTT(30)
    <3> QED
      BY <3>2 DEF Gone
  <2> QED
    BY <2>1, <2>2
<1> QED
  BY <1>2, WholeLocal

\* ... or returns.
LEMMA WholePop ==
  ASSUME CallInv, TypeInv', WholeInv, NEW w \in Writer, stack[w] # <<>>, Local(w), LocalOut(w),
         stack'[w] = Tail(stack[w]),
         \A h \in FileLog : \A j \in 0..MaxBackup - 1 : Whole(backup'[h][j]),
         NEW l \in Log, l = Top(w).log, WholeLog(l)'
  PROVE  WholeInv'
<1>1. ASSUME NEW p \in 1..Len(stack'[w])
      PROVE  \E q \in 2..Len(stack[w]) : stack'[w][p] = stack[w][q]
  <2>1. PICK m \in Nat : m = Len(stack[w]) /\ m - 1 = Len(stack'[w])
    BY HeadAndTail, TopFacts DEF CallInv
  <2>2. p \in 1..m - 1 /\ p + 1 \in 2..m
    BY <2>1, SMT
  <2>3. stack'[w][p] = stack[w][p + 1]
    BY <2>1, <2>2, HeadAndTail, TopFacts DEF CallInv
  <2> QED
    BY <2>1, <2>2, <2>3
<1> QED
  BY <1>1, WholeLocal

\* The lines that waited for the lock are of other messages.
LEMMA WholeFlushLock ==
  ASSUME Picks, CallInv, CallInv', KeyInv, WholeInv, NEW w \in Writer, FlushLock(w)
  PROVE  WholeInv'
<1>1. /\ stack[w] # <<>> /\ Top(w).phase = "lock" /\ lock[Top(w).log] = NoWriter
      /\ file' = file /\ console' = console /\ backup' = backup
      /\ \/ FlushIdle(w) \/ FlushBuffered(w)
         \/ \E ph \in {"shift", "truncate", "write"} : FlushTaken(w, ph)
  BY FlushLockCases
<1>2. PICK l \in Log : l = Top(w).log
  BY <1>1, TopFacts DEF CallInv
<1>3. Local(w)
  BY CallFlushLock
<1>4. \A k \in Log : Outs(k)' = Outs(k)
  BY <1>1 DEF Outs
<1>5. LocalOut(w)
  BY <1>1, <1>4 DEF LocalOut, FlushIdle, FlushBuffered, FlushTaken
<1>6. \A h \in FileLog : \A j \in 0..MaxBackup - 1 : Whole(backup'[h][j])
  BY <1>1 DEF WholeInv
<1>7. /\ Top(w) = stack[w][1] /\ 1 \in 1..Len(stack[w]) /\ Top(w).lines \in Seq(Lines)
      /\ Outs(l) \in Seq(Lines) /\ root[l] \in Seq(Lines) /\ Output(l) \in Seq(Lines)
  BY <1>1, TopFacts, AtType, OutputType DEF CallInv
<1>8. /\ \A x \in Range(Top(w).lines) : \A y \in Got(l) : ~Same(x, y)
      /\ Whole(Top(w).lines)
  <2>1. WaitingOf(w, l) = Range(Top(w).lines)
    BY <1>1, <1>2 DEF WaitingOf, InPhase
  <2>2. WholeFrame(Top(w))
    BY <1>7 DEF WholeInv
  <2> QED
    BY <1>1, <2>1, <2>2 DEF KeyInv, WholeFrame
<1>9. Whole(root[l]) /\ Whole(Outs(l)) /\ Progress(l, 0)
  BY <1>1, <1>2 DEF WholeInv, WholeLog
<1>10. Whole(root[l])' /\ Whole(Outs(l))' /\ Progress(l, 0)'
  <2>1. CASE root' = root
    BY <1>4, <1>9, <2>1, ProgressStays
  <2>2. CASE root' = [root EXCEPT ![l] = @ \o Top(w).lines]
    <3>1. root'[l] = root[l] \o Top(w).lines
      BY <2>2 DEF CallInv, TypeInv
    <3>2. \A x \in Range(root[l]), y \in Range(Top(w).lines) : ~Same(x, y)
      BY <1>8 DEF Got, Same
    <3>3. Whole(root[l])'
      BY <1>7, <1>8, <1>9, <3>1, <3>2, WholeConcat
    <3>4. \A x \in Range(Outs(l)), y \in Range(root[l]) : ~Same(x, y)
      BY <1>7, <1>9, GoesOnBegins DEF Progress
    <3>5. /\ Range(root[l])' = Range(root[l]) \cup Range(Top(w).lines)
          /\ Range(Outs(l))' = Range(Outs(l))
      BY <1>4, <1>7, <3>1, Members, ZenonT(30)
    <3>6. \A x \in Range(Outs(l))', y \in Range(root[l])' : ~Same(x, y)
      BY <1>8, <3>4, <3>5 DEF Got, Same
    <3> QED
      BY <1>4, <1>9, <3>3, <3>6, ProgressBegins DEF CallInv
  <2> QED
    BY <1>1, <1>2, <2>1, <2>2 DEF FlushIdle, FlushBuffered, FlushTaken
<1>11. WholeLog(l)'
  BY <1>10 DEF WholeLog
<1>12. CASE Return(w)
  <2>1. stack'[w] = Tail(stack[w])
    BY <1>1, <1>12, ReturnStack DEF CallInv
  <2> QED
    BY <1>1, <1>2, <1>3, <1>5, <1>6, <1>11, <2>1, WholePop, ZenonT(30) DEF CallInv
<1>13. ASSUME NEW ph \in {"shift", "truncate", "write"}, Goto(w, ph, 0) PROVE WholeInv'
  <2>1. Gone(w, ph, 0)
    BY <1>1, <1>13, GotoStack DEF CallInv, Phase
  <2>2. stack'[w][1].i = 0 /\ stack'[w][1].log = l
    BY <1>2, <2>1 DEF Gone
  <2>3. Output(l)' \in Seq(Lines)
    BY OfLevelsPicks DEF Output, CallInv, TypeInv
  <2>4. 0 <= Len(Output(l)')
    BY <2>3, SMT
  <2>5. Count(stack[w][1])' = 0
    BY <2>2, <2>4 DEF Count
  <2> QED
    BY <1>1, <1>2, <1>3, <1>5, <1>6, <1>10, <1>11, <2>1, <2>5, WholeGone, ZenonT(30) DEF CallInv
<1> QED
  BY <1>1, <1>12, <1>13 DEF FlushIdle, FlushBuffered, FlushTaken

\* A rotation moves whole files.
LEMMA WholeRotate ==
  ASSUME Picks, CallInv, CallInv', WholeInv, NEW w \in Writer,
         RotateShift(w) \/ RotateGzip(w) \/ RotateTruncate(w)
  PROVE  WholeInv'
<1>1. /\ stack[w] # <<>> /\ Top(w).phase \in {"shift", "gzip", "truncate"}
      /\ root' = root /\ console' = console /\ out' = out /\ lock' = lock
  BY DEF RotateShift, RotateGzip, RotateTruncate, InPhase
<1>2. PICK l \in Log : l = Top(w).log
  BY <1>1, TopFacts DEF CallInv
<1>3. Local(w)
  BY CallShift, CallGzip, CallTruncate
<1>4. /\ Top(w) = stack[w][1] /\ 1 \in 1..Len(stack[w]) /\ Top(w).i \in Nat
      /\ FrameInv(w, Top(w)) /\ WholeFrame(Top(w))
  BY <1>1, TopFacts DEF CallInv, StackInv, StackOf, WholeInv
<1>5. l \in FileLog /\ MaxBackup \in Nat /\ (Top(w).phase = "shift" => Top(w).i < MaxBackup)
  BY <1>1, <1>2, <1>4, LoggerAssumption DEF FrameInv
<1>6. Progress(l, 0) /\ Whole(root[l]) /\ Whole(Outs(l)) /\ lock[l] # NoWriter
  <2>1. Count(Top(w)) = 0
    BY <1>1 DEF Count
  <2>2. lock[l] = w
    BY <1>1, <1>2, <1>4 DEF FrameInv
  <2> QED
    BY <1>1, <1>2, <1>4, <2>1, <2>2, LoggerAssumption DEF WholeFrame, WholeInv, WholeLog
<1>7. PICK ph \in Phase \ {"lock"}, i \in Nat : Goto(w, ph, i) /\ (ph = "write" => i = 0)
  <2>1. CASE RotateShift(w)
    <3>1. Top(w).i + 1 \in Nat
      BY <1>4, SMT
    <3> QED
      BY <2>1, <3>1, SMTT(30) DEF RotateShift, Phase
  <2>2. CASE RotateGzip(w) \/ RotateTruncate(w)
    BY <2>2 DEF RotateGzip, RotateTruncate, Phase
  <2> QED
    BY <2>1, <2>2
<1>8. Gone(w, ph, i)
  BY <1>1, <1>7, GotoStack DEF CallInv
<1>9. Count(stack[w][1])' = 0
  <2>1. /\ stack'[w][1].phase = ph /\ stack'[w][1].i = i /\ stack'[w][1].log = l
    BY <1>2, <1>8 DEF Gone
  <2>2. Output(l)' \in Seq(Lines)
    BY OfLevelsPicks DEF Output, CallInv, TypeInv
  <2>3. 0 <= Len(Output(l)')
    BY <2>2, SMTT(30)
  <2> QED
    BY <1>7, <2>1, <2>3 DEF Count
<1>10. /\ \A k \in Log \ {l} : Outs(k)' = Outs(k)
       /\ Outs(l)' = Outs(l) \/ Outs(l)' = <<>>
  <2>1. CASE RotateTruncate(w)
    BY <1>1, <1>2, <1>5, <2>1 DEF RotateTruncate, Outs, CallInv, TypeInv, Log, FileLog
  <2>2. CASE RotateShift(w) \/ RotateGzip(w)
    BY <1>1, <2>2 DEF RotateShift, RotateGzip, Outs
  <2> QED
    BY <2>1, <2>2
<1>11. Whole(<<>>) /\ Range(<<>>) = {}
  BY SMT DEF Whole, Range
<1>12. WholeLog(l)' /\ Progress(l, 0)'
  <2>1. CASE Outs(l)' = Outs(l)
    BY <1>1, <1>6, <2>1, ProgressStays DEF WholeLog
  <2>2. CASE Outs(l)' = <<>>
    <3>1. Range(Outs(l))' = {}
      BY <1>11, <2>2
    <3>2. Progress(l, 0)'
      BY <3>1, ProgressBegins DEF CallInv
    <3> QED
      BY <1>1, <1>6, <1>11, <2>2, <3>2 DEF WholeLog
  <2> QED
    BY <1>10, <2>1, <2>2
<1>13. LocalOut(w)
  BY <1>1, <1>2, <1>10 DEF LocalOut
<1>14. ASSUME NEW h \in FileLog, NEW j \in 0..MaxBackup - 1 PROVE Whole(backup'[h][j])
  <2>1. backup \in [FileLog -> [0..MaxBackup - 1 -> Seq(Lines)]]
    BY DEF CallInv, TypeInv
  <2>2. CASE RotateTruncate(w) \/ backup' = backup
    BY <2>2 DEF RotateTruncate, WholeInv
  <2>3. CASE RotateGzip(w) /\ backup' # backup
    <3>1. backup' = [backup EXCEPT ![l][0] = file[l]] /\ Whole(file[l])
      BY <1>2, <1>5, <1>6, <2>3 DEF RotateGzip, Outs, FileLog
    <3>2. CASE h = l
      <4>1. backup'[h] = [backup[h] EXCEPT ![0] = file[l]] /\ backup[h] \in [0..MaxBackup - 1 -> Seq(Lines)]
        BY <2>1, <3>1, <3>2
      <4>2. backup'[h][j] = file[l] \/ backup'[h][j] = backup[h][j]
        BY <4>1
      <4> QED
        BY <3>1, <4>2 DEF WholeInv
    <3>3. CASE h # l
      BY <2>1, <3>1, <3>3 DEF WholeInv
    <3> QED
      BY <3>2, <3>3
  <2>4. CASE RotateShift(w)
    <3>1. PICK n : n = MaxBackup - 1 - Top(w).i
      OBVIOUS
    <3>2. Rename(l, n) /\ n \in 0..MaxBackup - 1
      <4>1. Rename(l, n) /\ Top(w).phase = "shift"
        BY <1>2, <2>4, <3>1 DEF RotateShift, InPhase
      <4> QED
        BY <1>4, <1>5, <3>1, <4>1, SMTT(30)
    <3>3. CASE h = l
      <4>1. backup'[h] = [d \in DOMAIN backup[h] |->
                IF d = n + 1 THEN backup[h][n] ELSE IF d = n THEN <<>> ELSE backup[h][d]]
        BY <1>5, <2>1, <3>2, <3>3 DEF Rename
      <4>2. backup'[h][j] \in {backup[h][n], <<>>, backup[h][j]}
        BY <2>1, <4>1
      <4>3. Whole(backup[h][n]) /\ Whole(backup[h][j])
        BY <3>2 DEF WholeInv
      <4> QED
        BY <1>11, <4>2, <4>3
    <3>4. CASE h # l
      <4>1. backup'[h] = backup[h]
        BY <2>1, <3>2, <3>4 DEF Rename
      <4> QED
        BY <4>1 DEF WholeInv
    <3> QED
      BY <3>3, <3>4
  <2> QED
    BY <2>2, <2>3, <2>4
<1> QED
  BY <1>1, <1>2, <1>3, <1>7, <1>8, <1>9, <1>12, <1>13, <1>14, WholeGone, ZenonT(30) DEF CallInv

\* The root message is reset.
LEMMA WholeEnd ==
  ASSUME Picks, CallInv, CallInv', WholeInv, NEW w \in Writer, FlushEnd(w)
  PROVE  WholeInv'
<1>1. /\ stack[w] # <<>> /\ Return(w) /\ out' = out
      /\ file' = file /\ console' = console /\ backup' = backup
  BY DEF FlushEnd, InPhase, diskVars
<1>2. PICK l \in Log : l = Top(w).log
  BY <1>1, TopFacts DEF CallInv
<1>3. \A k \in Log : Outs(k)' = Outs(k)
  BY <1>1 DEF Outs
<1>4. root'[l] = <<>>
  BY <1>2 DEF FlushEnd, CallInv, TypeInv
<1>5. WholeLog(l)'
  BY <1>3, <1>4, WholeReset DEF CallInv, WholeInv, WholeLog
<1>6. stack'[w] = Tail(stack[w])
  BY <1>1, ReturnStack DEF CallInv
<1>7. Local(w) /\ LocalOut(w)
  BY <1>1, <1>3, CallEnd DEF LocalOut
<1>8. \A h \in FileLog : \A j \in 0..MaxBackup - 1 : Whole(backup'[h][j])
  BY <1>1 DEF WholeInv
<1> QED
  BY <1>1, <1>2, <1>5, <1>6, <1>7, <1>8, WholePop DEF CallInv

\* A Flush of what is buffered brings no lines.
LEMMA WholeName ==
  ASSUME Picks, CallInv, CallInv', WholeInv, ToDevFile \/ ToMainLog
  PROVE  WholeInv'
<1> DEFINE f == Flush("dev", <<>>, TRUE, {})
<1>1. /\ Initializer \in Writer /\ stack[Initializer] = <<>> /\ mode["dev"] = "none"
      /\ stack' = [stack EXCEPT ![Initializer] = <<f>>]
      /\ out' = out \/ out' = [out EXCEPT !["dev"] = "stream"]
      /\ UNCHANGED <<root, lock, file, backup, console>>
  BY LoggerAssumption DEF ToDevFile, ToMainLog, diskVars
<1>2. \A k \in Log : Outs(k)' = Outs(k)
  BY <1>1 DEF Outs
<1>3. \A k \in Log : out'[k] = "file" <=> out[k] = "file"
  BY <1>1 DEF CallInv, ConfInv, Log
<1>4. f \in Frame /\ f.phase = "lock" /\ f.lines = <<>>
  BY SMTT(30) DEF Flush, Frame, Phase, Log
<1>5. Whole(<<>>)
  BY SMT DEF Whole
<1> HIDE DEF f
<1> QED
  BY <1>1, <1>2, <1>3, <1>4, <1>5, WholePush DEF CallInv

\* Files are what they were.
LEMMA WholeCrash ==
  ASSUME Picks, CallInv', WholeInv, Crash
  PROVE  WholeInv'
<1>1. /\ \A k \in Log : Outs(k)' = Outs(k) /\ root'[k] = <<>>
      /\ \A w \in Writer : stack'[w] = <<>>
      /\ backup' = backup
  BY DEF Crash, Outs, diskVars
<1>2. \A l \in Log : WholeLog(l)'
  BY <1>1, WholeReset DEF CallInv, WholeInv, WholeLog
<1>3. \A w \in Writer : \A p \in 1..Len(stack'[w]) : FALSE
  BY <1>1, SMT
<1> QED
  BY <1>1, <1>2, <1>3 DEF WholeInv

\* One more line is written.
LEMMA GoesOnNext ==
  ASSUME NEW o \in Seq(Lines), NEW u \in Seq(Lines), NEW r, NEW k \in Nat, GoesOn(o, u, r, k),
         k + 1 <= Len(u)
  PROVE  GoesOn(Append(o, u[k + 1]), u, r, k + 1)
<1> DEFINE c == Append(o, u[k + 1])
<1>1. PICK m \in Nat : m = Len(o)
  BY SMT
<1>2. u[k + 1] \in Lines
  BY SMTT(30)
<1>3. Len(c) = m + 1 /\ c[m + 1] = u[k + 1] /\ \A p \in 1..m : c[p] = o[p]
  BY <1>1, <1>2, SMTT(30)
<1>4. /\ k <= m /\ \A j \in 1..k : o[m - k + j] = u[j]
      /\ \A a \in 1..m - k : \A x \in Range(r) : ~Same(o[a], x)
  BY <1>1 DEF GoesOn
<1> HIDE DEF c
<1>5. k + 1 <= Len(u) /\ k + 1 <= Len(c) /\ (m + 1) - (k + 1) = m - k
  BY <1>3, <1>4, SMTT(30)
<1>6. ASSUME NEW j \in 1..k + 1 PROVE c[m - k + j] = u[j]
  <2>1. CASE j = k + 1
    <3>1. m - k + j = m + 1
      BY <1>4, <2>1, SMTT(30)
    <3> QED
      BY <1>3, <2>1, <3>1
  <2>2. CASE j # k + 1
    <3>1. j \in 1..k /\ m - k + j \in 1..m
      BY <1>4, <1>6, <2>2, SMTT(30)
    <3> QED
      BY <1>3, <1>4, <3>1
  <2> QED
    BY <2>1, <2>2
<1>7. ASSUME NEW a \in 1..m - k PROVE \A x \in Range(r) : ~Same(c[a], x)
  <2>1. a \in 1..m
    BY <1>4, SMTT(30)
  <2> QED
    BY <1>3, <1>4, <2>1
<1>8. GoesOn(c, u, r, k + 1)
  BY <1>3, <1>5, <1>6, <1>7 DEF GoesOn
<1> QED
  BY <1>8 DEF c

\* It is the next one of the root message.
LEMMA WholeWriteLine ==
  ASSUME Picks, CallInv, CallInv', WholeInv, NEW w \in Writer, WriteLine(w)
  PROVE  WholeInv'
<1>1. /\ stack[w] # <<>> /\ Top(w).phase = "write"
      /\ UNCHANGED <<root, out, lock, backup>>
  BY DEF WriteLine, InPhase
<1>2. PICK l \in Log : l = Top(w).log
  BY <1>1, TopFacts DEF CallInv
<1>3. /\ Top(w) = stack[w][1] /\ 1 \in 1..Len(stack[w]) /\ Top(w).i \in Nat
      /\ WholeFrame(Top(w)) /\ lock[l] = w
  BY <1>1, <1>2, TopFacts, TopHolds DEF CallInv, WholeInv
<1>4. PICK i \in Nat : i = Top(w).i
  BY <1>3
<1>5. PICK u \in Seq(Lines) : u = Output(l) /\ u = Output(l)'
  BY <1>1, OutputType DEF Output, CallInv
<1>6. Goto(w, "write", i + 1) /\ i + 1 <= Len(u) /\ i <= Len(u)
  BY <1>2, <1>4, <1>5, SMTT(30) DEF WriteLine
<1>7. Gone(w, "write", i + 1)
  BY <1>1, <1>6, GotoStack, SMTT(30) DEF CallInv, Phase
<1>8. u[i + 1] \in Range(root[l]) /\ u[i + 1] \in Lines /\ Whole(u)
  <2>1. Range(u) \subseteq Range(root[l]) /\ Whole(u)
    BY <1>5, OfLevelsPicks DEF Output, CallInv, TypeInv, WholeInv, WholeLog
  <2>2. i + 1 \in 1..Len(u)
    BY <1>6, SMTT(30)
  <2> QED
    BY <2>1, <2>2, Members
<1> DEFINE writes == l = "console" \/ out[l] = "file"
<1>9. /\ \A k \in Log \ {l} : Outs(k)' = Outs(k)
      /\ IF writes THEN Outs(l)' = Append(Outs(l), u[i + 1]) ELSE Outs(l)' = Outs(l)
  <2>1. /\ console' = IF l = "console" THEN Append(console, u[i + 1]) ELSE console
        /\ IF out[l] = "file" THEN file' = [file EXCEPT ![l] = Append(@, u[i + 1])]
           ELSE file' = file
    BY <1>2, <1>4, <1>5 DEF WriteLine
  <2>2. file \in [FileLog -> Seq(Lines)] /\ out["console"] # "file"
    BY DEF CallInv, TypeInv, ConfInv
  <2>3. CASE l = "console"
    BY <2>1, <2>2, <2>3 DEF Outs
  <2>4. CASE l # "console"
    <3>1. l \in FileLog
      BY <2>4 DEF Log, FileLog
    <3> QED
      BY <2>1, <2>2, <2>4, <3>1 DEF Outs, Log, FileLog
  <2> QED
    BY <2>3, <2>4
<1>10. /\ Count(Top(w)) = IF writes THEN i ELSE 0
       /\ Count(stack[w][1])' = IF writes THEN i + 1 ELSE 0
  <2>1. /\ stack'[w][1].phase = "write" /\ stack'[w][1].i = i + 1 /\ stack'[w][1].log = l
    BY <1>2, <1>7 DEF Gone
  <2> QED
    BY <1>1, <1>2, <1>4, <1>5, <1>6, <2>1 DEF Count
<1>11. Local(w) /\ LocalOut(w)
  BY <1>1, <1>2, <1>9, CallWriteLine DEF LocalOut
<1>12. Whole(root[l]) /\ Whole(Outs(l)) /\ Outs(l) \in Seq(Lines) /\ lock'[l] # NoWriter
  BY <1>1, <1>3, AtType, LoggerAssumption DEF WholeInv, WholeLog, CallInv
<1>13. \A h \in FileLog : \A j \in 0..MaxBackup - 1 : Whole(backup'[h][j])
  BY <1>1 DEF WholeInv
<1>14. CASE writes
  <2>1. GoesOn(Outs(l), u, root[l], i)
    BY <1>1, <1>2, <1>3, <1>5, <1>10, <1>14 DEF WholeFrame, Progress
  <2>2. GoesOn(Append(Outs(l), u[i + 1]), u, root[l], i + 1)
    BY <1>6, <1>12, <2>1, GoesOnNext
  <2>3. Progress(l, i + 1)'
    BY <1>1, <1>5, <1>9, <1>14, <2>2 DEF Progress
  <2>4. /\ \A j \in 1..i : Outs(l)[Len(Outs(l)) - i + j] = u[j]
        /\ \A a \in 1..Len(Outs(l)) - i : ~Same(Outs(l)[a], u[i + 1])
        /\ i <= Len(Outs(l))
    BY <1>8, <2>1 DEF GoesOn
  <2>5. Whole(Append(Outs(l), u[i + 1]))
    BY <1>6, <1>8, <1>12, <2>4, WholeNext
  <2>6. WholeLog(l)'
    BY <1>1, <1>9, <1>12, <1>14, <2>5 DEF WholeLog
  <2>7. PICK c : c = i + 1
    OBVIOUS
  <2>8. c = Count(stack[w][1])' /\ Progress(l, c)'
    BY <1>10, <1>14, <2>3, <2>7
  <2>9. i + 1 \in Nat
    BY SMT
  <2>10. TypeInv'
    BY ZenonT(30) DEF CallInv
  <2> QED
    BY <1>1, <1>2, <1>7, <1>11, <1>13, <2>6, <2>8, <2>9, <2>10, WholeGone, ZenonT(30)
<1>15. CASE ~writes
  <2>1. Progress(l, 0)
    BY <1>1, <1>2, <1>3, <1>10, <1>15 DEF WholeFrame
  <2>2. Progress(l, 0)'
    BY <1>1, <1>9, <1>15, <2>1, ProgressStays
  <2>3. WholeLog(l)'
    BY <1>1, <1>9, <1>12, <1>15 DEF WholeLog
  <2>4. PICK c : c = 0
    OBVIOUS
  <2>5. c = Count(stack[w][1])' /\ Progress(l, c)'
    BY <1>10, <1>15, <2>2, <2>4
  <2>6. i + 1 \in Nat
    BY SMT
  <2>7. TypeInv'
    BY DEF CallInv
  <2> QED
    BY <1>1, <1>2, <1>7, <1>11, <1>13, <2>3, <2>5, <2>6, <2>7, WholeGone
<1> QED
  BY <1>14, <1>15

\* A copy has the lines of the root message of some levels.
LEMMA WholeCopies ==
  ASSUME Picks, CallInv, KeyInv, WholeInv, NEW l \in FileLog, NEW to
  PROVE  Whole(Copies(l, to))
<1> DEFINE sel == OfLevels(root[l], Levels(to))
<1>1. l \in Log /\ root[l] \in Seq(Lines) /\ Whole(root[l])
  BY DEF FileLog, Log, CallInv, TypeInv, WholeInv, WholeLog
<1>2. sel \in Seq(Lines) /\ Whole(sel) /\ Range(sel) \subseteq Range(root[l])
  BY <1>1, OfLevelsPicks
<1>3. Range(root[l]) \subseteq Pending(l)
  BY DEF Pending
<1>4. \A x, y \in Pending(l) : x.msg = y.msg => x.via = y.via
  BY DEF KeyInv, FileLog
<1> HIDE DEF sel
<1>5. Whole([j \in DOMAIN sel |-> [sel[j] EXCEPT !.via = l]])
  BY <1>1, <1>2, <1>3, <1>4, WholeVia
<1> QED
  BY <1>5 DEF Copies, sel

\* It waits for the lock of another logger, and the call that made it has
\* written what it had to write.
LEMMA WholeCommitCopy ==
  ASSUME Picks, CallInv, CallInv', KeyInv, WholeInv, NEW w \in Writer, CommitCopy(w)
  PROVE  WholeInv'
<1>1. /\ stack[w] # <<>> /\ Top(w).phase = "write"
      /\ UNCHANGED <<root, out, lock, file, backup, console>>
  BY DEF CommitCopy, InPhase, diskVars
<1>2. PICK l \in Log : l = Top(w).log
  BY <1>1, TopFacts DEF CallInv
<1>3. PICK n \in 1..Len(cc[l]) :
        /\ Top(w).i + 1 = Len(Output(l)) + n
        /\ Above(l, cc[l][n])
        /\ Called(w, cc[l][n], Copies(l, cc[l][n]))
  BY <1>2, CopyStack
<1>4. PICK d \in Nat : d = Len(Output(l)) /\ d = Len(Output(l))'
  BY <1>1, OutputType DEF Output, CallInv
<1>5. PICK i \in Nat : i = Top(w).i /\ i >= d
  <2>1. Top(w).i \in Nat /\ n \in Nat /\ n >= 1
    BY <1>1, TopFacts, WriteFits, SMTT(30) DEF CallInv
  <2> QED
    BY <1>3, <1>4, <2>1, SMTT(30)
<1>6. /\ Top(w) = stack[w][1] /\ 1 \in 1..Len(stack[w])
      /\ WholeFrame(Top(w)) /\ lock[l] = w
  BY <1>1, <1>2, TopFacts, TopHolds DEF CallInv, WholeInv
<1>7. \A k \in Log : Outs(k)' = Outs(k)
  BY <1>1 DEF Outs
<1>8. Local(w) /\ LocalOut(w)
  BY <1>1, <1>7, CallCopy DEF LocalOut
<1>9. WholeFrame(stack[w][1])'
  <2>1. l \in FileLog
    BY <1>3 DEF Above, FileLog
  <2>2. Whole(Copies(l, cc[l][n]))
    BY <2>1, WholeCopies
  <2> QED
    BY <1>3, <2>2 DEF Called, WholeFrame
<1>10. WholeFrame(stack[w][2])'
  <2>1. /\ stack'[w][2].phase = "write" /\ stack'[w][2].i = i + 1 /\ stack'[w][2].log = l
    BY <1>1, <1>2, <1>3, <1>5 DEF Called
  <2> DEFINE c == IF l = "console" \/ out[l] = "file" THEN d ELSE 0
  <2>2. i <= d <=> i = d
    BY <1>5, SMTT(30)
  <2>3. ~(i + 1 <= d)
    BY <1>5, SMTT(30)
  <2>4. Count(Top(w)) = c
    BY <1>1, <1>2, <1>4, <1>5, <2>2 DEF Count
  <2>5. Count(stack[w][2])' = c
    BY <1>1, <1>4, <2>1, <2>3 DEF Count
  <2>6. PICK e : e = c
    OBVIOUS
  <2> HIDE DEF c
  <2>7. Progress(l, e)
    BY <1>1, <1>2, <1>6, <2>4, <2>6 DEF WholeFrame
  <2>8. Progress(l, e)'
    BY <1>1, <1>7, <2>7, ProgressStays
  <2> QED
    BY <2>1, <2>5, <2>6, <2>8 DEF WholeFrame
<1>11. ASSUME NEW p \in 1..Len(stack'[w])
       PROVE  \/ \E q \in 2..Len(stack[w]) : stack'[w][p] = stack[w][q]
              \/ WholeFrame(stack[w][p])'
  <2>1. CASE p = 1 \/ p = 2
    BY <1>9, <1>10, <2>1
  <2>2. CASE p # 1 /\ p # 2
    <3>1. Len(stack'[w]) = Len(stack[w]) + 1 /\ Len(stack[w]) \in Nat
      BY <1>1, <1>3, TopFacts DEF Called, CallInv
    <3>2. p - 1 \in 2..Len(stack[w]) /\ (p - 1) + 1 = p
      BY <2>2, <3>1, SMTT(30)
    <3>3. stack'[w][(p - 1) + 1] = stack[w][p - 1]
      BY <1>3, <3>2 DEF Called
    <3> QED
      BY <3>2, <3>3
  <2> QED
    BY <2>1, <2>2
<1>12. WholeLog(l)'
  <2>1. lock'[l] # NoWriter
    BY <1>1, <1>6, LoggerAssumption
  <2> QED
    BY <1>1, <1>7, <2>1 DEF WholeInv, WholeLog
<1>13. \A h \in FileLog : \A j \in 0..MaxBackup - 1 : Whole(backup'[h][j])
  BY <1>1 DEF WholeInv
<1> QED
  BY <1>1, <1>2, <1>8, <1>11, <1>12, <1>13, WholeLocal, ZenonT(30) DEF CallInv

\* Each step keeps messages in one piece.
LEMMA WholeStep ==
  ASSUME Picks PROVE CallInv /\ KeyInv /\ WholeInv /\ [Next]_vars => WholeInv'
<1> SUFFICES ASSUME CallInv, KeyInv, WholeInv, [Next]_vars PROVE WholeInv'
  OBVIOUS
<1>1. CallInv'
  BY CallStep
<1>2. ASSUME NEW w \in Writer, FlushStep(w) PROVE WholeInv'
  BY <1>1, <1>2, WholeFlushLock, WholeRotate, WholeWriteLine, WholeCommitCopy, WholeEnd
     DEF FlushStep
<1>3. CASE UNCHANGED vars
  <2>1. UNCHANGED <<file, console, backup, root, stack, lock, out>>
    BY <1>3 DEF vars, memVars, diskVars
  <2>2. \A l \in Log : Outs(l)' = Outs(l) /\ root'[l] = root[l] /\ out'[l] = out[l]
    BY <2>1 DEF Outs
  <2>3. \A l \in Log : Progress(l, 0) => Progress(l, 0)'
    BY <2>2, ProgressStays
  <2>4. \A l \in Log : WholeLog(l)'
    BY <2>1, <2>2, <2>3 DEF WholeInv, WholeLog
  <2>5. ASSUME NEW w \in Writer, NEW p \in 1..Len(stack[w]) PROVE WholeFrame(stack[w][p])'
    <3>1. PICK f \in Frame : f = stack[w][p] /\ f = stack'[w][p]
      BY <2>1, SMTT(30) DEF CallInv, TypeInv
    <3>2. WholeFrame(f) /\ f.log \in Log
      BY <3>1 DEF WholeInv, Frame
    <3>3. WholeFrame(f)'
      BY <2>2, <3>2, WholeFrameStays
    <3> QED
      BY <3>1, <3>3 DEF WholeFrame, Count
  <2> QED
    BY <2>1, <2>4, <2>5 DEF WholeInv
<1> QED
  BY <1>1, <1>2, <1>3, WholeWrite, WholeName, WholeCrash DEF Next

\* There is nothing to begin with.
LEMMA WholeInit == ASSUME Picks, Init PROVE KeyInv /\ WholeInv
<1>1. /\ \A l \in Log : Outs(l) = <<>> /\ root[l] = <<>>
      /\ \A w \in Writer : stack[w] = <<>>
      /\ \A l \in FileLog : \A j \in 0..MaxBackup - 1 : backup[l][j] = <<>>
  BY DEF Init, Outs, Log, FileLog
<1>2. Whole(<<>>) /\ Range(<<>>) = {} /\ <<>> \in Seq(Lines)
  BY SMT DEF Whole, Range
<1>3. \A l \in Log, w \in Writer : WaitingOf(w, l) = {}
  BY <1>1 DEF WaitingOf, InPhase
<1>4. \A l \in Log : Waiting(l) = {} /\ Got(l) = {}
  BY <1>1, <1>2, <1>3 DEF Waiting, Got
<1>5. \A l \in Log : At(l) = {} /\ Pending(l) = {} /\ \A n \in {1, 2} : Uncopied(l, n) = {}
  BY <1>1, <1>2, <1>4 DEF At, Pending, Uncopied
<1>6. KeyInv
  BY <1>3, <1>5 DEF KeyInv, Log
<1>7. \A l \in Log : Output(l) \in Seq(Lines)
  BY <1>1, <1>2, OfLevelsPicks DEF Output
<1>8. \A l \in Log : Progress(l, 0)
  BY <1>1, <1>2, <1>7, GoesOnBegins DEF Progress
<1>9. \A l \in Log : WholeLog(l)
  BY <1>1, <1>2, <1>8 DEF WholeLog
<1>10. \A w \in Writer : \A p \in 1..Len(stack[w]) : FALSE
  BY <1>1, SMTT(30)
<1>11. WholeInv
  BY <1>1, <1>2, <1>9, <1>10 DEF WholeInv
<1> QED
  BY <1>6, <1>11

-----------------------------------------------------------------------------
(* Theorems.                                                               *)

\* A message "will appear in the output log atomically": in the log file, in
\* each backup and on the console its lines are neighbours, in order, for any
\* number of goroutines, copies, rotations and crashes.
THEOREM MessageWholeTheorem == Spec => []MessageWhole
<1>1. Init => KeyInv /\ WholeInv
  BY PicksHolds, WholeInit
<1>2. CallInv /\ WholeInv => MessageWhole
  <2> SUFFICES ASSUME CallInv, WholeInv PROVE MessageWhole
    OBVIOUS
  <2>1. \A l \in Log : Whole(Outs(l))
    BY DEF WholeInv, WholeLog
  <2>2. Whole(console) /\ \A l \in FileLog : Whole(file[l])
    BY <2>1 DEF Outs, Log, FileLog
  <2>3. \A l \in FileLog : DOMAIN backup[l] = 0..MaxBackup - 1
    BY DEF CallInv, TypeInv
  <2> QED
    BY <2>2, <2>3 DEF MessageWhole, WholeInv
<1>3. CallInv /\ KeyInv /\ [Next]_vars => KeyInv'
  BY PicksHolds, KeyStep
<1>4. CallInv /\ KeyInv /\ WholeInv /\ [Next]_vars => WholeInv'
  BY PicksHolds, WholeStep
<1> QED
  BY <1>1, <1>2, <1>3, <1>4, LoggerInvariant, PTL DEF Spec
=============================================================================
