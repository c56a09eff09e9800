------------------------------ MODULE PnPProofs ------------------------------
(***************************************************************************)
(* No Device is opened twice or forgotten, with any number of devices and  *)
(* whatever Diff says.  What PnPStart knows of the devices is right as     *)
(* long as the lists of addresses are sorted, for then Diff is exact; with *)
(* two devices at most they are, with more they may not be.                *)
(***************************************************************************)
EXTENDS PnP, FiniteSetTheorems, TLAPS

\* Leaves that need arithmetic, or sequences, cite SMT.
USE Zenon

\* NewDevice is called for addresses of the last enumeration only, and what
\* the shutdown closes was open.
OpenedInv ==
  /\ devDescs \subseteq UsbAddr
  /\ opened \in [UsbAddr -> {0, 1}]
  /\ \A a \in UsbAddr : opened[a] = 1 => a \in devByAddr
  /\ pc \notin {"close", "PnPTerm"} =>
       \A a \in UsbAddr : a \in devByAddr => opened[a] = 1
  /\ pc = "PnPTerm" => \A a \in UsbAddr : opened[a] = 0

\* NewDevice opens a device that was not open.
LEMMA NewDeviceInv ==
  ASSUME OpenedInv, NEW a, NEW retry, NewDevice(a, retry), UNCHANGED devDescs,
         pc \notin {"close", "PnPTerm"}, pc' = pc
  PROVE  OpenedInv'
<1>1. PICK err \in NewDeviceResult(a) :
        IF err = "ok"
        THEN devByAddr' = devByAddr \cup {a} /\ opened' = [opened EXCEPT ![a] = @ + 1]
        ELSE UNCHANGED <<devByAddr, opened>>
  BY DEF NewDevice
<1>2. CASE err = "ok"
  <2>1. a \in devDescs /\ ~(opened[a] > 0)
    BY <1>1, <1>2 DEF NewDeviceResult
  <2>2. a \in UsbAddr /\ opened[a] = 0
    BY <2>1, SMT DEF OpenedInv
  <2> QED
    BY <1>1, <1>2, <2>2, SMT DEF OpenedInv
<1>3. CASE err # "ok"
  BY <1>1, <1>3, SMT DEF OpenedInv
<1> QED
  BY <1>2, <1>3

\* Events of the bus, of time and of signals change no device.
LEMMA EventInv ==
  ASSUME OpenedInv,
         \/ HotplugCallback \/ Tick \/ Signal
         \/ \E a \in UsbAddr : Plug(a) \/ Unplug(a) \/ Recover(a) \/ RetryExpire(a)
  PROVE  OpenedInv'
BY DEF OpenedInv, HotplugCallback, Tick, Signal, Plug, Unplug, Recover,
       RetryExpire, passVars, tabVars

\* The enumeration returns addresses of the bus, or fails.
LEMMA ScanInv ==
  ASSUME OpenedInv, Scan \/ ScanFails PROVE OpenedInv'
<1>1. CASE Scan
  <2>1. devDescs' \subseteq UsbAddr /\ pc = "scan" /\ pc' = "add"
        /\ UNCHANGED <<opened, devByAddr>>
    BY <1>1 DEF Scan, Present, tabVars
  <2> QED
    BY <2>1 DEF OpenedInv
<1>2. CASE ScanFails
  BY <1>2 DEF ScanFails, OpenedInv, passVars, tabVars
<1> QED
  BY <1>1, <1>2

\* Added devices are opened, and so are those that are retried.
LEMMA HandleAddedInv ==
  ASSUME OpenedInv, HandleAdded PROVE OpenedInv'
<1>1. CASE added = <<>>
  BY <1>1 DEF HandleAdded, OpenedInv, tabVars
<1>2. CASE added # <<>>
  BY <1>2, NewDeviceInv DEF HandleAdded
<1> QED
  BY <1>1, <1>2

\* A retry of PnPStart opens a device only where none is open.
LEMMA HandleRetryInv ==
  ASSUME OpenedInv, HandleRetry PROVE OpenedInv'
<1>1. CASE \E a \in retrying : NewDevice(a, "none") /\ UNCHANGED pc
  BY <1>1, NewDeviceInv DEF HandleRetry
<1>2. CASE UNCHANGED tabVars /\ pc' \in {"retry", "tail"}
  BY <1>2 DEF HandleRetry, OpenedInv, tabVars
<1> QED
  BY <1>1, <1>2 DEF HandleRetry

\* A removed device is closed if it was open.
LEMMA HandleRemovedInv ==
  ASSUME OpenedInv, HandleRemoved PROVE OpenedInv'
<1>1. CASE removed = <<>>
  BY <1>1 DEF HandleRemoved, OpenedInv, tabVars
<1>2. CASE removed # <<>>
  <2> DEFINE a == Head(removed)
  <2>1. /\ opened' = [opened EXCEPT ![a] = IF a \in devByAddr THEN @ - 1 ELSE @]
        /\ devByAddr' = devByAddr \ {a}
        /\ pc = "remove" /\ pc' = "remove" /\ devDescs' = devDescs
    BY <1>2 DEF HandleRemoved
  <2> HIDE DEF a
  <2>2. \A b \in UsbAddr :
          opened'[b] = IF b = a /\ b \in devByAddr THEN 0 ELSE opened[b]
    BY <2>1, SMT DEF OpenedInv
  <2>3. opened' \in [UsbAddr -> {0, 1}]
    <3>1. opened' = [b \in UsbAddr |-> opened'[b]]
      BY <2>1 DEF OpenedInv
    <3>2. \A b \in UsbAddr : opened'[b] \in {0, 1}
      BY <2>2 DEF OpenedInv
    <3> QED
      BY <3>1, <3>2, Zenon
  <2> QED
    BY <2>1, <2>2, <2>3, SMT DEF OpenedInv
<1> QED
  BY <1>1, <1>2

\* The end of a pass, and the shutdown.
LEMMA TailInv ==
  ASSUME OpenedInv,
         UpdateTicker \/ Wait \/ CloseDone \/ \E a \in UsbAddr : CloseDevice(a)
  PROVE  OpenedInv'
<1>1. CASE UpdateTicker
  BY <1>1 DEF UpdateTicker, OpenedInv, passVars, tabVars
<1>2. CASE Wait
  BY <1>2 DEF Wait, OpenedInv, passVars, tabVars
<1>3. CASE CloseDone
  BY <1>3 DEF CloseDone, OpenedInv, passVars, tabVars
<1>4. ASSUME NEW a \in UsbAddr, CloseDevice(a) PROVE OpenedInv'
  BY <1>4, SMT DEF CloseDevice, OpenedInv, passVars
<1> QED
  BY <1>1, <1>2, <1>3, <1>4

\* devByAddr is exactly what is open, until the shutdown closes it.
THEOREM OpenedInvariant == Spec => []OpenedInv
<1>1. Init => OpenedInv
  BY SMT DEF Init, OpenedInv
<1>2. OpenedInv /\ [Next]_vars => OpenedInv'
  <2> SUFFICES ASSUME OpenedInv, [Next]_vars PROVE OpenedInv'
    OBVIOUS
  <2>1. CASE Next
    BY <2>1, EventInv, ScanInv, HandleAddedInv, HandleRemovedInv, HandleRetryInv,
       TailInv DEF Next, PassStep
  <2>2. CASE UNCHANGED vars
    BY <2>2 DEF OpenedInv, vars, passVars, tabVars
  <2> QED
    BY <2>1, <2>2
<1> QED
  BY <1>1, <1>2, PTL DEF Spec

\* At most one Device is open at an address, PnPStart knows of it, and a
\* shutdown closes all.
THEOREM OpenedOnceTheorem == Spec => []OpenedOnce
<1>1. OpenedInv => OpenedOnce
  BY DEF OpenedInv, OpenedOnce
<1> QED
  BY <1>1, OpenedInvariant, PTL

-----------------------------------------------------------------------------
(* Induction.                                                              *)

\* A set of natural numbers has a least element.
LEMMA LeastNat ==
  ASSUME NEW T, T \subseteq Nat, T # {}
  PROVE  \E x \in T : \A y \in T : x <= y
<1> DEFINE R == {ss \in Nat \X Nat : ss[1] < ss[2]}
<1>1. IsWellFoundedOn(R, Nat)
  <2>1. OpToRel(<, Nat) = R
    BY Zenon DEF OpToRel
  <2> QED
    BY <2>1, NatLessThanWellFounded, Zenon
<1>2. PICK x \in T : \A y \in T : ~(<<y, x>> \in R)
  <2> HIDE DEF R
  <2> QED
    BY <1>1, WFMin
<1>3. ASSUME NEW y \in T PROVE x <= y
  <2>1. <<y, x>> \in Nat \X Nat
    OBVIOUS
  <2>2. ~(y < x)
    BY <2>1, <1>2
  <2> QED
    BY <2>2, SMTT(30)
<1> QED
  BY <1>3

\* Induction up to N, for a property that is given as a set.
LEMMA InductionTo ==
  ASSUME NEW N \in Nat, NEW S, 0 \in S,
         \A n \in 0..N - 1 : n \in S => n + 1 \in S
  PROVE  \A n \in 0..N : n \in S
<1> DEFINE T == {n \in 0..N : n \notin S}
<1> SUFFICES ASSUME T # {} PROVE FALSE
  OBVIOUS
<1>1. PICK x \in T : \A y \in T : x <= y
  <2>1. T \subseteq Nat
    BY SMTT(30)
  <2> HIDE DEF T
  <2> QED
    BY <2>1, LeastNat
<1>2. x # 0 /\ x - 1 \in 0..N - 1
  BY SMTT(30)
<1>3. x - 1 \in S
  BY <1>1, <1>2, SMTT(30)
<1>4. (x - 1) + 1 \in S
  BY <1>2, <1>3
<1> QED
  BY <1>2, <1>4, SMTT(30)

-----------------------------------------------------------------------------
(* The binary search.                                                      *)

\* A USB address: a bus, and an address on the bus.
Pair == Int \X Int

\* Less is a strict total order.
LEMMA LessOrder ==
  /\ \A a, b \in Pair : Less(a, b) => ~Less(b, a)
  /\ \A a, b \in Pair : Less(a, b) \/ Less(b, a) \/ a = b
  /\ \A a, b, c \in Pair : Less(a, b) /\ Less(b, c) => Less(a, c)
<1>1. \A a, b \in Pair : Less(a, b) => ~Less(b, a)
  BY SMT DEF Less, Pair
<1>2. \A a, b \in Pair : Less(a, b) \/ Less(b, a) \/ a = b
  BY SMT DEF Less, Pair
<1>3. \A a, b, c \in Pair : Less(a, b) /\ Less(b, c) => Less(a, c)
  BY SMT DEF Less, Pair
<1> QED
  BY <1>1, <1>2, <1>3

\* The middle of an interval is in it.
LEMMA Middle ==
  ASSUME NEW i \in Nat, NEW j \in Nat, i < j
  PROVE  /\ (i + j) \div 2 \in Nat
         /\ i <= (i + j) \div 2
         /\ (i + j) \div 2 < j
BY SMT

\* The function that Search defines.
SearchStep(f, list, addr, r) ==
  LET i == r[1]
      j == r[2]
      h == (i + j) \div 2
  IN  IF i >= j THEN i
      ELSE IF Less(list[h + 1], addr) THEN f[<<h + 1, j>>]
      ELSE f[<<i, h>>]

\* The intervals of indices that the search may come to.
Ranges(list) == (0..Len(list)) \X (0..Len(list))

IsSearch(f, list, addr) ==
  f = [r \in Ranges(list) |-> SearchStep(f, list, addr, r)]

\* There is such a function: the length of the interval decreases.
LEMMA SearchExists ==
  ASSUME NEW list \in Seq(Pair), NEW addr \in Pair
  PROVE  \E f : IsSearch(f, list, addr)
<1> DEFINE L == Len(list)
           R == Ranges(list)
           Short(r, d) == r[2] - r[1] <= d
           Good(f, d) ==
             /\ f = [r \in R |-> f[r]]
             /\ \A r \in R : Short(r, d) => f[r] = SearchStep(f, list, addr, r)
           S == {d \in Nat : \E f : Good(f, d)}
<1>0. L \in Nat
  BY SMT
<1>r. \A r \in R : r[1] \in 0..L /\ r[2] \in 0..L /\ r[1] \in Nat /\ r[2] \in Nat
  BY SMT DEF Ranges
<1>t. \A i, j \in 0..L : <<i, j>> \in R /\ <<i, j>>[1] = i /\ <<i, j>>[2] = j
  BY SMT DEF Ranges
<1> HIDE DEF R
<1>1. 0 \in S
  <2> DEFINE f == [r \in R |-> r[1]]
  <2>1. \A r \in R : Short(r, 0) => f[r] = SearchStep(f, list, addr, r)
    BY <1>r, SMT DEF SearchStep
  <2>2. Good(f, 0)
    BY <2>1
  <2> HIDE DEF f, Good
  <2> QED
    BY <2>2, SMT
<1>2. ASSUME NEW d \in 0..L - 1, d \in S PROVE d + 1 \in S
  <2>1. PICK f : Good(f, d)
    BY <1>2
  <2> DEFINE g == [r \in R |-> IF Short(r, d) THEN f[r] ELSE SearchStep(f, list, addr, r)]
  <2>2. \A r \in R :
          g[r] = IF Short(r, d) THEN f[r] ELSE SearchStep(f, list, addr, r)
    OBVIOUS
  <2>3. g = [r \in R |-> g[r]]
    OBVIOUS
  <2> HIDE DEF g
  <2>4. ASSUME NEW r \in R, Short(r, d + 1)
        PROVE  SearchStep(g, list, addr, r) = SearchStep(f, list, addr, r)
    <3> DEFINE i == r[1]
               j == r[2]
               h == (i + j) \div 2
    <3>1. CASE i >= j
      BY <3>1 DEF SearchStep
    <3>2. CASE ~(i >= j)
      <4>0. i \in Nat /\ j \in Nat /\ i < j
        BY <1>r, <3>2, SMT
      <4>1. h \in Nat /\ i <= h /\ h < j
        BY <4>0, Middle
      <4>2. /\ h \in 0..L /\ h + 1 \in 0..L
            /\ j - (h + 1) <= d /\ h - i <= d
        <5> HIDE DEF h
        <5> QED
          BY <1>0, <1>r, <2>4, <4>0, <4>1, SMT
      <4>3. g[<<h + 1, j>>] = f[<<h + 1, j>>] /\ g[<<i, h>>] = f[<<i, h>>]
        <5>1. /\ <<h + 1, j>> \in R /\ Short(<<h + 1, j>>, d)
              /\ <<i, h>> \in R /\ Short(<<i, h>>, d)
          <6> HIDE DEF h
          <6> QED
            BY <1>t, <1>r, <4>2
        <5> HIDE DEF Short, h, i, j
        <5> QED
          BY <2>2, <5>1
      <4> QED
        BY <4>3 DEF SearchStep
    <3> QED
      BY <3>1, <3>2
  <2>5. ASSUME NEW r \in R, Short(r, d + 1)
        PROVE  g[r] = SearchStep(g, list, addr, r)
    BY <2>1, <2>2, <2>4, <2>5
  <2>6. Good(g, d + 1)
    BY <2>3, <2>5
  <2>7. d + 1 \in Nat
    BY SMT
  <2> HIDE DEF Good
  <2> QED
    BY <2>6, <2>7
<1>3. L \in S
  <2> HIDE DEF S
  <2>1. \A n \in 0..L : n \in S
    BY <1>0, <1>1, <1>2, InductionTo
  <2>2. L \in 0..L
    BY <1>0, SMT
  <2> QED
    BY <2>1, <2>2
<1>4. PICK f : Good(f, L)
  BY <1>3
<1>5. \A r \in R : Short(r, L)
  BY <1>0, <1>r, SMT
<1>6. \A r \in R : f[r] = SearchStep(f, list, addr, r)
  BY <1>4, <1>5
<1>7. f = [r \in R |-> SearchStep(f, list, addr, r)]
  BY <1>4, <1>6
<1> QED
  BY <1>7 DEF IsSearch, R

\* The order that Search, and with it Find and Diff, suppose.
Sorted(list) == \A i, j \in 1..Len(list) : i < j => Less(list[i], list[j])

\* r splits the list: what is before it is less than addr, the rest is not.
Splits(list, addr, r) ==
  \A k \in 1..Len(list) : Less(list[k], addr) <=> k <= r

\* What Search computes: an index of the list or its length and, if the list is
\* sorted, the one that the contract of sort.Search promises.
THEOREM SearchSplits ==
  ASSUME NEW list \in Seq(Pair), NEW addr \in Pair
  PROVE  /\ Search(list, addr) \in 0..Len(list)
         /\ Sorted(list) => Splits(list, addr, Search(list, addr))
<1> DEFINE L == Len(list)
           R == Ranges(list)
           Short(r, d) == r[1] <= r[2] /\ r[2] - r[1] <= d
           Below(i) == \A k \in 1..i : Less(list[k], addr)
           Above(j) == \A k \in j + 1..L : ~Less(list[k], addr)
           F == CHOOSE f : IsSearch(f, list, addr)
<1>0. L \in Nat /\ \A k \in 1..L : list[k] \in Pair
  BY SMT
<1>r. \A r \in R : r[1] \in 0..L /\ r[2] \in 0..L /\ r[1] \in Nat /\ r[2] \in Nat
  BY SMT DEF Ranges
<1>t. \A i, j \in 0..L : <<i, j>> \in R /\ <<i, j>>[1] = i /\ <<i, j>>[2] = j
  BY SMT DEF Ranges
<1>1. Search(list, addr) = F[<<0, L>>]
  BY DEF Search, IsSearch, SearchStep, Ranges
<1>2. \A r \in R : F[r] = SearchStep(F, list, addr, r)
  <2>1. IsSearch(F, list, addr)
    BY SearchExists
  <2> HIDE DEF F
  <2> QED
    BY <2>1 DEF IsSearch
<1> HIDE DEF F, R
<1> DEFINE Right(r) ==
             /\ F[r] \in 0..L
             /\ Sorted(list) /\ Below(r[1]) /\ Above(r[2]) => Below(F[r]) /\ Above(F[r])
           S == {d \in Nat : \A r \in R : Short(r, d) => Right(r)}
<1>3. 0 \in S
  <2> SUFFICES ASSUME NEW r \in R, Short(r, 0) PROVE Right(r)
    BY SMT
  <2>1. r[1] = r[2] /\ r[1] >= r[2]
    BY <1>r, SMT
  <2>2. F[r] = r[1]
    BY <1>2, <2>1 DEF SearchStep
  <2> QED
    BY <1>r, <2>1, <2>2
<1>4. ASSUME NEW d \in 0..L - 1, d \in S PROVE d + 1 \in S
  <2> SUFFICES ASSUME NEW r \in R, Short(r, d + 1) PROVE Right(r)
    BY SMT
  <2> DEFINE i == r[1]
             j == r[2]
             h == (i + j) \div 2
  <2>1. CASE i >= j
    <3>1. r[1] = r[2]
      BY <1>r, <2>1, SMT
    <3>2. F[r] = r[1]
      BY <1>2, <2>1 DEF SearchStep
    <3> QED
      BY <1>r, <3>1, <3>2
  <2>2. CASE ~(i >= j)
    <3>0. i \in Nat /\ j \in Nat /\ i < j /\ j <= L
      BY <1>r, <2>2, SMT
    <3>1. h \in Nat /\ i <= h /\ h < j
      BY <3>0, Middle
    <3>2. F[r] = IF Less(list[h + 1], addr) THEN F[<<h + 1, j>>] ELSE F[<<i, h>>]
      BY <1>2, <2>2 DEF SearchStep
    <3> HIDE DEF h, i, j
    <3>3. /\ h \in 0..L /\ h + 1 \in 0..L /\ h + 1 \in 1..L /\ i \in 0..L /\ j \in 0..L
          /\ j - (h + 1) <= d /\ h - i <= d /\ h + 1 <= j
      BY <1>0, <3>0, <3>1, SMTT(30) DEF i, j
    <3>4. Short(<<h + 1, j>>, d) /\ Short(<<i, h>>, d)
      BY <1>t, <3>1, <3>3
    <3>5. Right(<<h + 1, j>>) /\ Right(<<i, h>>)
      <4> HIDE DEF Short, Right
      <4> QED
        BY <1>4, <1>t, <3>3, <3>4
    <3>6. CASE Less(list[h + 1], addr)
      <4>1. F[r] = F[<<h + 1, j>>]
        BY <3>2, <3>6
      <4>2. Sorted(list) => Below(h + 1)
        <5> SUFFICES ASSUME Sorted(list), NEW k \in 1..h + 1 PROVE Less(list[k], addr)
          OBVIOUS
        <5>1. k = h + 1 \/ (k < h + 1 /\ k \in 1..L)
          BY <1>0, <3>3, SMT
        <5>2. ASSUME k < h + 1, k \in 1..L PROVE Less(list[k], addr)
          BY <1>0, <3>3, <3>6, <5>2, LessOrder DEF Sorted
        <5> QED
          BY <3>6, <5>1, <5>2
      <4> QED
        BY <1>t, <3>3, <3>5, <4>1, <4>2 DEF i, j
    <3>7. CASE ~Less(list[h + 1], addr)
      <4>1. F[r] = F[<<i, h>>]
        BY <3>2, <3>7
      <4>2. Sorted(list) => Above(h)
        <5> SUFFICES ASSUME Sorted(list), NEW k \in h + 1..L PROVE ~Less(list[k], addr)
          OBVIOUS
        <5>1. k = h + 1 \/ (h + 1 < k /\ k \in 1..L)
          BY <1>0, <3>1, SMT
        <5>2. ASSUME h + 1 < k, k \in 1..L PROVE ~Less(list[k], addr)
          BY <1>0, <3>3, <3>7, <5>2, LessOrder, ZenonT(30) DEF Sorted
        <5> QED
          BY <3>7, <5>1, <5>2
      <4> QED
        BY <1>t, <3>3, <3>5, <4>1, <4>2 DEF i, j
    <3> QED
      BY <3>6, <3>7
  <2> QED
    BY <2>1, <2>2
<1>5. L \in S
  <2> HIDE DEF S
  <2>1. \A n \in 0..L : n \in S
    BY <1>0, <1>3, <1>4, InductionTo
  <2>2. L \in 0..L
    BY <1>0, SMT
  <2> QED
    BY <2>1, <2>2
<1>6. Right(<<0, L>>)
  <2>1. <<0, L>> \in R /\ Short(<<0, L>>, L)
    BY <1>0, SMT DEF R, Ranges
  <2> HIDE DEF Short, Right
  <2> QED
    BY <1>5, <2>1
<1>7. Below(0) /\ Above(L) /\ <<0, L>>[1] = 0 /\ <<0, L>>[2] = L
  BY <1>0, SMT
<1>8. Sorted(list) => Below(F[<<0, L>>]) /\ Above(F[<<0, L>>])
  BY <1>6, <1>7
<1>9. \A r \in 0..L : Below(r) /\ Above(r) => Splits(list, addr, r)
  BY <1>0, SMT DEF Splits
<1> QED
  BY <1>1, <1>6, <1>8, <1>9

-----------------------------------------------------------------------------
(* Find, Add and Diff.                                                     *)

\* No item is in the list twice.
Distinct(list) == \A i, j \in 1..Len(list) : list[i] = list[j] => i = j

\* The items of a list.
LEMMA Items ==
  ASSUME NEW T, NEW list \in Seq(T)
  PROVE  /\ Len(list) \in Nat
         /\ DOMAIN list = 1..Len(list)
         /\ \A k \in 1..Len(list) : list[k] \in T
         /\ \A a : a \in ToSet(list) <=> \E k \in 1..Len(list) : list[k] = a
         /\ ToSet(list) \subseteq T
<1>1. Len(list) \in Nat /\ DOMAIN list = 1..Len(list)
  BY SMT
<1>2. \A k \in 1..Len(list) : list[k] \in T
  BY SMT
<1> QED
  BY <1>1, <1>2 DEF ToSet

\* Find finds what is in a sorted list, and nothing else in any list.
LEMMA FindExact ==
  ASSUME NEW list \in Seq(Pair), NEW addr \in Pair
  PROVE  /\ addr \notin ToSet(list) => Find(list, addr) < 0
         /\ Sorted(list) /\ addr \in ToSet(list) => ~(Find(list, addr) < 0)
<1> DEFINE i == Search(list, addr)
           L == Len(list)
<1>1. i \in 0..L /\ L \in Nat
  BY SearchSplits, Items
<1>2. Find(list, addr) = IF i < L /\ list[i + 1] = addr THEN i ELSE -1
  BY DEF Find
<1>3. ASSUME addr \notin ToSet(list) PROVE Find(list, addr) < 0
  <2>1. i < L => i + 1 \in 1..L
    BY <1>1, SMT
  <2>2. ~(i < L /\ list[i + 1] = addr)
    BY <1>3, <2>1, Items
  <2>3. Find(list, addr) = -1
    BY <1>2, <2>2
  <2> QED
    BY <2>3, SMT
<1>4. ASSUME Sorted(list), addr \in ToSet(list) PROVE ~(Find(list, addr) < 0)
  <2>1. PICK k \in 1..L : list[k] = addr
    BY <1>4, Items
  <2>2. \A m \in 1..L : Less(list[m], addr) <=> m <= i
    BY <1>4, SearchSplits DEF Splits
  <2>3. ~(k <= i)
    BY <2>1, <2>2, LessOrder
  <2> HIDE DEF i, L
  <2>4. i < L /\ i + 1 \in 1..L /\ ~(i + 1 <= i) /\ (i + 1 < k \/ i + 1 = k)
    BY <1>1, <2>1, <2>3, SMT
  <2>5. i + 1 = k
    <3>1. ASSUME i + 1 < k PROVE FALSE
      BY <1>4, <2>1, <2>2, <2>4, <3>1 DEF Sorted, L
    <3> QED
      BY <2>4, <3>1
  <2>6. Find(list, addr) = i
    BY <1>2, <2>1, <2>4, <2>5
  <2> QED
    BY <1>1, <2>6, SMT
<1> QED
  BY <1>3, <1>4

\* res is list with addr in the place of item i + 1, and that item at the end.
Moved(res, list, addr, i) ==
  /\ res \in Seq(Pair) /\ Len(res) = Len(list) + 1
  /\ res[i + 1] = addr
  /\ res[Len(list) + 1] = list[i + 1]
  /\ \A k \in 1..Len(list) : k # i + 1 => res[k] = list[k]

\* An insertion that is not at the end moves the item that was there to the end.
LEMMA AddMoves ==
  ASSUME NEW list \in Seq(Pair), NEW addr \in Pair, NEW i, i = Search(list, addr),
         i # Len(list), list[i + 1] # addr
  PROVE  Moved(Add(list, addr), list, addr, i)
<1> DEFINE L == Len(list)
           res == Add(list, addr)
           app == Append(list, list[i + 1])
<1>1. i \in 0..L /\ L \in Nat
  BY SearchSplits, Items
<1>2. res = [app EXCEPT ![i + 1] = addr]
  BY DEF Add
<1>3. i + 1 \in 1..L /\ i + 1 # L + 1
  BY <1>1, SMT
<1>4. list[i + 1] \in Pair
  BY <1>3, Items
<1>5. /\ app \in Seq(Pair) /\ Len(app) = L + 1
      /\ \A k \in 1..L : app[k] = list[k]
      /\ app[L + 1] = list[i + 1]
  BY <1>4, SMT
<1> HIDE DEF app, res
<1>6. 1..L + 1 = 1..L \cup {L + 1} /\ L + 1 \notin 1..L
  BY <1>1, SMT
<1>7. i + 1 \in 1..L + 1 /\ L + 1 \in 1..L + 1
  BY <1>3, <1>6
<1>8. res \in Seq(Pair) /\ Len(res) = L + 1
  BY <1>2, <1>5, <1>7, SMT
<1>9. /\ res[i + 1] = addr
      /\ \A k \in 1..L + 1 : k # i + 1 => res[k] = app[k]
  BY <1>2, <1>5, <1>7, SMTT(30)
<1>10. \A k \in 1..L : k # i + 1 => res[k] = list[k]
  BY <1>5, <1>6, <1>9
<1>11. res[L + 1] = list[i + 1]
  BY <1>3, <1>5, <1>7, <1>9
<1> QED
  BY <1>8, <1>9, <1>10, <1>11 DEF res, Moved

\* Add adds its address, and only that, to any list.  A sorted list that has
\* one item at most stays sorted.
LEMMA AddExact ==
  ASSUME NEW list \in Seq(Pair), NEW addr \in Pair
  PROVE  /\ Add(list, addr) \in Seq(Pair)
         /\ ToSet(Add(list, addr)) = ToSet(list) \cup {addr}
         /\ Len(Add(list, addr)) <= Len(list) + 1
         /\ Distinct(list) /\ addr \notin ToSet(list) => Distinct(Add(list, addr))
         /\ Sorted(list) /\ Len(list) <= 1 => Sorted(Add(list, addr))
<1> DEFINE i == Search(list, addr)
           L == Len(list)
           res == Add(list, addr)
<1>1. i \in 0..L /\ L \in Nat
  BY SearchSplits, Items
<1>2. res = IF i = L THEN Append(list, addr)
            ELSE IF list[i + 1] = addr THEN list
            ELSE [Append(list, list[i + 1]) EXCEPT ![i + 1] = addr]
  BY DEF Add
<1>3. Sorted(list) => \A k \in 1..L : Less(list[k], addr) <=> k <= i
  BY SearchSplits DEF Splits
<1>4. \A k \in 1..L : list[k] \in Pair
  BY Items
<1>5. \A a : a \in ToSet(list) <=> \E k \in 1..L : list[k] = a
  BY Items
<1> HIDE DEF i, res
<1>6. CASE i = L
  <2>1. res = Append(list, addr)
    BY <1>2, <1>6
  <2>2. /\ res \in Seq(Pair) /\ Len(res) = L + 1
        /\ \A k \in 1..L : res[k] = list[k]
        /\ res[L + 1] = addr
    BY <2>1, SMT
  <2>3. 1..L + 1 = 1..L \cup {L + 1} /\ L + 1 \notin 1..L
    BY <1>1, SMT
  <2>4. ToSet(res) = ToSet(list) \cup {addr}
    <3>1. \A a : a \in ToSet(res) <=> \E k \in 1..L + 1 : res[k] = a
      BY <2>2, Items, ZenonT(30)
    <3>2. \A a : a \in ToSet(res) => a \in ToSet(list) \/ a = addr
      BY <1>5, <2>2, <2>3, <3>1
    <3>3. ToSet(list) \subseteq ToSet(res)
      BY <1>5, <2>2, <2>3, <3>1
    <3>4. addr \in ToSet(res)
      BY <2>2, <2>3, <3>1
    <3> QED
      BY <3>2, <3>3, <3>4
  <2>5. Distinct(list) /\ addr \notin ToSet(list) => Distinct(res)
    <3> SUFFICES ASSUME Distinct(list), addr \notin ToSet(list),
                        NEW k \in 1..L + 1, NEW m \in 1..L + 1, res[k] = res[m]
                 PROVE  k = m
      BY <2>2 DEF Distinct
    <3>1. \A n \in 1..L : res[n] # addr
      BY <1>5, <2>2
    <3>2. CASE k \in 1..L /\ m \in 1..L
      BY <2>2, <3>2 DEF Distinct
    <3>3. CASE k = L + 1 \/ m = L + 1
      BY <2>2, <2>3, <3>1, <3>3
    <3> QED
      BY <2>3, <3>2, <3>3
  <2>6. Sorted(list) => Sorted(res)
    <3> SUFFICES ASSUME Sorted(list), NEW k \in 1..L + 1, NEW m \in 1..L + 1, k < m
                 PROVE  Less(res[k], res[m])
      BY <2>2 DEF Sorted
    <3>1. k \in 1..L /\ k <= i /\ (m = L + 1 \/ m \in 1..L)
      BY <1>1, <1>6, SMT
    <3> QED
      BY <1>3, <2>2, <3>1 DEF Sorted
  <2>7. Len(res) <= L + 1
    BY <1>1, <2>2, SMT
  <2> QED
    BY <2>2, <2>4, <2>5, <2>6, <2>7, ZenonT(30) DEF res
<1>7. CASE i # L /\ list[i + 1] = addr
  <2>1. res = list /\ i + 1 \in 1..L
    BY <1>1, <1>2, <1>7, SMT
  <2>2. addr \in ToSet(list)
    BY <1>5, <1>7, <2>1
  <2>3. Len(res) <= L + 1
    BY <1>1, <2>1, SMT
  <2>4. ToSet(res) = ToSet(list) \cup {addr}
    BY <2>1, <2>2
  <2> QED
    BY <2>1, <2>2, <2>3, <2>4, ZenonT(30) DEF res
<1>8. CASE i # L /\ list[i + 1] # addr
  <2>1. i + 1 \in 1..L /\ i + 1 # L + 1
    BY <1>1, <1>8, SMT
  <2>2. 1..L + 1 = 1..L \cup {L + 1} /\ L + 1 \notin 1..L
    BY <1>1, SMT
  <2>3. i + 1 \in 1..L + 1 /\ L + 1 \in 1..L + 1
    BY <2>1, <2>2
  <2>4. i = Search(list, addr)
    BY DEF i
  <2>5. Moved(res, list, addr, i)
    BY <1>8, <2>4, AddMoves DEF res
  <2>6. res \in Seq(Pair) /\ Len(res) = L + 1
    BY <2>5 DEF Moved
  <2>7. res[i + 1] = addr
    BY <2>5 DEF Moved
  <2>8. /\ \A k \in 1..L : k # i + 1 => res[k] = list[k]
        /\ res[L + 1] = list[i + 1]
    BY <2>5 DEF Moved
  <2>9. ToSet(res) = ToSet(list) \cup {addr}
    <3>1. \A a : a \in ToSet(res) <=> \E k \in 1..L + 1 : res[k] = a
      BY <2>6, Items
    <3>2. ASSUME NEW a \in ToSet(res) PROVE a \in ToSet(list) \cup {addr}
      BY <1>5, <2>1, <2>2, <2>7, <2>8, <3>1, ZenonT(30)
    <3>3. ASSUME NEW a \in ToSet(list) PROVE a \in ToSet(res)
      <4>1. PICK k \in 1..L : list[k] = a
        BY <1>5
      <4>2. k \in 1..L + 1
        BY <2>2
      <4> QED
        BY <2>3, <2>8, <3>1, <4>1, <4>2
    <3>4. addr \in ToSet(res)
      BY <2>3, <2>7, <3>1
    <3> QED
      BY <3>2, <3>3, <3>4
  <2>10. Distinct(list) /\ addr \notin ToSet(list) => Distinct(res)
    <3> SUFFICES ASSUME Distinct(list), addr \notin ToSet(list),
                        NEW k \in 1..L + 1, NEW m \in 1..L + 1, res[k] = res[m]
                 PROVE  k = m
      BY <2>6 DEF Distinct
    <3> DEFINE from(n) == IF n = L + 1 THEN i + 1 ELSE n
    <3>1. \A n \in 1..L + 1 : n # i + 1 => from(n) \in 1..L /\ res[n] = list[from(n)]
      BY <2>1, <2>2, <2>8
    <3>2. \A n \in 1..L + 1 : n # i + 1 => res[n] # addr
      BY <1>5, <3>1
    <3>3. CASE k = i + 1 \/ m = i + 1
      BY <2>7, <3>2, <3>3
    <3>4. CASE k # i + 1 /\ m # i + 1
      <4>1. from(k) = from(m)
        BY <3>1, <3>4 DEF Distinct
      <4>2. CASE k = L + 1 /\ m # L + 1
        BY <3>4, <4>1, <4>2
      <4>3. CASE k # L + 1 /\ m = L + 1
        BY <3>4, <4>1, <4>3
      <4>4. CASE k # L + 1 /\ m # L + 1
        BY <4>1, <4>4
      <4> QED
        BY <4>2, <4>3, <4>4
    <3> QED
      BY <3>3, <3>4
  <2>11. Sorted(list) /\ L <= 1 => Sorted(res)
    <3> SUFFICES ASSUME Sorted(list), L <= 1 PROVE Sorted(res)
      OBVIOUS
    <3>1. L = 1 /\ i = 0
      <4> HIDE DEF L
      <4> QED
        BY <1>1, <2>1, SMT
    <3>2. 1 \in 1..L
      BY <3>1, SMT
    <3>3. i + 1 = 1 /\ L + 1 = 2 /\ ~(1 <= i)
      BY <3>1, SMT
    <3>4. ~Less(list[1], addr) /\ list[1] \in Pair /\ list[1] # addr
      BY <1>3, <1>4, <1>8, <3>2, <3>3, ZenonT(30)
    <3>5. Less(res[1], res[2])
      BY <2>7, <2>8, <3>3, <3>4, LessOrder, ZenonT(30)
    <3>6. \A k, m \in 1..2 : k < m => k = 1 /\ m = 2
      BY SMT
    <3> QED
      BY <2>6, <3>3, <3>5, <3>6 DEF Sorted
  <2>12. Len(res) <= L + 1
    BY <1>1, <2>6, SMT
  <2> QED
    BY <2>6, <2>9, <2>10, <2>11, <2>12 DEF res
<1> QED
  BY <1>6, <1>7, <1>8

\* Exactly when Add keeps a sorted list sorted: the address is there already, or
\* no item but the last is greater.
THEOREM AddSorted ==
  ASSUME NEW list \in Seq(Pair), NEW addr \in Pair, Sorted(list)
  PROVE  Sorted(Add(list, addr)) <=>
           \/ addr \in ToSet(list)
           \/ \A k \in 1..Len(list) - 1 : Less(list[k], addr)
<1> DEFINE i == Search(list, addr)
           L == Len(list)
           res == Add(list, addr)
<1>1. i \in 0..L /\ L \in Nat
  BY SearchSplits, Items
<1>2. \A k \in 1..L : Less(list[k], addr) <=> k <= i
  BY SearchSplits DEF Splits
<1>3. \A k \in 1..L : list[k] \in Pair
  BY Items
<1>4. \A a : a \in ToSet(list) <=> \E k \in 1..L : list[k] = a
  BY Items
<1>5. res = IF i = L THEN Append(list, addr)
            ELSE IF list[i + 1] = addr THEN list
            ELSE [Append(list, list[i + 1]) EXCEPT ![i + 1] = addr]
  BY DEF Add
<1> HIDE DEF i, res
<1>6. CASE i = L
  <2>1. /\ Len(res) = L + 1 /\ res[L + 1] = addr
        /\ \A k \in 1..L : res[k] = list[k]
    <3>1. res = Append(list, addr)
      BY <1>5, <1>6
    <3> QED
      BY <3>1, SMT
  <2>2. \A k \in 1..L : Less(list[k], addr)
    BY <1>1, <1>2, <1>6, SMT
  <2>3. Sorted(res)
    <3> SUFFICES ASSUME NEW k \in 1..L + 1, NEW m \in 1..L + 1, k < m
                 PROVE  Less(res[k], res[m])
      BY <2>1 DEF Sorted
    <3>1. k \in 1..L /\ (m = L + 1 \/ m \in 1..L)
      BY <1>1, SMT
    <3> QED
      BY <2>1, <2>2, <3>1 DEF Sorted
  <2>4. \A k \in 1..L - 1 : k \in 1..L
    BY <1>1, SMT
  <2> QED
    BY <2>2, <2>3, <2>4 DEF res
<1>7. CASE i # L /\ list[i + 1] = addr
  <2>1. i + 1 \in 1..L
    BY <1>1, <1>7, SMT
  <2>2. addr \in ToSet(list) /\ res = list
    BY <1>4, <1>5, <1>7, <2>1
  <2> QED
    BY <2>2 DEF res
<1>8. CASE i # L /\ list[i + 1] # addr
  <2>1. i + 1 \in 1..L /\ L \in 1..L /\ ~(i + 1 <= i) /\ L + 1 \in 1..L + 1 /\ L \in 1..L + 1
    BY <1>1, <1>8, SMT
  <2>2. /\ Len(res) = L + 1
        /\ res[i + 1] = addr
        /\ res[L + 1] = list[i + 1]
        /\ \A k \in 1..L : k # i + 1 => res[k] = list[k]
    <3>1. i = Search(list, addr)
      BY DEF i
    <3>2. Moved(res, list, addr, i)
      BY <1>8, <3>1, AddMoves DEF res
    <3> QED
      BY <3>2 DEF Moved
  <2>3. ~Less(list[i + 1], addr) /\ Less(addr, list[i + 1])
    BY <1>2, <1>3, <1>8, <2>1, LessOrder
  <2>4. addr \notin ToSet(list)
    <3> SUFFICES ASSUME NEW k \in 1..L, list[k] = addr PROVE FALSE
      BY <1>4
    <3>1. ~(k <= i) /\ k # i + 1
      BY <1>2, <1>3, <1>8, LessOrder
    <3>2. i + 1 < k
      BY <1>1, <3>1, SMT
    <3> QED
      BY <2>1, <2>3, <3>2 DEF Sorted
  <2>5. CASE i + 1 = L
    <3>1. \A k \in 1..L - 1 : k \in 1..L /\ k <= i
      BY <1>1, <2>5, SMT
    <3>2. \A k \in 1..L - 1 : Less(list[k], addr)
      BY <1>2, <3>1
    <3>3. Sorted(res)
      <4> SUFFICES ASSUME NEW k \in 1..L + 1, NEW m \in 1..L + 1, k < m
                   PROVE  Less(res[k], res[m])
        BY <2>2 DEF Sorted
      <4>1. CASE m \in 1..L - 1
        <5>1. k \in 1..L /\ m \in 1..L /\ k # i + 1 /\ m # i + 1
          BY <1>1, <2>5, <4>1, SMT
        <5> QED
          BY <2>2, <5>1 DEF Sorted
      <4>2. CASE m = L
        <5>1. k \in 1..L - 1 /\ k \in 1..L /\ k # i + 1
          BY <1>1, <2>5, <4>2, SMT
        <5> QED
          BY <2>2, <2>5, <3>2, <4>2, <5>1
      <4>3. CASE m = L + 1 /\ k = L
        BY <2>2, <2>3, <2>5, <4>3
      <4>4. CASE m = L + 1 /\ k # L
        <5>1. k \in 1..L /\ k # i + 1 /\ k < i + 1
          BY <1>1, <2>5, <4>4, SMT
        <5> QED
          BY <2>1, <2>2, <4>4, <5>1 DEF Sorted
      <4>5. m \in 1..L - 1 \/ m = L \/ m = L + 1
        BY <1>1, SMT
      <4> QED
        BY <4>1, <4>2, <4>3, <4>4, <4>5
    <3> QED
      BY <3>2, <3>3 DEF res
  <2>6. CASE i + 1 # L
    <3>1. i + 1 \in 1..L - 1 /\ i + 1 < L /\ L < L + 1
      BY <1>1, <2>1, <2>6, SMT
    <3>2. Less(list[i + 1], list[L])
      BY <2>1, <3>1 DEF Sorted
    <3>3. ~Less(res[L], res[L + 1])
      BY <1>3, <2>1, <2>2, <2>6, <3>2, LessOrder
    <3>4. ~Sorted(res)
      BY <2>1, <2>2, <3>1, <3>3 DEF Sorted
    <3> QED
      BY <2>3, <2>4, <3>1, <3>4 DEF res
  <2> QED
    BY <2>5, <2>6
<1> QED
  BY <1>6, <1>7, <1>8

\* A step of Missing, and the function that its fold defines.
MissingStep(list, res, a) == IF Find(list, a) < 0 THEN Add(res, a) ELSE res

FoldStep(f, list, seq, s) ==
  IF s = {} THEN <<>> ELSE MissingStep(list, f[s \ {Max(s)}], seq[Max(s)])

IsFold(f, list, seq, S) == f = [s \in SUBSET S |-> FoldStep(f, list, seq, s)]

\* The greatest of a set of numbers.
LEMMA MaxTop ==
  ASSUME NEW n \in Nat, NEW s \in SUBSET (1..n + 1), n + 1 \in s
  PROVE  Max(s) = n + 1
<1>1. \A y \in s : n + 1 >= y
  BY SMT
<1>2. \A x \in s : (\A y \in s : x >= y) => x = n + 1
  BY SMT
<1>3. Max(s) \in s /\ \A y \in s : Max(s) >= y
  BY <1>1 DEF Max
<1> QED
  BY <1>2, <1>3

\* It is one of the set.
LEMMA MaxIn ==
  ASSUME NEW n \in Nat, NEW s \in SUBSET (1..n), s # {}
  PROVE  Max(s) \in 1..n
<1> DEFINE T == {k \in Nat : \A y \in s : k >= y}
<1>1. n \in T
  BY SMT
<1>2. PICK x \in T : \A y \in T : x <= y
  <2>1. T \subseteq Nat /\ T # {}
    BY <1>1
  <2> HIDE DEF T
  <2> QED
    BY <2>1, LeastNat
<1>3. x \in s
  <2> SUFFICES ASSUME x \notin s PROVE FALSE
    OBVIOUS
  <2>1. PICK y \in s : y \in 1..n
    OBVIOUS
  <2>2. \A z \in s : z \in Int /\ x >= z /\ x # z
    BY SMT
  <2>3. x - 1 \in Nat /\ \A z \in s : x - 1 >= z
    BY <2>1, <2>2, SMT
  <2>4. x <= x - 1
    BY <1>2, <2>3
  <2> QED
    BY <2>4, SMT
<1>4. Max(s) \in s
  BY <1>3 DEF Max
<1> QED
  BY <1>4

\* There is such a function: it is extended item by item.
LEMMA FoldExists ==
  ASSUME NEW list, NEW seq \in Seq(Pair)
  PROVE  \E f : IsFold(f, list, seq, DOMAIN seq)
<1> DEFINE L == Len(seq)
           S == {n \in Nat : \E f : IsFold(f, list, seq, 1..n)}
<1>0. L \in Nat /\ DOMAIN seq = 1..L
  BY Items
<1>1. 0 \in S
  <2> DEFINE f == [s \in SUBSET (1..0) |-> <<>>]
  <2>1. 1..0 = {}
    BY SMT
  <2>2. IsFold(f, list, seq, 1..0)
    BY <2>1 DEF IsFold, FoldStep
  <2> QED
    BY <2>2, SMT
<1>2. ASSUME NEW n \in 0..L - 1, n \in S PROVE n + 1 \in S
  <2>0. n \in Nat /\ n + 1 \in Nat /\ n + 1 \notin 1..n /\ 1..n + 1 = 1..n \cup {n + 1}
    BY <1>0, SMT
  <2>1. PICK f : IsFold(f, list, seq, 1..n)
    BY <1>2
  <2> DEFINE g == [s \in SUBSET (1..n + 1) |->
                     IF n + 1 \in s THEN MissingStep(list, f[s \ {n + 1}], seq[n + 1])
                     ELSE f[s]]
  <2>2. \A s \in SUBSET (1..n) : g[s] = f[s]
    BY <2>0
  <2>3. \A s \in SUBSET (1..n + 1) : n + 1 \in s =>
          g[s] = MissingStep(list, f[s \ {n + 1}], seq[n + 1])
    OBVIOUS
  <2>4. g = [s \in SUBSET (1..n + 1) |-> g[s]]
    OBVIOUS
  <2> HIDE DEF g
  <2>5. ASSUME NEW s \in SUBSET (1..n + 1) PROVE g[s] = FoldStep(g, list, seq, s)
    <3>1. CASE n + 1 \in s
      <4>1. Max(s) = n + 1
        BY <2>0, <3>1, MaxTop
      <4>2. s \ {n + 1} \in SUBSET (1..n)
        BY <2>0
      <4>3. g[s \ {n + 1}] = f[s \ {n + 1}]
        BY <2>2, <4>2
      <4>4. s # {}
        BY <3>1
      <4> QED
        BY <2>3, <3>1, <4>1, <4>3, <4>4, ZenonT(30) DEF FoldStep
    <3>2. CASE n + 1 \notin s
      <4>1. s \in SUBSET (1..n) /\ s \ {Max(s)} \in SUBSET (1..n)
        BY <2>0, <3>2
      <4>2. g[s] = f[s] /\ g[s \ {Max(s)}] = f[s \ {Max(s)}]
        BY <2>2, <4>1
      <4>3. f[s] = FoldStep(f, list, seq, s)
        BY <2>1, <4>1 DEF IsFold
      <4> QED
        BY <4>2, <4>3 DEF FoldStep
    <3> QED
      BY <3>1, <3>2
  <2>6. IsFold(g, list, seq, 1..n + 1)
    BY <2>4, <2>5 DEF IsFold
  <2> QED
    BY <2>0, <2>6
<1>3. \A n \in 0..L : n \in S
  <2> HIDE DEF S
  <2> QED
    BY <1>0, <1>1, <1>2, InductionTo
<1>4. L \in 0..L
  BY <1>0, SMT
<1> QED
  BY <1>0, <1>3, <1>4

\* What such a function computes.
LEMMA FoldResult ==
  ASSUME NEW list \in Seq(Pair), NEW seq \in Seq(Pair), NEW f,
         IsFold(f, list, seq, DOMAIN seq), NEW res, res = f[DOMAIN seq]
  PROVE  /\ res \in Seq(Pair)
         /\ ToSet(res) = {a \in ToSet(seq) : Find(list, a) < 0}
         /\ Len(res) <= Len(seq)
         /\ Distinct(seq) => Distinct(res)
         /\ Len(seq) <= 2 => Sorted(res)
<1> DEFINE L == Len(seq)
           New(n) == {a \in Pair : Find(list, a) < 0 /\ \E k \in 1..n : seq[k] = a}
           Right(r, n) ==
             /\ r \in Seq(Pair)
             /\ ToSet(r) = New(n)
             /\ Len(r) <= n
             /\ Distinct(seq) => Distinct(r)
             /\ n <= 2 => Sorted(r)
           S == {n \in Nat : Right(f[1..n], n)}
<1>0. /\ L \in Nat /\ DOMAIN seq = 1..L
      /\ \A k \in 1..L : seq[k] \in Pair
      /\ \A a : a \in ToSet(seq) <=> \E k \in 1..L : seq[k] = a
  BY Items
<1>1. \A s \in SUBSET (1..L) : f[s] = FoldStep(f, list, seq, s)
  BY <1>0 DEF IsFold
<1>2. 0 \in S
  <2>1. 1..0 = {} /\ 1..0 \in SUBSET (1..L)
    BY SMT
  <2>2. f[1..0] = <<>>
    BY <1>1, <2>1 DEF FoldStep
  <2>3. <<>> \in Seq(Pair) /\ Len(<<>>) = 0 /\ 0 <= 0
    BY SMT
  <2>4. ToSet(<<>>) = {} /\ New(0) = {}
    BY <2>1, <2>3, Items
  <2>5. Distinct(<<>>) /\ Sorted(<<>>)
    BY <2>1, <2>3 DEF Distinct, Sorted
  <2> HIDE DEF New
  <2>6. Right(f[1..0], 0)
    BY <2>2, <2>3, <2>4, <2>5, ZenonT(30)
  <2> HIDE DEF Right
  <2> QED
    BY <2>6, SMT
<1>3. ASSUME NEW n \in 0..L - 1, n \in S PROVE n + 1 \in S
  <2> DEFINE r == f[1..n]
             r2 == f[1..n + 1]
             a == seq[n + 1]
  <2>0. /\ n \in Nat /\ n + 1 \in Nat /\ n + 1 \in 1..L
        /\ 1..n + 1 = 1..n \cup {n + 1} /\ n + 1 \notin 1..n
        /\ 1..n + 1 \in SUBSET (1..L)
    BY <1>0, SMT
  <2>1. Right(r, n) /\ a \in Pair
    BY <1>0, <1>3, <2>0
  <2>2. r2 = MissingStep(list, r, a)
    <3>1. Max(1..n + 1) = n + 1
      BY <2>0, MaxTop
    <3>2. (1..n + 1) \ {n + 1} = 1..n /\ 1..n + 1 # {}
      BY <2>0
    <3> QED
      BY <1>1, <2>0, <3>1, <3>2, ZenonT(30) DEF FoldStep
  <2>3. New(n + 1) = New(n) \cup {b \in {a} : Find(list, b) < 0}
    BY <2>0, <2>1
  <2>4. Distinct(seq) => a \notin New(n)
    <3> SUFFICES ASSUME Distinct(seq), NEW k \in 1..n, seq[k] = seq[n + 1] PROVE FALSE
      BY DEF New
    <3>1. k \in 1..L
      BY <2>0
    <3>2. k = n + 1
      BY <2>0, <3>1 DEF Distinct
    <3> QED
      BY <2>0, <3>2
  <2> HIDE DEF r, r2, a, New
  <2>5. CASE Find(list, a) < 0
    <3>1. r2 = Add(r, a)
      BY <2>2, <2>5 DEF MissingStep
    <3>2. ToSet(r2) = New(n + 1)
      <4>1. ToSet(r2) = ToSet(r) \cup {a}
        BY <2>1, <3>1, AddExact
      <4>2. New(n + 1) = New(n) \cup {a}
        BY <2>3, <2>5
      <4> QED
        BY <2>1, <4>1, <4>2
    <3>3. r2 \in Seq(Pair) /\ Len(r2) <= Len(r) + 1
      BY <2>1, <3>1, AddExact
    <3>4. Distinct(seq) => Distinct(r2)
      BY <2>1, <2>4, <3>1, AddExact
    <3>5. Len(r) \in Nat /\ Len(r2) \in Nat
      BY <2>1, <3>3, Items
    <3>6. Len(r2) <= n + 1 /\ (n + 1 <= 2 => Len(r) <= 1 /\ n <= 2)
      <4>1. Len(r) <= n
        BY <2>1
      <4> QED
        BY <2>0, <3>3, <3>5, <4>1, SMT
    <3>7. n + 1 <= 2 => Sorted(r2)
      BY <2>1, <3>1, <3>6, AddExact
    <3>8. Right(r2, n + 1)
      BY <3>2, <3>3, <3>4, <3>6, <3>7, ZenonT(30)
    <3> HIDE DEF Right
    <3> QED
      BY <2>0, <3>8 DEF r2
  <2>6. CASE ~(Find(list, a) < 0)
    <3>1. r2 = r
      BY <2>2, <2>6 DEF MissingStep
    <3>2. New(n + 1) = New(n)
      BY <2>3, <2>6
    <3>3. Len(r) \in Nat
      BY <2>1, Items
    <3>4. Len(r) <= n + 1 /\ (n + 1 <= 2 => n <= 2)
      <4>1. Len(r) <= n
        BY <2>1
      <4> QED
        BY <2>0, <3>3, <4>1, SMTT(30)
    <3>5. Right(r2, n + 1)
      BY <2>1, <3>1, <3>2, <3>4
    <3> HIDE DEF Right
    <3> QED
      BY <2>0, <3>5 DEF r2
  <2> QED
    BY <2>5, <2>6
<1>4. L \in S
  <2> HIDE DEF S
  <2>1. \A n \in 0..L : n \in S
    BY <1>0, <1>2, <1>3, InductionTo
  <2>2. L \in 0..L
    BY <1>0, SMT
  <2> QED
    BY <2>1, <2>2
<1>5. New(L) = {a \in ToSet(seq) : Find(list, a) < 0}
  BY <1>0
<1> HIDE DEF New
<1> QED
  BY <1>0, <1>4, <1>5

\* One of the two lists of Diff: the items of list2 that a sorted list has not,
\* each once.
LEMMA MissingExact ==
  ASSUME NEW list \in Seq(Pair), NEW list2 \in Seq(Pair), Sorted(list), Distinct(list2)
  PROVE  /\ Missing(list, list2) \in Seq(Pair)
         /\ ToSet(Missing(list, list2)) = ToSet(list2) \ ToSet(list)
         /\ Distinct(Missing(list, list2))
<1> DEFINE F == CHOOSE f : IsFold(f, list, list2, DOMAIN list2)
           res == Missing(list, list2)
<1>1. res = F[DOMAIN list2]
  BY DEF Missing, FoldLeft, MapThenFoldSet, IsFold, FoldStep, MissingStep
<1>2. IsFold(F, list, list2, DOMAIN list2)
  BY FoldExists
<1> HIDE DEF F, res
<1>3. /\ res \in Seq(Pair) /\ Distinct(res)
      /\ ToSet(res) = {a \in ToSet(list2) : Find(list, a) < 0}
  BY <1>1, <1>2, FoldResult
<1>4. \A a \in ToSet(list2) : Find(list, a) < 0 <=> a \notin ToSet(list)
  BY FindExact, Items
<1> QED
  BY <1>3, <1>4 DEF res

\* Diff is right about sorted lists of any length: it tells what was added and
\* what was removed, each item once, in whatever order.
THEOREM DiffExact ==
  ASSUME NEW list \in Seq(Pair), NEW list2 \in Seq(Pair), Sorted(list), Sorted(list2)
  PROVE  /\ ToSet(Diff(list, list2).added) = ToSet(list2) \ ToSet(list)
         /\ ToSet(Diff(list, list2).removed) = ToSet(list) \ ToSet(list2)
         /\ Distinct(Diff(list, list2).added)
         /\ Distinct(Diff(list, list2).removed)
<1>1. ASSUME NEW s \in Seq(Pair), Sorted(s) PROVE Distinct(s)
  <2> SUFFICES ASSUME NEW i \in 1..Len(s), NEW j \in 1..Len(s), s[i] = s[j], i # j
               PROVE  FALSE
    BY DEF Distinct
  <2>1. i < j \/ j < i
    BY SMT
  <2>2. Less(s[i], s[j]) \/ Less(s[j], s[i])
    BY <1>1, <2>1 DEF Sorted
  <2>3. s[i] \in Pair
    BY Items
  <2> QED
    BY <2>2, <2>3, LessOrder
<1>2. /\ Diff(list, list2).added = Missing(list, list2)
      /\ Diff(list, list2).removed = Missing(list2, list)
  BY DEF Diff
<1> QED
  BY <1>1, <1>2, MissingExact

\* The list of an enumeration has its addresses, each once, in whatever order
\* they come; it is sorted for sure if there are two of them at most.
LEMMA AddedAll ==
  ASSUME NEW order \in Seq(Pair), Distinct(order)
  PROVE  /\ FoldLeft(Add, <<>>, order) \in Seq(Pair)
         /\ ToSet(FoldLeft(Add, <<>>, order)) = ToSet(order)
         /\ Distinct(FoldLeft(Add, <<>>, order))
         /\ Len(order) <= 2 => Sorted(FoldLeft(Add, <<>>, order))
<1> DEFINE AddStep(f, s) == IF s = {} THEN <<>> ELSE Add(f[s \ {Max(s)}], order[Max(s)])
           IsAdd(f) == f = [s \in SUBSET DOMAIN order |-> AddStep(f, s)]
           F == CHOOSE f : IsAdd(f)
           res == FoldLeft(Add, <<>>, order)
<1>1. res = F[DOMAIN order]
  BY DEF FoldLeft, MapThenFoldSet
<1>2. <<>> \in Seq(Pair) /\ ToSet(<<>>) = {}
  BY SMT DEF ToSet
<1>3. \A a \in Pair : Find(<<>>, a) < 0
  BY <1>2, FindExact
<1>4. /\ Len(order) \in Nat /\ DOMAIN order = 1..Len(order)
      /\ \A k \in DOMAIN order : order[k] \in Pair
      /\ ToSet(order) \subseteq Pair
  BY Items
<1>5. \A s \in SUBSET DOMAIN order : s # {} => Max(s) \in DOMAIN order
  BY <1>4, MaxIn
<1>6. \A f : \A s \in SUBSET DOMAIN order : AddStep(f, s) = FoldStep(f, <<>>, order, s)
  BY <1>3, <1>4, <1>5 DEF FoldStep, MissingStep
<1> HIDE DEF AddStep
<1>7. \A f : IsAdd(f) <=> IsFold(f, <<>>, order, DOMAIN order)
  BY <1>6 DEF IsFold
<1>8. IsFold(F, <<>>, order, DOMAIN order)
  <2> HIDE DEF IsAdd
  <2>1. \E f : IsFold(f, <<>>, order, DOMAIN order)
    BY FoldExists
  <2>2. IsAdd(F)
    BY <1>7, <2>1
  <2> QED
    BY <1>7, <2>2
<1> HIDE DEF F, res
<1>9. /\ res \in Seq(Pair) /\ Distinct(res)
      /\ ToSet(res) = {a \in ToSet(order) : Find(<<>>, a) < 0}
      /\ Len(order) <= 2 => Sorted(res)
  BY <1>1, <1>2, <1>8, FoldResult, ZenonT(30)
<1> QED
  BY <1>3, <1>4, <1>9 DEF res

-----------------------------------------------------------------------------
(* What PnPStart knows of the devices.                                     *)

\* What the status table says of the two maps.
StatusRight ==
  \A a \in UsbAddr :
    statusTable[a] = CASE a \in devByAddr -> "ok"
                       [] a \in Retry     -> "error"
                       [] OTHER           -> "none"

\* What each device that PnPStart has seen is: served or waiting for a retry, or
\* still to be added; and what was removed is still known until it is handled.
PnPInv ==
  /\ TypeOK
  /\ Distinct(devices) /\ Distinct(added) /\ Distinct(removed)
  /\ devByAddr \cap Retry = {}
  /\ StatusRight
  /\ (devByAddr \cup Retry) \cap ToSet(added) = {}
  /\ devByAddr \cup Retry \cup ToSet(added) = ToSet(devices) \cup ToSet(removed)
  /\ ToSet(devices) \cap ToSet(removed) = {}
  /\ pc # "add" => added = <<>>
  /\ pc \notin {"add", "remove"} => removed = <<>>
  /\ pc = "PnPIdle" => devices = <<>>

\* An enumeration visits each address of a set once.
LEMMA Orders ==
  ASSUME NEW T \in SUBSET UsbAddr, NEW order \in SetToSeqs(T)
  PROVE  /\ order \in Seq(Pair) /\ Distinct(order)
         /\ ToSet(order) = T
         /\ Len(order) = Cardinality(T)
<1> DEFINE N == Cardinality(T)
<1>1. IsFiniteSet(T)
  BY AddrAssumption, FS_Subset
<1>2. N \in Nat
  BY <1>1, FS_CardinalityType
<1>3. order \in [1..N -> T] /\ \A i, j \in 1..N : i # j => order[i] # order[j]
  BY DEF SetToSeqs
<1>4. T \subseteq Pair
  BY AddrAssumption DEF Pair
<1> HIDE DEF N
<1>5. order \in Seq(Pair) /\ Len(order) = N
  <2>1. order \in Seq(T) /\ Len(order) = N
    BY <1>2, <1>3, SMT
  <2> QED
    BY <1>4, <2>1, SMT
<1>6. order \in Injection(1..N, T)
  BY <1>3 DEF Injection, IsInjective
<1>7. Cardinality(1..N) = N
  <2>1. 1 \in Int /\ N \in Int /\ (1 > N => N = 0) /\ (N - 1) + 1 = N
    BY <1>2, SMT
  <2>2. Cardinality(1..N) = IF 1 > N THEN 0 ELSE N - 1 + 1
    BY <2>1, FS_Interval
  <2> QED
    BY <2>1, <2>2
<1>8. order \in Surjection(1..N, T)
  BY <1>1, <1>6, <1>7, FS_Injection DEF N
<1>9. \A t \in T : \E k \in 1..N : order[k] = t
  BY <1>8 DEF Surjection
<1>10. ToSet(order) = T
  <2>1. \A a : a \in ToSet(order) <=> \E k \in 1..N : order[k] = a
    BY <1>5, Items
  <2>2. ToSet(order) \subseteq T
    <3>1. \A k \in 1..N : order[k] \in T
      BY <1>3
    <3> QED
      BY <2>1, <3>1
  <2>3. T \subseteq ToSet(order)
    BY <1>9, <2>1
  <2> QED
    BY <2>2, <2>3
<1> QED
  BY <1>3, <1>5, <1>10 DEF Distinct, N

\* The first item of a list without duplicates is taken off.
LEMMA Popped ==
  ASSUME NEW T, NEW list \in Seq(T), list # <<>>, Distinct(list)
  PROVE  /\ Head(list) \in ToSet(list) /\ Head(list) \in T
         /\ Tail(list) \in Seq(T) /\ Distinct(Tail(list))
         /\ ToSet(Tail(list)) = ToSet(list) \ {Head(list)}
<1> DEFINE L == Len(list)
           t == Tail(list)
<1>1. /\ L \in Nat /\ L # 0
      /\ t \in Seq(T) /\ Len(t) = L - 1
      /\ Head(list) = list[1]
      /\ \A k \in 1..L - 1 : t[k] = list[k + 1]
  BY SMT
<1> HIDE DEF t
<1>2. 1 \in 1..L /\ \A k \in 1..L - 1 : k + 1 \in 1..L /\ k + 1 # 1
  BY <1>1, SMT
<1>3. \A k \in 1..L : k # 1 => k - 1 \in 1..L - 1 /\ (k - 1) + 1 = k
  BY <1>1, SMT
<1>4. /\ \A a : a \in ToSet(list) <=> \E k \in 1..L : list[k] = a
      /\ \A k \in 1..L : list[k] \in T
  BY Items
<1>5. \A a : a \in ToSet(t) <=> \E k \in 1..L - 1 : t[k] = a
  <2>1. \A a : a \in ToSet(t) <=> \E k \in 1..Len(t) : t[k] = a
    BY <1>1, Items
  <2>2. Len(t) = L - 1
    BY <1>1
  <2> QED
    BY <2>1, <2>2
<1>6. Distinct(t)
  <2> SUFFICES ASSUME NEW i \in 1..L - 1, NEW j \in 1..L - 1, t[i] = t[j] PROVE i = j
    BY <1>1 DEF Distinct
  <2>1. i + 1 = j + 1
    BY <1>1, <1>2, ZenonT(30) DEF Distinct
  <2> QED
    BY <1>1, <2>1, SMT
<1>7. ASSUME NEW a \in ToSet(t) PROVE a \in ToSet(list) /\ a # list[1]
  <2>1. PICK k \in 1..L - 1 : t[k] = a
    BY <1>5
  <2>2. list[k + 1] = a /\ k + 1 \in 1..L /\ k + 1 # 1
    BY <1>1, <1>2, <2>1
  <2> QED
    BY <1>2, <1>4, <2>2 DEF Distinct
<1>8. ASSUME NEW a \in ToSet(list), a # list[1] PROVE a \in ToSet(t)
  <2>1. PICK k \in 1..L : list[k] = a
    BY <1>4
  <2>2. k - 1 \in 1..L - 1 /\ (k - 1) + 1 = k
    BY <1>3, <1>8, <2>1
  <2> QED
    BY <1>1, <1>5, <2>1, <2>2, ZenonT(30)
<1>9. ToSet(t) = ToSet(list) \ {Head(list)}
  BY <1>1, <1>7, <1>8
<1> QED
  BY <1>1, <1>2, <1>4, <1>6, <1>9 DEF t

\* NewDevice puts an address that is not served into one of the two maps, and
\* the status table follows.
LEMMA NewDeviceKnown ==
  ASSUME TypeOK, OpenedInv, OpenedInv', devByAddr \cap Retry = {}, StatusRight,
         NEW a \in UsbAddr, a \notin devByAddr, NewDevice(a, "none")
  PROVE  /\ devByAddr' \subseteq UsbAddr
         /\ retryByAddr' \in [UsbAddr -> {"none", "waiting", "expired", "never"}]
         /\ statusTable' \in [UsbAddr -> {"none", "ok", "error"}]
         /\ opened' \in [UsbAddr -> Nat]
         /\ devByAddr' \cap Retry' = {}
         /\ StatusRight'
         /\ devByAddr' \cup Retry' = devByAddr \cup Retry \cup {a}
<1>0. opened' \in [UsbAddr -> Nat]
  BY SMT DEF OpenedInv
<1>1. PICK err \in NewDeviceResult(a) :
        IF err = "ok"
        THEN /\ devByAddr' = devByAddr \cup {a}
             /\ retryByAddr' = [retryByAddr EXCEPT ![a] = "none"]
             /\ statusTable' = [statusTable EXCEPT ![a] = "ok"]
        ELSE /\ retryByAddr' = [retryByAddr EXCEPT ![a] = pnpRetryTime(err)]
             /\ statusTable' = [statusTable EXCEPT ![a] = "error"]
             /\ devByAddr' = devByAddr
  BY DEF NewDevice
<1>2. pnpRetryTime(err) \in {"waiting", "never"}
  BY DEF pnpRetryTime
<1>3. /\ devByAddr \subseteq UsbAddr
      /\ retryByAddr \in [UsbAddr -> {"none", "waiting", "expired", "never"}]
      /\ statusTable \in [UsbAddr -> {"none", "ok", "error"}]
  BY DEF TypeOK
<1>4. CASE err = "ok"
  <2>1. Retry' = Retry \ {a}
    BY <1>1, <1>3, <1>4 DEF Retry
  <2>2. StatusRight'
    BY <1>1, <1>3, <1>4, <2>1 DEF StatusRight
  <2> QED
    BY <1>0, <1>1, <1>3, <1>4, <2>1, <2>2, ZenonT(30)
<1>5. CASE err # "ok"
  <2>1. Retry' = Retry \cup {a}
    BY <1>1, <1>2, <1>3, <1>5, ZenonT(30) DEF Retry
  <2>2. StatusRight'
    BY <1>1, <1>3, <1>5, <2>1 DEF StatusRight
  <2>3. retryByAddr' \in [UsbAddr -> {"none", "waiting", "expired", "never"}]
    BY <1>1, <1>2, <1>3, <1>5
  <2> QED
    BY <1>0, <1>1, <1>3, <1>5, <2>1, <2>2, <2>3, ZenonT(30)
<1> QED
  BY <1>4, <1>5

\* The items of a list tell what it is a list of.
LEMMA Retyped ==
  ASSUME NEW T, NEW U, NEW list \in Seq(T), ToSet(list) \subseteq U
  PROVE  list \in Seq(U)
<1>1. \A k \in 1..Len(list) : list[k] \in U
  BY Items
<1> QED
  BY <1>1, SMT

\* Events of the bus, of time and of signals change neither the lists nor which
\* devices are known.
LEMMA EventKnown ==
  ASSUME PnPInv,
         \/ HotplugCallback \/ Tick \/ Signal
         \/ \E a \in UsbAddr : Plug(a) \/ Unplug(a) \/ Recover(a) \/ RetryExpire(a)
  PROVE  PnPInv'
<1>1. CASE HotplugCallback \/ Tick \/ Signal
  <2>1. TypeOK'
    BY <1>1 DEF PnPInv, TypeOK, HotplugCallback, Tick, Signal, passVars, tabVars, runVars,
                busVars
  <2>2. UNCHANGED <<pc, devices, added, removed, devByAddr, retryByAddr, statusTable>>
    BY <1>1 DEF HotplugCallback, Tick, Signal, passVars, tabVars
  <2>3. Retry' = Retry
    BY <2>2 DEF Retry
  <2> QED
    BY <2>1, <2>2, <2>3 DEF PnPInv, StatusRight
<1>2. ASSUME NEW a \in UsbAddr, Plug(a) \/ Unplug(a) \/ Recover(a)
      PROVE  PnPInv'
  <2>1. bus' \in [UsbAddr -> Device \cup {"absent"}]
    BY <1>2 DEF Plug, Unplug, Recover, PnPInv, TypeOK, Device
  <2>2. TypeOK'
    <3>1. changed' \in BOOLEAN /\ UNCHANGED <<pc, passVars, tabVars, evVars, runVars>>
      BY <1>2 DEF Plug, Unplug, Recover, PnPInv, TypeOK
    <3> QED
      BY <2>1, <3>1 DEF PnPInv, TypeOK, passVars, tabVars, evVars, runVars
  <2>3. UNCHANGED <<pc, devices, added, removed, devByAddr, retryByAddr, statusTable>>
    BY <1>2 DEF Plug, Unplug, Recover, passVars, tabVars
  <2>4. Retry' = Retry
    BY <2>3 DEF Retry
  <2> QED
    BY <2>2, <2>3, <2>4 DEF PnPInv, StatusRight
<1>3. ASSUME NEW a \in UsbAddr, RetryExpire(a) PROVE PnPInv'
  <2>1. retryByAddr \in [UsbAddr -> {"none", "waiting", "expired", "never"}]
    BY DEF PnPInv, TypeOK
  <2>2. /\ retryByAddr[a] = "waiting"
        /\ retryByAddr' = [retryByAddr EXCEPT ![a] = "expired"]
        /\ UNCHANGED <<pc, devices, added, removed, devByAddr, statusTable>>
    BY <1>3 DEF RetryExpire, passVars
  <2>3. retryByAddr' \in [UsbAddr -> {"none", "waiting", "expired", "never"}]
    BY <2>1, <2>2
  <2>4. TypeOK'
    BY <1>3, <2>3 DEF RetryExpire, PnPInv, TypeOK, passVars, busVars, evVars, runVars
  <2>5. Retry' = Retry
    BY <2>1, <2>2 DEF Retry
  <2> QED
    BY <2>2, <2>4, <2>5 DEF PnPInv, StatusRight
<1> QED
  BY <1>1, <1>2, <1>3

\* With sorted lists, Diff tells the new devices from those that are known, and
\* those that have gone.
LEMMA ScanKnown ==
  ASSUME PnPInv, Sorted(devices), Sorted(devices'), Scan \/ ScanFails PROVE PnPInv'
<1>1. CASE Scan
  <2>1. PICK order \in SetToSeqs(Present) :
          /\ devices' = FoldLeft(Add, <<>>, order)
          /\ added' = Missing(devices, devices')
          /\ removed' = Missing(devices', devices)
    <3>1. PICK list \in {FoldLeft(Add, <<>>, order) : order \in SetToSeqs(Present)} :
            \E d \in {Diff(devices, list)} :
              devices' = list /\ added' = d.added /\ removed' = d.removed
      BY <1>1 DEF Scan
    <3>2. PICK order \in SetToSeqs(Present) : list = FoldLeft(Add, <<>>, order)
      OBVIOUS
    <3>3. added' = Diff(devices, list).added /\ removed' = Diff(devices, list).removed
      BY <3>1
    <3>4. added' = Missing(devices, list) /\ removed' = Missing(list, devices)
      BY <3>3 DEF Diff
    <3> QED
      BY <3>1, <3>2, <3>4
  <2>2. /\ pc = "scan" /\ pc' = "add" /\ devDescs' = Present /\ scanFailed' = FALSE
        /\ UNCHANGED <<exitWhenIdle, busVars, retrying, tabVars, evVars>>
    BY <1>1 DEF Scan
  <2>3. Present \in SUBSET UsbAddr
    BY DEF Present
  <2>4. order \in Seq(Pair) /\ Distinct(order) /\ ToSet(order) = Present
    BY <2>3, Orders
  <2>5. devices' \in Seq(Pair) /\ ToSet(devices') = Present /\ Distinct(devices')
    BY <2>1, <2>4, AddedAll
  <2>6. devices \in Seq(Pair) /\ Distinct(devices) /\ ToSet(devices) \subseteq UsbAddr
    <3>1. devices \in Seq(UsbAddr) /\ UsbAddr \subseteq Pair
      BY AddrAssumption DEF PnPInv, TypeOK, Pair
    <3>2. devices \in Seq(Pair)
      BY <3>1, SMT
    <3> QED
      BY <3>1, <3>2, Items DEF PnPInv
  <2>7. /\ added' \in Seq(Pair) /\ Distinct(added')
        /\ ToSet(added') = ToSet(devices') \ ToSet(devices)
    BY <2>1, <2>5, <2>6, MissingExact, ZenonT(30)
  <2>8. /\ removed' \in Seq(Pair) /\ Distinct(removed')
        /\ ToSet(removed') = ToSet(devices) \ ToSet(devices')
    BY <2>1, <2>5, <2>6, MissingExact, ZenonT(30)
  <2>9. {devices', added', removed'} \subseteq Seq(UsbAddr)
    <3>1. /\ ToSet(devices') \subseteq UsbAddr /\ ToSet(added') \subseteq UsbAddr
          /\ ToSet(removed') \subseteq UsbAddr
      BY <2>3, <2>5, <2>6, <2>7, <2>8, ZenonT(30)
    <3> QED
      BY <2>5, <2>7, <2>8, <3>1, Retyped, ZenonT(30)
  <2>10. TypeOK'
    <3>1. TypeOK
      BY DEF PnPInv
    <3> QED
      BY <2>2, <2>3, <2>9, <3>1, ZenonT(30) DEF TypeOK, busVars, tabVars, evVars
  <2>11. added = <<>> /\ removed = <<>>
    BY <2>2 DEF PnPInv
  <2>12. ToSet(<<>>) = {}
    BY SMT DEF ToSet
  <2>13. devByAddr \cup Retry = ToSet(devices)
    BY <2>11, <2>12 DEF PnPInv
  <2>14. UNCHANGED <<devByAddr, Retry, retryByAddr, statusTable>>
    BY <2>2 DEF tabVars, Retry
  <2>15. devByAddr \cap Retry = {} /\ StatusRight
    BY DEF PnPInv
  <2>16. StatusRight'
    BY <2>14, <2>15 DEF StatusRight
  <2> QED
    BY <2>2, <2>5, <2>7, <2>8, <2>10, <2>13, <2>14, <2>15, <2>16, ZenonT(30) DEF PnPInv
<1>2. CASE ScanFails
  <2>1. TypeOK'
    BY <1>2 DEF ScanFails, PnPInv, TypeOK, passVars, tabVars, busVars, evVars
  <2>2. /\ pc = "scan" /\ pc' = "tail"
        /\ UNCHANGED <<devices, added, removed, devByAddr, retryByAddr, statusTable>>
    BY <1>2 DEF ScanFails, passVars, tabVars
  <2>3. Retry' = Retry
    BY <2>2 DEF Retry
  <2> QED
    BY <2>1, <2>2, <2>3 DEF PnPInv, StatusRight
<1> QED
  BY <1>1, <1>2

\* A new device is taken off the list of what is to be added, and is known.
LEMMA AddedKnown ==
  ASSUME PnPInv, OpenedInv, OpenedInv', HandleAdded PROVE PnPInv'
<1>0. /\ pc = "add"
      /\ UNCHANGED <<busVars, devDescs, devices, removed, retrying, evVars, runVars>>
  BY DEF HandleAdded
<1>t. TypeOK /\ added \in Seq(UsbAddr)
  BY DEF PnPInv, TypeOK
<1>1. CASE added = <<>>
  <2>1. pc' = "remove" /\ UNCHANGED <<added, tabVars>>
    BY <1>1 DEF HandleAdded
  <2>2. TypeOK'
    BY <1>0, <1>t, <2>1 DEF TypeOK, tabVars, busVars, evVars, runVars
  <2>3. Retry' = Retry
    BY <2>1 DEF Retry, tabVars
  <2> QED
    BY <1>0, <1>1, <2>1, <2>2, <2>3, ZenonT(30) DEF PnPInv, StatusRight, tabVars
<1>2. CASE added # <<>>
  <2> DEFINE a == Head(added)
  <2>1. NewDevice(a, retryByAddr[a]) /\ added' = Tail(added) /\ pc' = pc
    BY <1>2 DEF HandleAdded
  <2>2. /\ a \in ToSet(added) /\ a \in UsbAddr
        /\ added' \in Seq(UsbAddr) /\ Distinct(added')
        /\ ToSet(added') = ToSet(added) \ {a}
    BY <1>2, <1>t, <2>1, Popped, ZenonT(30) DEF PnPInv
  <2> HIDE DEF a
  <2>3. a \notin devByAddr /\ NewDevice(a, "none")
    <3>1. a \notin devByAddr /\ retryByAddr[a] = "none"
      BY <2>2 DEF PnPInv, Retry
    <3> QED
      BY <2>1, <3>1
  <2>4. /\ devByAddr' \subseteq UsbAddr
        /\ retryByAddr' \in [UsbAddr -> {"none", "waiting", "expired", "never"}]
        /\ statusTable' \in [UsbAddr -> {"none", "ok", "error"}]
        /\ opened' \in [UsbAddr -> Nat]
        /\ devByAddr' \cap Retry' = {}
        /\ StatusRight'
        /\ devByAddr' \cup Retry' = devByAddr \cup Retry \cup {a}
    <3>1. devByAddr \cap Retry = {} /\ StatusRight
      BY DEF PnPInv
    <3> QED
      BY <1>t, <2>2, <2>3, <3>1, NewDeviceKnown, ZenonT(30)
  <2>5. TypeOK'
    BY <1>0, <1>t, <2>1, <2>2, <2>4, ZenonT(30) DEF TypeOK, busVars, evVars, runVars
  <2>6. (devByAddr' \cup Retry') \cap ToSet(added') = {}
    <3>1. (devByAddr \cup Retry) \cap ToSet(added) = {}
      BY DEF PnPInv
    <3> QED
      BY <2>2, <2>4, <3>1
  <2>7. devByAddr' \cup Retry' \cup ToSet(added') = ToSet(devices') \cup ToSet(removed')
    <3>1. devByAddr' \cup Retry' \cup ToSet(added') = devByAddr \cup Retry \cup ToSet(added)
      BY <2>2, <2>4
    <3> QED
      BY <1>0, <3>1 DEF PnPInv
  <2> QED
    BY <1>0, <2>1, <2>2, <2>4, <2>5, <2>6, <2>7, ZenonT(30) DEF PnPInv
<1> QED
  BY <1>1, <1>2

\* A removed device is forgotten.
LEMMA RemovedKnown ==
  ASSUME PnPInv, OpenedInv', HandleRemoved PROVE PnPInv'
<1>0. /\ pc = "remove" /\ added = <<>>
      /\ UNCHANGED <<busVars, devDescs, devices, added, evVars, runVars>>
  BY DEF HandleRemoved, PnPInv
<1>t. /\ TypeOK /\ removed \in Seq(UsbAddr)
      /\ devByAddr \subseteq UsbAddr
      /\ retryByAddr \in [UsbAddr -> {"none", "waiting", "expired", "never"}]
      /\ statusTable \in [UsbAddr -> {"none", "ok", "error"}]
  BY DEF PnPInv, TypeOK
<1>1. CASE removed = <<>>
  <2>1. pc' = "retry" /\ retrying' = Retry /\ UNCHANGED <<removed, tabVars>>
    BY <1>1 DEF HandleRemoved
  <2>2. Retry \subseteq UsbAddr
    BY DEF Retry
  <2>3. TypeOK'
    BY <1>0, <1>t, <2>1, <2>2 DEF TypeOK, tabVars, busVars, evVars, runVars
  <2>4. Retry' = Retry
    BY <2>1 DEF Retry, tabVars
  <2> QED
    BY <1>0, <1>1, <2>1, <2>3, <2>4, ZenonT(30) DEF PnPInv, StatusRight, tabVars
<1>2. CASE removed # <<>>
  <2> DEFINE a == Head(removed)
  <2>1. /\ retryByAddr' = [retryByAddr EXCEPT ![a] = "none"]
        /\ statusTable' = [statusTable EXCEPT ![a] = "none"]
        /\ devByAddr' = devByAddr \ {a}
        /\ removed' = Tail(removed)
        /\ UNCHANGED <<pc, retrying>>
    BY <1>2 DEF HandleRemoved
  <2>2. /\ a \in ToSet(removed) /\ a \in UsbAddr
        /\ removed' \in Seq(UsbAddr) /\ Distinct(removed')
        /\ ToSet(removed') = ToSet(removed) \ {a}
    BY <1>2, <1>t, <2>1, Popped DEF PnPInv
  <2> HIDE DEF a
  <2>3. /\ retryByAddr' \in [UsbAddr -> {"none", "waiting", "expired", "never"}]
        /\ statusTable' \in [UsbAddr -> {"none", "ok", "error"}]
        /\ devByAddr' \subseteq UsbAddr
    BY <1>t, <2>1
  <2>4. opened' \in [UsbAddr -> Nat]
    BY SMT DEF OpenedInv
  <2>5. TypeOK'
    <3>1. {devices', added', removed'} \subseteq Seq(UsbAddr)
      BY <1>0, <1>t, <2>2 DEF TypeOK
    <3>2. UNCHANGED <<busVars, devDescs, retrying, pc, evVars, runVars>>
      BY <1>0, <2>1
    <3> QED
      BY <1>t, <2>3, <2>4, <3>1, <3>2, ZenonT(30) DEF TypeOK, busVars, evVars, runVars
  <2>6. Retry' = Retry \ {a}
    BY <1>t, <2>1 DEF Retry
  <2>7. StatusRight'
    BY <1>t, <2>1, <2>6, ZenonT(30) DEF PnPInv, StatusRight
  <2>8. ToSet(added) = {}
    BY <1>0, SMT DEF ToSet
  <2>9. devByAddr \cup Retry = ToSet(devices) \cup ToSet(removed)
    BY <2>8 DEF PnPInv
  <2>10. a \notin ToSet(devices)
    BY <2>2 DEF PnPInv
  <2>11. devByAddr' \cup Retry' = ToSet(devices) \cup ToSet(removed')
    BY <2>1, <2>2, <2>6, <2>9, <2>10, ZenonT(30)
  <2>12. ToSet(devices) \cap ToSet(removed') = {}
    BY <2>2 DEF PnPInv
  <2>13. devByAddr' \cap Retry' = {}
    BY <2>1, <2>6 DEF PnPInv
  <2>14. ToSet(added') = {} /\ ToSet(devices') = ToSet(devices)
    BY <1>0, <2>8
  <2>15. Distinct(devices') /\ Distinct(added')
    BY <1>0 DEF PnPInv
  <2> QED
    BY <1>0, <2>1, <2>2, <2>5, <2>7, <2>11, <2>12, <2>13, <2>14, <2>15, ZenonT(30) DEF PnPInv
<1> QED
  BY <1>1, <1>2

\* A retry moves a device from one map to the other, or leaves it.
LEMMA RetryKnown ==
  ASSUME PnPInv, OpenedInv, OpenedInv', HandleRetry PROVE PnPInv'
<1>0. /\ pc = "retry" /\ added = <<>> /\ removed = <<>>
      /\ UNCHANGED <<busVars, devDescs, devices, added, removed, evVars, runVars>>
  BY DEF HandleRetry, PnPInv
<1>t. TypeOK /\ retrying \subseteq UsbAddr
  BY DEF PnPInv, TypeOK
<1>1. ASSUME NEW a \in retrying, retryByAddr[a] = "expired", NewDevice(a, "none"),
             retrying' = retrying \ {a}, pc' = pc
      PROVE  PnPInv'
  <2>1. a \in UsbAddr /\ a \in Retry /\ a \notin devByAddr
    BY <1>1, <1>t DEF PnPInv, Retry
  <2>2. /\ devByAddr' \subseteq UsbAddr
        /\ retryByAddr' \in [UsbAddr -> {"none", "waiting", "expired", "never"}]
        /\ statusTable' \in [UsbAddr -> {"none", "ok", "error"}]
        /\ opened' \in [UsbAddr -> Nat]
        /\ devByAddr' \cap Retry' = {}
        /\ StatusRight'
        /\ devByAddr' \cup Retry' = devByAddr \cup Retry \cup {a}
    BY <1>1, <1>t, <2>1, NewDeviceKnown, ZenonT(30) DEF PnPInv
  <2>3. devByAddr' \cup Retry' = devByAddr \cup Retry
    BY <2>1, <2>2
  <2>4. TypeOK'
    BY <1>0, <1>1, <1>t, <2>2, ZenonT(30) DEF TypeOK, busVars, evVars, runVars
  <2> QED
    BY <1>0, <1>1, <2>2, <2>3, <2>4, ZenonT(30) DEF PnPInv
<1>2. ASSUME UNCHANGED tabVars, pc' \in {"retry", "tail"}, retrying' \subseteq retrying
      PROVE  PnPInv'
  <2>1. TypeOK'
    BY <1>0, <1>2, <1>t DEF TypeOK, tabVars, busVars, evVars, runVars
  <2>2. Retry' = Retry
    BY <1>2 DEF Retry, tabVars
  <2> QED
    BY <1>0, <1>2, <2>1, <2>2, ZenonT(30) DEF PnPInv, StatusRight, tabVars
<1> QED
  BY <1>0, <1>1, <1>2 DEF HandleRetry

\* The end of a pass, and the shutdown.
LEMMA TailKnown ==
  ASSUME PnPInv, OpenedInv',
         UpdateTicker \/ Wait \/ CloseDone \/ \E a \in UsbAddr : CloseDevice(a)
  PROVE  PnPInv'
<1>1. opened' \in [UsbAddr -> Nat]
  BY SMT DEF OpenedInv
<1>2. TypeOK'
  <2>1. TypeOK
    BY DEF PnPInv
  <2>2. CASE UpdateTicker
    BY <1>1, <2>1, <2>2 DEF UpdateTicker, TypeOK, passVars, tabVars, busVars, runVars
  <2>3. CASE Wait
    BY <1>1, <2>1, <2>3 DEF Wait, TypeOK, passVars, tabVars, busVars, runVars
  <2>4. CASE CloseDone
    BY <1>1, <2>1, <2>4 DEF CloseDone, TypeOK, passVars, tabVars, busVars, runVars, evVars
  <2>5. ASSUME NEW a \in UsbAddr, CloseDevice(a) PROVE TypeOK'
    BY <1>1, <2>1, <2>5 DEF CloseDevice, TypeOK, passVars, busVars, runVars, evVars
  <2> QED
    BY <2>2, <2>3, <2>4, <2>5
<1>3. /\ UNCHANGED <<devices, added, removed, devByAddr, retryByAddr, statusTable>>
      /\ pc \notin {"add", "remove"} /\ pc' \notin {"add", "remove"}
  BY DEF UpdateTicker, Wait, CloseDone, CloseDevice, passVars, tabVars
<1>4. pc' = "PnPIdle" => devices = <<>>
  BY DEF UpdateTicker, Wait, CloseDone, CloseDevice, PnPInv
<1>5. Retry' = Retry
  BY <1>3 DEF Retry
<1>6. added = <<>> /\ removed = <<>>
  BY <1>3 DEF PnPInv
<1> QED
  BY <1>2, <1>3, <1>4, <1>5, <1>6, ZenonT(30) DEF PnPInv, StatusRight

\* In the beginning nothing is known.
LEMMA InitKnown == Init => PnPInv
<1> SUFFICES ASSUME Init PROVE PnPInv
  OBVIOUS
<1>1. <<>> \in Seq(UsbAddr) /\ ToSet(<<>>) = {} /\ Len(<<>>) = 0 /\ 1..0 = {}
  BY SMT DEF ToSet
<1>2. opened \in [UsbAddr -> Nat] /\ {hotplug, sigChan, ticker} \subseteq {0, 1}
  BY SMT DEF Init
<1>3. TypeOK
  BY <1>1, <1>2 DEF Init, TypeOK
<1>4. Distinct(<<>>)
  BY <1>1 DEF Distinct
<1>5. Retry = {} /\ devByAddr = {}
  BY DEF Init, Retry
<1>6. StatusRight
  BY <1>5 DEF Init, StatusRight
<1> QED
  BY <1>1, <1>3, <1>4, <1>5, <1>6, ZenonT(30) DEF Init, PnPInv

\* A step keeps the account of the devices, if lists are sorted.
LEMMA StepKnown ==
  ASSUME PnPInv, OpenedInv, OpenedInv', Sorted(devices), Sorted(devices'), [Next]_vars
  PROVE  PnPInv'
<1>1. CASE Next
  BY <1>1, EventKnown, ScanKnown, AddedKnown, RemovedKnown, RetryKnown, TailKnown, ZenonT(30)
     DEF Next, PassStep
<1>2. CASE UNCHANGED vars
  <2>1. Retry' = Retry
    BY <1>2 DEF vars, tabVars, Retry
  <2>2. TypeOK'
    BY <1>2 DEF PnPInv, TypeOK, vars, busVars, passVars, tabVars, evVars, runVars
  <2> QED
    BY <1>2, <2>1, <2>2 DEF PnPInv, StatusRight, vars, passVars, tabVars
<1> QED
  BY <1>1, <1>2

\* The account is what the status table and the two maps should agree on.
LEMMA KnownConsistent == PnPInv => PnPConsistent
<1> SUFFICES ASSUME PnPInv PROVE PnPConsistent
  OBVIOUS
<1>1. ToSet(<<>>) = {}
  BY SMT DEF ToSet
<1>2. ASSUME pc \in {"wait", "PnPIdle"} PROVE devByAddr \cup Retry = ToSet(devices)
  BY <1>1, <1>2 DEF PnPInv
<1>3. pc = "PnPIdle" => devByAddr = {}
  BY <1>1, <1>2 DEF PnPInv
<1> QED
  BY <1>2, <1>3 DEF PnPInv, PnPConsistent, StatusRight

\* With any number of devices, PnPStart's maps and the status table agree with
\* its list of devices as long as that list is sorted.
THEOREM ConsistentIfSorted == Spec /\ []Sorted(devices) => []PnPConsistent
<1>1. /\ PnPInv /\ OpenedInv /\ OpenedInv' /\ Sorted(devices) /\ Sorted(devices)'
      /\ [Next]_vars
      => PnPInv'
  BY StepKnown
<1> QED
  BY <1>1, InitKnown, KnownConsistent, OpenedInvariant, PTL DEF Spec

\* The bus has MaxPresent devices at most.
BusInv == Present \subseteq UsbAddr /\ Cardinality(Present) <= MaxPresent

\* Two devices, or one, come to a sorted list.
SortedInv == BusInv /\ bus \in [UsbAddr -> Device \cup {"absent"}] /\ Sorted(devices)

\* Devices come and go, within the bound.
LEMMA BusBound ==
  ASSUME SortedInv, NEW a \in UsbAddr, Plug(a) \/ Unplug(a) \/ Recover(a)
  PROVE  SortedInv'
<1>1. devices' = devices
  BY DEF Plug, Unplug, Recover, passVars
<1>2. bus' \in [UsbAddr -> Device \cup {"absent"}]
  BY DEF Plug, Unplug, Recover, SortedInv, Device
<1>3. IsFiniteSet(Present)
  BY AddrAssumption, FS_Subset DEF SortedInv, BusInv
<1>4. Cardinality(Present) \in Nat /\ Cardinality(Present) <= MaxPresent /\ MaxPresent \in Nat
  BY <1>3, FS_CardinalityType, AddrAssumption DEF SortedInv, BusInv
<1>5. CASE Plug(a)
  <2>1. Present' = Present \cup {a} /\ a \notin Present
    BY <1>5 DEF Plug, Present, SortedInv, Device
  <2>2. Cardinality(Present') = Cardinality(Present) + 1
    BY <1>3, <2>1, FS_AddElement
  <2>3. Cardinality(Present) < MaxPresent
    BY <1>5 DEF Plug
  <2>4. Cardinality(Present') <= MaxPresent
    BY <1>4, <2>2, <2>3, SMTT(30)
  <2> QED
    BY <1>1, <1>2, <2>1, <2>4 DEF SortedInv, BusInv
<1>6. CASE Unplug(a)
  <2>1. Present' = Present \ {a} /\ a \in Present
    BY <1>6 DEF Unplug, Present, SortedInv, Device
  <2>2. Cardinality(Present') = Cardinality(Present) - 1
    BY <1>3, <2>1, FS_RemoveElement
  <2>3. Cardinality(Present') <= MaxPresent
    BY <1>4, <2>2, SMT
  <2> QED
    BY <1>1, <1>2, <2>1, <2>3, ZenonT(30) DEF SortedInv, BusInv
<1>7. CASE Recover(a)
  <2>1. Present' = Present
    BY <1>7 DEF Recover, Present, SortedInv, Device
  <2> QED
    BY <1>1, <1>2, <2>1 DEF SortedInv, BusInv
<1> QED
  BY <1>5, <1>6, <1>7

\* With two devices at most, lists are sorted.
LEMMA SortedStep ==
  ASSUME MaxPresent <= 2, SortedInv, [Next]_vars PROVE SortedInv'
<1>1. CASE Scan
  <2>1. PICK order \in SetToSeqs(Present) : devices' = FoldLeft(Add, <<>>, order)
    <3>1. PICK list \in {FoldLeft(Add, <<>>, order) : order \in SetToSeqs(Present)} :
            devices' = list
      BY <1>1 DEF Scan
    <3> QED
      BY <3>1
  <2>2. bus' = bus
    BY <1>1 DEF Scan, busVars
  <2>3. /\ order \in Seq(Pair) /\ Distinct(order)
        /\ Len(order) = Cardinality(Present)
    BY Orders DEF SortedInv, BusInv
  <2>4. Len(order) \in Nat
    BY <2>3, Items
  <2>5. Len(order) <= MaxPresent
    BY <2>3 DEF SortedInv, BusInv
  <2>6. Len(order) <= 2
    BY <2>4, <2>5, AddrAssumption, SMT
  <2>7. Sorted(devices')
    BY <2>1, <2>3, <2>6, AddedAll, ZenonT(30)
  <2>8. Present' = Present
    BY <2>2 DEF Present
  <2> QED
    BY <2>2, <2>7, <2>8 DEF SortedInv, BusInv
<1>2. CASE \E a \in UsbAddr : Plug(a) \/ Unplug(a) \/ Recover(a)
  BY <1>2, BusBound
<1>3. CASE UNCHANGED <<bus, devices>>
  <2>1. Present' = Present
    BY <1>3 DEF Present
  <2> QED
    BY <1>3, <2>1 DEF SortedInv, BusInv
<1>4. \/ Scan \/ \E a \in UsbAddr : Plug(a) \/ Unplug(a) \/ Recover(a)
      \/ UNCHANGED <<bus, devices>>
  BY DEF Next, PassStep, ScanFails, HandleAdded, HandleRemoved, HandleRetry, UpdateTicker,
         Wait, CloseDone, CloseDevice, HotplugCallback, Tick, Signal, RetryExpire, vars,
         busVars, passVars
<1> QED
  BY <1>1, <1>2, <1>3, <1>4, ZenonT(30)

\* With two devices at most, every known device is served or waits for a retry,
\* and the status table says which.
THEOREM ConsistentForTwo ==
  ASSUME MaxPresent <= 2 PROVE Spec => []PnPConsistent
<1>1. Init => SortedInv
  <2> SUFFICES ASSUME Init PROVE SortedInv
    OBVIOUS
  <2>1. devices = <<>> /\ Len(<<>>) = 0 /\ 1..0 = {}
    BY SMT DEF Init
  <2>2. Sorted(devices)
    BY <2>1 DEF Sorted
  <2>3. Present \subseteq UsbAddr
    BY DEF Present
  <2> QED
    BY <2>2, <2>3 DEF Init, SortedInv, BusInv
<1>2. SortedInv /\ [Next]_vars => SortedInv'
  BY SortedStep
<1>3. SortedInv => Sorted(devices)
  BY DEF SortedInv
<1> QED
  BY <1>1, <1>2, <1>3, ConsistentIfSorted, PTL DEF Spec
=============================================================================
