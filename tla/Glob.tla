-------------------------------- MODULE Glob --------------------------------
(***************************************************************************)
(* How a section of a quirks file is matched with a device: by model name, *)
(* with wildcards (glob.go), or by hardware ID (hwid.go).  A string is a   *)
(* sequence of characters.                                                 *)
(***************************************************************************)
EXTENDS Integers, Sequences

\* Drops the leading asterisks of a pattern.
RECURSIVE SkipStars(_)
SkipStars(pattern) ==
  IF pattern # <<>> /\ Head(pattern) = "*" THEN SkipStars(Tail(pattern))
                                           ELSE pattern

\* The end of the function, after its loop.
globEnd(str, pattern, count) ==
  IF str = <<>> /\ SkipStars(pattern) = <<>> THEN count ELSE -1

\* One turn of the loop, and those that follow.  An asterisk tries every place
\* of str; if none fits, the loop goes on with the rest of the pattern.
RECURSIVE globMatchInternal(_, _, _)
globMatchInternal(str, pattern, count) ==
  IF str = <<>> \/ pattern = <<>> THEN globEnd(str, pattern, count)
  ELSE LET p == Head(pattern)
           rest == Tail(pattern)
           Literal(c, pat) ==
             IF Head(str) # c THEN -1
                              ELSE globMatchInternal(Tail(str), pat, count + 1)
       IN
       CASE p = "*" ->
              LET pat    == SkipStars(rest)
                  sub(i) == globMatchInternal(SubSeq(str, i, Len(str)), pat, count)
                  hits   == {i \in 1..Len(str) : sub(i) >= 0}
              IN  IF pat = <<>> THEN count
                  ELSE IF hits # {} THEN sub(CHOOSE i \in hits : \A j \in hits : i <= j)
                  ELSE globMatchInternal(str, pat, count)
         [] p = "?" -> globMatchInternal(Tail(str), rest, count)
         [] p = "\\" -> IF rest = <<>> THEN -1 ELSE Literal(Head(rest), Tail(rest))
         [] OTHER -> Literal(p, rest)

GlobMatch(str, pattern) == globMatchInternal(str, pattern, 0)

\* HWIDPattern.Match; pid is "*" in a pattern for any product.
HWIDMatch(p, vid, pid) ==
  IF ~(vid = p.vid /\ (p.pid = "*" \/ pid = p.pid)) THEN -1
  ELSE IF p.pid = "*" THEN 1
  ELSE 1000

-----------------------------------------------------------------------------
(* What the comments say: ? is one character, * any sequence of them, \C   *)
(* and C the character C.                                                  *)

Item(kind, ch) == [kind |-> kind, ch |-> ch]

\* The elements of a pattern; a backslash at the end is one that fits nothing.
RECURSIVE Items(_)
Items(pattern) ==
  IF pattern = <<>> THEN <<>>
  ELSE LET p == Head(pattern)  rest == Tail(pattern) IN
       CASE p = "*" -> <<Item("any", "")>> \o Items(rest)
         [] p = "?" -> <<Item("one", "")>> \o Items(rest)
         [] p = "\\" /\ rest = <<>> -> <<Item("never", "")>>
         [] p = "\\" /\ rest # <<>> -> <<Item("lit", Head(rest))>> \o Items(Tail(rest))
         [] OTHER -> <<Item("lit", p)>> \o Items(rest)

\* A piece of the string fits an element.
Fits(piece, item) ==
  \/ item.kind = "any"
  \/ item.kind = "one" /\ Len(piece) = 1
  \/ item.kind = "lit" /\ piece = <<item.ch>>

\* The string can be cut into pieces that fit the elements of the pattern.
Matches(str, pattern) ==
  LET items == Items(pattern)  n == Len(items) IN
  \E cut \in [0..n -> 0..Len(str)] :
    /\ cut[0] = 0 /\ cut[n] = Len(str)
    /\ \A i \in 1..n : /\ cut[i - 1] <= cut[i]
                       /\ Fits(SubSeq(str, cut[i - 1] + 1, cut[i]), items[i])

Literals(pattern) == Len(SelectSeq(Items(pattern), LAMBDA x : x.kind = "lit"))
=============================================================================
