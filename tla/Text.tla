-------------------------------- MODULE Text --------------------------------
(***************************************************************************)
(* Helpers that cut text into pieces: LineWriter (linewriter.go), which    *)
(* makes log lines of what is written to it, and AddPDL (dnssd.go), which  *)
(* fits a list into a TXT record.                                          *)
(***************************************************************************)
EXTENDS Integers, Sequences, SequencesExt

\* The places of a character in a text.
Places(text, c) == {i \in DOMAIN text : text[i] = c}

\* LineWriter.Write: the lines that are complete now, and the rest.
RECURSIVE LineWrite(_, _)
LineWrite(lw, text) ==
  LET ends == Places(text, "\n")
      l    == CHOOSE i \in ends : \A j \in ends : i <= j
      buf  == IF lw.buf = <<>> THEN lw.prefix ELSE lw.buf
  IN  IF text = <<>> THEN lw
      ELSE IF ends = {} THEN [lw EXCEPT !.buf = buf \o text]
      ELSE LineWrite([lw EXCEPT !.lines = Append(@, buf \o SubSeq(text, 1, l - 1)),
                                !.buf = <<>>],
                     SubSeq(text, l + 1, Len(text)))

\* Mutant: what has no newline at its end is lost.
LineCloseLoses(lw) == lw.lines

\* LineWriter.Close: the rest is a line too.
LineClose(lw) == IF lw.buf # <<>> THEN Append(lw.lines, lw.buf) ELSE lw.lines

\* The lines of a LineWriter after these writes and Close.
LinesOf(prefix, writes) ==
  LineClose(FoldLeft(LineWrite, [lines |-> <<>>, buf |-> <<>>, prefix |-> prefix], writes))

\* Mutant: the value is cut one character short.
AddPDLShort(max, value) ==
  IF max >= Len(value) THEN <<value>>
  ELSE IF max <= 0 \/ Places(SubSeq(value, 1, max), ",") = {} THEN <<>>
  ELSE <<SubSeq(value, 1,
                (CHOOSE i \in Places(SubSeq(value, 1, max), ",") :
                   \A j \in Places(SubSeq(value, 1, max), ",") : i >= j) - 1)>>

\* AddPDL: what is added for a value when its key leaves room for max bytes.
AddPDL(max, value) ==
  LET cut    == SubSeq(value, 1, max + 1)
      commas == Places(cut, ",")
  IN  IF max >= Len(value) THEN <<value>>
      ELSE IF max <= 0 \/ commas = {} THEN <<>>
      ELSE <<SubSeq(cut, 1, (CHOOSE i \in commas : \A j \in commas : i >= j) - 1)>>
=============================================================================
