------------------------------- MODULE IniFile -------------------------------
(***************************************************************************)
(* The reader of .INI files (inifile.go).  A file is a sequence of         *)
(* characters; "\n" is a newline, BEL, BS, ESC, VT, CTRL (another control  *)
(* character) and SHY (a soft hyphen) are those without a name in TLA+.    *)
(* Reading at the end of the file gives EOF.                               *)
(***************************************************************************)
EXTENDS Integers, Sequences, SequencesExt, TLC

CONSTANT EOF

isspace(c)   == c \in {" ", "\t", "\n", "\r"}
iscomment(c) == c \in {";", "#"}
isoctal(c)   == c \in {"0", "1", "2", "3", "4", "5", "6", "7"}
isxdigit(c)  == isoctal(c) \/ c \in {"a", "b", "c", "d", "e", "f",
                                     "A", "B", "C", "D", "E", "F"}

\* getc: the character at place p, the first one that is not read yet.
getc(text, p) == IF p > Len(text) THEN EOF ELSE text[p]

\* A backslash and this character, in a string.
Escape(c) ==
  CASE c = "n" -> "\n" [] c = "t" -> "\t" [] c = "r" -> "\r" [] c = "f" -> "\f"
    [] c = "a" -> "BEL" [] c = "b" -> "BS" [] c = "e" -> "ESC" [] c = "v" -> "VT"
    [] OTHER -> c

\* Mutant: the space before a comment is kept.
TruncateNone(buf, trail) == buf

\* buf.Truncate(buf.Len() - trailingSpace)
Truncate(buf, trail) == SubSeq(buf, 1, Len(buf) - trail)

\* token, from place p, with the rest of its variables in st: its result is
\* the character that ended the token, the token, and the next place.  At the
\* end of the file a backslash in a body is read again, for ever ("hangs").
RECURSIVE scan(_, _, _, _, _)
scan(text, delimiter, linecont, p, st) ==
  LET c       == getc(text, p)
      Go(st2) == scan(text, delimiter, linecont, p + 1, st2)
      Put(s, ch) == [st EXCEPT !.state = s, !.buf = Append(@, ch)]
      Cut(s)  == [st EXCEPT !.state = s, !.buf = Truncate(@, st.trail), !.trail = 0]
  IN
  IF c \in {EOF, "\n"} \/ (st.state \in {"space", "body"} /\ c = delimiter)
  THEN [c |-> c, next |-> p + 1, hangs |-> FALSE,
        token |-> Truncate(st.buf, st.trail),
        err |-> st.state \notin {"space", "body", "comment"}]
  ELSE
  CASE st.state = "space" /\ isspace(c) -> Go(st)
    [] st.state \in {"space", "body"} /\ ~(st.state = "space" /\ isspace(c)) ->
         CASE c = "\"" -> Go(Cut("string"))
           [] iscomment(c) -> Go(Cut("comment"))
           [] c = "\\" /\ linecont ->
                IF getc(text, p + 1) = EOF
                THEN [c |-> c, next |-> p, hangs |-> TRUE, token |-> <<>>, err |-> FALSE]
                ELSE IF text[p + 1] = "\n"
                THEN scan(text, delimiter, linecont, p + 2, Cut("space"))
                ELSE Go([st EXCEPT !.state = "body", !.trail = 0])
           [] OTHER -> Go([Put("body", c) EXCEPT !.trail =
                             IF isspace(c) THEN @ + 1 ELSE 0])
    [] st.state = "string" ->
         CASE c = "\\" -> Go([st EXCEPT !.state = "bslash"])
           [] c = "\"" -> Go([st EXCEPT !.state = "body"])
           [] OTHER -> Go(Put("string", c))
    [] st.state = "bslash" ->
         CASE c \in {"x", "X"} -> Go([st EXCEPT !.state = "hex"])
           [] isoctal(c) -> Go([st EXCEPT !.state = "octal", !.count = 1])
           [] OTHER -> Go(Put("string", Escape(c)))
    [] st.state = "hex" ->
         IF isxdigit(c) THEN Go(st)
         ELSE scan(text, delimiter, linecont, p, Put("string", c))
    [] st.state = "octal" ->
         IF ~isoctal(c) THEN scan(text, delimiter, linecont, p, Put("string", c))
         ELSE IF st.count = 2 THEN Go(Put("string", c))
         ELSE Go([st EXCEPT !.count = @ + 1])
    [] st.state = "comment" -> Go(st)

token(text, p, delimiter, linecont) ==
  scan(text, delimiter, linecont, p,
       [state |-> "space", buf |-> <<>>, trail |-> 0, count |-> 0])

\* getcNl: the place after the next newline.
RECURSIVE getcNl(_, _)
getcNl(text, p) ==
  IF getc(text, p) \in {EOF, "\n"} THEN p + 1 ELSE getcNl(text, p + 1)

\* Next, called until it fails: the records of type IniRecordKeyVal, and how
\* it ended, with "eof", "error" or never.
RECURSIVE Records(_, _, _, _)
Records(text, p, section, recs) ==
  LET c == getc(text, p)
      End(how) == [recs |-> recs, end |-> how]
  IN
  CASE c = EOF -> End("eof")
    [] isspace(c) -> Records(text, p + 1, section, recs)
    [] iscomment(c) -> Records(text, getcNl(text, p + 1), section, recs)
    [] c = "[" ->
         LET t == token(text, p + 1, "]", FALSE)
         IN  Records(text, getcNl(text, t.next),
                     IF ~t.err /\ t.c = "]" THEN t.token ELSE section, recs)
    [] c = "=" -> End("error")
    [] OTHER ->
         LET k == token(text, p, "=", FALSE)
             v == token(text, k.next, EOF, TRUE)
         IN  IF k.err THEN Records(text, k.next, section, recs)
             ELSE IF k.c # "=" THEN End("error")
             ELSE IF v.hangs THEN End("never")
             ELSE Records(text, v.next, section,
                          IF v.err THEN recs
                          ELSE Append(recs, [section |-> section, key |-> k.token,
                                             value |-> v.token]))

Load(text) == Records(text, 1, <<>>, <<>>)

-----------------------------------------------------------------------------
(* What is written, for the reader to read.                                *)

\* A string between quotes, as the %q of DevState.Save writes it: characters
\* that cannot be printed are escaped, by number if they have no letter.  With
\* octal numbers it is what users may write.
Quote(s, octal) ==
  LET Letter == ("\n" :> "n") @@ ("\t" :> "t") @@ ("\r" :> "r") @@ ("\f" :> "f")
                  @@ ("BEL" :> "a") @@ ("BS" :> "b") @@ ("VT" :> "v")
      Written(c) ==
        CASE c \in {"\"", "\\"} -> <<"\\", c>>
          [] c \in DOMAIN Letter -> <<"\\", Letter[c]>>
          [] c = "CTRL" -> <<"\\">> \o (IF octal THEN <<"0", "0", "1">> ELSE <<"x", "0", "1">>)
          [] c = "SHY" -> <<"\\", "u", "0", "0", "a", "d">>
          [] OTHER -> <<c>>
  IN  <<"\"">> \o FoldLeft(LAMBDA acc, c : acc \o Written(c), <<>>, s) \o <<"\"">>

\* A value, written plainly, between quotes, or on two lines.
Write(form, s) ==
  CASE form = "plain" -> s
    [] form = "quoted" -> Quote(s, FALSE)
    [] form = "octal" -> Quote(s, TRUE)
    [] form = "split" -> SubSeq(s, 1, 1) \o <<" ", "\\", "\n", "\t">> \o SubSeq(s, 2, Len(s))

\* A string that needs no quotes.
Plain(s) ==
  /\ \A i \in DOMAIN s : s[i] \notin {"\"", "\\", ";", "#", "\n"}
  /\ s # <<>> => ~isspace(Head(s)) /\ ~isspace(Last(s))

\* A line for a key, with space and a comment.
Line(key, form, value, tail) ==
  <<" ">> \o key \o <<" ", "=", " ">> \o Write(form, value) \o tail \o <<"\n">>
=============================================================================
