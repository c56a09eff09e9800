------------------------------- MODULE Quirks -------------------------------
(***************************************************************************)
(* Quirks files and the choice of quirks for a device (quirks.go).  A file *)
(* is a sequence of .INI records.  The match of a section is a record:     *)
(* kind "hwid" with vid and pid, or kind "glob" with a pattern (what       *)
(* ParseHWIDPattern tells apart).  Names of quirks are atoms.  A value is a *)
(* sequence: the characters of a model name, or one word.                  *)
(***************************************************************************)
EXTENDS Glob, FiniteSets, SequencesExt

Section(match) == [type |-> "section", match |-> match]
KeyVal(name, value) == [type |-> "keyval", name |-> name, value |-> value]

Known == {"blacklist", "init-reset", "mfg", "model"}

isHTTP(name) == name \in {"http-Accept", "http-accept"}

ToLower(name) == IF name = "http-Accept" THEN "http-accept" ELSE name

\* The parse methods of the known quirks.
parse(name, value, isHWID) ==
  \/ name = "blacklist" /\ value \in {<<"true">>, <<"false">>}
  \/ name = "init-reset" /\ value \in {<<"none">>, <<"hard">>} \cup
                                      (IF isHWID THEN {} ELSE {<<"soft">>})
  \/ name \in {"mfg", "model"}

\* A section as loaded: its quirks, by name.
NewQuirks == [byName |-> <<>>, headers |-> <<>>, weights |-> <<>>]

\* f with f[k] = v.
With(f, k, v) == [x \in DOMAIN f \cup {k} |-> IF x = k THEN v ELSE f[x]]

\* put: HTTP headers are kept by name too.
put(quirks, q) ==
  [quirks EXCEPT !.byName = With(@, q.name, q),
                 !.headers = IF isHTTP(q.name) THEN With(@, q.name, q.value) ELSE @]

\* One record of readFile.  "order" is loadOrder, of this file.
readRecord(st, rec) ==
  CASE st.err -> st
    [] ~st.err /\ rec.type = "section" ->
         [st EXCEPT !.db = Append(@, NewQuirks), !.match = rec.match,
                    !.inSection = TRUE]
    [] ~st.err /\ rec.type = "keyval" ->
         LET q == [name |-> ToLower(rec.name), value |-> rec.value,
                   match |-> st.match, order |-> st.order]
         IN  IF ~st.inSection \/ rec.name \in DOMAIN Last(st.db).byName
             THEN [st EXCEPT !.err = TRUE]
             ELSE IF ~isHTTP(rec.name) /\ rec.name \notin Known
             THEN [st EXCEPT !.order = @ + 1]
             ELSE IF ~isHTTP(rec.name) /\ ~parse(rec.name, rec.value, st.match.kind = "hwid")
             THEN [st EXCEPT !.err = TRUE]
             ELSE [st EXCEPT !.order = @ + 1,
                             !.db = Append(Front(@), put(Last(@), q))]

readFile(st, file) ==
  FoldLeft(readRecord, [st EXCEPT !.inSection = FALSE, !.order = 0], file)

\* LoadQuirksSet, for the files of its directories in order.
LoadQuirksSet(files) ==
  FoldLeft(readFile,
           [db |-> <<>>, err |-> FALSE, inSection |-> FALSE, order |-> 0,
            match |-> [kind |-> "none"]],
           files)

\* Mutant: the less specific match wins.
prioritizeAndSaveLess(quirks, q, weight) ==
  IF q.name \notin DOMAIN quirks.byName \/ weight < quirks.weights[q.name]
  THEN [put(quirks, q) EXCEPT !.weights = With(@, q.name, weight)]
  ELSE quirks

prioritizeAndSave(quirks, q, weight) ==
  IF \/ q.name \notin DOMAIN quirks.byName
     \/ weight > quirks.weights[q.name]
     \/ /\ weight = quirks.weights[q.name]
        /\ q.order > quirks.byName[q.name].order
  THEN [put(quirks, q) EXCEPT !.weights = With(@, q.name, weight)]
  ELSE quirks

\* All quirks of the data base go through prioritizeAndSave, unless their
\* weight is negative.  The order within a section does not matter, as its
\* names are different.
Pull(quirks, db, Weight(_)) ==
  LET all == FoldLeft(LAMBDA qs, sec : qs \o SetToSeq(Range(sec.byName)), <<>>, db)
  IN  FoldLeft(LAMBDA acc, q : IF Weight(q) >= 0 THEN prioritizeAndSave(acc, q, Weight(q))
                                                 ELSE acc,
               quirks, all)

PullByHWID(quirks, db, vid, pid) ==
  Pull(quirks, db, LAMBDA q : IF q.match.kind = "hwid"
                              THEN HWIDMatch(q.match, vid, pid) ELSE -1)

PullByModelName(quirks, db, model) ==
  Pull(quirks, db, LAMBDA q : IF q.match.kind = "glob"
                              THEN 2 * GlobMatch(model, q.match.pattern) ELSE -1)

\* The value of a quirk, or its default.
Get(quirks, name, default) ==
  IF name \in DOMAIN quirks.byName THEN quirks.byName[name].value ELSE default

\* UsbDeviceInfo.MakeAndModel, of names without space around them.
MakeAndModel(mfg, prod) ==
  IF mfg # <<>> /\ ~IsPrefix(mfg, prod) THEN mfg \o <<" ">> \o prod ELSE prod

\* The quirks of a device, as NewUsbTransport collects them.  It returns before
\* quirks by model name are looked for if the hardware ID is blacklisted, and
\* looks for the model that quirks by hardware ID tell, if they do.
DeviceQuirks(db, dev) ==
  LET quirks == PullByHWID(NewQuirks, db, dev.vid, dev.pid)
      Tell(name, reported) == LET v == Get(quirks, name, <<>>)
                              IN  IF v # <<>> THEN v ELSE reported
      model == MakeAndModel(Tell("mfg", dev.mfg), Tell("model", dev.product))
  IN  IF Get(quirks, "blacklist", <<"false">>) = <<"true">> THEN quirks
      ELSE PullByModelName(quirks, db, model)
=============================================================================
