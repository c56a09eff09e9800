------------------------------- MODULE MCConf -------------------------------
(***************************************************************************)
(* The pure functions of the .INI reader, of quirks, of authentication     *)
(* rules, of USB descriptors, of printer attributes and of log lines, each *)
(* checked against a reference over all inputs up to a size.  A behaviour  *)
(* takes an input and computes the result of the code for it.              *)
(***************************************************************************)
EXTENDS Quirks, Auth, IniFile, UsbDesc, IppAttrs

CONSTANTS
  PatternLen,   \* bound on glob patterns of sections that overlap
  ModelLen,     \* bound on model names
  ValueLen,     \* bound on values of .INI files
  TextLen       \* bound on texts

VARIABLES input, result

vars == <<input, result>>

\* Sequences over S of at most n items.
UpTo(S, n) == UNION {[1..k -> S] : k \in 0..n}

-----------------------------------------------------------------------------
(* Quirks: two sections, in one file or in two, for a device.              *)

Glob(pattern) == [kind |-> "glob", pattern |-> pattern]
HWID(vid, pid) == [kind |-> "hwid", vid |-> vid, pid |-> pid]

Match(n) == {Glob(p) : p \in UpTo({"a", "*", "?", "\\"}, n)}
              \cup {HWID("v", "p"), HWID("v", "q"), HWID("v", "*"), HWID("w", "*")}

Keys == {<<KeyVal("blacklist", <<"true">>)>>,
         <<KeyVal("no-such-quirk", <<"1">>), KeyVal("mfg", <<"b">>),
           KeyVal("blacklist", <<"false">>)>>,
         <<KeyVal("http-Accept", <<"x">>), KeyVal("blacklist", <<"true">>)>>,
         <<KeyVal("http-accept", <<"y">>), KeyVal("init-reset", <<"soft">>)>>,
         <<KeyVal("model", <<"b">>), KeyVal("init-reset", <<"hard">>)>>}

QuirkInput ==
  LET Sec(m, k) == <<Section(m)>> \o k
      Dev == [vid : {"v"}, pid : {"p"}, mfg : {<<"a">>},
              product : UpTo({"a", "b"}, ModelLen) \ {<<>>}]
  IN  {[kind |-> "quirks", files |-> fs, dev |-> d] : d \in Dev, fs \in
         {<<Sec(m1, k1) \o Sec(m2, k2)>> : m1 \in Match(PatternLen), m2 \in Match(1), k1, k2 \in Keys}
         \cup
         {<<Sec(m1, k1), Sec(m2, k2)>> : m1 \in Match(1), m2 \in Match(PatternLen), k1, k2 \in Keys}}

-----------------------------------------------------------------------------
(* Authentication: rules of two lines, and a request.                      *)

Names == [isGroup : BOOLEAN, name : {"*", "x", ""}]

AuthInput ==
  [kind : {"auth"},
   lines : UpTo({<<"all">>, <<"print", "scan">>, <<"copy">>} \X UpTo(Names, 1), 2)
             \cup ({<<"print">>} \X UpTo(Names, 2)) \X {<<<<"scan">>, <<>>>>},
   rq : [post : BOOLEAN, path : {"/ipp/print", "/ipp/faxout", "/eSCL"},
         local : BOOLEAN, supported : BOOLEAN,
         fails : {"none", "addrs", "uid", "lookup"},
         info : {[users |-> {"x"}, groups |-> {"y"}], [users |-> {"y"}, groups |-> {"x"}]}]]

Rules(lines) == FoldLeft(LAMBDA rs, l : LoadAuthUIDRules(rs, l[1], l[2]), <<>>, lines)

-----------------------------------------------------------------------------
(* .INI files: a section of two keys, after a key of no section.           *)

Value == UpTo({"a", "x", "7", " ", "\"", "\\", ";"}, ValueLen)
           \cup UpTo({"a", "x", "\"", "\n", "BEL", "CTRL", "SHY"}, 2)

Tail1 == {<<>>, <<" ", ";", "\"">>}

IniInput ==
  {[kind |-> "ini", forms |-> <<f1, f2>>, values |-> <<v1, v2>>, tail |-> t] :
     f1 \in {"plain", "quoted", "octal", "split"}, f2 \in {"plain", "quoted"},
     v1 \in Value, v2 \in UpTo({"a", ";"}, 2), t \in Tail1}

\* Only values that need no quotes are written without.
Writable(i) ==
  \A k \in 1..2 : /\ i.forms[k] \in {"plain", "split"} => Plain(i.values[k])
                  /\ i.forms[k] = "octal" => "CTRL" \in ToSet(i.values[k])
                  /\ i.forms[k] = "split" =>
                       Len(i.values[k]) > 1 /\ \A j \in DOMAIN i.values[k] : i.values[k][j] # " "

IniText(i) ==
  Line(<<"k">>, i.forms[1], i.values[1], i.tail)
    \o <<"[", " ", "s", "]", "#", "\n", "\n", ";", "=", "\n">>
    \o Line(<<"k">>, i.forms[1], i.values[1], i.tail)
    \o Line(<<"l">>, i.forms[2], i.values[2], i.tail)

-----------------------------------------------------------------------------

(* USB devices: two configurations of two interfaces, the first of which   *)
(* may have two alternate settings.                                        *)

Ep(num, dir) == [num |-> num, dir |-> dir]

AltKind ==
  {[class |-> "7/1/4", endpoints |-> <<Ep(2, "out"), Ep(1, "in"), Ep(3, "in")>>],
   [class |-> "7/1/4", endpoints |-> <<Ep(1, "in")>>],
   [class |-> "255/9/1", endpoints |-> <<Ep(4, "in"), Ep(0, "out")>>],
   [class |-> "3/1/1", endpoints |-> <<Ep(5, "in"), Ep(6, "out")>>]}

\* Interfaces and alternate settings with their numbers.
Ifaces ==
  {[i \in DOMAIN ks |-> [a \in DOMAIN ks[i] |->
      [num |-> i - 1, alt |-> a - 1, class |-> ks[i][a].class,
       endpoints |-> ks[i][a].endpoints]]] :
     ks \in {<<k>> : k \in UpTo(AltKind, 2) \ {<<>>}}
            \cup {<<k, <<l>>>> : k \in UpTo(AltKind, 2) \ {<<>>}, l \in AltKind}}

DescInput ==
  {[kind |-> "desc", dev |-> [vendor |-> v, configs |->
      <<[value |-> 1, readable |-> r, ifaces |-> i1],
        [value |-> 2, readable |-> TRUE, ifaces |-> i2]>>]] :
     v \in {"HP", "other"}, r \in BOOLEAN, i1, i2 \in Ifaces}

-----------------------------------------------------------------------------
(* Printer attributes: values of one attribute, paper sizes, and answers   *)
(* of three attributes.                                                    *)

Str(text)        == [type |-> "string", text |-> text]
Tagged(lang, t)  == [type |-> "lang", lang |-> lang, text |-> t]
Bool(b)          == [type |-> "bool", bool |-> b]
Size(x, y)       == [type |-> "collection", x |-> x, y |-> y]

\* A UUID's digits, with a dash before every fourth.
Digits(n) ==
  FlattenSeq([i \in 1..n |-> (IF i % 4 = 0 THEN <<"-">> ELSE <<>>)
                               \o <<IF i % 3 = 0 THEN "A" ELSE "0">>])

ValidUUID == <<"U", "r", "n", ":", "u", "u", "i", "d", ":">> \o Digits(32)

\* Each value has a text of its own.
StringsInput ==
  [kind : {"strings"},
   vals : {[i \in DOMAIN ls |-> CASE ls[i] = "string" -> Str(<<i>>)
                                  [] ls[i] = "bool" -> Bool(TRUE)
                                  [] OTHER -> Tagged(ls[i], <<i>>)] :
             ls \in UpTo({"string", "bool", "EN", "en", "en-us", "en-gb", "de"}, TextLen)}]

Dims == {0, 21000, 21590, 29700, 35560, 42000, 43180, 55880, 59400, 59401}

PaperInput ==
  [kind : {"paper"}, sizes : UpTo({Size(x, y) : x, y \in Dims}, 2)
                               \cup {<<Size(p[1], p[2])>> : p \in Range(Paper)}]

Attrs ==
  LET A(name, values) == [name |-> name, values |-> values] IN
  {A("printer-location", <<Bool(TRUE), Str(<<"l">>)>>), A("printer-more-info", <<Str(<<"h">>)>>),
   A("printer-uuid", <<Str(ValidUUID)>>),
   A("printer-uuid", <<Str(<<"u", "u", "i", "d", ":", "u", "u", "i", "d", ":">> \o Digits(32))>>),
   A("printer-uuid", <<Str(<<"{">> \o Digits(31) \o <<"}">>)>>),
   A("printer-kind", <<Str(<<"p">>), Str(<<"q">>)>>), A("mopria-certified", <<Str(<<"1">>)>>),
   A("printer-dns-sd-name", <<Str(<<"n">>)>>), A("printer-dns-sd-name", <<Str(<<>>)>>),
   A("printer-make-and-model", <<Str(<<"m">>)>>), A("printer-info", <<Str(<<"i">>)>>),
   A("urf-supported", <<Str(<<"u">>), Str(<<"v">>)>>), A("urf-supported", <<Bool(TRUE)>>),
   A("printer-device-id", <<Str(<<<<"URF", "x">>, <<"MFG", "y">>, <<"URF", "z">>>>)>>),
   A("printer-device-id", <<Str(<<<<"MDL", "y">>>>)>>),
   A("color-supported", <<Bool(FALSE), Bool(TRUE)>>), A("color-supported", <<Str(<<"u">>)>>),
   A("sides-supported", <<Str(<<"one">>), Str(<<"two">>), Str(<<>>)>>),
   A("sides-supported", <<Bool(TRUE), Str(<<"two">>)>>),
   A("document-format-supported", <<Str(<<"a", "b">>), Str(<<"c", "d">>), Str(<<"e">>)>>),
   A("document-format-supported", <<Str(<<"a", "b", "c", "d", "e", "f">>)>>),
   A("media-size-supported", <<Size(21000, 29700), Size(0, 0)>>)}

AttrsInput ==
  [kind : {"attrs"}, attrs : UpTo(Attrs, 3), usb : [MakeAndModel : {<<"w">>, <<>>}, UUID : {<<"s">>}]]

-----------------------------------------------------------------------------

TextInput ==
  [kind : {"lines"}, prefix : {<<>>, <<">">>}, writes : UpTo(UpTo({"a", "\n"}, TextLen), 2)]
    \cup [kind : {"pdl"}, max : 0..TextLen + 1, value : UpTo({"a", ","}, TextLen + 2)]

Input ==
  QuirkInput \cup AuthInput \cup {i \in IniInput : Writable(i)} \cup TextInput
    \cup DescInput \cup StringsInput \cup PaperInput \cup AttrsInput

PaperMaxOf(sizes) == getPaperMax("media-size-supported" :> sizes)

\* What the code computes.
Compute(i) ==
  CASE i.kind = "quirks" ->
         LET st == LoadQuirksSet(i.files)
         IN  [err |-> st.err,
              quirks |-> IF st.err THEN NewQuirks ELSE DeviceQuirks(st.db, i.dev)]
    [] i.kind = "auth" -> AuthHTTPRequest(Rules(i.lines), i.rq)
    [] i.kind = "ini" -> Load(IniText(i))
    [] i.kind = "desc" -> UsbGetIppOverUsbDeviceDesc(i.dev)
    [] i.kind = "strings" -> getStrings(i.vals)
    [] i.kind = "paper" -> PaperMaxOf(i.sizes)
    [] i.kind = "attrs" -> decode(newIppAttrs(i.attrs), i.usb)
    [] i.kind = "lines" -> LinesOf(i.prefix, i.writes)
    [] i.kind = "pdl" -> AddPDL(i.max, i.value)

Init == input \in Input /\ result = <<>>

Next ==
  /\ result = <<>>
  /\ result' = <<Compute(input)>>
  /\ UNCHANGED input

Spec == Init /\ [][Next]_vars

Is(kind) == result # <<>> /\ input.kind = kind
-----------------------------------------------------------------------------
(* Properties.                                                             *)

\* The definitions of a quirk in the files, as <<match, value>>.
Definitions(files, name) ==
  UNION {LET f == files[i]
             Of(j) == Max({s \in 1..j : f[s].type = "section"})
         IN  {<<f[Of(j)].match, f[j].value>> :
                j \in {j \in DOMAIN f : f[j].type = "keyval" /\ ToLower(f[j].name) = name}}
         : i \in DOMAIN files}

\* What the manual says of the match of a section: whether it applies to a
\* device that is taken for a model, ...
Applies(m, dev, model) ==
  IF m.kind = "hwid" THEN m.vid = dev.vid /\ m.pid \in {"*", dev.pid}
                     ELSE Matches(model, m.pattern)

\* ... and how specific it is.
Specific(m) ==
  CASE m.kind = "hwid" /\ m.pid # "*" -> 1000
    [] m.kind = "hwid" /\ m.pid = "*" -> 1
    [] m.kind = "glob" -> IF Literals(m.pattern) = 0 THEN 0 ELSE 1 + Literals(m.pattern)

\* Values of the definitions than which none is more specific.
BestValues(defs) ==
  {d[2] : d \in {d \in defs : \A e \in defs : Specific(e[1]) <= Specific(d[1])}}

\* "Most specific match wins": a device has a quirk if a section that applies
\* to it defines the quirk, and its value is from a section than which no
\* other is more specific, in the order of the manual: the hardware ID, the
\* length of the part of the model name that is not a wildcard, the vendor,
\* the default.  The headers to override are those of these quirks.  What is
\* loaded by hardware ID comes first: "Model-name quirks will not be loaded if
\* device is blacklisted by HWID", and mfg and model "override identification
\* information, provided by the device, when searching quirks by the model
\* name".  Which of equally specific definitions wins is left open.
QuirkBest ==
  (Is("quirks") /\ ~result[1].err) =>
    LET quirks == result[1].quirks
        dev    == input.dev
        Early(name, default) ==
          LET defs == {d \in Definitions(input.files, name) :
                         d[1].kind = "hwid" /\ Applies(d[1], dev, <<>>)}
          IN  IF defs = {} THEN {default} ELSE BestValues(defs)
    IN
    \E black \in Early("blacklist", <<"false">>), mfg \in Early("mfg", dev.mfg),
       prod \in Early("model", dev.product) :
    \A name \in {"blacklist", "init-reset", "http-accept", "model"} :
      LET defs == {d \in Definitions(input.files, name) :
                     /\ Applies(d[1], dev, MakeAndModel(mfg, prod))
                     /\ black = <<"true">> => d[1].kind = "hwid"} IN
      /\ name \in DOMAIN quirks.byName <=> defs # {}
      /\ defs # {} =>
           LET q == quirks.byName[name] IN
           /\ <<q.match, q.value>> \in defs
           /\ \A d \in defs : Specific(d[1]) <= Specific(q.match)
           /\ name = "http-accept" => quirks.headers[name] = q.value

\* Of definitions that are equally specific, "the first definition wins" (the
\* manual), "first loaded wins" (the comment in prioritizeAndSave).  It does
\* not hold: the last one of a file wins.
FirstDefinitionWins ==
  (Is("quirks") /\ ~result[1].err /\ Len(input.files) = 1) =>
    LET f == input.files[1]
        q == result[1].quirks.byName
        Defines(i) == f[i].type = "keyval" /\ f[i].name = "blacklist"
        same == Cardinality({f[i].match : i \in {i \in DOMAIN f : f[i].type = "section"}}) = 1
    IN  (same /\ "blacklist" \in DOMAIN q) =>
          q["blacklist"].value = f[Min({i \in DOMAIN f : Defines(i)})].value

\* A request is granted if and only if there are no rules, or a rule allows
\* its operation to everybody or to the user of the client, known by name or
\* by group; nobody is known unless client and server are local.  That the
\* user is not looked up when no rule names one makes no difference, except
\* that the lookup cannot fail; a lookup that fails grants nothing.
AuthExact ==
  Is("auth") =>
    LET rq    == input.rq
        valid == {l \in ToSet(input.lines) : ToSet(l[1]) \subseteq AuthOpsAll \cup {"all"}}
        rules == UNION {{<<l[1], n>> : n \in {n \in ToSet(l[2]) : n.name # ""}} : l \in valid}
        known == rq.local /\ rq.supported
        For(n) == \/ n.name = "*"
                  \/ known /\ n.name \in IF n.isGroup THEN rq.info.groups ELSE rq.info.users
        allowed == \/ rules = {}
                   \/ \E r \in rules : For(r[2]) /\ {"all", Operation(rq)} \cap ToSet(r[1]) # {}
        named == \E r \in rules : r[2].name # "*"
        fails == \/ rq.fails = "addrs"
                 \/ rq.fails \in {"uid", "lookup"} /\ known /\ named
    IN  /\ (result[1] = 200) <=> (allowed /\ ~fails)
        /\ (result[1] = 403) <=> (~allowed /\ ~fails)

\* "Otherwise, status is appropriate for HTTP error response."  It does not
\* hold: the status is 0 when the user ID cannot be resolved.
AuthStatusValid == Is("auth") => result[1] \in {200, 403, 500}

\* A file is read as it was written: keys with the section above them, values
\* without the space around them, without quotes, escapes and comments, and
\* continued lines joined.  Names that DevState.Save writes with %q are read
\* back, quotes, backslashes and escapes by letter included, unless they have a
\* character that is escaped by number: instead of the number token puts the
\* character that ends it, and \u is not known.  No key and no other value is
\* affected.
IniExact ==
  Is("ini") =>
    LET Readable(k) == \/ input.forms[k] \in {"plain", "split"}
                       \/ {"CTRL", "SHY"} \cap ToSet(input.values[k]) = {}
        Right(rec, section, key, k) ==
          /\ rec.section = section /\ rec.key = key
          /\ rec.value = input.values[k] <=> Readable(k)
    IN  /\ result[1].end = "eof"
        /\ Len(result[1].recs) = 3
        /\ Right(result[1].recs[1], <<>>, <<"k">>, 1)
        /\ Right(result[1].recs[2], <<"s">>, <<"k">>, 1)
        /\ Right(result[1].recs[3], <<"s">>, <<"l">>, 2)

\* "Make sure we use the same configuration for all interfaces": a device is
\* found if the first of its configurations that has an alternate setting which
\* is IPP-over-USB, with an endpoint in each direction, has two of them, be
\* they of one interface or of two.  Then it is this configuration that is to
\* be set, and all its alternate settings of that kind, and none of another
\* configuration, are listed, each once, with such a pair of endpoints.
DescExact ==
  Is("desc") =>
    LET dev == input.dev
        Has(alt, ep, dir) == \E e \in ToSet(alt.endpoints) : e.num = ep /\ e.dir = dir
        Usable(alt) == /\ alt.class = "7/1/4" \/ (alt.class = "255/9/1" /\ dev.vendor = "HP")
                       /\ {e.dir : e \in ToSet(alt.endpoints)} = {"in", "out"}
        Alts(c) == {alt \in UNION {ToSet(iface) : iface \in ToSet(c.ifaces)} : Usable(alt)}
        with == {i \in DOMAIN dev.configs : dev.configs[i].readable /\ Alts(dev.configs[i]) # {}}
        conf == dev.configs[Min(with)]
    IN  IF with = {} \/ Cardinality(Alts(conf)) < 2 THEN result[1] = <<>>
        ELSE LET desc == result[1][1] IN
             /\ desc.Config = conf.value
             /\ Len(desc.IfAddrs) = Cardinality(Alts(conf))
             /\ \A alt \in Alts(conf) : \E i \in DOMAIN desc.IfAddrs :
                  LET a == desc.IfAddrs[i] IN
                  /\ a.Num = alt.num /\ a.Alt = alt.alt
                  /\ Has(alt, a.In, "in") /\ Has(alt, a.Out, "out")

\* "Ignore devices, if we don't have at least 2 IPP over USB interfaces."  It does
\* not hold: two alternate settings of one interface are enough.
TwoInterfaces ==
  (Is("desc") /\ result[1] # <<>>) =>
    \E i, j \in DOMAIN result[1][1].IfAddrs :
      result[1][1].IfAddrs[i].Num # result[1][1].IfAddrs[j].Num

\* How good a value is as a text: without a language, English, US English,
\* some English, any language.
Rank(v) ==
  CASE v.type = "string" -> 0
    [] v.type = "lang" /\ v.lang \in {"en", "EN"} -> 1
    [] v.type = "lang" /\ v.lang = "en-us" -> 2
    [] v.type = "lang" /\ v.lang = "en-gb" -> 3
    [] v.type = "lang" /\ v.lang = "de" -> 4
    [] OTHER -> 5

ClassOrder == <<<<>>, <<"<legal-A4">>, <<"legal-A4">>, <<"tabloid-A3">>, <<"isoC-A2">>,
                <<">isoC-A2">>>>

ClassRank(c) == CHOOSE i \in DOMAIN ClassOrder : ClassOrder[i] = c

\* What is advertised of a printer.  A text is in the best language there is,
\* with all values in that language and no others.  PaperMax has the class
\* that the table of paper.go gives standard sizes, and is not below the class
\* of any size the printer supports.  A field occurs at most once, is from the
\* first of duplicated attributes, and is not empty, except pdl and note, which
\* is there even when the printer has no location; the name is empty only if no
\* source has one.  There is always a UUID, the printer's in the standard form
\* or, if that has not 32 digits, the one made for the device.  Of a list that
\* is too long, AddPDL takes the longest part of whole entries that fits.
AdvertisedExact ==
  /\ Is("strings") =>
       LET vals == input.vals
           best == Min({Rank(vals[i]) : i \in DOMAIN vals} \cup {5})
       IN  result[1] = IF best = 5 THEN <<>>
                       ELSE Map(SelectSeq(vals, LAMBDA v : Rank(v) = best), LAMBDA v : v.text)
  /\ Is("paper") =>
       /\ \A s \in ToSet(input.sizes) :
            ClassRank(result[1]) >= ClassRank(PaperMaxOf(<<s>>))
       /\ \A n \in DOMAIN Paper :
            input.sizes = <<Size(Paper[n][1], Paper[n][2])>> =>
              result[1] = CASE n \in {"Legal", "A4"} -> <<"legal-A4">>
                            [] n \in {"Tabloid", "A3"} -> <<"tabloid-A3">>
                            [] n \in {"C", "A2"} -> <<"isoC-A2">>
  /\ Is("attrs") =>
       LET txt == result[1].txt
           first == {a \in ToSet(input.attrs) :
                       \E i \in DOMAIN input.attrs : input.attrs[i] = a /\
                         \A j \in 1..i - 1 : input.attrs[j].name # a.name}
           Texts(name) == UNION {{v.text : v \in {v \in ToSet(a.values) : v.type = "string"}} :
                                   a \in {a \in first : a.name = name}}
           names == UNION {Texts(n) : n \in {"printer-dns-sd-name", "printer-make-and-model",
                                               "printer-info"}} \cup {input.usb.MakeAndModel}
           ids   == UNION {ToSet(id) : id \in Texts("printer-device-id")}
           Of(key) == {txt[i].value : i \in {i \in DOMAIN txt : txt[i].key = key}}
       IN  /\ result[1].name \in names
           /\ result[1].name = <<>> => names = {<<>>}
           /\ \A i, j \in DOMAIN txt : txt[i].key = txt[j].key => i = j
           /\ \A i \in DOMAIN txt : txt[i].value = <<>> => txt[i].key \in {"pdl", "note"}
           /\ Of("note") = IF Texts("printer-location") = {} THEN {<<>>} ELSE Texts("printer-location")
           /\ \E uuid \in Of("UUID") :
                IF ValidUUID \in Texts("printer-uuid")
                THEN /\ Len(uuid) = 36
                     /\ \A i \in 1..36 : uuid[i] = "-" <=> i \in {9, 14, 19, 24}
                     /\ SelectSeq(uuid, IsHex) =
                          [i \in 1..32 |-> IF i % 3 = 0 THEN "a" ELSE "0"]
                ELSE uuid = input.usb.UUID
           /\ Of("product") = {<<"(">> \o m \o <<")">> : m \in Of("ty")}
           /\ (\E i \in DOMAIN txt : txt[i].key = "URF") <=>
                (Texts("urf-supported") # {} \/ \E f \in ids : f[1] = "URF")
           /\ \A i \in DOMAIN txt : txt[i].key = "pdl" => Len(txt[i].value) <= PdlRoom
  /\ Is("pdl") =>
       LET v == input.value
           ends == {n \in 0..input.max : n = Len(v) \/ (n < Len(v) /\ v[n + 1] = ",")}
       IN  IF ends = {} \/ (input.max = 0 /\ v # <<>>) THEN result[1] = <<>>
           ELSE result[1] = <<SubSeq(v, 1, Max(ends))>>

\* A text that a LineWriter gets becomes its lines, each with the prefix,
\* however the text is cut into writes: nothing is lost, doubled or joined.
LinesExact ==
  Is("lines") =>
    LET text == FlattenSeq(input.writes)
        n    == Len(input.prefix)
        join == FoldLeft(LAMBDA acc, l : acc \o SubSeq(l, n + 1, Len(l)) \o <<"\n">>,
                         <<>>, result[1])
    IN  /\ join = text \o (IF text = <<>> \/ Last(text) = "\n" THEN <<>> ELSE <<"\n">>)
        /\ \A i \in DOMAIN result[1] : /\ SubSeq(result[1][i], 1, n) = input.prefix
                                        /\ Places(result[1][i], "\n") = {}
=============================================================================
