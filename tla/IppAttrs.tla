------------------------------ MODULE IppAttrs ------------------------------
(***************************************************************************)
(* What a printer's answer to Get-Printer-Attributes makes of its DNS-SD   *)
(* service (ipp.go, paper.go and the TXT record of dnssd.go).  The answer  *)
(* is a sequence of attributes, each with a name and a sequence of values. *)
(* A value has a type and, by its type, a text (with a language or not), a *)
(* Boolean, or the x and y dimensions of a collection.  A text is a        *)
(* sequence of characters, or of the fields of a device ID.  Items of the  *)
(* TXT record that are constants (air, rp, priority, qtotal, txtvers) are  *)
(* left out, and of IppPrinterInfo the icon, which the record has not.     *)
(***************************************************************************)
EXTENDS Text

CONSTANT PdlRoom    \* what is left for the value of pdl in a TXT record

\* newIppAttrs: of attributes with the same name the first one wins.
newIppAttrs(input) ==
  [n \in {input[i].name : i \in DOMAIN input} |->
     input[CHOOSE i \in DOMAIN input :
             input[i].name = n /\ \A j \in 1..i - 1 : input[j].name # n].values]

\* The values of an attribute; none if it is missing.
Values(attrs, name) == IF name \in DOMAIN attrs THEN attrs[name] ELSE <<>>

Map(s, F(_)) == [i \in DOMAIN s |-> F(s[i])]

\* strings.ToLower, and strings.HasPrefix with "en", of a language.
LowerLang(lang) == IF lang = "EN" THEN "en" ELSE lang
HasPrefixEn(lang) == lang \in {"en", "en-us", "en-gb"}

\* getStrings: strings without a language, or those of the best language.
getStrings(vals) ==
  LET plain   == SelectSeq(vals, LAMBDA v : v.type = "string")
      tagged  == SelectSeq(vals, LAMBDA v : v.type = "lang")
      langs   == Map(tagged, LAMBDA v : LowerLang(v.lang))
      english == SelectSeq(langs, HasPrefixEn)
      ByLang(l) == Map(SelectSeq(tagged, LAMBDA v : LowerLang(v.lang) = l),
                       LAMBDA v : v.text)
  IN  IF plain # <<>> THEN Map(plain, LAMBDA v : v.text)
      ELSE IF langs = <<>> THEN <<>>
      ELSE IF "en" \in ToSet(langs) THEN ByLang("en")
      ELSE IF "en-us" \in ToSet(langs) THEN ByLang("en-us")
      ELSE ByLang(IF english # <<>> THEN english[1] ELSE langs[1])

strSingle(attrs, name) ==
  LET strs == getStrings(Values(attrs, name))
  IN  IF strs = <<>> THEN <<>> ELSE strs[1]

strJoined(attrs, name) ==
  LET strs == getStrings(Values(attrs, name))
  IN  FlattenSeq([i \in DOMAIN strs |-> (IF i > 1 THEN <<",">> ELSE <<>>) \o strs[i]])

strBrackets(attrs, name) ==
  LET str == strSingle(attrs, name)
  IN  IF str = <<>> THEN <<>> ELSE <<"(">> \o str \o <<")">>

\* getAttr: values of a type, if the first value has it.
getAttr(attrs, type, name) ==
  LET vals == Values(attrs, name)
  IN  IF vals # <<>> /\ vals[1].type = type
      THEN SelectSeq(vals, LAMBDA v : v.type = type) ELSE <<>>

getBool(attrs, name) ==
  LET vals == getAttr(attrs, "bool", name)
  IN  IF vals = <<>> THEN <<>> ELSE IF vals[1].bool THEN <<"T">> ELSE <<"F">>

getDuplex(attrs) ==
  LET first == {Head(v.text) : v \in
                  {v \in ToSet(getAttr(attrs, "string", "sides-supported")) : v.text # <<>>}}
  IN  IF "two" \in first THEN <<"T">> ELSE IF "one" \in first THEN <<"F">> ELSE <<>>

-----------------------------------------------------------------------------
(* Paper sizes, in 1/100 mm, as pairs of width and height.                 *)

Paper == [Legal |-> <<21590, 35560>>, A4 |-> <<21000, 29700>>,
          Tabloid |-> <<27940, 43180>>, A3 |-> <<29700, 42000>>,
          C |-> <<43180, 55880>>, A2 |-> <<42000, 59400>>]

PaperLess(p, q) ==
  \/ p[1] < q[1] /\ p[2] <= q[2]
  \/ p[2] < q[2] /\ p[1] <= q[1]

Classify(p) ==
  LET Larger(a)  == PaperLess(Paper[a], p)
      Smaller(a) == PaperLess(p, Paper[a])
  IN  IF Larger("C") \/ Larger("A2") THEN <<">isoC-A2">>
      ELSE IF ~Smaller("C") \/ ~Smaller("A2") THEN <<"isoC-A2">>
      ELSE IF ~Smaller("Tabloid") \/ ~Smaller("A3") THEN <<"tabloid-A3">>
      ELSE IF ~Smaller("Legal") \/ ~Smaller("A4") THEN <<"legal-A4">>
      ELSE <<"<legal-A4">>

\* The greatest width and the greatest height, from whichever sizes; a
\* dimension that is missing or of another type is 0.
getPaperMax(attrs) ==
  LET sizes == ToSet(getAttr(attrs, "collection", "media-size-supported"))
      Dim(D(_)) == Max({0} \cup {D(s) : s \in sizes})
      max == <<Dim(LAMBDA s : s.x), Dim(LAMBDA s : s.y)>>
  IN  IF 0 \in {max[1], max[2]} THEN <<>> ELSE Classify(max)

-----------------------------------------------------------------------------

\* bytes.ToLower, and the hexadecimal digits, of the characters that UUIDs are
\* made of here.
LowerChar(c) == CASE c = "A" -> "a" [] c = "U" -> "u" [] OTHER -> c
IsHex(c) == c \in {"0", "a", "d"}

CutPrefix(prefix, text) ==
  IF IsPrefix(prefix, text) THEN SubSeq(text, Len(prefix) + 1, Len(text)) ELSE text

\* UUIDNormalize: the 32 digits in their groups, whatever is between them.
UUIDNormalize(uuid) ==
  LET in  == Map(uuid, LowerChar)
      buf == SelectSeq(CutPrefix(<<"u", "u", "i", "d", ":">>,
                                 CutPrefix(<<"u", "r", "n", ":">>, in)), IsHex)
  IN  IF Len(buf) # 32 THEN <<>>
      ELSE SubSeq(buf, 1, 8) \o <<"-">> \o SubSeq(buf, 9, 12) \o <<"-">>
             \o SubSeq(buf, 13, 16) \o <<"-">> \o SubSeq(buf, 17, 20) \o <<"-">>
             \o SubSeq(buf, 21, 32)

\* The fields of a device ID; the last one of a key wins.
DevID(id, key) ==
  LET is == {i \in DOMAIN id : id[i][1] = key}
  IN  IF is = {} THEN <<>> ELSE <<id[Max(is)][2]>>

\* Add and AddURL, IfNotEmpty and URLIfNotEmpty.
Add(key, value) == <<[key |-> key, value |-> value, url |-> key = "adminurl"]>>
IfNotEmpty(key, value) == IF value = <<>> THEN <<>> ELSE Add(key, value)

FirstOf(strs) ==
  LET some == SelectSeq(strs, LAMBDA s : s # <<>>)
  IN  IF some = <<>> THEN <<>> ELSE some[1]

\* decode: the name of the service and its TXT record.  Of the device that the
\* answer is from, usb has what it is called and the UUID made for it.
decode(attrs, usb) ==
  LET devid == strSingle(attrs, "printer-device-id")
      model == strSingle(attrs, "printer-make-and-model")
      pdl   == AddPDL(PdlRoom, strJoined(attrs, "document-format-supported"))
  IN  [name |-> FirstOf(<<strSingle(attrs, "printer-dns-sd-name"), model,
                          strSingle(attrs, "printer-info"), usb.MakeAndModel>>),
       txt |-> IfNotEmpty("mopria-certified", strSingle(attrs, "mopria-certified"))
                 \o IfNotEmpty("kind", strJoined(attrs, "printer-kind"))
                 \o IfNotEmpty("PaperMax", getPaperMax(attrs))
                 \o IfNotEmpty("URF", FirstOf(<<strJoined(attrs, "urf-supported"),
                                                DevID(devid, "URF")>>))
                 \o IfNotEmpty("UUID", FirstOf(<<UUIDNormalize(strSingle(attrs, "printer-uuid")),
                                                 usb.UUID>>))
                 \o IfNotEmpty("Color", getBool(attrs, "color-supported"))
                 \o IfNotEmpty("Duplex", getDuplex(attrs))
                 \o Add("note", strSingle(attrs, "printer-location"))
                 \o IfNotEmpty("usb_MDL", DevID(devid, "MDL"))
                 \o IfNotEmpty("usb_MFG", DevID(devid, "MFG"))
                 \o IfNotEmpty("usb_CMD", DevID(devid, "CMD"))
                 \o IfNotEmpty("ty", model)
                 \o IfNotEmpty("product", strBrackets(attrs, "printer-make-and-model"))
                 \o FlattenSeq(Map(pdl, LAMBDA v : Add("pdl", v)))
                 \o IfNotEmpty("adminurl", strSingle(attrs, "printer-more-info"))]
=============================================================================
