----------------------------- MODULE Canonical -----------------------------
(***************************************************************************)
(* The JSON canonicalizer (internal/pkg/jsoncanonicalizer), called through *)
(* canonicalizer.MarshalCanonical for everything the agent signs and every *)
(* leaf a client hashes.  Transform is a hand-written recursive-descent    *)
(* parser that writes its output as it reads.                              *)
(*                                                                         *)
(* Texts, spellings and numbers are those of JSONTexts.  Once globalError  *)
(* is set the returned bytes mean nothing, so the operators below return   *)
(* Failed at the first error.                                              *)
(***************************************************************************)
EXTENDS JSONTexts

CONSTANTS Inputs  \* the texts MarshalCanonical is called with

VARIABLES
  data,   \* the argument of the call
  result  \* [called, err, text]

vars == <<data, result>>

Failed == [err |-> TRUE, i |-> 0, out |-> <<>>]
Parsed(i, out) == [err |-> FALSE, i |-> i, out |-> out]

(***************************************************************************)
(* Strings                                                                 *)
(***************************************************************************)
binaryEscapes == {92, 34, 8, 12, 10, 13, 9}

\* utf16.DecodeRune
DecodeRune(hi, lo) ==
  IF hi < 56320 /\ lo \in 56320..57343
  THEN (hi - 55296) * 1024 + (lo - 56320) + 65536
  ELSE ReplacementChar

\* parseQuotedString from the k-th unit of the spelling on.
RECURSIVE parseQuotedString(_, _, _)
parseQuotedString(spelling, k, raw) ==
  IF k > Len(spelling) THEN Parsed(k, raw)
  ELSE LET c == spelling[k]
           IsPair == /\ k < Len(spelling)
                     /\ spelling[k + 1].k = "hex"
                     /\ spelling[k + 1].u >= 0
       IN  CASE c.k = "raw" /\ c.u >= 32 /\ c.u \notin {34, 92} ->
                  parseQuotedString(spelling, k + 1, Append(raw, c.u))
             [] c.k = "esc" /\ c.u \in binaryEscapes \cup {47} ->
                  parseQuotedString(spelling, k + 1, Append(raw, c.u))
             [] c.k = "hex" /\ c.u >= 0 /\ ~IsSurrogate(c.u) ->
                  parseQuotedString(spelling, k + 1, Append(raw, c.u))
             [] c.k = "hex" /\ IsSurrogate(c.u) /\ IsPair ->
                  parseQuotedString(spelling, k + 2,
                    Append(raw, DecodeRune(c.u, spelling[k + 1].u)))
             [] OTHER -> Failed

\* A slip: the quotation mark and the backslash are written as they are.
decorateControlsOnly(raw) ==
  Quoted([k \in DOMAIN raw |->
            IF raw[k] < 32 THEN [k |-> "hex", u |-> raw[k]]
                           ELSE [k |-> "raw", u |-> raw[k]]])

decorateString(raw) ==
  Quoted([k \in DOMAIN raw |->
            CASE raw[k] \in binaryEscapes -> [k |-> "esc", u |-> raw[k]]
              [] raw[k] < 32 -> [k |-> "hex", u |-> raw[k]]
              [] OTHER -> [k |-> "raw", u |-> raw[k]]])

(***************************************************************************)
(* Numbers                                                                 *)
(***************************************************************************)
\* strconv.FormatFloat with the shortest digits; an exponent has two at least.
FormatFloat(m, format) ==
  [sign |-> "", form |-> IF format = "e" THEN "exp" ELSE "plain", d |-> m.d, x |-> m.e,
   pad |-> format = "e" /\ Digits(m.d) + m.e - 1 \in -9..9]

\* One spelling, or none for an error.  What the code does about the rounding of
\* Go 1.11 changes nothing where FormatFloat rounds correctly.
NumberToJSON(v) ==
  IF v = NotFinite THEN {}
  ELSE IF v.d = 0 THEN {[sign |-> "", form |-> "plain", d |-> 0, x |-> 0, pad |-> FALSE]}
  ELSE LET format == IF Below(v, 21) /\ ~Below(v, -6) THEN "f" ELSE "e" IN
       {[FormatFloat(v, format) EXCEPT !.sign = IF v.neg THEN "-" ELSE "", !.pad = FALSE]}

(***************************************************************************)
(* Objects: a list kept in order by insertion                              *)
(***************************************************************************)
lexicographicallyPrecedes(key, old) ==
  \/ \E q \in DOMAIN key \cap DOMAIN old :
       /\ key[q] < old[q]
       /\ \A r \in 1..(q - 1) : key[r] = old[r]
  \/ IsStrictPrefix(key, old)

\* The place before which parseObject inserts a member with this key.
Place(list, key) ==
  CHOOSE p \in 1..(Len(list) + 1) :
    /\ p <= Len(list) => lexicographicallyPrecedes(key, list[p].sortKey)
    /\ \A q \in 1..(p - 1) : ~lexicographicallyPrecedes(key, list[q].sortKey)

\* A slip: names are compared by code point, as Go compares strings.
InsertByCodePoint(list, name, value) ==
  LET m == [name |-> name, sortKey |-> name, value |-> value]
      p == Place(list, name)
  IN  [err |-> \E q \in 1..(p - 1) : list[q].sortKey = name,
       list |-> InsertAt(list, p, m)]

\* A slip: a repeated name is inserted after the first.
InsertRepeated(list, name, value) ==
  LET m == [name |-> name, sortKey |-> SortKey(name), value |-> value]
  IN  [err |-> FALSE, list |-> InsertAt(list, Place(list, SortKey(name)), m)]

Insert(list, name, value) ==
  LET m == [name |-> name, sortKey |-> SortKey(name), value |-> value]
      p == Place(list, m.sortKey)
  IN  [err |-> \E q \in 1..(p - 1) : list[q].sortKey = m.sortKey,
       list |-> InsertAt(list, p, m)]

\* The members, written in the order of the list.
Serialize(list) ==
  <<Lexeme("{")>>
  \o FlattenSeq([k \in DOMAIN list |->
       (IF k = 1 THEN <<>> ELSE <<Lexeme(",")>>)
       \o <<decorateString(list[k].name), Lexeme(":")>> \o list[k].value])
  \o <<Lexeme("}")>>

(***************************************************************************)
(* The parser.  d is jsonData, i is index.                                 *)
(***************************************************************************)
\* scan: the place of the next lexeme that is not white space.
Scan(d, i) ==
  CHOOSE j \in i..(Len(d) + 1) :
    /\ j <= Len(d) => d[j].t # "ws"
    /\ \A k \in i..(j - 1) : d[k].t = "ws"

testNextNonWhiteSpaceChar(d, i) ==
  IF Scan(d, i) > Len(d) THEN "EOF" ELSE d[Scan(d, i)].t

\* The lexemes from i on that parseSimpleType collects into one token.
parseSimpleType(d, i) ==
  LET Ends(j) == \/ testNextNonWhiteSpaceChar(d, j) \in {",", "]", "}", "EOF"}
                 \/ d[j].t = "ws"
      e == CHOOSE j \in i..(Len(d) + 1) :
             Ends(j) /\ \A k \in i..(j - 1) : ~Ends(k)
      token == d[i].s[1]
      written == UNION {NumberToJSON(v) : v \in ParseFloat(token)}
  IN  CASE testNextNonWhiteSpaceChar(d, e) = "EOF" \/ e # i + 1 -> Failed
        [] e = i + 1 /\ d[i].t = "word" ->
             IF token \in Literals THEN Parsed(e, <<d[i]>>) ELSE Failed
        [] e = i + 1 /\ d[i].t = "number" ->
             IF written = {} THEN Failed ELSE Parsed(e, <<Number(CHOOSE n \in written : TRUE)>>)
        [] OTHER -> Failed

\* scanFor: the place after the expected lexeme, 0 if another one is there.
scanFor(d, i, t) ==
  IF testNextNonWhiteSpaceChar(d, i) = t THEN Scan(d, i) + 1 ELSE 0

RECURSIVE parseArray(_, _, _), parseObject(_, _, _)

\* A string, written again from what it spells.
Decorated(q, i) == IF q.err THEN Failed ELSE Parsed(i, <<decorateString(q.out)>>)

\* The element whose first lexeme, at j, is a c.
ElementAt(d, j, c) ==
  CASE c = "{" -> parseObject(d, j + 1, <<>>)
    [] c = "[" -> parseArray(d, j + 1, <<>>)
    [] c = "quote" -> Decorated(parseQuotedString(d[j].s, 1, <<>>), j + 1)
    [] c = "EOF" -> Failed
    [] OTHER -> parseSimpleType(d, j)

\* The place 0 is that of a scanFor that failed.
parseElement(d, i) ==
  IF i = 0 THEN Failed
  ELSE ElementAt(d, Scan(d, i), testNextNonWhiteSpaceChar(d, i))

\* The array after the element e.
AfterElement(d, e, out) ==
  IF e.err THEN Failed
  ELSE parseArray(d, e.i, out \o (IF out = <<>> THEN <<>> ELSE <<Lexeme(",")>>) \o e.out)

\* out: what is written between the brackets so far.
parseArray(d, i, out) ==
  IF testNextNonWhiteSpaceChar(d, i) = "]"
  THEN Parsed(Scan(d, i) + 1, <<Lexeme("[")>> \o out \o <<Lexeme("]")>>)
  ELSE AfterElement(d, parseElement(d, IF out = <<>> THEN i ELSE scanFor(d, i, ",")), out)

\* The object after the insertion n, which fails for a repeated name.
AfterInsert(d, i, n) == IF n.err THEN Failed ELSE parseObject(d, i, n.list)

\* The object after the name q and the element e.
AfterMember(d, q, e, list) ==
  IF q.err \/ e.err THEN Failed ELSE AfterInsert(d, e.i, Insert(list, q.out, e.out))

\* The object from the lexeme after a name on.
AfterName(d, k, list) ==
  IF k = 0 THEN Failed
  ELSE AfterMember(d, parseQuotedString(d[k - 1].s, 1, <<>>), parseElement(d, scanFor(d, k, ":")), list)

\* The object from a member on.
MemberAt(d, j, list) ==
  IF j = 0 THEN Failed ELSE AfterName(d, scanFor(d, j, "quote"), list)

\* list: nameValueList.
parseObject(d, i, list) ==
  IF testNextNonWhiteSpaceChar(d, i) = "}"
  THEN Parsed(Scan(d, i) + 1, Serialize(list))
  ELSE MemberAt(d, IF list = <<>> THEN i ELSE scanFor(d, i, ","), list)

\* Nothing but white space may follow.
AtEnd(d, r) ==
  IF r.err \/ testNextNonWhiteSpaceChar(d, r.i) # "EOF" THEN Failed ELSE r

Transform(d) ==
  LET first == Scan(d, 1) + 1
  IN  CASE testNextNonWhiteSpaceChar(d, 1) = "[" -> AtEnd(d, parseArray(d, first, <<>>))
        [] testNextNonWhiteSpaceChar(d, 1) = "{" -> AtEnd(d, parseObject(d, first, <<>>))
        [] OTHER -> Failed

(***************************************************************************)
(* Calls                                                                   *)
(***************************************************************************)
Init == /\ data \in Inputs
        /\ result = [called |-> FALSE, err |-> FALSE, text |-> <<>>]

\* MarshalCanonical of bytes.
MarshalCanonical ==
  /\ ~result.called
  /\ LET r == Transform(data)
     IN  result' = [called |-> TRUE, err |-> r.err, text |-> r.out]
  /\ UNCHANGED data

\* MarshalCanonical of the bytes it returned: bytes are taken as they are.
MarshalAgain ==
  /\ result.called
  /\ ~result.err
  /\ data' = result.text
  /\ LET r == Transform(data')
     IN  result' = [called |-> TRUE, err |-> r.err, text |-> r.out]

Next == MarshalCanonical \/ MarshalAgain

Spec == Init /\ [][Next]_vars

(***************************************************************************)
(* Properties                                                              *)
(***************************************************************************)
\* Transform accepts every JSON object and array whose names are distinct, and
\* beyond them only what Repaired says: no missing or extra comma, no text after
\* the end, no repeated name even when it is spelled in another way.
AcceptsJSON ==
  result.called =>
    /\ Denotes(data) # {} => ~result.err
    /\ ~result.err <=> Denotes(Repaired(data)) # {}

\* What Transform returns is the canonical text of the value that was given, also
\* when that was not spelled as JSON.  Two texts of one value therefore have one
\* canonical form: what the log signs is what the client verifies, whatever the
\* order of the fields was.
CanonicalFormOfTheValue ==
  result.called /\ ~result.err =>
    \A v \in Denotes(Repaired(data)) : result.text = Canon(v) /\ Denotes(result.text) = {v}

\* Canonicalizing a canonical text changes nothing: bytes that are canonical,
\* like a leaf stored in the log, keep the hash they were queued under.
CanonicalIsFixed ==
  [][data' # data \/ result.called =>
       ~result'.err /\ result'.text = result.text]_vars
=============================================================================
