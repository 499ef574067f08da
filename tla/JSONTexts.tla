----------------------------- MODULE JSONTexts -----------------------------
(***************************************************************************)
(* JSON texts by their grammar, what they denote and their canonical form  *)
(* (RFC 8785): the reference Canonical is compared with.  Restricted to    *)
(* what I-JSON, the format JCS is defined on, allows: names of an object   *)
(* are distinct, numbers are those of a float64, surrogates are paired.    *)
(*                                                                         *)
(* A text is a sequence of lexemes [t, s]: t is the punctuation mark, "ws" *)
(* for white space, "number" (s = <<spelling>>), "word" for any other      *)
(* token, or "quote" for a quoted string (s = its spelling).               *)
(*                                                                         *)
(* The spelling of a string is a sequence of [k, u]: a "raw" code point, a *)
(* two-character escape "esc" of the code point u, or a "hex" escape of    *)
(* the UTF-16 unit u, -1 if its digits are none.  A raw quotation mark or  *)
(* backslash cannot be part of a spelling: the one ends the string, the    *)
(* other starts an escape.                                                 *)
(*                                                                         *)
(* The spelling of a number is [sign, form, d, x, pad]: it stands for d    *)
(* times 10^x, written "plain", with an exponent "exp", which pad says     *)
(* begins with a zero, or in a form only Go has: "zeros" in front (01),    *)
(* nothing before or behind the point ("point"), "hex" or "Inf".  A        *)
(* float64 is [neg, d, e], d the shortest decimal digits that denote it.   *)
(***************************************************************************)
EXTENDS Integers, Sequences, SequencesExt, FiniteSets

CONSTANTS Literals   \* "true", "false", "null"

Lexeme(t) == [t |-> t, s |-> <<>>]
Word(w) == [t |-> "word", s |-> <<w>>]
Number(n) == [t |-> "number", s |-> <<n>>]
Quoted(spelling) == [t |-> "quote", s |-> spelling]

(***************************************************************************)
(* Strings                                                                 *)
(***************************************************************************)
ReplacementChar == 65533

IsSurrogate(u) == u \in 55296..57343

\* utf16.Encode([]rune(rawUTF8))
SortKey(raw) ==
  FlattenSeq([k \in DOMAIN raw |->
    IF raw[k] < 65536 THEN <<raw[k]>>
    ELSE <<55296 + ((raw[k] - 65536) \div 1024),
           56320 + ((raw[k] - 65536) % 1024)>>])

\* The two-character escapes but that of the slash.
Escapable == {34, 92} \cup (8..13 \ {11})

Spells(c, cp) == /\ c.u = cp
                 /\ \/ c.k = "raw" /\ cp >= 32 /\ cp \notin {34, 92}
                    \/ c.k = "esc" /\ cp \in Escapable \cup {47}
                    \/ c.k = "hex" /\ cp >= 0 /\ cp \notin 55296..57343

\* The code points two escapes spell together, if they are a surrogate pair.
PairOf(c1, c2) ==
  IF /\ c1.k = "hex" /\ c1.u \in 55296..56319
     /\ c2.k = "hex" /\ c2.u \in 56320..57343
  THEN {65536 + (c1.u % 1024) * 1024 + (c2.u % 1024)} ELSE {}

\* The strings that a spelling denotes: one, or none if it is ill-formed.
RECURSIVE StringsOf(_)
StringsOf(sp) ==
  IF sp = <<>> THEN {<<>>}
  ELSE LET one == IF Spells(sp[1], sp[1].u) THEN {sp[1].u} ELSE {}
           two == IF Len(sp) >= 2 THEN PairOf(sp[1], sp[2]) ELSE {}
       IN  {<<c>> \o r : c \in one, r \in StringsOf(Tail(sp))}
           \cup {<<c>> \o r : c \in two,
                              r \in IF two = {} THEN {}
                                    ELSE StringsOf(Tail(Tail(sp)))}

(***************************************************************************)
(* Numbers                                                                 *)
(***************************************************************************)
Digits(d) == CHOOSE n \in 1..9 : 10^(n - 1) <= d /\ (n < 9 => d < 10^n)

\* A magnitude m is less than 10^k.
Below(m, k) == Digits(m.d) + m.e <= k

NotFinite == [neg |-> FALSE, d |-> -1, e |-> 0]

\* strconv.ParseFloat: one number, or none for an error.  Decimals from 10^309 on
\* are out of range, those below 10^-324 are zero.
ParseFloat(n) ==
  LET zeros == CHOOSE k \in 0..8 : n.d % 10^k = 0 /\ (n.d \div 10^k) % 10 # 0
      m == [neg |-> n.sign = "-", d |-> n.d \div 10^zeros, e |-> n.x + zeros]
      zero == [neg |-> n.sign = "-", d |-> 0, e |-> 0] IN
  IF n.form = "Inf" THEN {NotFinite}
  ELSE IF n.d = 0 THEN {zero}
  ELSE IF Below(m, -324) THEN {zero}
  ELSE IF Below(m, 309) THEN {m} ELSE {}

\* A number of the grammar denotes a float64; minus zero is zero.
IsJSON(n) == n.sign # "+" /\ n.form \in {"plain", "exp"}
NumbersOf(n) ==
  {[v EXCEPT !.neg = v.neg /\ v.d # 0] : v \in {f \in ParseFloat(n) : IsJSON(n)}}

(***************************************************************************)
(* Values                                                                  *)
(***************************************************************************)
Value(t, w, kids) == [t |-> t, w |-> w, kids |-> kids]

\* The values denoted by a text without white space: one, or none.
RECURSIVE ValuesOf(_), ListsOf(_), MembersOf(_)
ValuesOf(d) ==
  IF Len(d) = 0 THEN {}
  ELSE IF Len(d) = 1
  THEN CASE d[1].t = "quote" -> {Value("string", s, <<>>) : s \in StringsOf(d[1].s)}
         [] d[1].t = "number" -> {Value("number", <<v>>, <<>>) : v \in NumbersOf(d[1].s[1])}
         [] d[1].t = "word" /\ d[1].s[1] \in Literals -> {Value("literal", d[1].s, <<>>)}
         [] OTHER -> {}
  ELSE LET inner == SubSeq(d, 2, Len(d) - 1)
       IN  CASE d[1].t = "[" /\ d[Len(d)].t = "]" ->
                  {Value("array", <<>>, l) : l \in ListsOf(inner)}
             [] d[1].t = "{" /\ d[Len(d)].t = "}" ->
                  {Value("object", <<>>, m) : m \in MembersOf(inner)}
             [] OTHER -> {}

\* Sequences of values separated by commas.
ListsOf(d) ==
  IF d = <<>> THEN {<<>>}
  ELSE {<<v>> : v \in ValuesOf(d)}
       \cup UNION {{<<v>> \o l : v \in ValuesOf(SubSeq(d, 1, k - 1)),
                                 l \in ListsOf(SubSeq(d, k + 1, Len(d)))}
                     : k \in {j \in 2..(Len(d) - 1) : d[j].t = ","}}

\* Sets of members with distinct names: an object has no order.
MembersOf(d) ==
  LET Member(e) == IF Len(e) >= 3 /\ e[1].t = "quote" /\ e[2].t = ":"
                   THEN {<<n, v>> : n \in StringsOf(e[1].s),
                                    v \in ValuesOf(SubSeq(e, 3, Len(e)))}
                   ELSE {}
  IN  IF d = <<>> THEN {{}}
      ELSE {{m} : m \in Member(d)}
           \cup UNION {{{m} \cup ms : m \in Member(SubSeq(d, 1, k - 1)),
                                      ms \in {x \in MembersOf(SubSeq(d, k + 1, Len(d))) :
                                                /\ x # {}
                                                /\ \A y \in x, m \in Member(SubSeq(d, 1, k - 1)) :
                                                     y[1] # m[1]}}
                         : k \in {j \in 4..(Len(d) - 1) : d[j].t = ","}}

\* What a whole text denotes: an object or an array with space around it.
Denotes(d) ==
  {v \in ValuesOf(SelectSeq(d, LAMBDA x : x.t # "ws")) :
     v.t \in {"array", "object"}}

\* The canonical text of a value, by RFC 8785: names in the order of their UTF-16
\* code units, strings with no escape they can do without, numbers as ECMAScript
\* writes them, with an exponent unless the point is near the digits.
CanonicalString(str) ==
  Quoted([k \in DOMAIN str |->
            [k |-> IF str[k] \in Escapable THEN "esc"
                   ELSE IF str[k] < 32 THEN "hex" ELSE "raw",
             u |-> str[k]]])

CanonicalNumber(v) ==
  Number([sign |-> IF v.neg THEN "-" ELSE "", d |-> v.d, x |-> v.e, pad |-> FALSE,
          form |-> IF v.d = 0 \/ Digits(v.d) + v.e \in -5..21 THEN "plain" ELSE "exp"])

NamePrecedes(m1, m2) ==
  LET a == SortKey(m1[1])
      b == SortKey(m2[1])
      differ == {q \in DOMAIN a \cap DOMAIN b : a[q] # b[q]} IN
  IF differ = {} THEN Len(a) < Len(b) ELSE a[Min(differ)] < b[Min(differ)]

Separated(texts) ==
  FlattenSeq([k \in DOMAIN texts |-> IF k = 1 THEN texts[k] ELSE <<Lexeme(",")>> \o texts[k]])

RECURSIVE Canon(_)
Canon(v) ==
  CASE v.t = "string" -> <<CanonicalString(v.w)>>
    [] v.t = "number" -> <<CanonicalNumber(v.w[1])>>
    [] v.t = "literal" -> <<Word(v.w[1])>>
    [] v.t = "array" ->
         <<Lexeme("[")>> \o Separated([k \in DOMAIN v.kids |-> Canon(v.kids[k])]) \o <<Lexeme("]")>>
    [] v.t = "object" ->
         LET ms == SetToSortSeq(v.kids, NamePrecedes) IN
         <<Lexeme("{")>>
         \o Separated([k \in DOMAIN ms |-> <<CanonicalString(ms[k][1]), Lexeme(":")>> \o Canon(ms[k][2])])
         \o <<Lexeme("}")>>

\* What Transform takes that is not JSON: the spellings of numbers that only Go has
\* (jsoncanonicalizer.go:236), and a surrogate escape followed by any other escape,
\* which together stand for U+FFFD (line 183).  Repaired writes these as JSON.
RepairedNumber(n) ==
  IF IsJSON(n) \/ n.form = "Inf" THEN n
  ELSE [n EXCEPT !.form = "plain", !.sign = IF n.sign = "-" THEN "-" ELSE ""]

RECURSIVE RepairedString(_)
RepairedString(sp) ==
  IF Len(sp) < 2 THEN sp
  ELSE IF ~(sp[1].k = "hex" /\ IsSurrogate(sp[1].u) /\ sp[2].k = "hex" /\ sp[2].u >= 0)
  THEN <<sp[1]>> \o RepairedString(Tail(sp))
  ELSE (IF PairOf(sp[1], sp[2]) # {} THEN <<sp[1], sp[2]>> ELSE <<[k |-> "hex", u |-> ReplacementChar]>>)
       \o RepairedString(Tail(Tail(sp)))

Repaired(d) ==
  [k \in DOMAIN d |->
     CASE d[k].t = "number" -> Number(RepairedNumber(d[k].s[1]))
       [] d[k].t = "quote" -> Quoted(RepairedString(d[k].s))
       [] OTHER -> d[k]]
=============================================================================
