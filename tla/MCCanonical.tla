---------------------------- MODULE MCCanonical ----------------------------
(***************************************************************************)
(* Texts for the canonicalizer: every sequence of up to MaxLexemes         *)
(* lexemes, and larger documents whose members, spellings and nesting      *)
(* vary, each also with one lexeme left out.                               *)
(***************************************************************************)
EXTENDS Canonical

CONSTANTS MaxLexemes

Raw(u) == [k |-> "raw", u |-> u]
Esc(u) == [k |-> "esc", u |-> u]
Hex(u) == [k |-> "hex", u |-> u]

MCLiterals == {"true"}

Num(sign, form, d, x, pad) == <<Number([sign |-> sign, form |-> form, d |-> d, x |-> x, pad |-> pad])>>
Plain(d, x) == Num("", "plain", d, x, FALSE)
One == Plain(1, 0)
MinusZero == Num("-", "plain", 0, 0, FALSE)

\* 1.0, 1e0, 100e-02; the last plain number and the first with an exponent on
\* either side, each in both forms; below and above the range of a float64.
JSONNumbers ==
  {Plain(10, -1), Num("", "exp", 1, 0, FALSE), Num("-", "exp", 100, -2, TRUE), MinusZero}
  \cup {Num("-", form, d, x, FALSE) : form \in {"plain", "exp"}, d \in {1, 123}, x \in {-9, -8, -7, -6, 18, 19, 20, 21}}
  \cup {Num("", "exp", 1, -400, FALSE), Num("", "exp", 1, 999, FALSE)}
\* 01, +1, .5, 1., 0x1p4, -0x1p4, +.5, Inf.
GoNumbers ==
  {Num("", "zeros", 1, 0, FALSE), Num("+", "plain", 1, 0, FALSE), Num("", "point", 5, -1, FALSE),
   Num("", "point", 1, 0, FALSE), Num("", "hex", 16, 0, FALSE), Num("-", "hex", 16, 0, FALSE),
   Num("+", "point", 5, -1, FALSE), Num("", "Inf", 0, 0, FALSE)}

\* a, in two spellings; a quotation mark; a control character; U+FB33; an
\* emoji as raw UTF-8 and as a surrogate pair.
A == Quoted(<<Raw(97)>>)
AHex == Quoted(<<Hex(97)>>)
AA == Quoted(<<Raw(97), Esc(47)>>)
Mark == Quoted(<<Esc(34)>>)
Control == Quoted(<<Hex(1)>>)
Dalet == Quoted(<<Raw(64307)>>)
Emoji == Quoted(<<Raw(128512)>>)
EmojiPair == Quoted(<<Hex(55357), Hex(56832)>>)
\* U+FFFD, as it is and as two escapes that are no pair.
Unknown == Quoted(<<Raw(65533)>>)
NoPairs == {Quoted(<<Hex(55357), Hex(97)>>), Quoted(<<Hex(56832), Hex(55357)>>),
            Quoted(<<Hex(55357), Hex(55357), Hex(56832)>>)}
\* Spellings that are errors: a raw control character, an unknown escape, no
\* hexadecimal digits, half a surrogate pair.
Bad == {Quoted(<<Raw(10)>>), Quoted(<<Esc(97)>>), Quoted(<<Hex(-1)>>),
        Quoted(<<Hex(55357)>>), Quoted(<<Hex(55357), Raw(97)>>), Quoted(<<Hex(55357), Hex(-1)>>)}

Punctuation == {Lexeme(t) : t \in {"{", "}", "[", "]", ",", ":", "ws"}}
Short == UNION {[1..n -> Punctuation \cup {A, One[1]}] : n \in 0..MaxLexemes}

\* No two words or numbers meet: they would be one word.
Lexed(d) == \A k \in 1..(Len(d) - 1) : ~({d[k].t, d[k + 1].t} \subseteq {"word", "number"})

Object(ms) ==
  <<Lexeme("{")>>
  \o FlattenSeq([k \in DOMAIN ms |->
       (IF k = 1 THEN <<>> ELSE <<Lexeme(","), Lexeme("ws")>>)
       \o <<ms[k][1], Lexeme(":")>> \o ms[k][2]])
  \o <<Lexeme("}")>>

Keys == {A, AHex, AA, Mark, Control, Dalet, Emoji, EmojiPair}
Simple == {<<Word(w)>> : w \in {"true", "nil"}} \cup JSONNumbers \cup GoNumbers
Nested == {Object(<<<<p, One>>, <<q, <<Word("true")>>>>>>) : p, q \in {A, Emoji, Dalet}}
          \cup {<<Lexeme("["), Lexeme("ws"), Mark, Lexeme(",")>> \o MinusZero \o <<Lexeme("ws"), Lexeme("]")>>}

Three == {Object(<<<<p, One>>, <<q, MinusZero>>, <<r, <<Control>>>>>>) : p, q, r \in Keys}
Names == {Object(<<<<p, One>>, <<q, <<r>>>>>>) : p, q, r \in NoPairs \cup Bad \cup {Unknown, EmojiPair}}
Two == {Object(<<<<p, v>>, <<A, w>>>>) : p \in Keys, v \in Simple \cup Nested, w \in Nested}
LeaveOut(ds) == {[j \in 1..(Len(d) - 1) |-> IF j < k THEN d[j] ELSE d[j + 1]]
                   : k \in 1..8, d \in ds}

MCInputs == {d \in Short \cup Three \cup Names \cup Two \cup LeaveOut(Three) : Lexed(d)}
=============================================================================
