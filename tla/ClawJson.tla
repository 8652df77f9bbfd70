------------------------------ MODULE ClawJson ------------------------------
(***************************************************************************)
(* runtime/src/json.rs: the JSON values of claw, their rendering, and the  *)
(* parser that reads session files and configuration.  A text is the       *)
(* sequence of its code points.  A value is a tagged tuple; an object is a *)
(* function from keys to values, as the BTreeMap of the code is.           *)
(*                                                                         *)
(* A parser returns [ok, v, at]: v was read and at is the next index.      *)
(***************************************************************************)
EXTENDS Integers, Sequences, SequencesExt

CONSTANT MaxI64                  \* the largest number the i64 of the code holds

Quote     == 34
Backslash == 92
Comma     == 44
Colon     == 58
Minus     == 45
OpenArr   == 91
CloseArr  == 93
OpenObj   == 123
CloseObj  == 125
LetterU   == 117
Space     == {9, 10, 13, 32}
Digit     == 48 .. 57
Literals  == << [text |-> <<110, 117, 108, 108>>,      v |-> <<"null">>],
                [text |-> <<116, 114, 117, 101>>,      v |-> <<"bool", TRUE>>],
                [text |-> <<102, 97, 108, 115, 101>>,  v |-> <<"bool", FALSE>>] >>
\* character -> the letter that stands for it behind a backslash
Escapes   == [c \in {8, 9, 10, 12, 13, Quote, Backslash} |->
                CASE c = 8 -> 98 [] c = 9 -> 116 [] c = 10 -> 110
                  [] c = 12 -> 102 [] c = 13 -> 114 [] OTHER -> c]
IsControl(c) == c < 32 \/ c \in 127 .. 159

HexDigits(c) == [k \in 1 .. 4 |->
                   LET d == (c \div 16 ^ (4 - k)) % 16
                   IN  IF d < 10 THEN 48 + d ELSE 87 + d]
\* to_digit(16), or -1
HexValue(c)  == CASE c \in Digit     -> c - 48
                  [] c \in 97 .. 102 -> c - 87
                  [] c \in 65 .. 70  -> c - 55
                  [] OTHER           -> -1

(***************************************************************************)
(* Rendering.                                                              *)
(***************************************************************************)
\* Mutant of RenderChar: control characters are written as they are, and a backslash too
RenderCharRaw(c) == IF c = Quote THEN <<Backslash, c>> ELSE <<c>>
RenderChar(c) == IF c \in DOMAIN Escapes THEN <<Backslash, Escapes[c]>>
                 ELSE IF IsControl(c) THEN <<Backslash, LetterU>> \o HexDigits(c)
                 ELSE <<c>>
RenderString(s) == <<Quote>> \o FlattenSeq([k \in DOMAIN s |-> RenderChar(s[k])]) \o <<Quote>>

RECURSIVE RenderNat(_)
RenderNat(n) == IF n < 10 THEN <<48 + n>> ELSE Append(RenderNat(n \div 10), 48 + (n % 10))

Joined(texts) == FlattenSeq([k \in DOMAIN texts |->
                               IF k = 1 THEN texts[k] ELSE <<Comma>> \o texts[k]])

LexLess(s, t) == \/ IsStrictPrefix(s, t)
                 \/ \E k \in DOMAIN s \cap DOMAIN t :
                       s[k] < t[k] /\ \A j \in 1 .. k - 1 : s[j] = t[j]

RECURSIVE Render(_)
Render(v) ==
    CASE v[1] = "null" -> Literals[1].text
      [] v[1] = "bool" -> IF v[2] THEN Literals[2].text ELSE Literals[3].text
      [] v[1] = "num"  -> IF v[2] < 0 THEN <<Minus>> \o RenderNat(-v[2]) ELSE RenderNat(v[2])
      [] v[1] = "str"  -> RenderString(v[2])
      [] v[1] = "arr"  -> <<OpenArr>> \o Joined([k \in DOMAIN v[2] |-> Render(v[2][k])])
                            \o <<CloseArr>>
      [] v[1] = "obj"  ->
           LET keys == SetToSortSeq(DOMAIN v[2], LexLess)
           IN  <<OpenObj>>
                 \o Joined([k \in DOMAIN keys |->
                              RenderString(keys[k]) \o <<Colon>> \o Render(v[2][keys[k]])])
                 \o <<CloseObj>>

(***************************************************************************)
(* The parser.                                                             *)
(***************************************************************************)
Failed == [ok |-> FALSE]
Good(v, at) == [ok |-> TRUE, v |-> v, at |-> at]
\* peek: 0 stands for the end of the input
Peek(s, i) == IF i \in DOMAIN s THEN s[i] ELSE 0
SkipWhitespace(s, i) ==
    LET ends == {j \in i .. Len(s) : s[j] \notin Space}
    IN  IF ends = {} THEN IF i > Len(s) THEN i ELSE Len(s) + 1
        ELSE CHOOSE j \in ends : \A k \in ends : j <= k

ParseLiteral(s, i, lit) ==
    LET end == i + Len(lit.text) - 1
    IN  IF end <= Len(s) /\ SubSeq(s, i, end) = lit.text THEN Good(lit.v, end + 1) ELSE Failed

\* behind the 'u': the code points of surrogates are no scalar values
ParseUnicodeEscape(s, i) ==
    LET h == [k \in 0 .. 3 |-> HexValue(Peek(s, i + k))]
        code == ((h[0] * 16 + h[1]) * 16 + h[2]) * 16 + h[3]
    IN  IF (\E k \in 0 .. 3 : h[k] < 0) \/ code \in 55296 .. 57343 THEN Failed
        ELSE Good(code, i + 4)

\* behind the backslash
ParseEscape(s, i) ==
    LET c == Peek(s, i)
    IN  CASE c = 47      -> Good(47, i + 1)
          [] c = LetterU -> ParseUnicodeEscape(s, i + 1)
          [] OTHER       ->
               LET of == {e \in DOMAIN Escapes : Escapes[e] = c}
               IN  IF of = {} THEN Failed ELSE Good(CHOOSE e \in of : TRUE, i + 1)

RECURSIVE StringFrom(_, _, _)
StringFrom(s, i, value) ==
    CASE i > Len(s)       -> Failed
      [] s[i] = Quote     -> Good(value, i + 1)
      [] s[i] = Backslash -> LET e == ParseEscape(s, i + 1)
                             IN  IF e.ok THEN StringFrom(s, e.at, Append(value, e.v)) ELSE Failed
      [] OTHER            -> StringFrom(s, i + 1, Append(value, s[i]))
ParseString(s, i) == IF Peek(s, i) = Quote THEN StringFrom(s, i + 1, <<>>) ELSE Failed

\* Digits are read while there are any: no fraction, no exponent, leading zeros allowed.
ParseNumber(s, i) ==
    LET neg == Peek(s, i) = Minus
        d == IF neg THEN i + 1 ELSE i
        rest == {j \in d .. Len(s) : s[j] \notin Digit}
        end == IF rest = {} THEN Len(s) + 1 ELSE CHOOSE j \in rest : \A k \in rest : j <= k
        n == FoldLeft(LAMBDA acc, c : IF acc > MaxI64 + 1 THEN acc ELSE 10 * acc + c - 48,
                      0, SubSeq(s, d, end - 1))
    IN  IF end = d \/ n > (IF neg THEN MaxI64 + 1 ELSE MaxI64) THEN Failed
        ELSE Good(<<"num", IF neg THEN -n ELSE n>>, end)

\* entries.insert replaces the value of a key that is there
Insert(f, k, v) == [x \in DOMAIN f \cup {k} |-> IF x = k THEN v ELSE f[x]]

RECURSIVE ParseValue(_, _), ArrayAt(_, _, _), ObjectAt(_, _, _)
\* behind an item that was read, at the next ink
ArrayRest(s, k, values) ==
    CASE Peek(s, k) = CloseArr -> Good(<<"arr", values>>, k + 1)
      [] Peek(s, k) = Comma    -> ArrayAt(s, SkipWhitespace(s, k + 1), values)
      [] OTHER                 -> Failed
ArrayItem(s, e, values) ==
    IF e.ok THEN ArrayRest(s, SkipWhitespace(s, e.at), Append(values, e.v)) ELSE Failed
\* behind '[' or ',': a closing bracket is accepted in both places
ArrayAt(s, j, values) == IF Peek(s, j) = CloseArr THEN Good(<<"arr", values>>, j + 1)
                         ELSE ArrayItem(s, ParseValue(s, j), values)
ObjectRest(s, k, entries) ==
    CASE Peek(s, k) = CloseObj -> Good(<<"obj", entries>>, k + 1)
      [] Peek(s, k) = Comma    -> ObjectAt(s, SkipWhitespace(s, k + 1), entries)
      [] OTHER                 -> Failed
ObjectItem(s, key, e, entries) ==
    IF e.ok THEN ObjectRest(s, SkipWhitespace(s, e.at), Insert(entries, key, e.v)) ELSE Failed
ObjectColon(s, key, c, entries) ==
    IF Peek(s, c) = Colon THEN ObjectItem(s, key, ParseValue(s, c + 1), entries) ELSE Failed
ObjectKey(s, key, entries) ==
    IF key.ok THEN ObjectColon(s, key.v, SkipWhitespace(s, key.at), entries) ELSE Failed
ObjectAt(s, j, entries) == IF Peek(s, j) = CloseObj THEN Good(<<"obj", entries>>, j + 1)
                           ELSE ObjectKey(s, ParseString(s, j), entries)
StringAsValue(t) == IF t.ok THEN Good(<<"str", t.v>>, t.at) ELSE t
ValueAt(s, j, c) ==
    LET lits == {k \in DOMAIN Literals : Literals[k].text[1] = c}
    IN  CASE lits # {}                   -> ParseLiteral(s, j, Literals[CHOOSE k \in lits : TRUE])
          [] c = Quote                   -> StringAsValue(ParseString(s, j))
          [] c = OpenArr                 -> ArrayAt(s, SkipWhitespace(s, j + 1), <<>>)
          [] c = OpenObj                 -> ObjectAt(s, SkipWhitespace(s, j + 1), <<>>)
          [] c = Minus \/ c \in Digit    -> ParseNumber(s, j)
          [] OTHER                       -> Failed
ValueFrom(s, j) == ValueAt(s, j, Peek(s, j))
ParseValue(s, i) == ValueFrom(s, SkipWhitespace(s, i))

Parse(s) == LET r == ParseValue(s, 1)
            IN  IF r.ok /\ SkipWhitespace(s, r.at) > Len(s) THEN r ELSE Failed
=============================================================================
