-------------------------------- MODULE Json --------------------------------
(***************************************************************************)
(* JSON text of document values: the encoder and the parser of Json.cpp,   *)
(* the helpers of ValueJson.h around them, and the numbers of Value.cpp    *)
(* that JSON cannot hold: setUIntForJson makes strings of them, and        *)
(* asNonNegInt reads numbers back from every form.                         *)
(*                                                                         *)
(* A text is a sequence of tokens <<class, datum>>: punctuation, literals, *)
(* numbers, white space, and inside strings one token for each byte or     *)
(* escape. Of bytes the model keeps what UTF-8 tells apart: "L" leads a    *)
(* sequence of two and "C" continues one, "X" occurs in none, "R" and "P"  *)
(* stand for the valid sequences of U+FFFD and of a code point above       *)
(* U+FFFF; "n", "nul", "k" and "q" are the line feed, the NUL, a control    *)
(* character that is no white space and the quote; all others are plain.   *)
(* A double is counted in halves.                                          *)
(***************************************************************************)
EXTENDS Integers, Sequences, SequencesExt

CONSTANTS MaxInt, MaxUInt,   \* INT64_MAX and UINT64_MAX
          WholeDigits,       \* whole doubles up to here print without exponent
          Infinite, Tiny,    \* the datum of a non-finite and of a subnormal double
          MaxNesting,        \* kMaxNestingDepth
          Documents,         \* a sequence of values to encode
          Numbers,           \* numbers to encode in the form of setUIntForJson
          Foreign            \* texts from elsewhere: a sequence of [start, tokens, max]

VARIABLES document,   \* the value that was encoded
          origin,     \* "here", "elsewhere", or "cut" once the text lost its end
          text,       \* [ok, text]: what the encoder answered
          parsed      \* [ok, val]: what the parser answered

jsonVars == <<document, origin, text, parsed>>

Fail == [ok |-> FALSE]
Ok(v) == [ok |-> TRUE, val |-> v]
Got(v, rest) == [ok |-> TRUE, val |-> v, rest |-> rest]

Value(t, v) == [t |-> t, v |-> v]
Mark(c) == <<c, 0>>
Byte(c) == <<"byte", c>>
Escape(c) == <<"escape", c>>

----------------------------------------------------------------------------
\* The encoder

\* Mutant for JsonRoundTrip: the byte behind the lead is not looked at.
Utf8LengthByLead(s) == CASE Head(s) \in {"R", "P"} -> 1
                         [] Head(s) = "L" -> IF Len(s) > 1 THEN 2 ELSE 0
                         [] OTHER -> 0

\* ClassifyUtf8Lead, over the sequence at the head of s: its length, 0 if invalid
Utf8Length(s) == CASE Head(s) \in {"R", "P"} -> 1
                   [] Head(s) = "L" -> IF Len(s) > 1 /\ s[2] = "C" THEN 2 ELSE 0
                   [] OTHER -> 0

\* appendEscapedJsonString: a byte that is no part of a sequence becomes U+FFFD
RECURSIVE Escaped(_)
Escaped(s) ==
    IF s = <<>> THEN <<>>
    ELSE LET c == Head(s)
             n == Utf8Length(s)
         IN  CASE c \in {"q", "n", "nul", "k"} -> <<Escape(c)>> \o Escaped(Tail(s))
               [] c \in {"L", "C", "X", "R", "P"} /\ n > 0 ->
                     [i \in 1 .. n |-> Byte(s[i])] \o Escaped(SubSeq(s, n + 1, Len(s)))
               [] c \in {"L", "C", "X", "R", "P"} /\ n = 0 ->
                     <<Byte("R")>> \o Escaped(Tail(s))
               [] OTHER -> <<Byte(c)>> \o Escaped(Tail(s))

Quoted(s) == <<Mark("quote")>> \o Escaped(s) \o <<Mark("quote")>>

\* std::defaultfloat with 17 digits: a whole number looks like an integer
DoubleToken(v) == IF v % 2 = 0 /\ v \div 2 <= WholeDigits THEN <<"int", v \div 2>>
                  ELSE <<"real", v>>

RECURSIVE Encode(_, _, _)

\* The members of an object or array between its brackets; the first error wins
Members(open, close, parts, pretty) ==
    LET NewLine == IF pretty /\ parts # <<>> THEN <<Mark("ws")>> ELSE <<>>
        Part(i) == (IF i > 1 THEN <<Mark(",")>> ELSE <<>>) \o NewLine \o parts[i].val
    IN  IF \E i \in 1 .. Len(parts) : ~parts[i].ok THEN Fail
        ELSE Ok(<<Mark(open)>> \o FlattenSeq([i \in 1 .. Len(parts) |-> Part(i)])
                \o NewLine \o <<Mark(close)>>)

\* appendJsonObject: one member
Member(field, pretty, depth) ==
    LET v == Encode(field[2], pretty, depth)
    IN  IF ~v.ok THEN Fail
        ELSE Ok(Quoted(field[1]) \o <<Mark(":")>> \o
                (IF pretty THEN <<Mark("ws")>> ELSE <<>>) \o v.val)

\* appendJsonValue
Encode(v, pretty, depth) ==
    CASE v.t = "null" -> Ok(<<Mark("null")>>)
      [] v.t = "bool" -> Ok(<<Mark(IF v.v THEN "true" ELSE "false")>>)
      [] v.t = "i64" -> Ok(<< <<"int", v.v>> >>)
      [] v.t = "u64" -> IF v.v > MaxInt THEN Fail ELSE Ok(<< <<"int", v.v>> >>)
      [] v.t = "double" -> IF v.v = Infinite THEN Fail ELSE Ok(<<DoubleToken(v.v)>>)
      [] v.t = "string" -> Ok(Quoted(v.v))
      [] v.t = "nullptr" -> Fail
      [] v.t = "object" ->
            IF depth >= MaxNesting THEN Fail
            ELSE Members("{", "}", [i \in 1 .. Len(v.v) |-> Member(v.v[i], pretty, depth + 1)],
                         pretty)
      [] v.t = "array" ->
            IF depth >= MaxNesting THEN Fail
            ELSE Members("[", "]", [i \in 1 .. Len(v.v) |-> Encode(v.v[i], pretty, depth + 1)],
                         pretty)

\* valueToJsonString
ToJson(v, pretty) == Encode(v, pretty, 0)

\* objectToJsonString, DumpJson: a failure is told by an object
ErrorText == <<Mark("{")>> \o Quoted(<<"error">>) \o <<Mark(":")>> \o Quoted(<<"why">>)
             \o <<Mark("}")>>
Dump(v, pretty) == LET r == ToJson(v, pretty) IN IF r.ok THEN r.val ELSE ErrorText

----------------------------------------------------------------------------
\* The parser

RECURSIVE SkipWs(_)
SkipWs(s) == IF s # <<>> /\ Head(s)[1] = "ws" THEN SkipWs(Tail(s)) ELSE s

Peek(s) == IF s = <<>> THEN "end" ELSE Head(s)[1]

\* tryConsume and expect, which differ in what a mismatch means to the caller
Consume(c, s) == LET r == SkipWs(s) IN IF Peek(r) = c THEN Got(c, Tail(r)) ELSE Fail

\* parseString after its opening quote. A \u escape names a code point: "uA" a
\* plain one, "uL" one of two bytes, "hi" and "lo" the halves of a pair. Tokens
\* of other classes are plain bytes here.
RECURSIVE StringRest(_, _)
StringRest(s, out) ==
    LET class == Peek(s)
        c == Head(s)[2]
        More(bytes, n) == StringRest(SubSeq(s, n + 1, Len(s)), out \o bytes)
        Next(token) == Len(s) > 1 /\ s[2] = token
    IN  CASE class = "end" -> Fail
          [] class = "quote" -> Got(out, Tail(s))
          [] class = "byte" ->
               CASE c \in {"n", "nul", "k", "C", "X"} -> Fail
                 [] c = "L" -> IF Next(Byte("C")) THEN More(<<"L", "C">>, 2) ELSE Fail
                 [] OTHER -> More(<<c>>, 1)
          [] class = "escape" ->
               CASE c \in {"q", "n", "nul", "k", "/"} -> More(<<c>>, 1)
                 [] c = "uA" -> More(<<"a">>, 1)
                 [] c = "uL" -> More(<<"L", "C">>, 1)
                 [] c = "hi" -> IF Next(Escape("lo")) THEN More(<<"P">>, 2) ELSE Fail
                 [] OTHER -> Fail
          [] OTHER -> More(<<class>>, 1)

ParseString(s) == LET open == Consume("quote", s)
                  IN  IF open.ok THEN StringRest(open.rest, <<>>) ELSE Fail

\* parseNumber: from_chars for integers, strtod and its ERANGE for the rest. The
\* token is the longest number there is in the text: where a text may end inside
\* it, see Left.
ParseNumber(s) ==
    LET n == Head(s)[2]
    IN  IF Peek(s) = "int"
        THEN IF n > MaxInt \/ n < -MaxInt - 1 THEN Fail ELSE Got(Value("i64", n), Tail(s))
        ELSE IF n \in {Tiny, Infinite} THEN Fail ELSE Got(Value("double", n), Tail(s))

RECURSIVE ParseValue(_, _), ObjectRest(_, _, _), ArrayRest(_, _, _)

\* parseObject after its opening brace and after each comma
ObjectRest(s, fields, depth) ==
    LET key == ParseString(s)
        colon == Consume(":", key.rest)
        val == ParseValue(colon.rest, depth)
        now == Append(fields, <<key.val, val.val>>)
    IN  IF ~key.ok THEN Fail
        ELSE IF \E i \in 1 .. Len(fields) : fields[i][1] = key.val THEN Fail
        ELSE IF ~colon.ok THEN Fail
        ELSE IF ~val.ok THEN Fail
        ELSE IF Consume("}", val.rest).ok
             THEN Got(Value("object", now), Consume("}", val.rest).rest)
        ELSE IF Consume(",", val.rest).ok
             THEN ObjectRest(Consume(",", val.rest).rest, now, depth)
        ELSE Fail

\* parseArray after its opening bracket and after each comma
ArrayRest(s, elements, depth) ==
    LET val == ParseValue(s, depth)
        now == Append(elements, val.val)
    IN  IF ~val.ok THEN Fail
        ELSE IF Consume("]", val.rest).ok
             THEN Got(Value("array", now), Consume("]", val.rest).rest)
        ELSE IF Consume(",", val.rest).ok
             THEN ArrayRest(Consume(",", val.rest).rest, now, depth)
        ELSE Fail

\* parseValue
ParseValue(text0, depth) ==
    LET s == SkipWs(text0)
        c == Peek(s)
        string == ParseString(s)
    IN  CASE c = "quote" -> IF string.ok THEN Got(Value("string", string.val), string.rest)
                            ELSE Fail
          [] c \in {"{", "["} /\ depth >= MaxNesting -> Fail
          [] c = "{" /\ depth < MaxNesting ->
                IF Consume("}", Tail(s)).ok
                THEN Got(Value("object", <<>>), Consume("}", Tail(s)).rest)
                ELSE ObjectRest(Tail(s), <<>>, depth + 1)
          [] c = "[" /\ depth < MaxNesting ->
                IF Consume("]", Tail(s)).ok
                THEN Got(Value("array", <<>>), Consume("]", Tail(s)).rest)
                ELSE ArrayRest(Tail(s), <<>>, depth + 1)
          [] c = "null" -> Got(Value("null", <<>>), Tail(s))
          [] c \in {"true", "false"} -> Got(Value("bool", c = "true"), Tail(s))
          [] c \in {"int", "real"} -> ParseNumber(s)
          [] OTHER -> Fail

\* valueFromJsonString, ParseValue: nothing may follow the value
FromJson(s) == LET r == ParseValue(s, 0)
               IN  IF r.ok /\ SkipWs(r.rest) = <<>> THEN Ok(r.val) ELSE Fail

\* objectFromJsonString, ParseObject, TryParseObject
ObjectFromJson(s) == LET r == FromJson(s)
                     IN  IF r.ok /\ r.val.t = "object" THEN Ok(r.val) ELSE Fail

----------------------------------------------------------------------------
\* Numbers in a document

DigitOf == [c \in {"0", "1", "2", "3", "4", "5", "6", "7", "8", "9"} |->
              CHOOSE n \in 0 .. 9 : ToString(n) = c]
Hexit == [c \in DOMAIN DigitOf \cup {"f"} |-> IF c = "f" THEN 15 ELSE DigitOf[c]]

\* std::to_string
RECURSIVE Spelled(_)
Spelled(n) == IF n < 10 THEN <<ToString(n)>> ELSE Spelled(n \div 10) \o <<ToString(n % 10)>>

\* Mutant for NumbersSurvive: a number that does not fit becomes a double.
UIntForJsonAsDouble(n) == IF n <= MaxInt THEN Value("i64", n) ELSE Value("double", 2 * n)

\* setJsonUInt where it fits, else a string: setUIntForJson
UIntForJson(n) == IF n <= MaxInt THEN Value("i64", n) ELSE Value("string", Spelled(n))

White == {"ws", "n"}   \* of isspace

\* std::stoull: white space and a sign are skipped, a base of 16 allows 0x once
\* more, the negative of a number wraps, and what does not fit throws
Stoull(s, digit) ==
    LET base == IF "f" \in DOMAIN digit THEN 16 ELSE 10
        From(P(_)) == SelectInSeq(s \o <<"end">>, LAMBDA c : ~P(c))
        first == From(LAMBDA c : c \in White)
        signed == first <= Len(s) /\ s[first] \in {"-", "+"}
        body == SubSeq(s, first + (IF signed THEN 1 ELSE 0), Len(s))
        bare == IF base = 16 /\ Len(body) > 2 /\ body[1] = "0" /\ body[2] = "x"
                   /\ body[3] \in DOMAIN digit
                THEN SubSeq(body, 3, Len(body)) ELSE body
        n == SelectInSeq(bare \o <<"end">>, LAMBDA c : c \notin DOMAIN digit) - 1
        value == FoldLeft(LAMBDA v, c : v * base + digit[c], 0, SubSeq(bare, 1, n))
    IN  IF n = 0 \/ value > MaxUInt THEN Fail
        ELSE Got(IF signed /\ s[first] = "-" THEN (MaxUInt + 1 - value) % (MaxUInt + 1)
                 ELSE value,
                 SubSeq(bare, n + 1, Len(bare)))

\* c_str(), as whoever looks for its end reads it
UpToNul(s) == SubSeq(s, 1, SelectInSeq(s \o <<"nul">>, LAMBDA c : c = "nul") - 1)

Hex(s) == Len(s) >= 2 /\ s[1] = "0" /\ s[2] = "x"

\* asNonNegInt, Object::getNonNegInt
AsNonNegInt(v) ==
    LET s == v.v
        hex == Hex(s)
        p == UpToNul(IF hex THEN SubSeq(s, 3, Len(s)) ELSE s)
        number == Stoull(p, IF hex THEN Hexit ELSE DigitOf)
    IN  CASE v.t = "i64" -> IF v.v < 0 THEN Fail ELSE Ok(v.v)
          [] v.t = "u64" -> Ok(v.v)
          [] v.t = "string" ->
                IF p = <<>> \/ Head(p) \in {"+", "-"} THEN Fail
                ELSE IF number.ok /\ number.rest = <<>> THEN Ok(number.val) ELSE Fail
          [] OTHER -> Fail

----------------------------------------------------------------------------
\* One text on its way

NotYet == [ok |-> FALSE, pending |-> TRUE]

\* Two numbers side by side are one number: no text has such tokens
Apart(s) == \A i \in 2 .. Len(s) : ~(Peek(<<s[i]>>) \in {"int", "real"} /\
                                     Peek(<<s[i - 1]>>) \in {"int", "real"})

JsonInit ==
    /\ parsed = NotYet
    /\ \/ /\ origin = "here" /\ text = NotYet
          /\ \E i \in DOMAIN Documents : document = Documents[i]
       \/ /\ origin = "here" /\ text = NotYet
          /\ \E n \in Numbers : document = UIntForJson(n)
       \/ /\ origin = "elsewhere" /\ document = Value("null", <<>>)
          /\ \E a \in DOMAIN Foreign : \E n \in 0 .. Foreign[a].max :
             \E f \in [1 .. n -> DOMAIN Foreign[a].tokens] :
                LET s == Foreign[a].start \o [i \in 1 .. n |-> Foreign[a].tokens[f[i]]]
                IN  Apart(s) /\ text = Ok(s)

Write(pretty) == /\ text = NotYet
                 /\ text' = ToJson(document, pretty)
                 /\ UNCHANGED <<document, origin, parsed>>

\* What may be left of a number or a literal of which the end is lost: fewer
\* digits, or no number; of a real its whole part, another real, or no number
Left(token) ==
    LET n == token[2]
        Digits(m) == {m \div 10 ^ k : k \in 1 .. Len(Spelled(m)) - 1}
    IN  CASE token[1] = "int" /\ n >= 0 -> {<<"int", m>> : m \in Digits(n)}
          [] token[1] = "int" /\ n < 0 -> {<<"int", -m>> : m \in Digits(-n)} \cup {Mark("-")}
          [] token[1] = "real" -> {<<"int", n \div 2>>, <<"real", n \div 2>>, Mark(".")}
          [] token[1] \in {"null", "true", "false"} -> {Mark("letters")}
          [] OTHER -> {}

LoseEnd == /\ text.ok /\ origin = "here" /\ parsed = NotYet
           /\ \E n \in 0 .. Len(text.val) - 1 :
              \E last \in {<<>>} \cup {<<token>> : token \in Left(text.val[n + 1])} :
                text' = Ok(SubSeq(text.val, 1, n) \o last)
           /\ origin' = "cut"
           /\ UNCHANGED <<document, parsed>>

ReadBack == /\ text.ok /\ parsed = NotYet
            /\ parsed' = FromJson(text.val)
            /\ UNCHANGED <<document, origin, text>>

JsonNext == (\E pretty \in BOOLEAN : Write(pretty)) \/ LoseEnd \/ ReadBack

----------------------------------------------------------------------------
\* What a value is after a round trip: a string's bad bytes are repaired, and a
\* number has the type its digits suggest
RECURSIVE Repaired(_)
Repaired(s) ==
    IF s = <<>> THEN <<>>
    ELSE IF Head(s) = "L" /\ Len(s) > 1 /\ s[2] = "C"
         THEN <<"L", "C">> \o Repaired(SubSeq(s, 3, Len(s)))
    ELSE <<IF Head(s) \in {"L", "C", "X"} THEN "R" ELSE Head(s)>> \o Repaired(Tail(s))

RECURSIVE Carried(_)
Carried(v) ==
    CASE v.t = "u64" -> Value("i64", v.v)
      [] v.t = "double" -> IF DoubleToken(v.v)[1] = "int" THEN Value("i64", v.v \div 2) ELSE v
      [] v.t = "string" -> Value("string", Repaired(v.v))
      [] v.t = "array" -> Value("array", [i \in 1 .. Len(v.v) |-> Carried(v.v[i])])
      [] v.t = "object" -> Value("object", [i \in 1 .. Len(v.v) |->
                                              <<Repaired(v.v[i][1]), Carried(v.v[i][2])>>])
      [] OTHER -> v

\* The values inside v, itself included, each with its depth
RECURSIVE Inside(_, _)
Inside(v, d) ==
    << <<v, d>> >> \o
    CASE v.t = "array" -> FlattenSeq([i \in 1 .. Len(v.v) |-> Inside(v.v[i], d + 1)])
      [] v.t = "object" -> FlattenSeq([i \in 1 .. Len(v.v) |-> Inside(v.v[i][2], d + 1)])
      [] OTHER -> <<>>
Somewhere(v, P(_, _)) == LET all == Inside(v, 0)
                         IN  \E i \in 1 .. Len(all) : P(all[i][1], all[i][2])

\* What JSON cannot say
Unsayable(v, d) == \/ v.t = "nullptr"
                   \/ v.t = "u64" /\ v.v > MaxInt
                   \/ v.t = "double" /\ v.v = Infinite
                   \/ v.t \in {"object", "array"} /\ d >= MaxNesting

\* What the encoder writes although the parser refuses it: a subnormal double,
\* and two keys that the repair of their bytes makes one
Unreadable(v, d) ==
    \/ v.t = "double" /\ v.v = Tiny
    \/ v.t = "object" /\ \E i, j \in 1 .. Len(v.v) :
                            i # j /\ Repaired(v.v[i][1]) = Repaired(v.v[j][1])

\* The encoder fails exactly on what JSON cannot say; its text, compact or pretty,
\* reads back as the value in the form JSON carries, but for subnormal doubles and
\* keys that are repaired alike; a text that lost its end is refused, unless the
\* document is nothing but a number: then fewer digits are another number; and what
\* is accepted from elsewhere is carried without a further change
\* (Json.cpp:164-189, 247-322, 552-612, 686-707).
JsonRoundTrip ==
    /\ origin = "here" /\ text # NotYet => (text.ok <=> ~Somewhere(document, Unsayable))
    /\ parsed # NotYet =>
         /\ origin = "here" =>
              IF Somewhere(document, Unreadable) THEN ~parsed.ok
              ELSE parsed = Ok(Carried(document))
         /\ origin = "cut" /\ parsed.ok =>
              document.t \in {"i64", "u64", "double"} /\ parsed.val.t \in {"i64", "double"}
         /\ origin = "elsewhere" /\ parsed.ok =>
              FromJson(ToJson(parsed.val, TRUE).val) = Ok(Carried(parsed.val))

\* A number that setUIntForJson stored reads back, in memory and from the text, as
\* the same number, whether or not it fits JSON's integers; and a string is taken
\* for a number only if its digits, up to a NUL, spell it - what follows the NUL
\* is not looked at - but for two forms that strtoull takes on its own: white
\* space in front, even of a sign, and a second 0x (Value.cpp:289-301, 338-378).
Spells(s, n) ==
    LET base == IF Hex(s) THEN Hexit ELSE DigitOf
        digits == IF Hex(s) THEN SubSeq(s, 3, Len(s)) ELSE s
    IN  /\ digits # <<>> /\ \A i \in 1 .. Len(digits) : digits[i] \in DOMAIN base
        /\ n = FoldLeft(LAMBDA v, c : v * (IF Hex(s) THEN 16 ELSE 10) + base[c], 0, digits)
NumbersSurvive ==
    parsed # NotYet =>
      /\ \A n \in Numbers : origin = "here" /\ document = UIntForJson(n)
                              => /\ AsNonNegInt(document) = Ok(n)
                                 /\ parsed.ok /\ AsNonNegInt(parsed.val) = Ok(n)
      /\ parsed.ok /\ parsed.val.t = "string" =>
           LET s == UpToNul(parsed.val.v)
               first == IF Hex(s) THEN 3 ELSE 1
               number == AsNonNegInt(parsed.val)
           IN  \/ Len(s) >= first /\ s[first] \in White
               \/ Len(s) > 4 /\ SubSeq(s, 1, 4) = <<"0", "x", "0", "x">>
               \/ \A n \in 0 .. MaxUInt : number = Ok(n) <=> Spells(s, n)

\* "Reject signed forms; stoull("-1") wraps on unsigned types." (Value.cpp:361):
\* no string with a sign in it is a number.
SignedRejected ==
    parsed.ok /\ parsed.val.t = "string" /\ AsNonNegInt(parsed.val).ok
      => \A i \in 1 .. Len(parsed.val.v) : parsed.val.v[i] \notin {"-", "+"}

\* "...so the emitted JSON always round-trips through this library's own parser"
\* (Json.cpp:164-169): what the encoder writes the parser accepts.
DumpAlwaysParses == origin = "here" /\ parsed # NotYet => parsed.ok
=============================================================================
