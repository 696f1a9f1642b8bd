------------------------------- MODULE MCData -------------------------------
(***************************************************************************)
(* Instances of the data components: FiFoMap, Wire, Json, DeepMerge and    *)
(* Results. They share no state: each behaviour is one of one part, and    *)
(* the other parts rest.                                                   *)
(***************************************************************************)
EXTENDS FiFoMap, Results, DeepMerge

VARIABLES part,                             \* whose behaviour it is
          type, sent, bytes, fault, got,    \* Wire
          document, origin, text, parsed    \* Json

V(t, v) == [t |-> t, v |-> v]
Null == V("null", <<>>)

----------------------------------------------------------------------------
\* Wire: bytes of two bits, lengths of three bytes, numbers of two
UintT == [k |-> "uint", w |-> 2]
IntT == [k |-> "int", w |-> 2]
BoolT == [k |-> "bool"]
StringT == [k |-> "string"]
VectorT(T) == [k |-> "vector", of |-> T]
Pair(K, T) == [k |-> "struct", of |-> <<K, T>>]
Hash == [k |-> "map", of |-> Pair(UintT, StringT), sorted |-> FALSE]
Tree == [k |-> "map", of |-> Pair(UintT, BoolT), sorted |-> TRUE]
OrderedSet == [k |-> "set", of |-> IntT, sorted |-> TRUE]
Flags == [k |-> "array", of |-> BoolT, n |-> 2]
Entry == [k |-> "struct", of |-> <<IntT, StringT, VectorT(UintT)>>]
Item(T, v) == [type |-> T, val |-> v]

\* Numbers at both ends of their width, a string at the limit and one above it
Plain == <<Item(UintT, 0), Item(UintT, 15), Item(IntT, -8), Item(IntT, 7), Item(BoolT, TRUE),
           Item(StringT, <<>>), Item(StringT, [i \in 1 .. 20 |-> 1]),
           Item(StringT, [i \in 1 .. 21 |-> 1]),
           Item(VectorT(IntT), <<3, -1>>), Item(Flags, <<TRUE, FALSE>>),
           Item(Hash, <<<<9, <<1>>>>, <<1, <<>>>>>>), Item(Tree, <<<<2, TRUE>>, <<9, FALSE>>>>),
           Item(OrderedSet, <<-3, 1>>), Item(Entry, <<-2, <<3>>, <<5>>>>)>>

\* Objects of every type of value, down to one level below the limit
Objects ==
    <<<<>>, <<<<<<1>>, V("i64", -5)>>, <<<<2>>, V("u64", 40)>>>>,
      <<<<<<1>>, V("bool", TRUE)>>, <<<<>>, V("string", <<3>>)>>>>,
      <<<<<<1>>, V("nullptr", <<>>)>>, <<<<3>>, V("double", 33)>>, <<<<2>>, Null>>>>,
      <<<<<<1>>, V("object", <<<<<<2>>, V("bool", FALSE)>>>>)>>>>,
      <<<<<<1>>, V("array", <<V("bool", FALSE), V("nullptr", <<>>)>>)>>>>,
      <<<<<<1>>, V("array", <<V("array", <<Null>>)>>)>>>>>>

WireM == INSTANCE Wire WITH Base <- 4, LenWidth <- 3, TagWidth <- 2, MaxString <- 20,
       MaxWireDepth <- 2, PlainItems <- Plain, ObjectItems <- Objects,
       ForeignTypes <- <<StringT, VectorT(BoolT), UintT, OrderedSet, Tree, [k |-> "object"]>>,
       ForeignLength <- 5

----------------------------------------------------------------------------
\* Json: every type of value; strings with bad, broken and escaped bytes; keys that
\* are repaired alike; numbers on both sides of every limit; nesting of up to three
Object(fields) == V("object", fields)
Array(elements) == V("array", elements)
Docs ==
    <<Null, V("bool", TRUE), V("i64", -13), V("u64", 12), V("u64", 13), V("double", 20),
      V("double", 22), V("double", 3), V("double", 99), V("double", 98),
      V("string", <<"a", "q", "L", "C", "k", "nul">>), V("string", <<"L", "a", "X", "R">>),
      V("nullptr", <<>>), Array(<<>>),
      Array(<<Array(<<V("bool", FALSE)>>), V("string", <<>>)>>),
      Array(<<Array(<<Array(<<>>)>>)>>),
      Object(<<<<<<"a">>, V("i64", 1)>>, <<<<"L">>, Object(<<>>)>>>>),
      Object(<<<<<<"X">>, V("i64", 1)>>, <<<<"L">>, Object(<<>>)>>>>),
      Object(<<<<<<"a">>, Array(<<Null, V("nullptr", <<>>)>>)>>>>),
      Object(<<<<<<"a">>, Array(<<Object(<<<<<<"n">>, Null>>>>)>>)>>>>),
      Object(<<<<<<"a">>, Array(<<V("i64", 1), V("u64", 12)>>)>>, <<<<"n">>, V("double", 4)>>>>)>>

\* Texts from elsewhere, by their start and the tokens that follow: objects; arrays,
\* numbers and white space; strings; hexadecimal numbers; signed ones and ones with a NUL
Mark(c) == <<c, 0>>
Bytes(cs) == [i \in 1 .. Len(cs) |-> <<"byte", cs[i]>>]
Escapes(cs) == [i \in 1 .. Len(cs) |-> <<"escape", cs[i]>>]
Texts ==
    <<[start |-> <<>>,
       tokens |-> <<Mark("{"), Mark("}"), Mark("quote"), Mark(":"), <<"int", 1>>>>, max |-> 6],
      [start |-> <<>>,
       tokens |-> <<Mark("["), Mark("]"), Mark(","), <<"int", 13>>, <<"real", 98>>, <<"real", 2>>,
                    Mark("ws"), Mark("null")>>,
       max |-> 4],
      [start |-> <<Mark("quote")>>,
       tokens |-> <<Mark("quote")>> \o Bytes(<<"a", "L", "C", "k">>)
                    \o Escapes(<<"hi", "lo", "uL", "bad">>),
       max |-> 3],
      [start |-> <<Mark("quote")>>,
       tokens |-> <<Mark("quote")>> \o Bytes(<<"0", "x", "f">>), max |-> 6],
      [start |-> <<Mark("quote")>>,
       tokens |-> <<Mark("quote"), Mark("ws")>> \o Bytes(<<"-", "2", "9">>)
                    \o Escapes(<<"n", "nul">>),
       max |-> 4]>>

JsonM == INSTANCE Json WITH MaxInt <- 12, MaxUInt <- 31, Numbers <- {0, 12, 13, 31},
       WholeDigits <- 10, Infinite <- 99, Tiny <- 98, MaxNesting <- 2,
       Documents <- Docs, Foreign <- Texts

----------------------------------------------------------------------------
NoMessage == /\ type = WireM!ObjectType /\ sent = <<>> /\ bytes = <<>> /\ fault = "none"
             /\ got = WireM!NotYet
NoText == document = Null /\ origin = "elsewhere" /\ text = JsonM!Ok(<<>>) /\ parsed = JsonM!NotYet

DataInit == /\ FifoInit /\ MergeInit /\ ResultsInit
            /\ IF part = "wire" THEN WireM!WireInit ELSE NoMessage
            /\ IF part = "json" THEN JsonM!JsonInit ELSE NoText

wireVars == <<type, sent, bytes, fault, got>>
jsonVars == <<document, origin, text, parsed>>
dataVars == <<fifoVars, wireVars, jsonVars, heap, resultVars>>
DataParts == {"fifo", "wire", "json", "merge", "results"}

DataNext ==
    \/ /\ part = "fifo" /\ FifoNext
       /\ UNCHANGED <<wireVars, jsonVars, heap, resultVars>>
    \/ /\ part = "wire" /\ WireM!WireNext
       /\ UNCHANGED <<fifoVars, jsonVars, heap, resultVars>>
    \/ /\ part = "json" /\ JsonM!JsonNext
       /\ UNCHANGED <<fifoVars, wireVars, heap, resultVars>>
    \/ /\ part = "merge" /\ MergeNext
       /\ UNCHANGED <<fifoVars, wireVars, jsonVars, resultVars>>
    \/ /\ part = "results" /\ ResultsNext
       /\ UNCHANGED <<fifoVars, wireVars, jsonVars, heap>>

\* A message is read as what was sent, or refused (Wire).
WireSound == WireM!WireSound
\* A document survives the text, but for what JSON cannot say (Json).
JsonRoundTrip == JsonM!JsonRoundTrip
\* A number survives in the form setUIntForJson gives it (Json).
NumbersSurvive == JsonM!NumbersSurvive
=============================================================================
