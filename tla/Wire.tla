-------------------------------- MODULE Wire --------------------------------
(***************************************************************************)
(* The binary wire form: OutputArchive and InputArchive (Serialize.hpp),   *)
(* binaryPack and binaryUnpack (BinaryPack.hpp), and the tagged form of    *)
(* document values on top of them (Value.cpp, Value.h).                    *)
(*                                                                         *)
(* A byte is a digit 0 .. Base - 1; a fixed-width number is its digits,    *)
(* most significant first, as the archive writes on every machine. A float *)
(* travels as its bits, so it is the unsigned number of the same width.    *)
(* A container is the sequence of its items in the order of iteration.     *)
(***************************************************************************)
EXTENDS Integers, Sequences, SequencesExt

CONSTANTS Base,          \* values of a byte (256)
          LenWidth,      \* bytes of a length (8)
          TagWidth,      \* bytes of a value's tag (2)
          MaxString,     \* MAX_STRING_SIZE
          MaxWireDepth,  \* kMaxWireDepth
          PlainItems,    \* a sequence of [type, val] to choose what is sent from
          ObjectItems,   \* a sequence of objects' fields to choose from
          ForeignTypes,  \* a sequence of types read from arbitrary bytes
          ForeignLength  \* the most bytes of such a message

VARIABLES type,   \* what is sent or expected: a type, or the object type
          sent,   \* the value that was packed
          bytes,  \* the message
          fault,  \* what happened to it on the way
          got     \* what binaryUnpack answered

wireVars == <<type, sent, bytes, fault, got>>

\* The types an archive knows
UInt(w) == [k |-> "uint", w |-> w]
SInt(w) == [k |-> "int", w |-> w]
Bool == [k |-> "bool"]
Str == [k |-> "string"]
Vector(T) == [k |-> "vector", of |-> T]
StdArray(T, n) == [k |-> "array", of |-> T, n |-> n]
SetOf(T, sorted) == [k |-> "set", of |-> T, sorted |-> sorted]
Struct(ts) == [k |-> "struct", of |-> ts]
MapOf(K, V, sorted) == [k |-> "map", of |-> Struct(<<K, V>>), sorted |-> sorted]
ValueWire == Struct(<<UInt(TagWidth), Str>>)
ObjectType == [k |-> "object"]

----------------------------------------------------------------------------
\* Writing

\* toBigEndian
BigEndian(n, w) == [i \in 1 .. w |-> (n \div Base ^ (w - i)) % Base]

PutLen(n) == BigEndian(n, LenWidth)

\* write and operator& of every type
RECURSIVE Put(_, _)
Put(T, v) ==
    CASE T.k = "uint"   -> BigEndian(v, T.w)
      [] T.k = "int"    -> BigEndian(v % Base ^ T.w, T.w)
      [] T.k = "bool"   -> <<IF v THEN 1 ELSE 0>>
      [] T.k = "string" -> PutLen(Len(v)) \o v
      [] T.k = "array"  -> FlattenSeq([i \in 1 .. T.n |-> Put(T.of, v[i])])
      [] T.k = "struct" -> FlattenSeq([i \in 1 .. Len(v) |-> Put(T.of[i], v[i])])
      [] OTHER          -> PutLen(Len(v)) \o
                           FlattenSeq([i \in 1 .. Len(v) |-> Put(T.of, v[i])])

----------------------------------------------------------------------------
\* Reading. The archive's failed_ flag is sticky: a failed read fails the message.

Failed == [ok |-> FALSE]
Read(v, rest) == [ok |-> TRUE, val |-> v, rest |-> rest]

Take(s, n) == SubSeq(s, 1, n)
Skip(s, n) == SubSeq(s, n + 1, Len(s))

\* fromBigEndian, over the next w bytes
GetNumber(s, w) ==
    IF Len(s) < w THEN Failed
    ELSE Read(FoldLeft(LAMBDA n, d : n * Base + d, 0, Take(s, w)), Skip(s, w))

\* The cast of the unsigned bits to the signed type
Signed(n, w) == IF 2 * n < Base ^ w THEN n ELSE n - Base ^ w

\* read(std::string&): the limit first, then as many bytes as are declared
GetString(s) ==
    LET n == GetNumber(s, LenWidth) IN
    IF ~n.ok \/ n.val > MaxString \/ Len(n.rest) < n.val THEN Failed
    ELSE Read(Take(n.rest, n.val), Skip(n.rest, n.val))

\* What a map or a set finds its items by
KeyOf(T, item) == IF T.k = "map" THEN item[1] ELSE item

\* Mutant for WireSound: a key seen before is skipped, and nothing is sorted.
CollectFirst(T, items) ==
    LET Add(seen, item) == IF \E i \in 1 .. Len(seen) : KeyOf(T, seen[i]) = KeyOf(T, item)
                           THEN seen ELSE Append(seen, item)
    IN  <<TRUE, FoldLeft(Add, <<>>, items)>>

\* emplace and insert refuse a key seen before; an ordered container sorts
Collect(T, items) ==
    LET Key(i) == KeyOf(T, items[i])
    IN  IF \E i, j \in 1 .. Len(items) : i # j /\ Key(i) = Key(j) THEN <<FALSE>>
        ELSE <<TRUE, IF T.sorted
                     THEN SortSeq(items, LAMBDA a, b : KeyOf(T, a) < KeyOf(T, b))
                     ELSE items>>

RECURSIVE Get(_, _), GetAll(_, _)

\* Items of the given types, one after the other
GetAll(ts, s) ==
    IF ts = <<>> THEN Read(<<>>, s)
    ELSE LET first == Get(Head(ts), s)
             others == GetAll(Tail(ts), first.rest)
         IN  IF ~first.ok \/ ~others.ok THEN Failed
             ELSE Read(<<first.val>> \o others.val, others.rest)

\* read and operator& of every type
Get(T, s) ==
    CASE T.k = "uint" -> GetNumber(s, T.w)
      [] T.k = "int"  -> LET n == GetNumber(s, T.w)
                         IN  IF ~n.ok THEN Failed ELSE Read(Signed(n.val, T.w), n.rest)
      [] T.k = "bool" -> IF Len(s) = 0 \/ Head(s) \notin {0, 1} THEN Failed
                         ELSE Read(Head(s) = 1, Tail(s))
      [] T.k = "string" -> GetString(s)
      [] T.k = "array"  -> GetAll([i \in 1 .. T.n |-> T.of], s)
      [] T.k = "struct" -> GetAll(T.of, s)
      [] OTHER ->
           LET n == GetNumber(s, LenWidth)
               items == GetAll([i \in 1 .. n.val |-> T.of], n.rest)
           IN  IF ~n.ok \/ ~items.ok THEN Failed
               ELSE IF T.k = "vector" THEN items
               ELSE LET c == Collect(T, items.val)
                    IN  IF ~c[1] THEN Failed ELSE Read(c[2], items.rest)

\* binaryUnpack: no failure and no trailing byte
Exact(r) == IF r.ok /\ r.rest = <<>> THEN [ok |-> TRUE, val |-> r.val] ELSE Failed
Unpack(T, s) == Exact(Get(T, s))

----------------------------------------------------------------------------
\* Document values. An object is its fields, <<key, value>> in their order.

Tag == [i64 |-> 1, u64 |-> 2, bool |-> 3, double |-> 4, string |-> 5,
        object |-> 6, array |-> 7, null |-> 8]
Known == {Tag[t] : t \in DOMAIN Tag}
Scalar == <<SInt(LenWidth), UInt(LenWidth), Bool, UInt(LenWidth), Str>>

RECURSIVE ToWire(_), PutObject(_)

\* Object::serialize, writing
PutObject(fields) ==
    PutLen(Len(fields)) \o
    FlattenSeq([i \in 1 .. Len(fields) |->
                  Put(Str, fields[i][1]) \o Put(ValueWire, ToWire(fields[i][2]))])

\* valueToWire: tag and payload; a null pointer travels as Null
ToWire(v) ==
    CASE v.t \in {"null", "nullptr"} -> <<Tag["null"], <<>>>>
      [] v.t = "object" -> <<Tag["object"], PutObject(v.v)>>
      [] v.t = "array"  -> <<Tag["array"], PutLen(Len(v.v)) \o
                             FlattenSeq([i \in 1 .. Len(v.v) |->
                                           Put(ValueWire, ToWire(v.v[i]))])>>
      [] OTHER -> <<Tag[v.t], Put(Scalar[Tag[v.t]], v.v)>>

RECURSIVE FromWire(_, _), GetFields(_, _, _, _), GetElements(_, _, _, _)

\* Object::serialize, reading n more entries behind those read: a known key is
\* malformed, an unknown tag leaves its entry out
GetFields(n, fields, s, depth) ==
    IF n = 0 THEN Read(fields, s)
    ELSE LET entry == Get(Struct(<<Str, ValueWire>>), s)
             key == entry.val[1]
             value == FromWire(entry.val[2], depth)
         IN  IF ~entry.ok THEN Failed
             ELSE IF \E i \in 1 .. Len(fields) : fields[i][1] = key THEN Failed
             ELSE IF ~value.ok THEN Failed
             ELSE GetFields(n - 1,
                            IF value.known THEN Append(fields, <<key, value.val>>) ELSE fields,
                            entry.rest, depth)

\* The elements of TAG_ARRAY: here an unknown tag is an error
GetElements(n, elements, s, depth) ==
    IF n = 0 THEN Read(elements, s)
    ELSE LET w == Get(ValueWire, s)
             value == FromWire(w.val, depth)
         IN  IF ~w.ok THEN Failed
             ELSE IF ~value.ok \/ ~value.known THEN Failed
             ELSE GetElements(n - 1, Append(elements, value.val), w.rest, depth)

\* binaryUnpack<Object>
UnpackObject(s, depth) ==
    LET n == GetNumber(s, LenWidth)
    IN  IF ~n.ok THEN Failed ELSE Exact(GetFields(n.val, <<>>, n.rest, depth))

\* wireToValue: depth is g_wireDepth, the number of calls of it on the stack
FromWire(w, depth) ==
    LET Value(t, v) == [ok |-> TRUE, known |-> TRUE, val |-> [t |-> t, v |-> v]]
        name == CHOOSE t \in DOMAIN Tag : Tag[t] = w[1]
        scalar == Unpack(Scalar[w[1]], w[2])
        object == IF w[2] = <<>> THEN [ok |-> TRUE, val |-> <<>>]
                  ELSE UnpackObject(w[2], depth + 1)
        n == GetNumber(w[2], LenWidth)
        array == IF ~n.ok THEN Failed
                 ELSE Exact(GetElements(n.val, <<>>, n.rest, depth + 1))
    IN  CASE depth >= MaxWireDepth -> Failed
          [] depth < MaxWireDepth /\ w[1] \notin Known -> [ok |-> TRUE, known |-> FALSE]
          [] depth < MaxWireDepth /\ w[1] = Tag["null"] -> Value("null", <<>>)
          [] depth < MaxWireDepth /\ w[1] = Tag["object"] ->
                IF object.ok THEN Value("object", object.val) ELSE Failed
          [] depth < MaxWireDepth /\ w[1] = Tag["array"] ->
                IF array.ok THEN Value("array", array.val) ELSE Failed
          [] OTHER -> IF scalar.ok THEN Value(name, scalar.val) ELSE Failed

----------------------------------------------------------------------------
\* A message on its way

PackAny(T, v) == IF T = ObjectType THEN PutObject(v) ELSE Put(T, v)
UnpackAny(T, s) == IF T = ObjectType THEN UnpackObject(s, 0) ELSE Unpack(T, s)

NotYet == [ok |-> FALSE, pending |-> TRUE]

WireInit ==
    /\ got = NotYet
    /\ \/ \E i \in DOMAIN PlainItems :
             /\ type = PlainItems[i].type /\ sent = PlainItems[i].val
             /\ bytes = Put(type, sent) /\ fault = "none"
       \/ \E i \in DOMAIN ObjectItems :
             /\ type = ObjectType /\ sent = ObjectItems[i]
             /\ bytes = PutObject(sent) /\ fault = "none"
       \/ \E i \in DOMAIN ForeignTypes, n \in 0 .. ForeignLength :
             /\ type = ForeignTypes[i] /\ sent = <<>> /\ fault = "foreign"
             /\ bytes \in [1 .. n -> 0 .. Base - 1]

\* The message loses its end, grows, or has one byte changed
Damage ==
    /\ fault = "none" /\ got = NotYet
    /\ \/ \E n \in 0 .. Len(bytes) - 1 : bytes' = Take(bytes, n) /\ fault' = "cut"
       \/ \E b \in 0 .. Base - 1 : bytes' = Append(bytes, b) /\ fault' = "longer"
       \/ \E i \in 1 .. Len(bytes), b \in 0 .. Base - 1 :
             bytes' = [bytes EXCEPT ![i] = b] /\ fault' = "changed"
    /\ UNCHANGED <<type, sent, got>>

Receive == /\ got = NotYet
           /\ got' = UnpackAny(type, bytes)
           /\ UNCHANGED <<type, sent, bytes, fault>>

WireNext == Damage \/ Receive

----------------------------------------------------------------------------
\* What a value becomes on the way: null pointers are Null afterwards
RECURSIVE Normal(_)
Normal(v) ==
    CASE v.t = "nullptr" -> [t |-> "null", v |-> <<>>]
      [] v.t = "object" -> [v EXCEPT !.v = [i \in 1 .. Len(v.v) |->
                                              <<v.v[i][1], Normal(v.v[i][2])>>]]
      [] v.t = "array"  -> [v EXCEPT !.v = [i \in 1 .. Len(v.v) |-> Normal(v.v[i])]]
      [] OTHER -> v
NormalAny(T, v) == IF T = ObjectType THEN Normal([t |-> "object", v |-> v]).v ELSE v

\* How deep wireToValue is called for a value
RECURSIVE Depth(_)
Depth(v) == LET inner == CASE v.t = "object" -> {Depth(v.v[i][2]) : i \in 1 .. Len(v.v)}
                           [] v.t = "array"  -> {Depth(v.v[i]) : i \in 1 .. Len(v.v)}
                           [] OTHER -> {}
            IN  1 + Max(inner \cup {0})

\* The longest string inside: of a value, the payloads, too
RECURSIVE Longest(_, _)
Longest(T, v) ==
    CASE T.k = "string" -> Len(v)
      [] T.k \in {"vector", "set", "map", "array"} ->
            Max({0} \cup {Longest(T.of, v[i]) : i \in 1 .. Len(v)})
      [] T.k = "struct" -> Max({0} \cup {Longest(T.of[i], v[i]) : i \in 1 .. Len(v)})
      [] T.k = "object" -> Max({0} \cup {Max({Len(v[i][1]), Len(ToWire(v[i][2])[2])}) :
                                            i \in 1 .. Len(v)})
      [] OTHER -> 0

\* What a reader takes: the writer has neither limit
Readable(T, v) ==
    /\ Longest(T, v) <= MaxString
    /\ T = ObjectType => Depth([t |-> "object", v |-> v]) <= MaxWireDepth + 1

\* The type has one order of items only, and each byte of a message matters
OneForm(T) == T.k \notin {"set", "map", "object"}

\* An undamaged message is read as what was sent, exactly when it is within the
\* reader's limits; a message that lost its end or grew is refused; and whatever
\* is accepted, from anywhere, is a value that packs to these very bytes; of a set or
\* a map, whose order may differ, to as many, so none of its items was dropped; and
\* what it packs to reads as the same value (BinaryPack.hpp:21-36, Value.cpp:135-230).
WireSound ==
    got # NotYet =>
      /\ fault = "none" =>
           IF Readable(type, sent)
           THEN got = [ok |-> TRUE, val |-> NormalAny(type, sent)]
           ELSE ~got.ok
      /\ fault \in {"cut", "longer"} => ~got.ok
      /\ got.ok =>
           /\ OneForm(type) => PackAny(type, got.val) = bytes
           /\ type # ObjectType => Len(PackAny(type, got.val)) = Len(bytes)
           /\ Readable(type, got.val) => UnpackAny(type, PackAny(type, got.val)) = got
=============================================================================
