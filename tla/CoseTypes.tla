------------------------------ MODULE CoseTypes ------------------------------
(***************************************************************************)
(* The types of a CDDL specification and the functions generated for each   *)
(* (cose/rust/src/coseformat.rs): validate_t of an object, parse_t of an    *)
(* object that validates, and serialize_t of a value into the room there    *)
(* is.  The generated text repeats the same code for every use of a         *)
(* construct; here a type is a record, [kind, ...], and the functions are   *)
(* defined by recursion on it.                                              *)
(*                                                                         *)
(* A parsed value is what the Rust type holds: an integer's argument, the   *)
(* bytes of a string, a Boolean, "unit" for a type with one value, the      *)
(* object itself for any, [in |-> "l" or "r", value] for a choice and the   *)
(* sequence of values of an array.                                          *)
(*                                                                         *)
(* A serializer returns a number of bytes and 0 for failure; here it is the *)
(* bytes, and <<>> for failure.                                             *)
(*                                                                         *)
(* Behind the functions are the types themselves that are not maps or       *)
(* groups of several items: those of the CDDL prelude, and label and values *)
(* of cose-sign.cddl.  Then the maps, as the code generated for them has    *)
(* them: header_map, cose_key_generic (a required key type, otherwise       *)
(* optional entries, no cuts) and cose_key_okp (cuts everywhere).           *)
(***************************************************************************)
EXTENDS CborEncoding, CddlFormat

AnyItem == [kind |-> "any"]
NoMatch == [kind |-> "nomatch"]
Bool == [kind |-> "bool"]
Major(m) == [kind |-> "major", major |-> m]
Simple(v) == [kind |-> "literal", head |-> MkHeader(SimpleValue, v)]
IntLiteral(m, v) == [kind |-> "literal", head |-> MkHeader(m, v)]
TaggedBy(n, t) == [kind |-> "tagged", tag |-> n, of |-> t]
Either(t, u) == [kind |-> "either", left |-> t, right |-> u]
Plus(t) == [kind |-> "plus", of |-> t]

SimpleFalse == 20
SimpleTrue == 21

\* cbor_det_serialize and cbor_det_serialize_tag, as CborSerialize and
\* CborWrite have them.
Written1(s, room) == IF Len(s) <= room THEN s ELSE <<>>
Put(x, room) == Written1(Encoding(x), room)

\* A serializer behind another one, in the room that is left.
Behind(s, t) == IF s = <<>> \/ t = <<>> THEN <<>> ELSE s \o t

RECURSIVE ElementsFrom(_)
ElementsFrom(it) ==
  IF IsEmpty(it) THEN <<>>
  ELSE NextEntry(it, ArrayType) \o ElementsFrom(Advance(it, ArrayType))

\* The elements of an array, as its iterator gives them.
ElementsOf(x) == ElementsFrom(IteratorInit(x))

RECURSIVE Validate(_, _), Parse(_, _), Serialize(_, _, _), SerializeAll(_, _, _)

Validate(t, x) ==
  CASE t.kind = "any" -> TRUE
    [] t.kind = "nomatch" -> FALSE
    [] t.kind = "bool" ->
         x.head.type = SimpleValue /\ x.head.arg \in {SimpleFalse, SimpleTrue}
    [] t.kind = "major" -> x.head.type = t.major
    [] t.kind = "literal" -> x.head.type = t.head.type /\ x.head.arg = t.head.arg
    [] t.kind = "tagged" ->
         x.head.type = Tagged /\ x.head.arg = t.tag /\ Validate(t.of, TaggedPayload(x))
    [] t.kind = "either" -> Validate(t.left, x) \/ Validate(t.right, x)
    [] t.kind = "plus" ->
         /\ x.head.type = ArrayType
         /\ LET xs == ElementsOf(x)
            IN  xs # <<>> /\ \A i \in DOMAIN xs : Validate(t.of, xs[i])

\* The parser of a choice tests the left type again, and not the right one.
Parse(t, x) ==
  CASE t.kind = "any" -> x
    [] t.kind = "bool" -> x.head.arg = SimpleTrue
    [] t.kind = "major" -> IF IsString(x.head) THEN x.bytes ELSE x.head.arg
    [] t.kind \in {"literal", "nomatch"} -> "unit"
    [] t.kind = "tagged" -> Parse(t.of, TaggedPayload(x))
    [] t.kind = "either" ->
         IF Validate(t.left, x) THEN [in |-> "l", value |-> Parse(t.left, x)]
         ELSE [in |-> "r", value |-> Parse(t.right, x)]
    [] t.kind = "plus" ->
         LET xs == ElementsOf(x) IN [i \in DOMAIN xs |-> Parse(t.of, xs[i])]

\* Fault: nobody asks whether a text is UTF-8.
SerializeMajorUnchecked(m, v, room) ==
  Put(IF m \in {ByteString, TextString} THEN MkString(m, v) ELSE MkInt(m, v), room)

\* cbor_det_mk_string refuses a text that is not UTF-8; serialize_tstr asks
\* before.
SerializeMajor(m, v, room) ==
  IF m \in {ByteString, TextString}
  THEN IF m = TextString /\ ~Utf8Correct(v) THEN <<>> ELSE Put(MkString(m, v), room)
  ELSE Put(MkInt(m, v), room)

Serialize(t, v, room) ==
  CASE t.kind = "any" -> Put(v, room)
    [] t.kind = "nomatch" -> <<>>
    [] t.kind = "bool" -> Put(MkSimple(IF v THEN SimpleTrue ELSE SimpleFalse), room)
    [] t.kind = "major" -> SerializeMajor(t.major, v, room)
    [] t.kind = "literal" -> Put(Leaf(t.head, <<>>), room)
    [] t.kind = "tagged" ->
         LET tag == Written1(HeaderBytes(MkHeader(Tagged, t.tag)), room)
         IN  Behind(tag, Serialize(t.of, v, room - Len(tag)))
    [] t.kind = "either" ->
         Serialize(IF v.in = "l" THEN t.left ELSE t.right, v.value, room)
    [] t.kind = "plus" ->
         LET elements == SerializeAll(t.of, v, room)
             header == HeaderBytes(MkHeader(ArrayType, Len(v)))
         IN  Behind(Written1(header, room - Len(elements)), elements)

\* The elements of an array one behind the other; there must be one at least.
SerializeAll(t, vs, room) ==
  IF vs = <<>> THEN <<>>
  ELSE LET first == Serialize(t, vs[1], room)
       IN  IF Len(vs) = 1 THEN first
           ELSE Behind(first, SerializeAll(t, Tail(vs), room - Len(first)))

-----------------------------------------------------------------------------
evercddl_bool == Bool
everparsenomatch == NoMatch
any == AnyItem
undefined == Simple(23)
nil == Simple(22)
evercddl_null == nil
evercddl_true == Simple(21)
evercddl_false == Simple(20)
tstr == Major(TextString)
bstr == Major(ByteString)
bytes == bstr
text == tstr
nint == Major(NegInt64)
uint == Major(UInt64)
evercddl_int == Either(uint, nint)
cborany == TaggedBy(55799, any)
mimemessage == TaggedBy(36, tstr)
regexp == TaggedBy(35, tstr)
b64legacy == TaggedBy(34, tstr)
b64url == TaggedBy(33, tstr)
uri == TaggedBy(32, tstr)
encodedcbor == TaggedBy(24, bstr)
eb16 == TaggedBy(23, any)
eb64legacy == TaggedBy(22, any)
eb64url == TaggedBy(21, any)
number == evercddl_int
tdate == TaggedBy(0, tstr)
values == any
evercddl_label == Either(evercddl_int, tstr)

\* The elements of key_ops (aux_env29) and of crit (aux_env34), and the arrays.
aux_env29 == Either(tstr, evercddl_int)
aux_env34 == evercddl_label
KeyOps == Plus(aux_env29)
Crit == Plus(aux_env34)

GeneratedTypes ==
  {evercddl_bool, everparsenomatch, any, undefined, nil, evercddl_true, evercddl_false,
   tstr, bstr, nint, uint, evercddl_int, cborany, mimemessage, regexp, b64legacy, b64url,
   uri, encodedcbor, eb16, eb64legacy, eb64url, tdate, evercddl_label, aux_env29, KeyOps,
   Crit}

-----------------------------------------------------------------------------
UKey(n) == MkInt(UInt64, n)
NKey(n) == MkInt(NegInt64, n)

-----------------------------------------------------------------------------
Algorithm == Member(Optional(Entry(UKey(1), evercddl_label)))
Criticality == Member(Optional(Entry(UKey(2), Crit)))
ContentType == Member(Optional(Entry(UKey(3), aux_env29)))
KeyIdentifier == Member(Optional(Entry(UKey(4), bstr)))

\* Header 5 or header 6, or neither: what must not be there is an optional
\* entry of a type without values, with a cut.
Absent(key) == Cut(Optional(Entry(key, everparsenomatch)))
InitialVector ==
  << <<Entry(UKey(5), bstr), Absent(UKey(6))>>,
     <<Entry(UKey(6), bstr), Absent(UKey(5))>>,
     <<Absent(UKey(6)), Absent(UKey(5))>> >>

HeaderMap ==
  [name |-> "header_map",
   members |-> <<Algorithm, Criticality, ContentType, KeyIdentifier, InitialVector>>,
   key |-> evercddl_label, value |-> values]

-----------------------------------------------------------------------------
KeyType == Member(Entry(UKey(1), aux_env29))
KeyId == Member(Optional(Entry(UKey(2), bstr)))
KeyAlgorithm == Member(Optional(Entry(UKey(3), aux_env29)))
KeyOperations == Member(Optional(Entry(UKey(4), KeyOps)))
BaseIV == Member(Optional(Entry(UKey(5), bstr)))

KeyGeneric ==
  [name |-> "cose_key_generic",
   members |-> <<KeyType, KeyId, KeyAlgorithm, KeyOperations, BaseIV>>,
   key |-> evercddl_label, value |-> values]

-----------------------------------------------------------------------------
KeyTypeOkp == Member(Cut(Entry(UKey(1), IntLiteral(UInt64, 1))))
Curve == Member(Cut(Entry(NKey(0), evercddl_label)))
XCoordinate == Member(Cut(Optional(Entry(NKey(1), bstr))))
PrivateKey == Member(Cut(Optional(Entry(NKey(3), bstr))))

KeyOkp ==
  [name |-> "cose_key_okp",
   members |-> <<KeyTypeOkp, Curve, XCoordinate, PrivateKey>>,
   key |-> evercddl_label, value |-> values]
=============================================================================
