------------------------------ MODULE CddlGroup ------------------------------
(***************************************************************************)
(* The arrays of a CDDL specification and the functions generated for each  *)
(* (cose/rust/src/coseformat.rs).  What an array holds is described by a    *)
(* group: one item of a type, a group behind another one, a choice of two   *)
(* groups, or one or more items of a type.                                  *)
(*                                                                         *)
(* An object is a leaf, [is], or an array or a tagged item, [is, holds],    *)
(* that holds a sequence of objects.  A leaf type has the objects that its  *)
(* validator accepts; its parser and its serializer are those of CoseTypes  *)
(* and CddlMap, and a value of it is named like the object it stands for.   *)
(* The Rust type may hold values that the serializer refuses.               *)
(*                                                                         *)
(* An array iterator stands for the sequence of the objects that are left.  *)
(*                                                                         *)
(* CountMax is 2^64 - 1, the largest number of items in an array.           *)
(***************************************************************************)
EXTENDS Integers, SequencesExt

CONSTANT CountMax
ASSUME CountAssumption == CountMax \in Nat

LeafType(accepted, held) == [kind |-> "leaf", accepted |-> accepted, held |-> held]
Either(t, u) == [kind |-> "either", left |-> t, right |-> u]
ArrayOf(g) == [kind |-> "array", group |-> g]
TaggedBy(n, t) == [kind |-> "tagged", tag |-> n, of |-> t]

Item(t) == [kind |-> "item", type |-> t]
Cat(g, h) == [kind |-> "cat", left |-> g, right |-> h]
Choice(g, h) == [kind |-> "choice", left |-> g, right |-> h]
OneOrMore(t) == [kind |-> "plus", type |-> t]

LeafObject(name) == [is |-> name]
ArrayObject(xs) == [is |-> "array", holds |-> xs]
TaggedObject(n, x) == [is |-> n, holds |-> <<x>>]

-----------------------------------------------------------------------------
\* A validator runs on a cell with the iterator in it: whether it succeeds, and
\* what it leaves in the cell, on failure too.
Outcome(ok, i) == [ok |-> ok, cell |-> i]

\* Fault: the second group starts where the first one failed.
BacktrackForgotten(i, failed) == failed

\* The cell of before is put back, before the second group of a choice and
\* behind the last of one or more items.
Backtrack(i, failed) == i

RECURSIVE ValidateType(_, _), ValidateGroup(_, _), ValidateMore(_, _)

ValidateType(t, x) ==
  CASE t.kind = "leaf" -> x.is \in t.accepted
    [] t.kind = "either" -> ValidateType(t.left, x) \/ ValidateType(t.right, x)
    [] t.kind = "tagged" -> x.is = t.tag /\ ValidateType(t.of, x.holds[1])
    [] t.kind = "array" ->
         /\ x.is = "array"
         /\ \E r \in {ValidateGroup(t.group, x.holds)} : r.ok /\ r.cell = <<>>

ValidateGroup(g, i) ==
  CASE g.kind = "item" ->
         IF i = <<>> THEN Outcome(FALSE, i)
         ELSE Outcome(ValidateType(g.type, Head(i)), Tail(i))
    [] g.kind = "cat" ->
         LET r == ValidateGroup(g.left, i)
         IN  IF r.ok THEN ValidateGroup(g.right, r.cell) ELSE r
    [] g.kind = "choice" ->
         LET r == ValidateGroup(g.left, i)
         IN  IF r.ok THEN r ELSE ValidateGroup(g.right, Backtrack(i, r.cell))
    [] g.kind = "plus" ->
         LET r == ValidateGroup(Item(g.type), i)
         IN  IF r.ok THEN ValidateMore(g.type, r.cell) ELSE r

ValidateMore(t, i) ==
  LET r == ValidateGroup(Item(t), i)
  IN  IF r.ok THEN ValidateMore(t, r.cell) ELSE Outcome(TRUE, Backtrack(i, r.cell))

-----------------------------------------------------------------------------
\* cbor_det_array_iterator_truncate.
Truncate(i, n) == SubSeq(i, 1, n)
Difference(m, n) == (m - n) % (CountMax + 1)

\* A group is validated again to find where it ends, whatever the answer: it is
\* parsed from an iterator that ends there, and what follows from the cell.
Ahead(g, i) == ValidateGroup(g, i).cell
Part(g, i) == Truncate(i, Difference(Len(i), Len(Ahead(g, i))))

\* A value: of a leaf its object; of a choice [in |-> "l" or "r", value]; of two
\* groups the pair of their values; of one or more items [in |-> "r", value],
\* value the array iterator.  A caller may put a slice of values in "l".
RECURSIVE ParseType(_, _), ParseGroup(_, _)

ParseType(t, x) ==
  CASE t.kind = "leaf" -> x
    [] t.kind = "either" ->
         IF ValidateType(t.left, x) THEN [in |-> "l", value |-> ParseType(t.left, x)]
         ELSE [in |-> "r", value |-> ParseType(t.right, x)]
    [] t.kind = "tagged" -> ParseType(t.of, x.holds[1])
    [] t.kind = "array" -> ParseGroup(t.group, x.holds)

ParseGroup(g, i) ==
  CASE g.kind = "item" -> ParseType(g.type, Head(i))
    [] g.kind = "cat" -> <<ParseGroup(g.left, Part(g.left, i)), ParseGroup(g.right, Ahead(g.left, i))>>
    [] g.kind = "choice" ->
         IF ValidateGroup(g.left, i).ok THEN [in |-> "l", value |-> ParseGroup(g.left, i)]
         ELSE [in |-> "r", value |-> ParseGroup(g.right, i)]
    [] g.kind = "plus" -> [in |-> "r", value |-> i]

\* next_iterate_array_*: the element, and the cell behind it.
Element(t, i) == ParseGroup(Item(t), Part(Item(t), i))
BehindElement(t, i) == Ahead(Item(t), i)

-----------------------------------------------------------------------------
\* What serializing costs: every object has a header, or is one unit of bytes if
\* it has no size of its own.
RECURSIVE SizeOf(_)
SizeOf(x) ==
  IF "holds" \in DOMAIN x
  THEN FoldSeq(LAMBDA y, n : SizeOf(y) + n, 1, x.holds)
  ELSE IF "size" \in DOMAIN x THEN x.size
  ELSE 1
SizeOfAll(xs) == FoldSeq(LAMBDA y, n : SizeOf(y) + n, 0, xs)

\* A serializer of a type returns the object it wrote, <<>> for failure.  That
\* of a group adds to the objects written before and their number: the cells
\* *out_size and *out_count.
Written(ok, xs) == [ok |-> ok, objects |-> xs]
PutObject(x, room) == IF SizeOf(x) <= room THEN <<x>> ELSE <<>>

\* The elements to be serialized, of a caller's slice or of an iterator.
FirstElement(t, v) == IF v.in = "l" THEN Head(v.value) ELSE Element(t, v.value)
RestOfElements(t, v) ==
  [v EXCEPT !.value = IF v.in = "l" THEN Tail(@) ELSE BehindElement(t, @)]

RECURSIVE SerializeType(_, _, _), SerializeGroup(_, _, _, _), SerializeEach(_, _, _, _)

SerializeType(t, v, room) ==
  CASE t.kind = "leaf" -> IF v.is \in t.accepted THEN PutObject(v, room) ELSE <<>>
    [] t.kind = "either" ->
         SerializeType(IF v.in = "l" THEN t.left ELSE t.right, v.value, room)
    [] t.kind = "tagged" ->
         LET y == SerializeType(t.of, v, room - 1)
         IN  [k \in DOMAIN y |-> TaggedObject(t.tag, y[k])]
    [] t.kind = "array" ->
         LET w == SerializeGroup(t.group, v, Written(TRUE, <<>>), room)
         IN  IF w.ok THEN PutObject(ArrayObject(w.objects), room) ELSE <<>>

SerializeGroup(g, v, w, room) ==
  CASE g.kind = "item" ->
         LET y == SerializeType(g.type, v, room - SizeOfAll(w.objects))
         IN  Written(Len(w.objects) < CountMax /\ y # <<>>, w.objects \o y)
    [] g.kind = "cat" ->
         LET r == SerializeGroup(g.left, v[1], w, room)
         IN  IF r.ok THEN SerializeGroup(g.right, v[2], r, room) ELSE r
    [] g.kind = "choice" ->
         SerializeGroup(IF v.in = "l" THEN g.left ELSE g.right, v.value, w, room)
    [] g.kind = "plus" ->
         IF v.value = <<>> THEN Written(FALSE, w.objects)
         ELSE SerializeEach(g.type, v, w, room)

SerializeEach(t, v, w, room) ==
  IF ~w.ok \/ v.value = <<>> THEN w
  ELSE SerializeEach(t, RestOfElements(t, v),
                     SerializeGroup(Item(t), FirstElement(t, v), w, room), room)
-----------------------------------------------------------------------------
(***************************************************************************)
(* The arrays of coseformat.rs, as the code generated for cose-sign.cddl    *)
(* has them.  The leaves: the texts "Signature" and "Signature1", byte      *)
(* strings that hold nothing ("empty"), a header map ("header") or          *)
(* something else ("bytes"), a header map, two keys, and nil.               *)
(***************************************************************************)
ByteStrings == {"empty", "header", "bytes"}

Only(name) == LeafType({name}, {name})
bstr == LeafType(ByteStrings, ByteStrings)
nil == Only("nil")
header_map == Only("map")
cose_key_generic == LeafType({"key1", "key2"}, {"key1", "key2"})

\* A header map in a byte string, or a byte string of length 0; the Rust type
\* has a slice for the second.
empty_or_serialized_map == Either(Only("header"), LeafType({"empty"}, ByteStrings))

Payload == Either(bstr, nil)
Headers == Cat(Item(empty_or_serialized_map), Item(header_map))

-----------------------------------------------------------------------------
Context == Either(Only("Signature"), Only("Signature1"))
SignerPart == Cat(Item(empty_or_serialized_map), Cat(Item(bstr), Item(bstr)))
BodyPart == Cat(Item(bstr), Item(bstr))
sig_structure ==
  ArrayOf(Cat(Item(Context), Cat(Item(empty_or_serialized_map), Choice(SignerPart, BodyPart))))

cose_sign1 == ArrayOf(Cat(Headers, Cat(Item(Payload), Item(bstr))))
cose_sign1_tagged == TaggedBy("tag 18", cose_sign1)

cose_signature == ArrayOf(Cat(Headers, Item(bstr)))
Signatures == ArrayOf(OneOrMore(cose_signature))
cose_sign == ArrayOf(Cat(Headers, Cat(Item(Payload), Item(Signatures))))
cose_sign_tagged == TaggedBy("tag 98", cose_sign)

cose_keyset == ArrayOf(OneOrMore(cose_key_generic))

-----------------------------------------------------------------------------
\* The types that hold an array of any length, and its place in their values.
Iterated == {cose_sign, cose_sign_tagged, cose_keyset}
ElementType(t) == IF t = cose_keyset THEN cose_key_generic ELSE cose_signature
Elements(t, v) == IF t = cose_keyset THEN v ELSE v[2][2]
WithElements(t, v, e) == IF t = cose_keyset THEN e ELSE [v EXCEPT ![2][2] = e]
=============================================================================
