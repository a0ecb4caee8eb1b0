----------------------------- MODULE CborGrammar -----------------------------
(***************************************************************************)
(* Deterministically encoded CBOR as a grammar: a recursive descent over    *)
(* items inside items, where the code keeps a flat count of the items left. *)
(* It is the reference the validator and the jumper are checked against.    *)
(* Ends are offsets; Bad marks a byte string with no item at the offset.    *)
(*                                                                         *)
(* short and sorted are what the grammar asks for: arguments in their       *)
(* shortest form, keys in ascending order, or both of a deterministic item. *)
(***************************************************************************)
EXTENDS CborItem

Bad == -1

\* The length a header must have to encode argument v, and the bytes its
\* initial byte announces.
ShortestLen(v) ==
  IF v < 24 THEN 1
  ELSE IF v < 256 THEN 2
  ELSE IF v < 65536 THEN 3
  ELSE IF v <= Big32 THEN 5
  ELSE 9

\* A header as RFC 8949 defines it.
HeadEnd(s, o, short) ==
  LET i == AdditionalInfo(s, o)
      end == o + 1 + LongArgumentLen(i)
      simple == MajorType(s, o) = SimpleValue
  IN  CASE o >= Len(s) -> Bad
        [] o < Len(s) /\ (i > 27 \/ end > Len(s)) -> Bad
        [] OTHER ->
             IF simple THEN IF i <= 23 \/ (i = 24 /\ At(s, o + 1) >= 32) THEN end ELSE Bad
             ELSE IF short /\ ShortestLen(ReadHeader(s, o).arg) # end - o THEN Bad
             ELSE end

\* Where items end: end[<<o, k>>] is the offset after the k items at offset o,
\* Bad if there are none, or if o is Bad.
Places(s) == (Bad .. Len(s)) \X Nat

\* The i-th key, from 0, of a map whose pairs begin at o.
Key(s, o, i, end) == LET a == end[<<o, 2 * i>>] IN Slice(s, a, end[<<a, 1>>])

KeysAscend(s, o, pairs, end) ==
  \A i \in 1 .. pairs - 1 : KeyOrder(Key(s, o, i - 1, end), Key(s, o, i, end))

\* The end of the item with header h that ends at he, when end is known for
\* what is behind the header; pairsEnd is the end of h.arg pairs.
ItemEndFrom(s, he, h, pairsEnd, sorted, end) ==
  CASE h.type \in {UInt64, NegInt64, SimpleValue} -> he
    [] h.type = ByteString -> IF h.arg <= Len(s) - he THEN he + h.arg ELSE Bad
    [] h.type = TextString ->
         IF h.arg <= Len(s) - he /\ Utf8Correct(Slice(s, he, he + h.arg))
         THEN he + h.arg
         ELSE Bad
    [] h.type = ArrayType -> end[<<he, h.arg>>]
    [] h.type = MapType ->
         IF pairsEnd # Bad /\ (sorted => KeysAscend(s, he, h.arg, end)) THEN pairsEnd ELSE Bad
    [] h.type = Tagged -> end[<<he, 1>>]

ItemBehind(s, he, h, sorted, end) ==
  IF he = Bad THEN Bad ELSE ItemEndFrom(s, he, h, end[<<he, 2 * h.arg>>], sorted, end)

ItemEndBy(s, o, short, sorted, end) ==
  ItemBehind(s, HeadEnd(s, o, short), ReadHeader(s, o), sorted, end)

Ends(s, short, sorted) ==
  LET end[c \in Places(s)] ==
        IF c[2] = 0 \/ c[1] = Bad THEN c[1]
        ELSE end[<<ItemEndBy(s, c[1], short, sorted, end), c[2] - 1>>]
  IN  end

ItemEnd(s, o, det) == Ends(s, det, det)[<<o, 1>>]

\* The length of the deterministic item a buffer starts with, 0 if there is none.
DetLength(s) == LET e == ItemEnd(s, 0, TRUE) IN IF e = Bad THEN 0 ELSE e
ValidLength(s) == LET e == ItemEnd(s, 0, FALSE) IN IF e = Bad THEN 0 ELSE e
=============================================================================
