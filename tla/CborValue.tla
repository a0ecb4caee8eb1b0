----------------------------- MODULE CborValue -----------------------------
(***************************************************************************)
(* cbor_raw of cbordetveraux.rs: a CBOR object as the API hands it around.  *)
(* An object is either built by the caller, its items in a slice in memory, *)
(* or read out of a buffer, its items still in their encoding:              *)
(*   head   major type, raw size and argument;                             *)
(*   form   "leaf" for integers, simple values and strings, "memory" for a  *)
(*          tagged object, an array or a map built by the caller, and       *)
(*          "serialized" for one that was read;                            *)
(*   bytes  a string's payload, or the encoding of what a serialized        *)
(*          object holds;                                                  *)
(*   items  the entries of an object in memory: <<x>> for the elements of   *)
(*          an array and the payload of a tag, <<key, value>> for a map.    *)
(***************************************************************************)
EXTENDS CborWrite

Leaf(head, bytes) ==
  [head |-> head, form |-> "leaf", bytes |-> bytes, items |-> <<>>]
InMemory(head, items) ==
  [head |-> head, form |-> "memory", bytes |-> <<>>, items |-> items]
Serialized(head, bytes) ==
  [head |-> head, form |-> "serialized", bytes |-> bytes, items |-> <<>>]

\* The constructors of the API: cbor_det_mk_int64, _simple_value, _string,
\* _tagged, _array and, for entries in key order, _map.
MkInt(type, v) == Leaf(MkHeader(type, v), <<>>)
MkSimple(v) == Leaf(MkHeader(SimpleValue, v), <<>>)
MkString(type, s) == Leaf(MkHeader(type, Len(s)), s)
MkTagged(tag, x) == InMemory(MkHeader(Tagged, tag), << <<x>> >>)
MkArray(xs) == InMemory(MkHeader(ArrayType, Len(xs)), [i \in DOMAIN xs |-> <<xs[i]>>])
MkMap(pairs) == InMemory(MkHeader(MapType, Len(pairs)), pairs)

\* cbor_read: the object whose encoding, all of it, is s.
CborRead(s) ==
  LET h == ReadHeader(s, 0)
      rest == Slice(s, JumpHeader(s, 0), Len(s))
  IN  IF h.type \in {Tagged, ArrayType, MapType} THEN Serialized(h, rest)
      ELSE Leaf(h, IF IsString(h) THEN rest ELSE <<>>)

-----------------------------------------------------------------------------
\* Iterators over arrays and maps: what is left of the slice of entries, or
\* what is left of the encoding with the number of entries in it.
IteratorInit(x) ==
  [form |-> x.form, items |-> x.items, s |-> x.bytes,
   len |-> IF x.form = "serialized" THEN x.head.arg ELSE Len(x.items)]

IsEmpty(it) == IF it.form = "serialized" THEN it.len = 0 ELSE it.items = <<>>

\* The encodings of the items of the entry at the start of s: one for an
\* array, key and value for a map.
EntryAt(s, type) ==
  LET end == Jump(s, 0)
  IN  IF type = MapType THEN <<Slice(s, 0, end), Slice(s, end, Jump(s, end))>>
      ELSE <<Slice(s, 0, end)>>

\* The entry the iterator is at: a tuple of objects.
NextEntry(it, type) ==
  IF it.form = "serialized"
  THEN LET e == EntryAt(it.s, type) IN [i \in DOMAIN e |-> CborRead(e[i])]
  ELSE Head(it.items)

\* The iterator behind that entry.
Advance(it, type) ==
  IF it.form = "serialized"
  THEN LET end == Jump(it.s, 0)
       IN  [it EXCEPT
              !.s = Slice(@, IF type = MapType THEN Jump(@, end) ELSE end, Len(@)),
              !.len = @ - 1]
  ELSE [it EXCEPT !.items = Tail(@), !.len = @ - 1]

\* cbor_match_tagged_get_payload
TaggedPayload(x) ==
  IF x.form = "serialized" THEN CborRead(x.bytes) ELSE x.items[1][1]
=============================================================================
