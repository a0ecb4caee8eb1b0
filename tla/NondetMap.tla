------------------------------ MODULE NondetMap ------------------------------
(***************************************************************************)
(* A map in the nondeterministic library: cbor_nondet_mk_map makes one of   *)
(* the caller's entries, in their order, unless two keys mean the same, and *)
(* cbor_nondet_map_get looks a key up in it, or in a map that was parsed.   *)
(* Keys are compared by cbor_nondet_equiv_with_depth.  Where both objects,  *)
(* which are those of CborValue, are still in their encoding the comparison *)
(* of NondetEquiv decides, and for maps another copy of its two loops;      *)
(* otherwise the entries are read one by one.                               *)
(***************************************************************************)
EXTENDS CborValue, SequencesExt

CONSTANTS
  EntryLists,   \* the entries a caller may have
  Parsed,       \* maps read from a buffer that the validator accepted
  Keys,         \* keys to look up
  EquivList(_, _, _, _)   \* impl_check_equiv_list_basic without a bound: the
                          \* comparison of n1 items in l1 and n2 items in l2

RECURSIVE Equiv(_, _)

\* What the iterator of an object goes through, and the pairs of an encoded map.
Entries(o) ==
  LET first == IteratorInit(o)
      it[i \in 0 .. first.len] == IF i = 0 THEN first ELSE Advance(it[i - 1], o.head.type)
  IN  [i \in 1 .. first.len |-> NextEntry(it[i - 1], o.head.type)]

EncodedPairs(n, l) ==
  LET start[i \in 0 .. n] == IF i = 0 THEN 0 ELSE Jump(l, Jump(l, start[i - 1]))
  IN  [i \in 1 .. n |-> EntryAt(Slice(l, start[i - 1], Len(l)), MapType)]

-----------------------------------------------------------------------------
\* impl_check_equiv_basic; its two arguments are encodings.
EquivItem(l1, l2) == EquivList(1, l1, 1, l2)

\* impl_list_for_all_with_overflow_setoid_assoc_eq_with_overflow_basic: for each
\* pair of l2, the first pair of l1 with that key, j, has that value.
ForAllAssoc(nl1, l1, nl2, l2) ==
  \A p \in ToSet(EncodedPairs(nl2, l2)) : \E others \in {EncodedPairs(nl1, l1)} :
    \E j \in DOMAIN others :
      /\ \A i \in 1 .. j : EquivItem(p[1], others[i][1]) <=> i = j
      /\ EquivItem(p[2], others[j][2])

EqualSerializedTagged(c1, c2) ==
  c1.head.arg = c2.head.arg /\ EquivItem(c1.bytes, c2.bytes)

CompareSerializedArray(c1, c2) ==
  EquivList(c1.head.arg, c1.bytes, c2.head.arg, c2.bytes)

CompareSerializedMap(c1, c2) ==
  /\ ForAllAssoc(c2.head.arg, c2.bytes, c1.head.arg, c1.bytes)
  /\ ForAllAssoc(c1.head.arg, c1.bytes, c2.head.arg, c2.bytes)

-----------------------------------------------------------------------------
\* Fault: the width of an argument counts.
SameArgumentAndSize(x1, x2) == x1.head = x2.head

\* A number, a tag or a length is the same in whatever width it came.
SameArgument(x1, x2) == x1.head.arg = x2.head.arg

\* A tag and its payload, or a length and the elements.
SameParts(x1, x2, parts) ==
  SameArgument(x1, x2) /\ \A p \in parts : Equiv(p[1], p[2])

Elements(x1, x2) == {<<Entries(x1)[i][1], Entries(x2)[i][1]>> : i \in 1 .. x1.head.arg}

\* The loop over one of two maps: for each pair, the first of the others with that
\* key, j, has that value.
AllFound(pairs, others) ==
  \A p \in ToSet(pairs) : \E j \in DOMAIN others :
    /\ \A i \in 1 .. j : Equiv(p[1], others[i][1]) <=> i = j
    /\ Equiv(p[2], others[j][2])

SameMap(x1, x2) ==
  \A m \in {<<Entries(x1), Entries(x2)>>, <<Entries(x2), Entries(x1)>>} : AllFound(m[1], m[2])

Equiv(x1, x2) ==
  LET type == x1.head.type
      serialized == x1.form = "serialized" /\ x2.form = "serialized"
  IN  /\ type = x2.head.type
      /\ CASE type = Tagged -> IF serialized THEN EqualSerializedTagged(x1, x2)
                               ELSE SameParts(x1, x2, {<<TaggedPayload(x1), TaggedPayload(x2)>>})
           [] type = ArrayType -> IF serialized THEN CompareSerializedArray(x1, x2)
                                  ELSE SameParts(x1, x2, Elements(x1, x2))
           [] type = MapType -> IF serialized THEN CompareSerializedMap(x1, x2)
                                ELSE SameMap(x1, x2)
           [] OTHER -> /\ SameArgument(x1, x2)
                       /\ IsString(x1.head) => LexCompare(x1.bytes, x2.bytes) = 0

-----------------------------------------------------------------------------

VARIABLES pc, a, n1, n2, distinct, x, k, pi, dest
vars == <<pc, a, n1, n2, distinct, x, k, pi, dest>>
buildVars == <<a, n1, n2, distinct>>
getVars == <<k, pi, dest>>

NoMap == <<>>

Init ==
  /\ k \in Keys /\ pi = <<>> /\ dest = <<>>   \* <<>> is None, <<v>> is Some(v)
  /\ n1 = 0 /\ n2 = 0 /\ distinct = TRUE
  /\ \/ a \in EntryLists /\ x = NoMap /\ pc = "outer"
     \/ a = <<>> /\ x \in Parsed /\ pc = "get"

-----------------------------------------------------------------------------
\* cbor_nondet_no_setoid_repeats: entry n1 is compared with those behind it.
Outer ==
  /\ pc = "outer" /\ distinct /\ n1 < Len(a)
  /\ n1' = n1 + 1 /\ n2' = n1 + 1
  /\ pc' = "inner"
  /\ UNCHANGED <<a, distinct, x, getVars>>

Inner ==
  /\ pc = "inner" /\ distinct /\ n2 < Len(a)
  /\ distinct' = ~Equiv(a[n1][1], a[n2 + 1][1])
  /\ n2' = n2 + 1
  /\ UNCHANGED <<pc, a, n1, x, getVars>>

InnerEnds ==
  /\ pc = "inner" /\ (distinct => n2 = Len(a))
  /\ pc' = "outer"
  /\ UNCHANGED <<buildVars, x, getVars>>

\* The number of entries always fits: the test for that is on a usize.
Build ==
  /\ pc = "outer" /\ distinct /\ n1 = Len(a)
  /\ x' = MkMap(a)
  /\ pc' = "get"
  /\ UNCHANGED <<buildVars, getVars>>

Refuse ==
  /\ pc = "outer" /\ ~distinct
  /\ pc' = "done"
  /\ UNCHANGED <<buildVars, x, getVars>>

-----------------------------------------------------------------------------
\* cbor_nondet_map_get: the loop over the entries.
Start ==
  /\ pc = "get"
  /\ pi' = IteratorInit(x)
  /\ pc' = "search"
  /\ UNCHANGED <<buildVars, x, k, dest>>

Searching == pc = "search" /\ ~IsEmpty(pi) /\ dest = <<>>
y == NextEntry(pi, MapType)

Found ==
  /\ Searching /\ Equiv(y[1], k)
  /\ dest' = <<y[2]>>
  /\ pi' = Advance(pi, MapType)
  /\ UNCHANGED <<pc, buildVars, x, k>>

OtherKey ==
  /\ Searching /\ ~Equiv(y[1], k)
  /\ pi' = Advance(pi, MapType)
  /\ UNCHANGED <<pc, buildVars, x, k, dest>>

Return ==
  /\ pc = "search" /\ ~Searching
  /\ pc' = "done"
  /\ UNCHANGED <<buildVars, x, getVars>>

Next == Outer \/ Inner \/ InnerEnds \/ Build \/ Refuse \/ Start \/ Found \/ OtherKey \/ Return

Spec == Init /\ [][Next]_vars /\ WF_vars(Next)
=============================================================================
