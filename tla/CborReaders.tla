---------------------------- MODULE CborReaders ----------------------------
(***************************************************************************)
(* Reading an array or a map, in memory or serialized: the caller takes     *)
(* entries from an iterator (cbor_det_array_iterator_next and _truncate,    *)
(* cbor_det_map_iterator_next), and then asks for an element by its index   *)
(* (cbor_det_get_array_item), which walks over the encodings in front, or   *)
(* for the value of a key (cbor_det_map_get).  That loop has an iterator    *)
(* of its own and gives up at the first greater key, relying on the order   *)
(* of the keys that the validator checked or cbor_det_mk_map made.          *)
(***************************************************************************)
EXTENDS CborValue, CborGrammar

CONSTANTS
  Objects, Indices, Keys,
  DetEncoding(_)   \* the deterministic encoding of an object

\* impl_cbor_det_compare: CborCompare has its recursion, and shows that it is the
\* order of the encodings.
Compare(a, b) == LexCompare(DetEncoding(a), DetEncoding(b))

-----------------------------------------------------------------------------
\* What an object holds, by the grammar: the bytes of a serialized one are its
\* items, one behind the other.  ItemStart is where the i-th item, from 0, starts.
ItemStart(s, i) == Ends(s, TRUE, TRUE)[<<0, i>>]
ItemOf(s, i) == Slice(s, ItemStart(s, i), ItemStart(s, i + 1))

IsRow(s, n) ==
  /\ s \in Seq(Byte) /\ Len(s) <= SizeMax
  /\ ItemStart(s, n) = Len(s)
  /\ \A i \in 0 .. n - 1 : ItemOf(s, i) # <<>> /\ DetLength(ItemOf(s, i)) = Len(ItemOf(s, i))

\* The number of entries, and the i-th of them, from 0.
Count(x) == x.head.arg
EntryOf(x, i) ==
  CASE x.form = "memory" -> x.items[i + 1]
    [] x.form = "serialized" /\ x.head.type = ArrayType -> <<CborRead(ItemOf(x.bytes, i))>>
    [] x.form = "serialized" /\ x.head.type = MapType ->
         <<CborRead(ItemOf(x.bytes, 2 * i)), CborRead(ItemOf(x.bytes, 2 * i + 1))>>

KeyOf(x, i) == DetEncoding(EntryOf(x, i)[1])

\* What makes an object: as many entries as the head counts, in a slice in memory
\* or in a buffer that has been validated, those of a map in the order of their
\* keys.
Holds(x) ==
  \/ /\ x.form = "memory"
     /\ x.items \in Seq({x.items[i] : i \in DOMAIN x.items})
     /\ Len(x.items) = Count(x) /\ Count(x) <= SizeMax
  \/ /\ x.form = "serialized"
     /\ IsRow(x.bytes, IF x.head.type = MapType THEN 2 * Count(x) ELSE Count(x))

KeysInOrder(x) ==
  /\ \A i \in 0 .. Count(x) - 1 : KeyOf(x, i) \in Seq(Byte)
  /\ \A i, j \in 0 .. Count(x) - 1 : i < j => LexLess(KeyOf(x, i), KeyOf(x, j))

IsObject(x) ==
  /\ x.head \in Header /\ x.head.type \in {ArrayType, MapType}
  /\ Holds(x)
  /\ x.head.type = MapType => KeysInOrder(x)

ASSUME ReadersAssumption ==
  /\ \A x \in Objects : IsObject(x)
  /\ Indices \subseteq Nat
  /\ \A k \in Keys : DetEncoding(k) \in Seq(Byte)

-----------------------------------------------------------------------------
VARIABLES
  obj,             \* the array or the map
  it,              \* the caller's iterator
  taken,           \* the entries it has yielded
  upto,            \* the number of entries it was left with, those taken included
  pc, arg,         \* the access: "hold", "walk", "search" or "done"; <<its index or key>>
  pi, pres, pcont, \* the cells of its loop: elements passed and what is behind
                   \* them, or the iterator, the value found and whether to go on
  result           \* <<x>> for Some(x), <<>> for None

vars == <<obj, it, taken, upto, pc, arg, pi, pres, pcont, result>>
iteration == <<obj, it, taken, upto>>

Type == obj.head.type

Init ==
  /\ obj \in Objects
  /\ it = IteratorInit(obj)
  /\ taken = <<>> /\ upto = it.len
  /\ pc = "hold" /\ arg = <<>>
  /\ pi = (IF Type = ArrayType THEN 0 ELSE it) /\ pres = <<>> /\ pcont = FALSE /\ result = <<>>

-----------------------------------------------------------------------------
NextItem ==
  /\ pc = "hold" /\ ~IsEmpty(it)
  /\ taken' = Append(taken, NextEntry(it, Type))
  /\ it' = Advance(it, Type)
  /\ UNCHANGED <<obj, upto, pc, arg, pi, pres, pcont, result>>

\* cbor_array_iterator_truncate: of a serialized array the bytes stay.
Truncated(n) ==
  IF it.form = "serialized" THEN [it EXCEPT !.len = n]
  ELSE [it EXCEPT !.len = n, !.items = Slice(@, 0, n)]

TruncateTo(n) ==
  /\ pc = "hold" /\ Type = ArrayType /\ n < it.len
  /\ it' = Truncated(n)
  /\ upto' = Len(taken) + n
  /\ UNCHANGED <<obj, taken, pc, arg, pi, pres, pcont, result>>

-----------------------------------------------------------------------------
\* The element at index n.
GetItem(n) ==
  /\ pc = "hold" /\ Type = ArrayType
  /\ arg' = <<n>> /\ pi' = 0 /\ pres' = obj.bytes
  /\ pc' = IF n < obj.head.arg /\ obj.form = "serialized" THEN "walk" ELSE "done"
  /\ result' = IF n < obj.head.arg /\ obj.form = "memory" THEN obj.items[Size(n) + 1] ELSE <<>>
  /\ UNCHANGED <<iteration, pcont>>

\* Fault: the walk ends one element early.
InFrontButOne == pi + 1 < Size(arg[1])

InFront == pi < Size(arg[1])

PassElement ==
  /\ pc = "walk" /\ InFront
  /\ pi' = Size(pi + 1)
  /\ pres' = Slice(pres, Jump(pres, 0), Len(pres))
  /\ UNCHANGED <<iteration, pc, arg, pcont, result>>

ReadElement ==
  /\ pc = "walk" /\ ~InFront
  /\ result' = <<CborRead(Slice(pres, 0, Jump(pres, 0)))>>
  /\ pc' = "done"
  /\ UNCHANGED <<iteration, arg, pi, pres, pcont>>

-----------------------------------------------------------------------------
\* The value of key k.
MapGet(k) ==
  /\ pc = "hold" /\ Type = MapType
  /\ arg' = <<k>>
  /\ pi' = IteratorInit(obj) /\ pres' = <<>> /\ pcont' = ~IsEmpty(pi')
  /\ pc' = "search"
  /\ UNCHANGED <<iteration, result>>

Searching == pc = "search" /\ pcont
entry == NextEntry(pi, MapType)
comp == Compare(entry[1], arg[1])

Found ==
  /\ Searching /\ comp = 0
  /\ pi' = Advance(pi, MapType)
  /\ pres' = <<entry[2]>>
  /\ pcont' = FALSE
  /\ UNCHANGED <<iteration, pc, arg, result>>

Smaller ==
  /\ Searching /\ comp < 0
  /\ pi' = Advance(pi, MapType)
  /\ pcont' = ~IsEmpty(pi')
  /\ UNCHANGED <<iteration, pc, arg, pres, result>>

\* Fault: a greater key is taken for the key.
GreaterTaken ==
  /\ Searching /\ comp > 0
  /\ pi' = Advance(pi, MapType)
  /\ pres' = <<entry[2]>>
  /\ pcont' = FALSE
  /\ UNCHANGED <<iteration, pc, arg, result>>

Greater ==
  /\ Searching /\ comp > 0
  /\ pi' = Advance(pi, MapType)
  /\ pcont' = FALSE
  /\ UNCHANGED <<iteration, pc, arg, pres, result>>

Return ==
  /\ pc = "search" /\ ~pcont
  /\ result' = pres
  /\ pc' = "done"
  /\ UNCHANGED <<iteration, arg, pi, pres, pcont>>

Next ==
  \/ NextItem
  \/ \E n \in 0 .. upto : TruncateTo(n)
  \/ \E n \in Indices : GetItem(n)
  \/ PassElement \/ ReadElement
  \/ \E k \in Keys : MapGet(k)
  \/ Found \/ Smaller \/ Greater \/ Return

\* A caller may stop at any time, so nothing must happen.
Spec == Init /\ [][Next]_vars

-----------------------------------------------------------------------------
\* However often an iterator is truncated between its elements, what it yields
\* are the entries of the array or the map up to the last truncation, in order,
\* each once, and its length is the number of those that are left; and the element
\* at an index, None from the length on, is the one the iterator has at that
\* place, in both forms.
ElementsAreReadInOrder ==
  /\ \A i \in 1 .. Len(taken) : taken[i] = EntryOf(obj, i - 1)
  /\ it.len = upto - Len(taken)
  /\ IsEmpty(it) <=> Len(taken) = upto
  /\ pc = "done" /\ Type = ArrayType =>
       result = IF arg[1] < Count(obj) THEN EntryOf(obj, arg[1]) ELSE <<>>

\* A lookup finds the value of the key if the map has the key, and nothing
\* otherwise: giving up at a greater key misses no entry, in a map built in memory
\* as in one that was read, and the key's own form does not matter.
FindsTheValue ==
  pc = "done" /\ Type = MapType =>
    LET ofKey == {i \in 0 .. Count(obj) - 1 : KeyOf(obj, i) = DetEncoding(arg[1])}
    IN  IF ofKey = {} THEN result = <<>> ELSE \E i \in ofKey : result = <<EntryOf(obj, i)[2]>>
=============================================================================
