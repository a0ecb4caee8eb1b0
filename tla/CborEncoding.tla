---------------------------- MODULE CborEncoding ----------------------------
(***************************************************************************)
(* What an object means: its encoding.  It is the reference the comparison, *)
(* the serializer and the iterators are checked against.                    *)
(***************************************************************************)
EXTENDS CborValue, SequencesExt

G == INSTANCE CborGrammar

RECURSIVE Encoding(_), MemoryDepth(_), EntriesFrom(_, _, _)

\* The header, and then the payload or the items one behind the other.
Encoding(x) ==
  HeaderBytes(x.head) \o x.bytes
    \o FlattenSeq([i \in DOMAIN x.items |->
         FlattenSeq([j \in DOMAIN x.items[i] |-> Encoding(x.items[i][j])])])

\* n entries of w items each from the start of s, cut where the grammar says.
EntriesFrom(s, n, w) ==
  IF n = 0 THEN <<>>
  ELSE LET a == G!ItemEnd(s, 0, TRUE)
           b == IF w = 1 THEN a ELSE G!ItemEnd(s, a, TRUE)
           x == CborRead(Slice(s, 0, a))
       IN  << IF w = 1 THEN <<x>> ELSE <<x, CborRead(Slice(s, a, b))>> >>
             \o EntriesFrom(Slice(s, b, Len(s)), n - 1, w)

\* The entries of an array or a map, in memory or not.
EntriesOf(x) ==
  IF x.form = "memory" THEN x.items
  ELSE EntriesFrom(x.bytes, x.head.arg, IF x.head.type = MapType THEN 2 ELSE 1)

\* How deep the objects in memory are nested.
MemoryDepth(x) ==
  IF x.form # "memory" THEN 0
  ELSE 1 + Max({0} \cup UNION {{MemoryDepth(x.items[i][j]) : j \in DOMAIN x.items[i]}
                                : i \in DOMAIN x.items})
=============================================================================
