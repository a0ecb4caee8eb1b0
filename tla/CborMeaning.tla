----------------------------- MODULE CborMeaning -----------------------------
(***************************************************************************)
(* What an encoding means when maps are unordered and arguments may have    *)
(* any width, the reference for the nondeterministic library.  Every s is   *)
(* the encoding of one item.                                               *)
(***************************************************************************)
EXTENDS CborGrammar, SequencesExt

RECURSIVE Cut(_, _), Meaning(_), MapDepth(_), NoRepeats(_), KeysWithin(_, _)

\* The first k items of s.
Cut(s, k) ==
  IF k = 0 THEN <<>>
  ELSE LET e == ItemEnd(s, 0, FALSE)
       IN  <<Slice(s, 0, e)>> \o Cut(Slice(s, e, Len(s)), k - 1)

\* The items directly in an item, keys and values in turn.
Parts(s) ==
  LET h == ReadHeader(s, 0)
  IN  Cut(Slice(s, HeadEnd(s, 0, FALSE), Len(s)),
          CASE h.type = ArrayType -> h.arg
            [] h.type = MapType -> 2 * h.arg
            [] h.type = Tagged -> 1
            [] OTHER -> 0)

IsMap(s) == MajorType(s, 0) = MapType

Meaning(s) ==
  LET h == ReadHeader(s, 0)
      p == Parts(s)
  IN  CASE h.type = MapType ->
             <<MapType, {<<Meaning(p[2 * i - 1]), Meaning(p[2 * i])>> : i \in 1 .. h.arg}>>
        [] h.type = ArrayType -> <<ArrayType, [i \in 1 .. h.arg |-> Meaning(p[i])]>>
        [] h.type = Tagged -> <<Tagged, h.arg, Meaning(p[1])>>
        [] IsString(h) -> <<h.type, Slice(s, HeadEnd(s, 0, FALSE), Len(s))>>
        [] OTHER -> <<h.type, h.arg>>

\* How deep maps are nested.
MapDepth(s) ==
  (IF IsMap(s) THEN 1 ELSE 0) + Max({0} \cup {MapDepth(x) : x \in ToSet(Parts(s))})

\* The keys of the map s.
KeysOf(s) == LET p == Parts(s) IN {p[i] : i \in {j \in DOMAIN p : j % 2 = 1}}

\* No map of s has two keys that mean the same.
NoRepeats(s) ==
  /\ IsMap(s) => Cardinality({Meaning(k) : k \in KeysOf(s)}) = ReadHeader(s, 0).arg
  /\ \A x \in ToSet(Parts(s)) : NoRepeats(x)

\* In no key of a map of s are maps nested deeper than b.
KeysWithin(s, b) ==
  /\ IsMap(s) => \A k \in KeysOf(s) : MapDepth(k) <= b
  /\ \A x \in ToSet(Parts(s)) : KeysWithin(x, b)
=============================================================================
