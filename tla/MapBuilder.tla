----------------------------- MODULE MapBuilder -----------------------------
(***************************************************************************)
(* How a map is serialized entry by entry: the code that the CDDL compiler  *)
(* generates (the map serializers of cose/rust/src/coseformat.rs).  Each    *)
(* entry's key and value are serialized behind the entries that are there,  *)
(* cbor_det_serialize_map_insert moves them to their place, and in the end  *)
(* cbor_det_serialize_map puts the header in front.  *pcount and *psize are *)
(* updated only when all of it went well; on any failure 0 is returned.     *)
(*                                                                         *)
(* Keys and Values are deterministic encodings of the items to be written.  *)
(* A writer returns 0 when its encoding does not fit; what it then left in  *)
(* the buffer is behind *psize and is never read.  Excluded are the entries *)
(* that a table of the map must not hold, its other members having a claim  *)
(* on them.  CountMax stands for 2^64 - 1, the last number pcount can hold. *)
(*                                                                         *)
(* The moving is cbor_raw_map_insert, the first part of the module.  The    *)
(* slice it is given holds the map's entries in key order up to off2, the   *)
(* new key up to off3 and the new value up to kvend, the slice's end.  It   *)
(* looks for the first entry with a greater key and rotates the new entry   *)
(* in front of it.                                                          *)
(***************************************************************************)
EXTENDS CborWrite, CborGrammar, FiniteSets

VARIABLES
  out,                \* the caller's buffer
  off2, off3, kvend,  \* the arguments
  poff,               \* the offset of the entry looked at
  pres                \* "idle", "progress", "success" or "failure"

insertVars == <<out, off2, off3, kvend, poff, pres>>
arguments == <<off2, off3, kvend>>

\* The key of the entry looked at, compared with the new one.
entries == Slice(out, poff, off2)
offk == Jump(entries, 0)
order == LexCompare(Slice(entries, 0, offk), Slice(out, off2, off3))
offq == Jump(Slice(entries, offk, Len(entries)), 0)

InsertCall(o2, o3, end) ==
  /\ pres = "idle"
  /\ off2' = o2 /\ off3' = o3 /\ kvend' = end
  /\ poff' = 0
  /\ pres' = "progress"
  /\ UNCHANGED out

Looking == pres = "progress" /\ poff < off2

\* Fault: the value of the entry is taken for the next key.
SkipEntryKeyOnly ==
  /\ Looking /\ order < 0
  /\ poff' = Size(poff + offk)
  /\ UNCHANGED <<out, arguments, pres>>

\* Fault: the cursor does not advance.
SkipEntryInPlace ==
  /\ Looking /\ order < 0
  /\ UNCHANGED insertVars

SkipEntry ==
  /\ Looking /\ order < 0
  /\ poff' = Size(poff + offk + offq)
  /\ UNCHANGED <<out, arguments, pres>>

\* Fault: the new key is rotated without its value.
InsertBeforeKeyOnly ==
  /\ Looking /\ order > 0
  /\ out' = RotatedPart(out, poff, off3, off2 - poff)
  /\ pres' = "success"
  /\ UNCHANGED <<arguments, poff>>

InsertBefore ==
  /\ Looking /\ order > 0
  /\ out' = RotatedPart(out, poff, kvend, off2 - poff)
  /\ pres' = "success"
  /\ UNCHANGED <<arguments, poff>>

SameKey ==
  /\ Looking /\ order = 0
  /\ pres' = "failure"
  /\ UNCHANGED <<out, arguments, poff>>

\* The new entry is the last one: it is in its place already.
InsertLast ==
  /\ pres = "progress" /\ ~(poff < off2)
  /\ pres' = "success"
  /\ UNCHANGED <<out, arguments, poff>>

InsertStep == SkipEntry \/ InsertBefore \/ SameKey \/ InsertLast

-----------------------------------------------------------------------------
CONSTANTS Keys, Values, Excluded, Capacities, CountMax

ASSUME BuilderAssumption ==
  /\ Keys \subseteq Seq(Byte) \ {<<>>} /\ Values \subseteq Seq(Byte) \ {<<>>}
  /\ \A item \in Keys \cup Values : DetLength(item) = Len(item)
  /\ Excluded \subseteq Keys \X Values
  /\ Capacities \subseteq 0 .. SizeMax
  /\ CountMax \in Nat

VARIABLES
  pc,              \* "entries", "value", "insert", "done" or "failed"
  pcount, psize,   \* the cells of the serializer
  size1, size2,    \* the ends of the key and of the value in work
  ret,             \* what it returns
  key, value,      \* the entry in work
  inserted         \* the entries that are in the map

cells == <<pcount, psize>>
work == <<size1, size2, key, value>>
vars == <<insertVars, pc, cells, work, ret, inserted>>

Init ==
  /\ \E n \in Capacities : out = [i \in 1 .. n |-> 0]
  /\ off2 = 0 /\ off3 = 0 /\ kvend = 0 /\ poff = 0 /\ pres = "idle"
  /\ pc = "entries"
  /\ pcount = 0 /\ psize = 0 /\ size1 = 0 /\ size2 = 0 /\ ret = 0
  /\ key = <<>> /\ value = <<>>
  /\ inserted = {}

Fits(item, at) == Len(item) <= Len(out) - at

\* if count < 2^64 - 1: otherwise the map is given up.
CountFull ==
  /\ pc = "entries" /\ ~(pcount < CountMax)
  /\ pc' = "failed"
  /\ UNCHANGED <<insertVars, cells, work, ret, inserted>>

WriteKey(k) ==
  /\ pc = "entries" /\ pcount < CountMax
  /\ key' = k
  /\ IF Fits(k, psize)
     THEN /\ out' = Written(out, psize, k)
          /\ size1' = Size(psize + Len(k))
          /\ pc' = "value"
     ELSE /\ pc' = "failed"
          /\ UNCHANGED <<out, size1>>
  /\ UNCHANGED <<arguments, poff, pres, cells, size2, value, ret, inserted>>

WriteValue(v) ==
  /\ pc = "value"
  /\ value' = v
  /\ IF Fits(v, size1)
     THEN /\ out' = Written(out, size1, v)
          /\ size2' = Size(size1 + Len(v))
          /\ pc' = "insert"
     ELSE /\ pc' = "failed"
          /\ UNCHANGED <<out, size2>>
  /\ UNCHANGED <<arguments, poff, pres, cells, size1, key, ret, inserted>>

\* The entry, parsed back from the buffer, is one that a table must not hold.
\* (The members of the map that are not in a table are not looked at.)
TableExcludes ==
  /\ pc = "insert" /\ pres = "idle" /\ <<key, value>> \in Excluded
  /\ pc' = "failed"
  /\ UNCHANGED <<insertVars, cells, work, ret, inserted>>

CallInsert ==
  /\ pc = "insert"
  /\ InsertCall(psize, size1, size2)
  /\ UNCHANGED <<pc, cells, work, ret, inserted>>

Inserting ==
  /\ InsertStep
  /\ UNCHANGED <<pc, cells, work, ret, inserted>>

Inserted ==
  /\ pc = "insert" /\ pres = "success"
  /\ pcount' = pcount + 1 /\ psize' = size2
  /\ inserted' = inserted \cup {[key |-> key, value |-> value]}
  /\ pres' = "idle" /\ pc' = "entries"
  /\ UNCHANGED <<out, arguments, poff, work, ret>>

Refused ==
  /\ pc = "insert" /\ pres = "failure"
  /\ pres' = "idle" /\ pc' = "failed"
  /\ UNCHANGED <<out, arguments, poff, cells, work, ret, inserted>>

\* cbor_det_serialize_map(count, out, size), whose result is returned.
Finish ==
  /\ pc = "entries"
  /\ LET m == SerializeMap(pcount, out, psize)
     IN  ret' = m.ret /\ out' = m.out
  /\ pc' = "done"
  /\ UNCHANGED <<arguments, poff, pres, cells, work, inserted>>

Next ==
  \/ CountFull
  \/ \E k \in Keys : WriteKey(k)
  \/ \E v \in Values : WriteValue(v)
  \/ TableExcludes \/ CallInsert \/ Inserting \/ Inserted \/ Refused \/ Finish

Spec == Init /\ [][Next]_vars /\ WF_vars(Next)

-----------------------------------------------------------------------------
Width(e) == Len(e.key) + Len(e.value)

\* The entry e is at offset o of s, in front of offset hi.
EntryAt(s, e, o, hi) ==
  o + Width(e) <= hi /\ Slice(s, o, o + Width(e)) = e.key \o e.value

\* The bytes lo .. hi - 1 of s are the entries es, each of them at the offset
\* at[e]: in the order of their keys, no two with one key, and without a gap.
Arranged(s, es, lo, hi, at) ==
  /\ \A e \in es : EntryAt(s, e, at[e], hi)
  /\ \A e, f \in es :
       \/ e = f
       \/ LexLess(e.key, f.key) /\ at[e] + Width(e) <= at[f]
       \/ LexLess(f.key, e.key) /\ at[f] + Width(f) <= at[e]
  /\ \A o \in lo .. hi - 1 : \E e \in es : at[e] <= o /\ o < at[e] + Width(e)

\* The offsets at which there is an entry.
Starts(s, es, lo, hi) == {o \in lo .. hi : \E e \in es : EntryAt(s, e, o, hi)}

\* The first psize bytes of the buffer are the entries inserted so far in the
\* order of their keys, until an insertion rotates the bytes behind its cursor;
\* a failure, wherever it occurs, leaves them as they are.
EntriesStayInOrder ==
  pc # "done" /\ pres # "success" =>
    /\ pcount = Cardinality(inserted)
    /\ \E at \in [inserted -> Starts(out, inserted, 0, psize)] :
         Arranged(out, inserted, 0, psize, at)

\* The cursor of an insertion is at the start of an entry, behind all those
\* whose keys are smaller than the new one and no other.
CursorIsBehindSmallerKeys ==
  pres = "progress" =>
    /\ poff <= psize
    /\ \E at \in [inserted -> Starts(out, inserted, 0, psize)] :
         /\ Arranged(out, inserted, 0, psize, at)
         /\ \A e \in inserted :
              \/ at[e] + Width(e) <= poff /\ LexLess(e.key, key)
              \/ poff <= at[e]

\* The builder gives up only for a key that was there already, for an entry
\* excluded from a table, for lack of room or at the limit of the count.
GivesUpForAReason ==
  /\ pc = "failed" =>
       \/ \E e \in inserted : e.key = key
       \/ <<key, value>> \in Excluded
       \/ psize + Len(key) > Len(out)
       \/ size1 + Len(value) > Len(out)
       \/ pcount = CountMax
  /\ pc = "done" /\ ret = 0 =>
       psize + Len(HeaderBytes(MkHeader(MapType, Cardinality(inserted)))) > Len(out)

\* A map that was built is one item in deterministic encoding, what
\* cbor_det_parse accepts: a header and behind it the entries in order.
BuiltMapIsDeterministic ==
  pc = "done" /\ ret > 0 =>
    LET header == HeaderBytes(MkHeader(MapType, Cardinality(inserted)))
    IN  /\ DetLength(Slice(out, 0, ret)) = ret
        /\ Slice(out, 0, Len(header)) = header
        /\ \E at \in [inserted -> Starts(out, inserted, Len(header), ret)] :
             Arranged(out, inserted, Len(header), ret, at)
=============================================================================
