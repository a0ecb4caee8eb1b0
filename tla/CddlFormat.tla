----------------------------- MODULE CddlFormat -----------------------------
(***************************************************************************)
(* What the validator and the parser of a map make of one entry, of one     *)
(* member and of the table (cose/rust/src/coseformat.rs).  A type is the    *)
(* set of the objects that its generated validator accepts.                 *)
(*                                                                         *)
(* A format is a map of a CDDL specification as the code generated for it   *)
(* sees it:                                                                 *)
(*   members      a sequence of members, tested in this order.  A member is *)
(*                a sequence of alternatives (one, unless the CDDL has a    *)
(*                choice), and an alternative is a sequence of entries with *)
(*                a literal key;                                           *)
(*   key, value   the types of the table "* key => value" that takes the    *)
(*                other entries;                                           *)
(*   name         the name of the map in the CDDL.                         *)
(* An entry that is there with a value of another type does not match; if   *)
(* the CDDL has a cut (":" instead of "=>") it also ends all attempts to    *)
(* match the map.                                                          *)
(***************************************************************************)
EXTENDS Integers, Sequences, FiniteSets

Entry(key, type) == [key |-> key, type |-> type, optional |-> FALSE, cut |-> FALSE]
Optional(e) == [e EXCEPT !.optional = TRUE]
Cut(e) == [e EXCEPT !.cut = TRUE]

\* A member without a choice.
Member(e) == << <<e>> >>

IsSequence(s) == Len(s) \in Nat /\ DOMAIN s = 1 .. Len(s)

\* No two members and no two entries of an alternative have the same key.
IsFormat(f) ==
  /\ IsSequence(f.members)
  /\ \A i \in DOMAIN f.members :
       /\ IsSequence(f.members[i]) /\ Len(f.members[i]) > 0
       /\ \A j \in DOMAIN f.members[i] : IsSequence(f.members[i][j])
  /\ \A i, i2 \in DOMAIN f.members :
       \A j \in DOMAIN f.members[i], j2 \in DOMAIN f.members[i2] :
         \A k \in DOMAIN f.members[i][j], k2 \in DOMAIN f.members[i2][j2] :
           f.members[i][j][k].key = f.members[i2][j2][k2].key => i = i2 /\ (j = j2 => k = k2)

FormatEntries(f) ==
  UNION {UNION {{f.members[i][j][k] : k \in DOMAIN f.members[i][j]} :
                  j \in DOMAIN f.members[i]} : i \in DOMAIN f.members}

-----------------------------------------------------------------------------
\* A map is a sequence of its entries [key, value], the keys all different.
IsMap(m) ==
  /\ IsSequence(m)
  /\ \A i \in DOMAIN m : m[i] = [key |-> m[i].key, value |-> m[i].value]
  /\ \A i, j \in DOMAIN m : m[i].key = m[j].key => i = j

Keys(m) == {m[i].key : i \in DOMAIN m}
ValueAt(m, key) == m[CHOOSE i \in DOMAIN m : m[i].key = key].value

\* Fault: the value is not looked at.
EntryResultAnyValue(m, e) == IF e.key \in Keys(m) THEN "MGOK" ELSE "MGFail"

\* impl_map_group_result of one entry: cbor_det_map_get, then the validator.
EntryResult(m, e) ==
  IF e.key \notin Keys(m) THEN "MGFail"
  ELSE IF ValueAt(m, e.key) \in e.type THEN "MGOK"
  ELSE IF e.cut THEN "MGCutFail"
  ELSE "MGFail"

\* An optional entry that fails is left out.
Passes(m, e) ==
  \/ EntryResult(m, e) = "MGOK"
  \/ e.optional /\ EntryResult(m, e) = "MGFail"

\* Fault: the optional entries without a cut are left to the table too.
ExcludedUncutToo(f, x) == \E e \in FormatEntries(f) : x.key = e.key /\ (e.cut \/ ~e.optional)

\* The map constraint: the entries that a member of the format has a claim on.
\* An entry with a cut, and one that is not optional, has it whatever the value.
Excluded(f, x) ==
  \E e \in FormatEntries(f) :
    x.key = e.key /\ (e.cut \/ ~e.optional \/ x.value \in e.type)

\* Fault: the constraint is left out.
InTableUnconstrained(f, x) == x.key \in f.key /\ x.value \in f.value

\* The entries of the table.
InTable(f, x) ==
  x.key \in f.key /\ x.value \in f.value /\ ~Excluded(f, x)

-----------------------------------------------------------------------------
Passing(m, alternative) == \A k \in DOMAIN alternative : Passes(m, alternative[k])

\* The parser takes the first alternative that passes, the last one untested.
Chosen(m, alternatives) ==
  CHOOSE a \in DOMAIN alternatives :
    /\ a = Len(alternatives) \/ Passing(m, alternatives[a])
    /\ \A b \in 1 .. a - 1 : ~Passing(m, alternatives[b])

\* A value, or nothing; an entry that is not optional is read without a test.
ParseEntry(m, e) ==
  IF ~e.optional \/ EntryResult(m, e) = "MGOK" THEN <<ValueAt(m, e.key)>> ELSE <<>>

ParseMember(m, alternatives) ==
  LET chosen == Chosen(m, alternatives)
  IN  [alternative |-> chosen,
       values |-> [k \in DOMAIN alternatives[chosen] |->
                     ParseEntry(m, alternatives[chosen][k])]]

ParseMembers(f, m) == [i \in DOMAIN f.members |-> ParseMember(m, f.members[i])]
=============================================================================
