------------------------------ MODULE CddlMap ------------------------------
(***************************************************************************)
(* What the generated code does with a map that was received: validate_*,   *)
(* parse_*, and then is_empty_iterate_map_* and next_iterate_map_* until    *)
(* the table is read (cose/rust/src/coseformat.rs).                         *)
(*                                                                         *)
(* The validator counts.  *remaining starts at the number of entries; each  *)
(* entry that a member or the table matches takes one off, a member that    *)
(* fails puts back what was there before, and the map is valid if nothing   *)
(* remains.  It never looks for entries that nothing matched.               *)
(*                                                                         *)
(* The iterator over the table is an iterator over the whole map.  is_empty *)
(* looks ahead from the iterator's place for an entry of the table; next    *)
(* passes over the entries that are not of the table, and does not test for *)
(* the end.                                                                 *)
(*                                                                         *)
(* CountMax is 2^64 - 1, the largest number of entries.                     *)
(***************************************************************************)
EXTENDS CddlFormat

CONSTANTS Formats, Objects, CountMax

\* An object that was parsed is a valid item, so a map repeats no key.
ASSUME CddlMapAssumption ==
  /\ CountMax \in Nat
  /\ \A f \in Formats : IsFormat(f)
  /\ \A c \in Objects : c.map \in BOOLEAN /\ IsMap(c.entries) /\ Len(c.entries) <= CountMax

VARIABLES
  pc,                          \* "group", "table", "parse", "ask", "next", "done"
  format, object,              \* the caller's arguments
  member, alternative, entry,  \* where the validator is in the format
  remaining, saved,            \* its cell, and the cell's content at the member
  pos, look,                   \* the places of the iterator and of is_empty
  valid,                       \* the verdict
  members, table,              \* what the parser made of it
  claimed                      \* history: what was matched, and by which member

place == <<member, alternative, entry>>
iterator == <<pos, look>>
vars == <<pc, format, object, place, remaining, saved, iterator, valid, members,
          table, claimed>>

map == object.entries
Alternatives == format.members[member]
CurrentEntry == Alternatives[alternative][entry]
InGroup == pc = "group" /\ member <= Len(format.members)
AtEntry == InGroup /\ entry <= Len(Alternatives[alternative])

Init ==
  /\ format \in Formats /\ object \in Objects
  /\ pc = "group"
  /\ member = 1 /\ alternative = 1 /\ entry = 1
  /\ remaining = Len(map) /\ saved = Len(map)
  /\ pos = 1 /\ look = 1
  /\ valid = FALSE
  /\ members = <<>> /\ table = <<>>
  /\ claimed = {}

Minus1(n) == (n - 1) % (CountMax + 1)

Return(v) == pc' = (IF v THEN "parse" ELSE "done") /\ valid' = v

-----------------------------------------------------------------------------
\* validate_*
NotAMap ==
  /\ pc = "group" /\ ~object.map
  /\ Return(FALSE)
  /\ UNCHANGED <<format, object, place, remaining, saved, iterator, members, table, claimed>>

Claim ==
  /\ AtEntry /\ object.map
  /\ EntryResult(map, CurrentEntry) = "MGOK"
  /\ remaining' = Minus1(remaining)
  /\ claimed' = claimed \cup {<<member, CurrentEntry.key>>}
  /\ entry' = entry + 1
  /\ UNCHANGED <<pc, format, object, member, alternative, saved, iterator, valid, members, table>>

SkipOptional ==
  /\ AtEntry /\ object.map
  /\ CurrentEntry.optional
  /\ EntryResult(map, CurrentEntry) = "MGFail"
  /\ entry' = entry + 1
  /\ UNCHANGED <<pc, format, object, member, alternative, remaining, saved, iterator, valid,
                 members, table, claimed>>

\* The next alternative is tried with the count of before the member.
NextAlternative ==
  /\ AtEntry /\ object.map
  /\ ~CurrentEntry.optional
  /\ EntryResult(map, CurrentEntry) = "MGFail"
  /\ alternative < Len(Alternatives)
  /\ alternative' = alternative + 1 /\ entry' = 1
  /\ remaining' = saved
  /\ claimed' = {c \in claimed : c[1] # member}
  /\ UNCHANGED <<pc, format, object, member, saved, iterator, valid, members, table>>

Fail ==
  /\ AtEntry /\ object.map
  /\ ~CurrentEntry.optional
  /\ EntryResult(map, CurrentEntry) = "MGFail"
  /\ alternative = Len(Alternatives)
  /\ Return(FALSE)
  /\ UNCHANGED <<format, object, place, remaining, saved, iterator, members, table, claimed>>

CutFail ==
  /\ AtEntry /\ object.map
  /\ EntryResult(map, CurrentEntry) = "MGCutFail"
  /\ Return(FALSE)
  /\ UNCHANGED <<format, object, place, remaining, saved, iterator, members, table, claimed>>

EndMember ==
  /\ InGroup /\ object.map /\ entry > Len(Alternatives[alternative])
  /\ member' = member + 1 /\ alternative' = 1 /\ entry' = 1
  /\ saved' = remaining
  /\ UNCHANGED <<pc, format, object, remaining, iterator, valid, members, table, claimed>>

StartTable ==
  /\ pc = "group" /\ object.map /\ member > Len(format.members)
  /\ pc' = "table"
  /\ UNCHANGED <<format, object, place, remaining, saved, iterator, valid, members, table, claimed>>

TableEntry ==
  /\ pc = "table" /\ pos <= Len(map)
  /\ pos' = pos + 1
  /\ IF InTable(format, map[pos])
     THEN /\ remaining' = Minus1(remaining)
          /\ claimed' = claimed \cup {<<member, map[pos].key>>}
     ELSE UNCHANGED <<remaining, claimed>>
  /\ UNCHANGED <<pc, format, object, place, saved, look, valid, members, table>>

Verdict ==
  /\ pc = "table" /\ pos > Len(map)
  /\ Return(remaining = 0)
  /\ UNCHANGED <<format, object, place, remaining, saved, iterator, members, table, claimed>>

-----------------------------------------------------------------------------
\* parse_*: the table is given out as a new iterator over the map.
ParseMap ==
  /\ pc = "parse"
  /\ members' = ParseMembers(format, map)
  /\ pos' = 1 /\ look' = 1
  /\ pc' = "ask"
  /\ UNCHANGED <<format, object, place, remaining, saved, valid, table, claimed>>

\* Fault: it does not ask whether a member has the entry.
StopsLookingUnconstrained(x) == x.key \in format.key /\ x.value \in format.value

\* is_empty_iterate_map_*: the tests stop at the first that tells.
StopsLooking(x) ==
  x.key \in format.key /\ ~Excluded(format, x) /\ x.value \in format.value

LookAhead ==
  /\ pc = "ask" /\ look <= Len(map)
  /\ IF StopsLooking(map[look]) THEN pc' = "next" /\ UNCHANGED look
     ELSE look' = look + 1 /\ UNCHANGED pc
  /\ UNCHANGED <<format, object, place, remaining, saved, pos, valid, members, table, claimed>>

TableEmpty ==
  /\ pc = "ask" /\ look > Len(map)
  /\ pc' = "done"
  /\ UNCHANGED <<format, object, place, remaining, saved, iterator, valid, members, table, claimed>>

\* next_iterate_map_*: one entry of its loop.
TakeNext ==
  /\ pc = "next"
  /\ pos' = pos + 1
  /\ IF InTable(format, map[pos])
     THEN table' = Append(table, map[pos]) /\ look' = pos + 1 /\ pc' = "ask"
     ELSE UNCHANGED <<table, look, pc>>
  /\ UNCHANGED <<format, object, place, remaining, saved, valid, members, claimed>>

Next ==
  \/ NotAMap \/ Claim \/ SkipOptional \/ NextAlternative \/ Fail \/ CutFail
  \/ EndMember \/ StartTable \/ TableEntry \/ Verdict
  \/ ParseMap \/ LookAhead \/ TableEmpty \/ TakeNext

Spec == Init /\ [][Next]_vars /\ WF_vars(Next)

-----------------------------------------------------------------------------
\* The counter of the validator: what nobody has claimed yet.  An entry that
\* two members, or a member and the table, were to claim would make the count
\* too small, and one more entry of the map that nothing matches would pass.
RemainingIsUnclaimed ==
  /\ \A c, d \in claimed : c[2] = d[2] => c = d
  /\ remaining = Len(map) - Cardinality(claimed)

\* next is asked only where an entry of the table is ahead.
NextStaysInMap == pc = "next" => pos <= Len(map)

\* The entries of the map that are in the parsed members.
MemberEntries(f, parsed) ==
  UNION {LET p == parsed[i]
             es == f.members[i][p.alternative]
         IN  {[key |-> es[k].key, value |-> p.values[k][1]] :
                k \in {k \in DOMAIN es : p.values[k] # <<>>}} :
           i \in DOMAIN parsed}

\* What was validated is parsed without loss: the members and the entries that
\* the iterator yields are the entries of the map, each once.
EveryEntryOnce ==
  pc = "done" /\ valid =>
    LET parsed == MemberEntries(format, members)
        yielded == {table[i] : i \in DOMAIN table}
    IN  /\ parsed \cup yielded = {map[i] : i \in DOMAIN map}
        /\ parsed \cap yielded = {}
        /\ Cardinality(yielded) = Len(table)
=============================================================================
