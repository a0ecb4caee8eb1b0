---------------------------- MODULE CddlMap_proofs ----------------------------
(***************************************************************************)
(* For every map without repeated keys and every format whose members do    *)
(* not share keys: the counter of the validator is the number of entries    *)
(* nobody has claimed, the iterator over the table never runs over the end  *)
(* of the map, and the parsed members and the table make up the map.        *)
(*                                                                         *)
(* The argument: the history claimed is at every moment what the format     *)
(* says, the claims of the chosen alternatives of the members passed, those *)
(* of the entries passed of the present alternative, and those of the table *)
(* so far.  Such claims never share a key, so counting down is counting     *)
(* them, and at 0 they are as many as the map has entries.                  *)
(***************************************************************************)
EXTENDS CddlMap, FiniteSetTheorems, SequenceTheorems, TLAPS

-----------------------------------------------------------------------------
\* The claims of member i: of the first n entries of one of its alternatives,
\* and in the end.
Taken(m, i, alternative_, n) ==
  {<<i, alternative_[k].key>> : k \in {k \in 1 .. n : EntryResult(m, alternative_[k]) = "MGOK"}}

ChosenOf(f, m, i) == f.members[i][Chosen(m, f.members[i])]
MemberClaims(f, m, i) == Taken(m, i, ChosenOf(f, m, i), Len(ChosenOf(f, m, i)))

\* The claims of the first n members, and those of the table among the first p entries.
ClaimsOf(f, m, n) == UNION {MemberClaims(f, m, i) : i \in 1 .. n}
TableClaims(f, m, p) ==
  {<<Len(f.members) + 1, m[q].key>> : q \in {q \in 1 .. p : InTable(f, m[q])}}

\* No claim names a key twice, and every key is in the map.
Disjoint(C) == \A c, d \in C : c[2] = d[2] => c = d
ClaimsIn(C, m) == \A c \in C : c[2] \in Keys(m)

\* The first n members have an alternative that passes.
PassedUpTo(f, m, n) ==
  \A i \in 1 .. n : /\ Chosen(m, f.members[i]) \in DOMAIN f.members[i]
                   /\ Passing(m, ChosenOf(f, m, i))

-----------------------------------------------------------------------------
\* Counting: one claim more of a key that was free is one entry less to claim.
LEMMA KeysOutnumberClaims ==
  ASSUME NEW m, IsMap(m), NEW C, Disjoint(C), ClaimsIn(C, m), NEW k \in Keys(m),
         \A c \in C : c[2] # k
  PROVE  /\ IsFiniteSet(C) /\ Cardinality(C) \in Nat
         /\ Cardinality(C) + 1 <= Len(m)
<1>1. Len(m) \in Nat /\ DOMAIN m = 1 .. Len(m)
  BY DEF IsMap, IsSequence
<1>2. PICK q \in 1 .. Len(m) : m[q].key = k
  BY <1>1 DEF Keys
<1> DEFINE T == (1 .. Len(m)) \ {q}
           g == [c \in C |-> CHOOSE i \in 1 .. Len(m) : m[i].key = c[2]]
<1>3. ASSUME NEW c \in C PROVE g[c] \in 1 .. Len(m) /\ m[g[c]].key = c[2]
  <2>1. \E i \in 1 .. Len(m) : m[i].key = c[2]
    BY <1>1 DEF ClaimsIn, Keys
  <2> QED BY <2>1
<1>4. g \in Injection(C, T)
  <2>1. ASSUME NEW c \in C PROVE g[c] \in T
    BY <1>2, <1>3
  <2>2. ASSUME NEW c \in C, NEW d \in C, g[c] = g[d] PROVE c = d
    <3>1. m[g[c]].key = c[2] /\ m[g[d]].key = d[2]
      BY <1>3
    <3>2. c[2] = d[2]
      BY <2>2, <3>1
    <3> QED BY <3>2 DEF Disjoint
  <2>3. g \in [C -> T]
    BY <2>1
  <2> HIDE DEF g, T
  <2> QED BY <2>2, <2>3 DEF Injection, IsInjective
<1>5. /\ IsFiniteSet(1 .. Len(m)) /\ Cardinality(1 .. Len(m)) = Len(m)
      /\ IsFiniteSet(T) /\ Cardinality(T) = Len(m) - 1
  <2>1. IsFiniteSet(1 .. Len(m)) /\ Cardinality(1 .. Len(m)) = Len(m)
    BY <1>1, FS_Interval, SMTT(40)
  <2>2. IsFiniteSet(T) /\ Cardinality(T) = Cardinality(1 .. Len(m)) - 1
    BY <1>2, <2>1, FS_RemoveElement
  <2> QED BY <2>1, <2>2
<1>6. IsFiniteSet(C) /\ Cardinality(C) <= Cardinality(T)
  <2> HIDE DEF g, T
  <2>1. g \in Injection(C, T) /\ IsFiniteSet(T)
    BY <1>4, <1>5
  <2> QED BY <2>1, FS_Injection
<1>7. Cardinality(C) \in Nat
  BY <1>6, FS_CardinalityType
<1> QED BY <1>1, <1>5, <1>6, <1>7

\* The counter after a claim.
LEMMA ClaimCounts ==
  ASSUME NEW m, IsMap(m), Len(m) <= CountMax, CountMax \in Nat,
         NEW C, Disjoint(C), ClaimsIn(C, m), NEW k \in Keys(m), \A c \in C : c[2] # k,
         NEW i
  PROVE  /\ Minus1(Len(m) - Cardinality(C)) = Len(m) - Cardinality(C \cup {<<i, k>>})
         /\ Disjoint(C \cup {<<i, k>>}) /\ ClaimsIn(C \cup {<<i, k>>}, m)
<1>1. IsFiniteSet(C) /\ Cardinality(C) \in Nat /\ Cardinality(C) + 1 <= Len(m) /\ Len(m) \in Nat
  BY KeysOutnumberClaims DEF IsMap, IsSequence
<1>2. <<i, k>> \notin C
  OBVIOUS
<1>3. Cardinality(C \cup {<<i, k>>}) = Cardinality(C) + 1
  BY <1>1, <1>2, FS_AddElement
<1> DEFINE r == Len(m) - Cardinality(C)
<1>4. Minus1(r) = r - 1
  <2>1. r - 1 \in 0 .. CountMax
    BY <1>1
  <2> QED BY <2>1 DEF Minus1
<1>5. Minus1(r) = Len(m) - Cardinality(C \cup {<<i, k>>})
  BY <1>1, <1>3, <1>4
<1>6. Disjoint(C \cup {<<i, k>>})
  <2> SUFFICES ASSUME NEW c \in C \cup {<<i, k>>}, NEW d \in C \cup {<<i, k>>}, c[2] = d[2]
               PROVE  c = d
    BY DEF Disjoint
  <2>1. <<i, k>>[2] = k
    OBVIOUS
  <2> QED BY <2>1 DEF Disjoint
<1>7. ClaimsIn(C \cup {<<i, k>>}, m)
  BY DEF ClaimsIn
<1> QED BY <1>5, <1>6, <1>7

-----------------------------------------------------------------------------
\* What is known of a member's claim.
LEMMA ClaimShape ==
  ASSUME NEW f, IsFormat(f), NEW m, NEW n \in 0 .. Len(f.members), PassedUpTo(f, m, n),
         NEW c \in ClaimsOf(f, m, n)
  PROVE  \E i \in 1 .. n : \E j \in DOMAIN f.members[i] : \E k \in DOMAIN f.members[i][j] :
           /\ j = Chosen(m, f.members[i])
           /\ c = <<i, f.members[i][j][k].key>>
           /\ EntryResult(m, f.members[i][j][k]) = "MGOK"
<1>1. PICK i \in 1 .. n : c \in MemberClaims(f, m, i)
  BY DEF ClaimsOf
<1> DEFINE j == Chosen(m, f.members[i])
<1>2. j \in DOMAIN f.members[i] /\ ChosenOf(f, m, i) = f.members[i][j]
  BY DEF PassedUpTo, ChosenOf
<1>3. i \in DOMAIN f.members
  BY DEF IsFormat, IsSequence
<1>4. DOMAIN f.members[i][j] = 1 .. Len(f.members[i][j])
  BY <1>2, <1>3 DEF IsFormat, IsSequence
<1>5. PICK k \in 1 .. Len(f.members[i][j]) :
        /\ c = <<i, f.members[i][j][k].key>>
        /\ EntryResult(m, f.members[i][j][k]) = "MGOK"
  BY <1>1, <1>2 DEF MemberClaims, Taken
<1> QED BY <1>2, <1>4, <1>5

\* A match is a key that is there, with a value of the type.
LEMMA EntryResultOK ==
  ASSUME NEW m, NEW e, EntryResult(m, e) = "MGOK"
  PROVE  e.key \in Keys(m) /\ ValueAt(m, e.key) \in e.type
  BY DEF EntryResult

\* The value of a key is that of the only entry with it.
LEMMA ValueOfEntry ==
  ASSUME NEW m, IsMap(m), NEW q \in DOMAIN m
  PROVE  ValueAt(m, m[q].key) = m[q].value
<1> DEFINE i == CHOOSE i \in DOMAIN m : m[i].key = m[q].key
<1>1. i \in DOMAIN m /\ m[i].key = m[q].key
  OBVIOUS
<1>2. i = q
  BY <1>1 DEF IsMap
<1> QED BY <1>2 DEF ValueAt

\* A key that an entry has matched is excluded from the table.
LEMMA MatchedIsExcluded ==
  ASSUME NEW f, NEW m, IsMap(m), NEW i \in DOMAIN f.members, NEW j \in DOMAIN f.members[i],
         NEW k \in DOMAIN f.members[i][j],
         EntryResult(m, f.members[i][j][k]) = "MGOK",
         NEW q \in DOMAIN m, m[q].key = f.members[i][j][k].key
  PROVE  ~InTable(f, m[q])
<1> DEFINE e == f.members[i][j][k]
<1>1. e \in FormatEntries(f)
  BY DEF FormatEntries
<1>2. m[q].value \in e.type
  BY EntryResultOK, ValueOfEntry
<1>3. Excluded(f, m[q])
  BY <1>1, <1>2 DEF Excluded
<1> QED BY <1>3 DEF InTable

\* The key of an entry of member n + 1 is free when the entry's turn comes.
LEMMA FreeForMember ==
  ASSUME NEW f, IsFormat(f), NEW m, NEW n \in 0 .. Len(f.members) - 1, PassedUpTo(f, m, n),
         NEW j \in DOMAIN f.members[n + 1], NEW e \in DOMAIN f.members[n + 1][j],
         NEW c \in ClaimsOf(f, m, n) \cup Taken(m, n + 1, f.members[n + 1][j], e - 1)
  PROVE  c[2] # f.members[n + 1][j][e].key
<1>0. Len(f.members) \in Nat /\ DOMAIN f.members = 1 .. Len(f.members)
  BY DEF IsFormat, IsSequence
<1>1. n + 1 \in DOMAIN f.members /\ n \in 0 .. Len(f.members)
  BY <1>0
<1>2. Len(f.members[n + 1][j]) \in Nat /\ DOMAIN f.members[n + 1][j] = 1 .. Len(f.members[n + 1][j])
  BY <1>1 DEF IsFormat, IsSequence
<1>3. CASE c \in ClaimsOf(f, m, n)
  <2>1. PICK i \in 1 .. n : \E j2 \in DOMAIN f.members[i] : \E k \in DOMAIN f.members[i][j2] :
           c = <<i, f.members[i][j2][k].key>>
    BY <1>1, <1>3, ClaimShape
  <2>2. PICK j2 \in DOMAIN f.members[i] : \E k \in DOMAIN f.members[i][j2] :
           c = <<i, f.members[i][j2][k].key>>
    BY <2>1
  <2>3. PICK k \in DOMAIN f.members[i][j2] : c = <<i, f.members[i][j2][k].key>>
    BY <2>2
  <2>4. i \in DOMAIN f.members /\ i # n + 1
    BY <1>0
  <2>5. c[2] = f.members[i][j2][k].key
    BY <2>3
  <2> QED BY <1>1, <2>4, <2>5 DEF IsFormat
<1>4. CASE c \in Taken(m, n + 1, f.members[n + 1][j], e - 1)
  <2>1. PICK k \in 1 .. e - 1 : c = <<n + 1, f.members[n + 1][j][k].key>>
    BY <1>4 DEF Taken
  <2>2. k \in DOMAIN f.members[n + 1][j] /\ k # e
    BY <1>2
  <2>3. c[2] = f.members[n + 1][j][k].key
    BY <2>1
  <2> QED BY <1>1, <2>2, <2>3 DEF IsFormat
<1> QED BY <1>3, <1>4

\* The key of an entry of the table is free when the table comes to it.
LEMMA FreeForTable ==
  ASSUME NEW f, IsFormat(f), NEW m, IsMap(m), PassedUpTo(f, m, Len(f.members)),
         NEW p \in DOMAIN m, InTable(f, m[p]),
         NEW c \in ClaimsOf(f, m, Len(f.members)) \cup TableClaims(f, m, p - 1)
  PROVE  c[2] # m[p].key
<1>0. /\ Len(f.members) \in Nat /\ DOMAIN f.members = 1 .. Len(f.members)
      /\ Len(m) \in Nat /\ DOMAIN m = 1 .. Len(m)
  BY DEF IsFormat, IsSequence, IsMap
<1>1. CASE c \in ClaimsOf(f, m, Len(f.members))
  <2>0. Len(f.members) \in 0 .. Len(f.members)
    BY <1>0
  <2>1. PICK i \in 1 .. Len(f.members) :
          \E j \in DOMAIN f.members[i] : \E k \in DOMAIN f.members[i][j] :
            /\ c = <<i, f.members[i][j][k].key>>
            /\ EntryResult(m, f.members[i][j][k]) = "MGOK"
    BY <1>1, <2>0, ClaimShape
  <2>2. PICK j \in DOMAIN f.members[i] : \E k \in DOMAIN f.members[i][j] :
            /\ c = <<i, f.members[i][j][k].key>>
            /\ EntryResult(m, f.members[i][j][k]) = "MGOK"
    BY <2>1
  <2>3. PICK k \in DOMAIN f.members[i][j] :
            /\ c = <<i, f.members[i][j][k].key>>
            /\ EntryResult(m, f.members[i][j][k]) = "MGOK"
    BY <2>2
  <2>4. c[2] = f.members[i][j][k].key
    BY <2>3
  <2> QED BY <1>0, <2>3, <2>4, MatchedIsExcluded
<1>2. CASE c \in TableClaims(f, m, p - 1)
  <2>1. PICK q \in 1 .. p - 1 : c = <<Len(f.members) + 1, m[q].key>>
    BY <1>2 DEF TableClaims
  <2>2. q \in DOMAIN m /\ q # p
    BY <1>0
  <2>3. c[2] = m[q].key
    BY <2>1
  <2> QED BY <2>2, <2>3 DEF IsMap
<1> QED BY <1>1, <1>2

\* How the claims grow.
LEMMA TakenGrows ==
  ASSUME NEW m, NEW i, NEW alternative_, NEW n \in Nat \ {0}
  PROVE  Taken(m, i, alternative_, n) =
           Taken(m, i, alternative_, n - 1)
             \cup (IF EntryResult(m, alternative_[n]) = "MGOK"
                   THEN {<<i, alternative_[n].key>>} ELSE {})
<1>1. 1 .. n = (1 .. n - 1) \cup {n}
  OBVIOUS
<1> QED BY <1>1 DEF Taken

\* Before the first entry nothing is taken.
LEMMA TakenNone ==
  ASSUME NEW m, NEW i, NEW alternative_
  PROVE  Taken(m, i, alternative_, 0) = {}
  BY DEF Taken

\* A member passed.
LEMMA ClaimsGrow ==
  ASSUME NEW f, NEW m, NEW n \in Nat \ {0}
  PROVE  ClaimsOf(f, m, n) = ClaimsOf(f, m, n - 1) \cup MemberClaims(f, m, n)
<1>1. 1 .. n = (1 .. n - 1) \cup {n}
  OBVIOUS
<1> QED BY <1>1 DEF ClaimsOf

\* Before the first member, and before the first entry of the table.
LEMMA ClaimsNone ==
  ASSUME NEW f, NEW m
  PROVE  ClaimsOf(f, m, 0) = {} /\ TableClaims(f, m, 0) = {}
  BY DEF ClaimsOf, TableClaims

\* An entry passed by the table.
LEMMA TableGrows ==
  ASSUME NEW f, NEW m, NEW p \in Nat \ {0}
  PROVE  TableClaims(f, m, p) =
           TableClaims(f, m, p - 1)
             \cup (IF InTable(f, m[p]) THEN {<<Len(f.members) + 1, m[p].key>>} ELSE {})
<1>1. 1 .. p = (1 .. p - 1) \cup {p}
  OBVIOUS
<1> QED BY <1>1 DEF TableClaims

\* The alternative that the validator ends with is the one the parser takes.
LEMMA ChosenIsFirstPassing ==
  ASSUME NEW m, NEW alternatives, IsSequence(alternatives), NEW a \in DOMAIN alternatives,
         Passing(m, alternatives[a]), \A b \in 1 .. a - 1 : ~Passing(m, alternatives[b])
  PROVE  Chosen(m, alternatives) = a
<1> DEFINE C(x) == /\ x = Len(alternatives) \/ Passing(m, alternatives[x])
                   /\ \A b \in 1 .. x - 1 : ~Passing(m, alternatives[b])
<1>0. Len(alternatives) \in Nat /\ DOMAIN alternatives = 1 .. Len(alternatives)
  BY DEF IsSequence
<1>1. C(a)
  OBVIOUS
<1>2. ASSUME NEW x \in DOMAIN alternatives, C(x) PROVE x = a
  <2>1. ~(x < a)
    <3> SUFFICES ASSUME x < a PROVE FALSE
      OBVIOUS
    <3>1. x \in 1 .. a - 1 /\ x # Len(alternatives)
      BY <1>0
    <3> QED BY <1>2, <3>1
  <2>2. ~(a < x)
    <3> SUFFICES ASSUME a < x PROVE FALSE
      OBVIOUS
    <3>1. a \in 1 .. x - 1
      BY <1>0
    <3> QED BY <1>2, <3>1
  <2> QED BY <1>0, <2>1, <2>2
<1> HIDE DEF C
<1>3. a = CHOOSE x \in DOMAIN alternatives : C(x)
  BY <1>1, <1>2
<1> QED BY <1>3 DEF Chosen, C

-----------------------------------------------------------------------------
(* The inductive invariant *)

\* The arguments, and the counter.
Arguments ==
  /\ format \in Formats /\ object \in Objects
  /\ pc \in {"group", "table", "parse", "ask", "next", "done"}
Counted ==
  /\ Disjoint(claimed) /\ ClaimsIn(claimed, map)
  /\ remaining = Len(map) - Cardinality(claimed)

\* Within a member: the alternatives before this one did not pass, and the
\* entries before this one did.
InMember ==
  /\ alternative \in DOMAIN Alternatives
  /\ entry \in 1 .. Len(Alternatives[alternative]) + 1
  /\ \A b \in 1 .. alternative - 1 : ~Passing(map, Alternatives[b])
  /\ \A k \in 1 .. entry - 1 : Passes(map, Alternatives[alternative][k])
  /\ claimed = ClaimsOf(format, map, member - 1)
                 \cup Taken(map, member, Alternatives[alternative], entry - 1)

GroupInv ==
  pc = "group" =>
    /\ member \in 1 .. Len(format.members) + 1 /\ pos = 1
    /\ PassedUpTo(format, map, member - 1)
    /\ saved = Len(map) - Cardinality(ClaimsOf(format, map, member - 1))
    /\ member \in DOMAIN format.members => InMember
    /\ member \notin DOMAIN format.members => claimed = ClaimsOf(format, map, member - 1)

TableInv ==
  pc = "table" =>
    /\ member = Len(format.members) + 1 /\ pos \in 1 .. Len(map) + 1
    /\ PassedUpTo(format, map, Len(format.members))
    /\ claimed = ClaimsOf(format, map, Len(format.members)) \cup TableClaims(format, map, pos - 1)

\* The map is valid.
AcceptedInv ==
  pc \in {"parse", "ask", "next"} \/ (pc = "done" /\ valid) =>
    /\ PassedUpTo(format, map, Len(format.members))
    /\ claimed = ClaimsOf(format, map, Len(format.members)) \cup TableClaims(format, map, Len(map))
    /\ remaining = 0

\* What the iterator has given out: the entries of the table before its place.
Yielded(f, m, p) == {m[q] : q \in {q \in 1 .. p : InTable(f, m[q])}}

NothingYieldedYet == pc \in {"group", "table", "parse"} => table = <<>>

IteratorInv ==
  pc \in {"ask", "next"} \/ (pc = "done" /\ valid) =>
    /\ members = ParseMembers(format, map)
    /\ pos \in 1 .. Len(map) + 1 /\ look \in pos .. Len(map) + 1
    /\ table \in Seq(Yielded(format, map, pos - 1))
    /\ {table[i] : i \in DOMAIN table} = Yielded(format, map, pos - 1)
    /\ Cardinality({table[i] : i \in DOMAIN table}) = Len(table)
    /\ \A q \in pos .. look - 1 : ~InTable(format, map[q])
    /\ pc = "next" => look <= Len(map) /\ InTable(format, map[look])
    /\ pc = "done" => look = Len(map) + 1

IInv ==
  /\ Arguments /\ Counted /\ GroupInv /\ TableInv /\ AcceptedInv
  /\ NothingYieldedYet /\ IteratorInv

\* What the assumption says of the arguments.
LEMMA ArgumentFacts ==
  ASSUME Arguments
  PROVE  /\ IsFormat(format) /\ IsMap(map)
         /\ Len(map) \in Nat /\ DOMAIN map = 1 .. Len(map)
         /\ CountMax \in Nat /\ Len(map) <= CountMax
         /\ Len(format.members) \in Nat /\ DOMAIN format.members = 1 .. Len(format.members)
<1>1. IsFormat(format) /\ IsMap(map) /\ CountMax \in Nat /\ Len(map) <= CountMax
  BY CddlMapAssumption DEF Arguments, map
<1> QED BY <1>1 DEF IsFormat, IsMap, IsSequence

\* What the assumption says of one member.
LEMMA MemberFacts ==
  ASSUME Arguments, NEW i \in DOMAIN format.members
  PROVE  /\ IsSequence(format.members[i])
         /\ 1 \in DOMAIN format.members[i]
         /\ Len(format.members[i]) \in Nat
         /\ DOMAIN format.members[i] = 1 .. Len(format.members[i])
         /\ \A j \in DOMAIN format.members[i] :
              /\ Len(format.members[i][j]) \in Nat
              /\ DOMAIN format.members[i][j] = 1 .. Len(format.members[i][j])
<1>1. /\ IsSequence(format.members[i]) /\ Len(format.members[i]) > 0
      /\ \A j \in DOMAIN format.members[i] : IsSequence(format.members[i][j])
  BY ArgumentFacts DEF IsFormat
<1> QED BY <1>1 DEF IsSequence

\* The validator starts at the first entry with nothing claimed.
LEMMA InitIInv == Init => IInv
<1> SUFFICES ASSUME Init PROVE IInv
  OBVIOUS
<1> USE DEF Init
<1>1. Arguments
  BY DEF Arguments
<1>2. Counted
  <2>1. Cardinality({}) = 0
    BY FS_EmptySet
  <2>2. Len(map) - 0 = Len(map)
    BY <1>1, ArgumentFacts
  <2> QED BY <2>1, <2>2 DEF Counted, Disjoint, ClaimsIn
<1>3. GroupInv
  <2>1. member \in 1 .. Len(format.members) + 1 /\ pos = 1
    BY <1>1, ArgumentFacts
  <2>2. PassedUpTo(format, map, member - 1)
    BY DEF PassedUpTo
  <2>3. ClaimsOf(format, map, member - 1) = {}
    <3>1. member - 1 = 0
      OBVIOUS
    <3> QED BY <3>1, ClaimsNone
  <2>4. saved = Len(map) - Cardinality(ClaimsOf(format, map, member - 1))
    BY <2>3, <1>2 DEF Counted
  <2>5. ASSUME member \in DOMAIN format.members PROVE InMember
    <3>1. alternative \in DOMAIN Alternatives
      BY <1>1, <2>5, MemberFacts DEF Alternatives
    <3>2. Len(Alternatives[alternative]) \in Nat
      BY <1>1, <2>5, <3>1, MemberFacts DEF Alternatives
    <3>3. Taken(map, member, Alternatives[alternative], entry - 1) = {}
      <4>1. entry - 1 = 0
        OBVIOUS
      <4> QED BY <4>1, TakenNone
    <3> QED BY <2>3, <3>1, <3>2, <3>3 DEF InMember
  <2> QED BY <2>1, <2>2, <2>3, <2>4, <2>5 DEF GroupInv
<1>4. TableInv /\ AcceptedInv /\ NothingYieldedYet /\ IteratorInv
  BY DEF TableInv, AcceptedInv, NothingYieldedYet, IteratorInv
<1> QED BY <1>1, <1>2, <1>3, <1>4 DEF IInv

\* The map is refused.
LEMMA RefuseStep == IInv /\ (NotAMap \/ Fail \/ CutFail) => IInv'
<1> SUFFICES ASSUME IInv, NotAMap \/ Fail \/ CutFail PROVE IInv'
  OBVIOUS
<1>1. /\ pc' = "done" /\ valid' = FALSE
      /\ UNCHANGED <<format, object, remaining, claimed>>
  BY DEF NotAMap, Fail, CutFail, Return
<1>2. Arguments' /\ Counted'
  BY <1>1 DEF IInv, Arguments, Counted, map
<1> QED BY <1>1, <1>2 DEF IInv, GroupInv, TableInv, AcceptedInv, NothingYieldedYet, IteratorInv

\* At an entry of a member.
LEMMA AtEntryFacts ==
  ASSUME IInv, AtEntry
  PROVE  /\ pc = "group" /\ member \in DOMAIN format.members /\ InMember
         /\ member \in Nat /\ member - 1 \in 0 .. Len(format.members) - 1
         /\ (member - 1) + 1 = member
         /\ alternative \in DOMAIN format.members[member]
         /\ entry \in DOMAIN format.members[member][alternative]
         /\ CurrentEntry = format.members[member][alternative][entry]
         /\ Len(Alternatives[alternative]) \in Nat
         /\ entry \in 1 .. Len(Alternatives[alternative]) /\ entry \in Nat \ {0}
         /\ table = <<>> /\ pos = 1
<1>0. Arguments
  BY DEF IInv
<1>1. pc = "group" /\ member \in 1 .. Len(format.members) + 1 /\ member <= Len(format.members)
      /\ entry <= Len(Alternatives[alternative]) /\ pos = 1
  BY DEF AtEntry, InGroup, IInv, GroupInv
<1>2. member \in DOMAIN format.members
  BY <1>0, <1>1, ArgumentFacts
<1>3. InMember
  BY <1>1, <1>2 DEF IInv, GroupInv
<1>4. alternative \in DOMAIN format.members[member]
  BY <1>3 DEF InMember, Alternatives
<1>5. entry \in 1 .. Len(format.members[member][alternative])
  <2>1. Len(format.members[member][alternative]) \in Nat
    BY <1>0, <1>2, <1>4, MemberFacts
  <2> QED BY <1>1, <1>3, <2>1 DEF InMember, Alternatives
<1>8. Len(Alternatives[alternative]) \in Nat /\ entry \in 1 .. Len(Alternatives[alternative])
  BY <1>0, <1>2, <1>4, <1>5, MemberFacts DEF Alternatives
<1>6. entry \in DOMAIN format.members[member][alternative]
  BY <1>0, <1>2, <1>4, <1>5, MemberFacts
<1>7. Len(format.members) \in Nat
  BY <1>0, ArgumentFacts
<1> QED BY <1>1, <1>2, <1>3, <1>4, <1>5, <1>6, <1>7, <1>8, SMTT(40) DEF CurrentEntry, Alternatives, IInv, NothingYieldedYet

\* An entry that matches: its key was free, and is one less to claim.
LEMMA ClaimStep == IInv /\ Claim => IInv'
<1> SUFFICES ASSUME IInv, Claim PROVE IInv'
  OBVIOUS
<1>0. Arguments /\ AtEntry /\ Counted
  BY DEF IInv, Claim
<1> DEFINE key == CurrentEntry.key
<1>1. key \in Keys(map)
  BY EntryResultOK DEF Claim
<1>2. PassedUpTo(format, map, member - 1)
  BY <1>0, AtEntryFacts DEF IInv, GroupInv
<1>3. ASSUME NEW c \in claimed PROVE c[2] # key
  <2>1. c \in ClaimsOf(format, map, member - 1)
               \cup Taken(map, (member - 1) + 1, format.members[(member - 1) + 1][alternative], entry - 1)
    BY <1>0, AtEntryFacts DEF InMember, Alternatives
  <2> QED BY <1>0, <1>2, <2>1, AtEntryFacts, ArgumentFacts, FreeForMember
<1>4. /\ Minus1(remaining) = Len(map) - Cardinality(claimed \cup {<<member, key>>})
      /\ Disjoint(claimed \cup {<<member, key>>}) /\ ClaimsIn(claimed \cup {<<member, key>>}, map)
  <2> HIDE DEF key
  <2>1. IsMap(map) /\ Len(map) <= CountMax /\ CountMax \in Nat
    BY <1>0, ArgumentFacts
  <2>2. Disjoint(claimed) /\ ClaimsIn(claimed, map) /\ remaining = Len(map) - Cardinality(claimed)
    BY <1>0 DEF Counted
  <2>3. \A c \in claimed : c[2] # key
    BY <1>3
  <2>4. PICK k \in Keys(map) : k = key
    BY <1>1
  <2>5. PICK C : C = claimed
    OBVIOUS
  <2>6. PICK m : m = map
    OBVIOUS
  <2>7. /\ IsMap(m) /\ Len(m) <= CountMax /\ CountMax \in Nat
        /\ Disjoint(C) /\ ClaimsIn(C, m) /\ k \in Keys(m)
    BY <2>1, <2>2, <2>4, <2>5, <2>6
  <2>8. \A c \in C : c[2] # k
    BY <2>3, <2>4, <2>5
  <2>9. /\ Minus1(Len(m) - Cardinality(C)) = Len(m) - Cardinality(C \cup {<<member, k>>})
        /\ Disjoint(C \cup {<<member, k>>}) /\ ClaimsIn(C \cup {<<member, k>>}, m)
    BY <2>7, <2>8, ClaimCounts
  <2> QED BY <2>2, <2>4, <2>5, <2>6, <2>9
<1>5. Arguments' /\ Counted'
  BY <1>0, <1>4 DEF Arguments, Counted, Claim, map
<1>6. InMember'
  <2>1. Taken(map, member, Alternatives[alternative], entry) =
          Taken(map, member, Alternatives[alternative], entry - 1) \cup {<<member, key>>}
    <3>1. Taken(map, member, Alternatives[alternative], entry) =
            Taken(map, member, Alternatives[alternative], entry - 1)
              \cup (IF EntryResult(map, Alternatives[alternative][entry]) = "MGOK"
                    THEN {<<member, Alternatives[alternative][entry].key>>} ELSE {})
      BY <1>0, AtEntryFacts, TakenGrows
    <3> QED BY <3>1 DEF Claim, CurrentEntry
  <2>2. claimed' = ClaimsOf(format, map, member - 1) \cup Taken(map, member, Alternatives[alternative], entry)
    BY <1>0, <2>1, AtEntryFacts DEF Claim, InMember
  <2>3. (entry + 1) - 1 = entry /\ entry + 1 \in 1 .. Len(Alternatives[alternative]) + 1
    BY <1>0, AtEntryFacts
  <2>4. \A k \in 1 .. entry : Passes(map, Alternatives[alternative][k])
    <3>1. Passes(map, Alternatives[alternative][entry])
      BY DEF Claim, CurrentEntry, Passes
    <3>2. \A k \in 1 .. entry : k = entry \/ k \in 1 .. entry - 1
      BY <1>0, AtEntryFacts
    <3> QED BY <1>0, <3>1, <3>2, AtEntryFacts DEF InMember
  <2>5. InMember
    BY <1>0, AtEntryFacts
  <2> QED BY <2>2, <2>3, <2>4, <2>5 DEF InMember, Claim, Alternatives, map
<1>7. GroupInv'
  <2>1. pc = "group" /\ member \in DOMAIN format.members /\ GroupInv
    BY <1>0, AtEntryFacts DEF IInv
  <2>2. UNCHANGED <<pc, format, object, member, saved, pos>>
    BY DEF Claim, iterator
  <2>3. member' \in DOMAIN format'.members /\ UNCHANGED map
    BY <2>1, <2>2 DEF map
  <2>4. /\ member \in 1 .. Len(format.members) + 1 /\ pos = 1
        /\ PassedUpTo(format, map, member - 1)
        /\ saved = Len(map) - Cardinality(ClaimsOf(format, map, member - 1))
    BY <2>1 DEF GroupInv
  <2> QED BY <1>6, <2>2, <2>3, <2>4 DEF GroupInv
<1>8. TableInv' /\ AcceptedInv' /\ NothingYieldedYet' /\ IteratorInv'
  <2>1. pc' = "group" /\ table' = <<>>
    BY <1>0, AtEntryFacts DEF Claim
  <2> QED BY <2>1 DEF TableInv, AcceptedInv, NothingYieldedYet, IteratorInv
<1> QED BY <1>5, <1>7, <1>8 DEF IInv

\* An optional entry that is not there claims nothing.
LEMMA SkipStep == IInv /\ SkipOptional => IInv'
<1> SUFFICES ASSUME IInv, SkipOptional PROVE IInv'
  OBVIOUS
<1>0. Arguments /\ AtEntry /\ Counted
  BY DEF IInv, SkipOptional
<1>1. UNCHANGED <<pc, format, object, member, alternative, remaining, saved, pos, table, claimed>>
  BY DEF SkipOptional, iterator
<1>2. Arguments' /\ Counted'
  BY <1>0, <1>1 DEF Arguments, Counted, map
<1>3. InMember'
  <2>1. Taken(map, member, Alternatives[alternative], entry) =
          Taken(map, member, Alternatives[alternative], entry - 1)
    <3>1. Taken(map, member, Alternatives[alternative], entry) =
            Taken(map, member, Alternatives[alternative], entry - 1)
              \cup (IF EntryResult(map, Alternatives[alternative][entry]) = "MGOK"
                    THEN {<<member, Alternatives[alternative][entry].key>>} ELSE {})
      BY <1>0, AtEntryFacts, TakenGrows
    <3> QED BY <3>1 DEF SkipOptional, CurrentEntry
  <2>2. (entry + 1) - 1 = entry /\ entry + 1 \in 1 .. Len(Alternatives[alternative]) + 1
    BY <1>0, AtEntryFacts
  <2>3. \A k \in 1 .. entry : Passes(map, Alternatives[alternative][k])
    <3>1. Passes(map, Alternatives[alternative][entry])
      BY DEF SkipOptional, CurrentEntry, Passes
    <3>2. \A k \in 1 .. entry : k = entry \/ k \in 1 .. entry - 1
      BY <1>0, AtEntryFacts
    <3> QED BY <1>0, <3>1, <3>2, AtEntryFacts DEF InMember
  <2>4. InMember
    BY <1>0, AtEntryFacts
  <2> QED BY <1>1, <2>1, <2>2, <2>3, <2>4 DEF InMember, SkipOptional, Alternatives, map
<1>4. GroupInv'
  <2>1. pc = "group" /\ member \in DOMAIN format.members /\ GroupInv
    BY <1>0, AtEntryFacts DEF IInv
  <2>2. member' \in DOMAIN format'.members /\ UNCHANGED map
    BY <1>1, <2>1 DEF map
  <2>3. /\ member \in 1 .. Len(format.members) + 1 /\ pos = 1
        /\ PassedUpTo(format, map, member - 1)
        /\ saved = Len(map) - Cardinality(ClaimsOf(format, map, member - 1))
    BY <2>1 DEF GroupInv
  <2> QED BY <1>1, <1>3, <2>2, <2>3 DEF GroupInv
<1>5. TableInv' /\ AcceptedInv' /\ NothingYieldedYet' /\ IteratorInv'
  <2>1. pc' = "group" /\ table' = <<>>
    BY <1>0, <1>1, AtEntryFacts
  <2> QED BY <2>1 DEF TableInv, AcceptedInv, NothingYieldedYet, IteratorInv
<1> QED BY <1>2, <1>4, <1>5 DEF IInv

\* A member that fails gives back its claims, and the counter what it had taken.
LEMMA NextAlternativeStep == IInv /\ NextAlternative => IInv'
<1> SUFFICES ASSUME IInv, NextAlternative PROVE IInv'
  OBVIOUS
<1>0. Arguments /\ AtEntry /\ Counted
  BY DEF IInv, NextAlternative
<1>1. /\ UNCHANGED <<pc, format, object, member, saved, pos, table, map>>
      /\ remaining' = saved /\ alternative' = alternative + 1 /\ entry' = 1
  BY DEF NextAlternative, iterator, map
<1>2. pc = "group" /\ member \in DOMAIN format.members /\ InMember /\ GroupInv
  BY <1>0, AtEntryFacts DEF IInv
<1>3. /\ member \in 1 .. Len(format.members) + 1 /\ pos = 1
      /\ PassedUpTo(format, map, member - 1)
      /\ saved = Len(map) - Cardinality(ClaimsOf(format, map, member - 1))
  BY <1>2 DEF GroupInv
<1>4. claimed' = ClaimsOf(format, map, member - 1)
  <2>1. ASSUME NEW c \in ClaimsOf(format, map, member - 1) PROVE c[1] # member
    <3>1. PICK i \in 1 .. member - 1 : c \in MemberClaims(format, map, i)
      BY DEF ClaimsOf
    <3>2. c[1] = i
      BY <3>1 DEF MemberClaims, Taken
    <3> QED BY <1>0, <3>2, AtEntryFacts
  <2>2. ASSUME NEW c \in Taken(map, member, Alternatives[alternative], entry - 1) PROVE c[1] = member
    BY DEF Taken
  <2>3. claimed = ClaimsOf(format, map, member - 1)
                    \cup Taken(map, member, Alternatives[alternative], entry - 1)
    BY <1>2 DEF InMember
  <2> QED BY <2>1, <2>2, <2>3 DEF NextAlternative
<1>5. Arguments' /\ Counted'
  <2>1. claimed' \subseteq claimed
    BY DEF NextAlternative
  <2>2. Disjoint(claimed') /\ ClaimsIn(claimed', map)
    BY <1>0, <2>1 DEF Counted, Disjoint, ClaimsIn
  <2> QED BY <1>0, <1>1, <1>3, <1>4, <2>2 DEF Arguments, Counted
<1>6. InMember'
  <2>1. UNCHANGED Alternatives
    BY <1>1 DEF Alternatives
  <2>2. alternative + 1 \in DOMAIN Alternatives
    BY <1>0, AtEntryFacts, MemberFacts DEF NextAlternative, Alternatives
  <2>3. Len(Alternatives[alternative + 1]) \in Nat
    BY <1>0, <1>2, <2>2, MemberFacts DEF Alternatives
  <2>4. ~Passing(map, Alternatives[alternative])
    <3>1. entry \in DOMAIN Alternatives[alternative]
      BY <1>0, AtEntryFacts DEF Alternatives
    <3>2. ~Passes(map, Alternatives[alternative][entry])
      BY DEF NextAlternative, CurrentEntry, Passes
    <3> QED BY <3>1, <3>2 DEF Passing
  <2>5. ASSUME NEW b \in 1 .. (alternative + 1) - 1 PROVE ~Passing(map, Alternatives[b])
    <3>1. alternative \in 1 .. Len(Alternatives) /\ Len(Alternatives) \in Nat
      BY <1>0, <1>2, MemberFacts DEF InMember, Alternatives
    <3>2. b = alternative \/ b \in 1 .. alternative - 1
      BY <3>1
    <3> QED BY <1>2, <2>4, <3>2 DEF InMember
  <2>6. Taken(map, member, Alternatives[alternative + 1], 1 - 1) = {}
    <3>1. 1 - 1 = 0
      OBVIOUS
    <3> QED BY <3>1, TakenNone
  <2>7. 1 \in 1 .. Len(Alternatives[alternative + 1]) + 1 /\ 1 .. 1 - 1 = {}
    BY <2>3
  <2> QED BY <1>1, <1>4, <2>1, <2>2, <2>5, <2>6, <2>7 DEF InMember
<1>7. GroupInv'
  BY <1>1, <1>2, <1>3, <1>6 DEF GroupInv
<1>8. TableInv' /\ AcceptedInv' /\ NothingYieldedYet' /\ IteratorInv'
  <2>1. pc' = "group" /\ table' = <<>>
    BY <1>0, <1>1, AtEntryFacts
  <2> QED BY <2>1 DEF TableInv, AcceptedInv, NothingYieldedYet, IteratorInv
<1> QED BY <1>5, <1>7, <1>8 DEF IInv

\* The alternative has passed: its claims are those of the member.
LEMMA EndMemberStep == IInv /\ EndMember => IInv'
<1> SUFFICES ASSUME IInv, EndMember PROVE IInv'
  OBVIOUS
<1>0. Arguments /\ Counted /\ GroupInv
  BY DEF IInv
<1>1. /\ UNCHANGED <<pc, format, object, remaining, pos, table, claimed, map>>
      /\ member' = member + 1 /\ alternative' = 1 /\ entry' = 1 /\ saved' = remaining
  BY DEF EndMember, iterator, map
<1>2. /\ pc = "group" /\ member \in 1 .. Len(format.members) + 1 /\ pos = 1
      /\ PassedUpTo(format, map, member - 1) /\ member <= Len(format.members)
      /\ entry > Len(Alternatives[alternative])
  BY <1>0 DEF EndMember, InGroup, GroupInv
<1>3. /\ member \in DOMAIN format.members /\ member \in Nat \ {0}
      /\ Len(format.members) \in Nat /\ (member + 1) - 1 = member
      /\ member + 1 \in 1 .. Len(format.members) + 1
  BY <1>0, <1>2, ArgumentFacts
<1>4. InMember
  BY <1>0, <1>2, <1>3 DEF GroupInv
<1>5. /\ alternative \in DOMAIN format.members[member]
      /\ Len(Alternatives[alternative]) \in Nat /\ entry - 1 = Len(Alternatives[alternative])
      /\ DOMAIN Alternatives[alternative] = 1 .. Len(Alternatives[alternative])
  <2>1. alternative \in DOMAIN format.members[member]
    BY <1>4 DEF InMember, Alternatives
  <2>2. /\ Len(Alternatives[alternative]) \in Nat
        /\ DOMAIN Alternatives[alternative] = 1 .. Len(Alternatives[alternative])
    BY <1>0, <1>3, <2>1, MemberFacts DEF Alternatives
  <2> QED BY <1>2, <1>4, <2>1, <2>2 DEF InMember
<1>6. Passing(map, Alternatives[alternative])
  BY <1>4, <1>5 DEF InMember, Passing
<1>7. Chosen(map, format.members[member]) = alternative
  BY <1>0, <1>3, <1>4, <1>5, <1>6, MemberFacts, ChosenIsFirstPassing DEF InMember, Alternatives
<1>8. ChosenOf(format, map, member) = Alternatives[alternative]
  BY <1>7 DEF ChosenOf, Alternatives
<1>9. claimed = ClaimsOf(format, map, member)
  BY <1>3, <1>4, <1>5, <1>8, ClaimsGrow DEF InMember, MemberClaims
<1>10. PassedUpTo(format, map, member)
  <2> SUFFICES ASSUME NEW i \in 1 .. member
               PROVE  /\ Chosen(map, format.members[i]) \in DOMAIN format.members[i]
                      /\ Passing(map, ChosenOf(format, map, i))
    BY DEF PassedUpTo
  <2>1. i = member \/ i \in 1 .. member - 1
    BY <1>3
  <2> QED BY <1>2, <1>5, <1>6, <1>7, <1>8, <2>1 DEF PassedUpTo
<1>11. Arguments' /\ Counted'
  BY <1>0, <1>1 DEF Arguments, Counted
<1>12. ASSUME member + 1 \in DOMAIN format.members PROVE InMember'
  <2>1. Alternatives' = format.members[member + 1]
    BY <1>1 DEF Alternatives
  <2>2. 1 \in DOMAIN format.members[member + 1] /\ Len(format.members[member + 1][1]) \in Nat
    BY <1>0, <1>12, MemberFacts
  <2>3. Taken(map, member + 1, format.members[member + 1][1], 1 - 1) = {}
    <3>1. 1 - 1 = 0
      OBVIOUS
    <3> QED BY <3>1, TakenNone
  <2>4. 1 \in 1 .. Len(format.members[member + 1][1]) + 1 /\ 1 .. 1 - 1 = {}
    BY <2>2
  <2> QED BY <1>1, <1>3, <1>9, <2>1, <2>2, <2>3, <2>4 DEF InMember
<1>13. saved' = Len(map) - Cardinality(ClaimsOf(format, map, member))
  BY <1>0, <1>1, <1>9 DEF Counted
<1>14. GroupInv'
  BY <1>1, <1>2, <1>3, <1>9, <1>10, <1>12, <1>13 DEF GroupInv
<1>15. TableInv' /\ AcceptedInv' /\ NothingYieldedYet' /\ IteratorInv'
  <2>1. pc' = "group" /\ table' = <<>>
    BY <1>1, <1>2 DEF IInv, NothingYieldedYet
  <2> QED BY <2>1 DEF TableInv, AcceptedInv, NothingYieldedYet, IteratorInv
<1> QED BY <1>11, <1>14, <1>15 DEF IInv

\* All members have passed.
LEMMA StartTableStep == IInv /\ StartTable => IInv'
<1> SUFFICES ASSUME IInv, StartTable PROVE IInv'
  OBVIOUS
<1>0. Arguments /\ Counted /\ GroupInv
  BY DEF IInv
<1>1. UNCHANGED <<format, object, member, remaining, pos, table, claimed, map>> /\ pc' = "table"
  BY DEF StartTable, place, iterator, map
<1>2. /\ member \in 1 .. Len(format.members) + 1 /\ pos = 1
      /\ PassedUpTo(format, map, member - 1) /\ member > Len(format.members)
  BY <1>0 DEF StartTable, GroupInv
<1>3. /\ member = Len(format.members) + 1 /\ member - 1 = Len(format.members)
      /\ member \notin DOMAIN format.members /\ Len(map) \in Nat
  BY <1>0, <1>2, ArgumentFacts
<1>4. claimed = ClaimsOf(format, map, Len(format.members))
  BY <1>0, <1>3 DEF StartTable, GroupInv
<1>5. TableClaims(format, map, 1 - 1) = {}
  <2>1. 1 - 1 = 0
    OBVIOUS
  <2> QED BY <2>1, ClaimsNone
<1>6. TableInv'
  BY <1>1, <1>2, <1>3, <1>4, <1>5 DEF TableInv
<1>7. Arguments' /\ Counted'
  BY <1>0, <1>1 DEF Arguments, Counted
<1>8. GroupInv' /\ AcceptedInv' /\ NothingYieldedYet' /\ IteratorInv'
  <2>1. table' = <<>>
    BY <1>1 DEF IInv, NothingYieldedYet, StartTable
  <2> QED BY <1>1, <2>1 DEF GroupInv, AcceptedInv, NothingYieldedYet, IteratorInv
<1> QED BY <1>6, <1>7, <1>8 DEF IInv

\* An entry of the table: no member, and no entry before it, has its key.
LEMMA TableEntryStep == IInv /\ TableEntry => IInv'
<1> SUFFICES ASSUME IInv, TableEntry PROVE IInv'
  OBVIOUS
<1>0. Arguments /\ Counted /\ TableInv
  BY DEF IInv
<1>1. /\ UNCHANGED <<pc, format, object, member, table, map>>
      /\ pos' = pos + 1 /\ pc = "table" /\ pos <= Len(map)
  BY DEF TableEntry, place, map
<1>2. /\ member = Len(format.members) + 1 /\ pos \in 1 .. Len(map) + 1
      /\ PassedUpTo(format, map, Len(format.members))
      /\ claimed = ClaimsOf(format, map, Len(format.members)) \cup TableClaims(format, map, pos - 1)
  BY <1>0, <1>1 DEF TableInv
<1>3. /\ pos \in DOMAIN map /\ pos \in Nat \ {0} /\ (pos + 1) - 1 = pos
      /\ pos + 1 \in 1 .. Len(map) + 1
  BY <1>0, <1>1, <1>2, ArgumentFacts
<1>4. TableClaims(format, map, pos) =
        TableClaims(format, map, pos - 1)
          \cup (IF InTable(format, map[pos]) THEN {<<member, map[pos].key>>} ELSE {})
  BY <1>2, <1>3, TableGrows
<1>5. claimed' = ClaimsOf(format, map, Len(format.members)) \cup TableClaims(format, map, pos)
  BY <1>2, <1>4 DEF TableEntry
<1>6. TableInv'
  BY <1>1, <1>2, <1>3, <1>5 DEF TableInv
<1>7. Counted'
  <2>1. CASE ~InTable(format, map[pos])
    BY <1>0, <1>1, <2>1 DEF TableEntry, Counted
  <2>2. CASE InTable(format, map[pos])
    <3>1. map[pos].key \in Keys(map)
      BY <1>3 DEF Keys
    <3>2. \A c \in claimed : c[2] # map[pos].key
      BY <1>0, <1>2, <1>3, <2>2, ArgumentFacts, FreeForTable
    <3>3. PICK k \in Keys(map) : k = map[pos].key
      BY <3>1
    <3>4. PICK C, m : C = claimed /\ m = map
      OBVIOUS
    <3>5. /\ IsMap(m) /\ Len(m) <= CountMax /\ CountMax \in Nat
          /\ Disjoint(C) /\ ClaimsIn(C, m) /\ k \in Keys(m)
      BY <1>0, <3>4, ArgumentFacts DEF Counted
    <3>6. \A c \in C : c[2] # k
      BY <3>2, <3>3, <3>4
    <3>7. /\ Minus1(Len(m) - Cardinality(C)) = Len(m) - Cardinality(C \cup {<<member, k>>})
          /\ Disjoint(C \cup {<<member, k>>}) /\ ClaimsIn(C \cup {<<member, k>>}, m)
      BY <3>5, <3>6, ClaimCounts
    <3>8. /\ remaining' = Minus1(remaining)
          /\ claimed' = claimed \cup {<<member, map[pos].key>>}
      BY <2>2 DEF TableEntry
    <3> QED BY <1>0, <1>1, <3>3, <3>4, <3>7, <3>8 DEF Counted
  <2> QED BY <2>1, <2>2
<1>8. Arguments'
  BY <1>0, <1>1 DEF Arguments
<1>9. GroupInv' /\ AcceptedInv' /\ NothingYieldedYet' /\ IteratorInv'
  <2>1. table' = <<>> /\ pc' = "table"
    BY <1>1 DEF IInv, NothingYieldedYet
  <2> QED BY <2>1 DEF GroupInv, AcceptedInv, NothingYieldedYet, IteratorInv
<1> QED BY <1>6, <1>7, <1>8, <1>9 DEF IInv

\* The map is accepted when nothing remains.
LEMMA VerdictStep == IInv /\ Verdict => IInv'
<1> SUFFICES ASSUME IInv, Verdict PROVE IInv'
  OBVIOUS
<1>0. Arguments /\ Counted /\ TableInv
  BY DEF IInv
<1>1. /\ UNCHANGED <<format, object, remaining, table, claimed, map>>
      /\ pc = "table" /\ pos > Len(map)
      /\ pc' = (IF remaining = 0 THEN "parse" ELSE "done") /\ valid' = (remaining = 0)
  BY DEF Verdict, Return, map
<1>2. /\ PassedUpTo(format, map, Len(format.members)) /\ pos \in 1 .. Len(map) + 1
      /\ claimed = ClaimsOf(format, map, Len(format.members)) \cup TableClaims(format, map, pos - 1)
  BY <1>0, <1>1 DEF TableInv
<1>3. pos - 1 = Len(map)
  BY <1>0, <1>1, <1>2, ArgumentFacts
<1>4. AcceptedInv'
  BY <1>1, <1>2, <1>3 DEF AcceptedInv
<1>5. Arguments' /\ Counted'
  BY <1>0, <1>1 DEF Arguments, Counted
<1>6. GroupInv' /\ TableInv' /\ NothingYieldedYet' /\ IteratorInv'
  <2>1. table' = <<>>
    BY <1>1 DEF IInv, NothingYieldedYet
  <2>2. pc' = "parse" \/ (pc' = "done" /\ ~valid')
    BY <1>1
  <2> QED BY <2>1, <2>2 DEF GroupInv, TableInv, NothingYieldedYet, IteratorInv
<1> QED BY <1>4, <1>5, <1>6 DEF IInv

-----------------------------------------------------------------------------
(* The iterator *)

\* An entry passed by the iterator.
LEMMA YieldedGrows ==
  ASSUME NEW f, NEW m, NEW p \in Nat \ {0}
  PROVE  Yielded(f, m, p) = Yielded(f, m, p - 1) \cup (IF InTable(f, m[p]) THEN {m[p]} ELSE {})
<1>1. 1 .. p = (1 .. p - 1) \cup {p}
  OBVIOUS
<1> QED BY <1>1 DEF Yielded

\* is_empty's tests and next's tell the same.
LEMMA StopsAtTable ==
  ASSUME NEW x
  PROVE  StopsLooking(x) <=> InTable(format, x)
BY DEF StopsLooking, InTable

\* What the steps of the parser and of the iterator keep.
LEMMA AcceptedKept ==
  ASSUME IInv, pc \in {"parse", "ask", "next"}, pc' \in {"ask", "next", "done"}, valid' = valid,
         UNCHANGED <<format, object, remaining, claimed>>, IteratorInv'
  PROVE  IInv'
<1>1. Arguments' /\ Counted'
  BY DEF IInv, Arguments, Counted, map
<1>2. AcceptedInv'
  BY DEF IInv, AcceptedInv, map
<1> QED BY <1>1, <1>2 DEF IInv, GroupInv, TableInv, NothingYieldedYet

\* The iterator starts with nothing given out.
LEMMA ParseMapStep == IInv /\ ParseMap => IInv'
<1> SUFFICES ASSUME IInv, ParseMap PROVE IInv'
  OBVIOUS
<1>1. /\ UNCHANGED <<format, object, remaining, valid, table, claimed, map>>
      /\ members' = ParseMembers(format, map) /\ pos' = 1 /\ look' = 1
      /\ pc = "parse" /\ pc' = "ask"
  BY DEF ParseMap, map
<1>2. table = <<>>
  BY <1>1 DEF IInv, NothingYieldedYet
<1>3. Yielded(format, map, 1 - 1) = {} /\ 1 .. 1 - 1 = {}
  BY DEF Yielded
<1>4. table' = <<>> /\ {table'[i] : i \in DOMAIN table'} = {} /\ Len(table') = 0
  BY <1>1, <1>2
<1>5. /\ table' \in Seq(Yielded(format, map, 1 - 1))
      /\ {table'[i] : i \in DOMAIN table'} = Yielded(format, map, 1 - 1)
      /\ Cardinality({table'[i] : i \in DOMAIN table'}) = Len(table')
  BY <1>3, <1>4, FS_EmptySet
<1>6. 1 \in 1 .. Len(map) + 1
  BY ArgumentFacts DEF IInv
<1>7. IteratorInv'
  BY <1>1, <1>3, <1>4, <1>5, <1>6 DEF IteratorInv
<1> QED BY <1>1, <1>7, AcceptedKept

\* is_empty passes over the entries that are not of the table.
LEMMA LookAheadStep == IInv /\ LookAhead => IInv'
<1> SUFFICES ASSUME IInv, LookAhead PROVE IInv'
  OBVIOUS
<1>1. /\ UNCHANGED <<format, object, remaining, pos, valid, members, table, claimed, map>>
      /\ pc = "ask" /\ look <= Len(map) /\ pc' \in {"ask", "next"}
  BY DEF LookAhead, map
<1>2. IteratorInv /\ Len(map) \in Nat
  BY ArgumentFacts DEF IInv
<1>3. /\ pos \in 1 .. Len(map) + 1 /\ look \in pos .. Len(map) + 1
      /\ \A q \in pos .. look - 1 : ~InTable(format, map[q])
  BY <1>1, <1>2 DEF IteratorInv
<1>4. CASE StopsLooking(map[look])
  <2>1. pc' = "next" /\ look' = look /\ InTable(format, map[look])
    BY <1>4, StopsAtTable DEF LookAhead
  <2>2. IteratorInv'
    BY <1>1, <1>2, <2>1 DEF IteratorInv
  <2> QED BY <1>1, <2>2, AcceptedKept
<1>5. CASE ~StopsLooking(map[look])
  <2>1. pc' = "ask" /\ look' = look + 1 /\ ~InTable(format, map[look])
    BY <1>1, <1>5, StopsAtTable DEF LookAhead
  <2>2. look' \in pos .. Len(map) + 1
    BY <1>1, <1>2, <1>3, <2>1
  <2>3. \A q \in pos .. look' - 1 : ~InTable(format, map[q])
    <3>1. \A q \in pos .. look' - 1 : q = look \/ q \in pos .. look - 1
      BY <1>2, <1>3, <2>1
    <3> QED BY <1>3, <2>1, <3>1
  <2>4. IteratorInv'
    BY <1>1, <1>2, <2>1, <2>2, <2>3 DEF IteratorInv
  <2> QED BY <1>1, <2>1, <2>4, AcceptedKept
<1> QED BY <1>4, <1>5

\* is_empty has seen all of the map.
LEMMA TableEmptyStep == IInv /\ TableEmpty => IInv'
<1> SUFFICES ASSUME IInv, TableEmpty PROVE IInv'
  OBVIOUS
<1>1. /\ UNCHANGED <<format, object, remaining, pos, look, valid, members, table, claimed, map>>
      /\ pc = "ask" /\ look > Len(map) /\ pc' = "done"
  BY DEF TableEmpty, iterator, map
<1>2. IteratorInv /\ Len(map) \in Nat
  BY ArgumentFacts DEF IInv
<1>3. look = Len(map) + 1
  BY <1>1, <1>2 DEF IteratorInv
<1>4. IteratorInv'
  BY <1>1, <1>2, <1>3 DEF IteratorInv
<1> QED BY <1>1, <1>4, AcceptedKept

\* next is at the entry that is_empty saw, or before it.
LEMMA NextIsBehindLook ==
  ASSUME IInv, pc = "next"
  PROVE  /\ pos \in 1 .. Len(map) /\ look \in pos .. Len(map)
         /\ InTable(format, map[pos]) \/ pos + 1 \in 1 .. look
<1>1. IteratorInv /\ Len(map) \in Nat
  BY ArgumentFacts DEF IInv
<1>2. /\ pos \in 1 .. Len(map) + 1 /\ look \in pos .. Len(map) + 1
      /\ look <= Len(map) /\ InTable(format, map[look])
  BY <1>1 DEF IteratorInv
<1>3. pos = look \/ pos < look
  BY <1>1, <1>2
<1> QED BY <1>1, <1>2, <1>3

\* next gives out the entry of the table that it finds, and no entry twice.
LEMMA TakeNextStep == IInv /\ TakeNext => IInv'
<1> SUFFICES ASSUME IInv, TakeNext PROVE IInv'
  OBVIOUS
<1>0. IteratorInv /\ Arguments
  BY DEF IInv
<1>1. /\ UNCHANGED <<format, object, remaining, valid, members, claimed, map>>
      /\ pc = "next" /\ pos' = pos + 1
  BY DEF TakeNext, map
<1>2. /\ pos \in 1 .. Len(map) /\ look \in pos .. Len(map)
      /\ InTable(format, map[pos]) \/ pos + 1 \in 1 .. look
      /\ Len(map) \in Nat /\ DOMAIN map = 1 .. Len(map)
      /\ pos \in Nat \ {0} /\ (pos + 1) - 1 = pos /\ pos + 1 \in 1 .. Len(map) + 1
  <2>1. Len(map) \in Nat /\ DOMAIN map = 1 .. Len(map)
    BY <1>0, ArgumentFacts
  <2>2. /\ pos \in 1 .. Len(map) /\ look \in pos .. Len(map)
        /\ InTable(format, map[pos]) \/ pos + 1 \in 1 .. look
    BY <1>1, NextIsBehindLook
  <2> QED BY <2>1, <2>2
<1>3. /\ members = ParseMembers(format, map)
      /\ table \in Seq(Yielded(format, map, pos - 1))
      /\ {table[i] : i \in DOMAIN table} = Yielded(format, map, pos - 1)
      /\ Cardinality({table[i] : i \in DOMAIN table}) = Len(table)
      /\ \A q \in pos .. look - 1 : ~InTable(format, map[q])
      /\ look <= Len(map) /\ InTable(format, map[look])
  BY <1>0, <1>1 DEF IteratorInv
<1>4. CASE ~InTable(format, map[pos])
  <2>1. UNCHANGED <<table, look, pc>>
    BY <1>4 DEF TakeNext
  <2>2. Yielded(format, map, pos) = Yielded(format, map, pos - 1)
    <3>1. Yielded(format, map, pos) =
            Yielded(format, map, pos - 1) \cup (IF InTable(format, map[pos]) THEN {map[pos]} ELSE {})
      BY <1>2, YieldedGrows
    <3> QED BY <1>4, <3>1
  <2>3. /\ look \in pos + 1 .. Len(map) + 1
        /\ \A q \in pos + 1 .. look - 1 : ~InTable(format, map[q])
    BY <1>2, <1>3, <1>4
  <2>4. /\ table' \in Seq(Yielded(format, map, pos))
        /\ {table'[i] : i \in DOMAIN table'} = Yielded(format, map, pos)
        /\ Cardinality({table'[i] : i \in DOMAIN table'}) = Len(table')
    BY <1>3, <2>1, <2>2
  <2>5. IteratorInv'
    BY <1>1, <1>2, <1>3, <2>1, <2>3, <2>4 DEF IteratorInv
  <2> QED BY <1>1, <2>1, <2>5, AcceptedKept
<1>5. CASE InTable(format, map[pos])
  <2> DEFINE x == map[pos]
             Y == Yielded(format, map, pos - 1)
  <2>1. table' = Append(table, x) /\ look' = pos + 1 /\ pc' = "ask"
    BY <1>5 DEF TakeNext
  <2>2. Yielded(format, map, pos) = Y \cup {x}
    BY <1>2, <1>5, YieldedGrows
  <2>3. x \notin Y
    <3>1. ASSUME NEW q \in 1 .. pos - 1, map[q] = x PROVE FALSE
      <4>1. q \in DOMAIN map /\ pos \in DOMAIN map /\ q # pos
        BY <1>2
      <4>2. IsMap(map)
        BY <1>0, ArgumentFacts
      <4> QED BY <3>1, <4>1, <4>2 DEF IsMap
    <3> QED BY <3>1 DEF Yielded
  <2>4. {table'[i] : i \in DOMAIN table'} = Y \cup {x}
    <3> HIDE DEF x, Y
    <3>1. table \in Seq(Y) /\ {table[i] : i \in DOMAIN table} = Y
      BY <1>3 DEF Y
    <3>2. /\ Len(table) \in Nat /\ DOMAIN table = 1 .. Len(table)
          /\ DOMAIN table' = 1 .. Len(table) + 1
          /\ \A i \in 1 .. Len(table) : table'[i] = table[i]
          /\ table'[Len(table) + 1] = x
      BY <2>1, <3>1
    <3>3. DOMAIN table' = DOMAIN table \cup {Len(table) + 1}
      BY <3>2
    <3>4. {table'[i] : i \in DOMAIN table} = Y
      BY <3>1, <3>2
    <3> QED BY <3>2, <3>3, <3>4
  <2>5. Cardinality(Y \cup {x}) = Len(table')
    <3>1. IsFiniteSet(Y)
      <4>1. IsFiniteSet(1 .. pos - 1)
        BY <1>2, FS_Interval
      <4>2. IsFiniteSet({q \in 1 .. pos - 1 : InTable(format, map[q])})
        BY <4>1, FS_Subset
      <4> DEFINE S == {q \in 1 .. pos - 1 : InTable(format, map[q])}
                 g == [q \in S |-> map[q]]
      <4>3. g \in Surjection(S, Y)
        BY DEF Surjection, Yielded
      <4> HIDE DEF S, g, Y
      <4>4. IsFiniteSet(S)
        BY <4>2 DEF S
      <4> QED BY <4>3, <4>4, FS_Surjection
    <3>2. Cardinality(Y \cup {x}) = Cardinality(Y) + 1
      <4> HIDE DEF x, Y
      <4> QED BY <2>3, <3>1, FS_AddElement
    <3>3. Len(table') = Len(table) + 1
      <4> HIDE DEF x
      <4> QED BY <1>3, <2>1
    <3> QED BY <1>3, <3>2, <3>3
  <2>6. table' \in Seq(Y \cup {x})
    <3> HIDE DEF x, Y
    <3>1. table \in Seq(Y)
      BY <1>3 DEF Y
    <3> QED BY <2>1, <3>1
  <2>7. pos + 1 \in pos + 1 .. Len(map) + 1 /\ (pos + 1) .. (pos + 1) - 1 = {}
    BY <1>2
  <2> HIDE DEF x, Y
  <2>8. IteratorInv'
    BY <1>1, <1>2, <1>3, <2>1, <2>2, <2>4, <2>5, <2>6, <2>7 DEF IteratorInv
  <2> QED BY <1>1, <2>1, <2>8, AcceptedKept
<1> QED BY <1>4, <1>5

\* Steps that change nothing.
LEMMA StutterIInv == IInv /\ UNCHANGED vars => IInv'
BY DEF IInv, Arguments, Counted, GroupInv, InMember, TableInv, AcceptedInv, NothingYieldedYet,
       IteratorInv, vars, place, iterator, map, Alternatives

\* The invariant is inductive.
LEMMA Invariance == Spec => []IInv
<1>1. Init => IInv
  BY InitIInv
<1>2. IInv /\ [Next]_vars => IInv'
  BY RefuseStep, ClaimStep, SkipStep, NextAlternativeStep, EndMemberStep, StartTableStep,
     TableEntryStep, VerdictStep, ParseMapStep, LookAheadStep, TableEmptyStep, TakeNextStep,
     StutterIInv
     DEF Next
<1> QED BY <1>1, <1>2, PTL DEF Spec

-----------------------------------------------------------------------------
\* RemainingIsUnclaimed: validate_* never counts an entry twice and never one
\* that is not there, so that its cell is the number of the entries that
\* neither a member nor the table has claimed.
THEOREM RemainingCountsUnclaimed == Spec => []RemainingIsUnclaimed
<1>1. IInv => RemainingIsUnclaimed
  BY DEF IInv, Counted, Disjoint, RemainingIsUnclaimed
<1> QED BY <1>1, Invariance, PTL

\* NextStaysInMap: next_iterate_map_*, which does not test for the end of the
\* map, is never there when it is asked.
THEOREM IteratorStaysInMap == Spec => []NextStaysInMap
<1>1. IInv => NextStaysInMap
  <2> SUFFICES ASSUME IInv, pc = "next" PROVE pos <= Len(map)
    BY DEF NextStaysInMap
  <2>1. Len(map) \in Nat
    BY ArgumentFacts DEF IInv
  <2> QED BY <2>1, NextIsBehindLook
<1> QED BY <1>1, Invariance, PTL

-----------------------------------------------------------------------------
(* Nothing is lost *)

\* Where nothing remains every key has been claimed.
LEMMA AllClaimed ==
  ASSUME IInv, remaining = 0, NEW q \in DOMAIN map
  PROVE  \E c \in claimed : c[2] = map[q].key
<1> SUFFICES ASSUME \A c \in claimed : c[2] # map[q].key PROVE FALSE
  OBVIOUS
<1>1. IsMap(map) /\ Len(map) \in Nat
  BY ArgumentFacts DEF IInv
<1>2. map[q].key \in Keys(map)
  BY DEF Keys
<1>3. Disjoint(claimed) /\ ClaimsIn(claimed, map) /\ remaining = Len(map) - Cardinality(claimed)
  BY DEF IInv, Counted
<1>4. PICK k \in Keys(map) : k = map[q].key
  BY <1>2
<1>5. \A c \in claimed : c[2] # k
  BY <1>4
<1>6. Cardinality(claimed) \in Nat /\ Cardinality(claimed) + 1 <= Len(map)
  BY <1>1, <1>3, <1>5, KeysOutnumberClaims
<1> QED BY <1>1, <1>3, <1>6

\* The entries that the members of a valid map have matched.
MatchedEntries(f, m) ==
  {m[q] : q \in {q \in DOMAIN m :
                   \E c \in ClaimsOf(f, m, Len(f.members)) : c[2] = m[q].key}}

\* A key in a map is that of the entry made of it and its value.
LEMMA EntryOfKey ==
  ASSUME NEW m, IsMap(m), NEW q \in DOMAIN m
  PROVE  [key |-> m[q].key, value |-> ValueAt(m, m[q].key)] = m[q]
BY ValueOfEntry DEF IsMap

\* What the parser makes of one entry of the alternative that passed.
LEMMA ParsedEntry ==
  ASSUME NEW m, NEW e, Passes(m, e)
  PROVE  /\ ParseEntry(m, e) # <<>> <=> EntryResult(m, e) = "MGOK"
         /\ EntryResult(m, e) = "MGOK" => ParseEntry(m, e)[1] = ValueAt(m, e.key)
BY DEF ParseEntry, Passes

\* The entries in the parsed members are those that the validator matched.
LEMMA ParsedAreMatched ==
  ASSUME NEW f, IsFormat(f), NEW m, IsMap(m), PassedUpTo(f, m, Len(f.members))
  PROVE  MemberEntries(f, ParseMembers(f, m)) = MatchedEntries(f, m)
<1> DEFINE parsed == ParseMembers(f, m)
           es(i) == ChosenOf(f, m, i)
           Of(i) == {[key |-> es(i)[k].key, value |-> parsed[i].values[k][1]] :
                       k \in {k \in DOMAIN es(i) : parsed[i].values[k] # <<>>}}
<1>0. /\ Len(f.members) \in Nat /\ DOMAIN f.members = 1 .. Len(f.members)
      /\ Len(m) \in Nat /\ DOMAIN m = 1 .. Len(m)
  BY DEF IsFormat, IsSequence, IsMap
<1>1. DOMAIN parsed = DOMAIN f.members
  BY DEF ParseMembers
<1>2. ASSUME NEW i \in DOMAIN f.members
      PROVE  /\ f.members[i][parsed[i].alternative] = es(i)
             /\ Chosen(m, f.members[i]) \in DOMAIN f.members[i]
             /\ DOMAIN es(i) = 1 .. Len(es(i)) /\ Len(es(i)) \in Nat
             /\ \A k \in DOMAIN es(i) :
                  /\ parsed[i].values[k] = ParseEntry(m, es(i)[k])
                  /\ Passes(m, es(i)[k])
  <2>1. /\ Chosen(m, f.members[i]) \in DOMAIN f.members[i]
        /\ Passing(m, es(i))
    BY <1>0 DEF PassedUpTo
  <2>2. IsSequence(es(i))
    BY <2>1 DEF IsFormat, ChosenOf
  <2>3. parsed[i] = ParseMember(m, f.members[i])
    BY DEF ParseMembers
  <2>4. /\ parsed[i].alternative = Chosen(m, f.members[i])
        /\ parsed[i].values = [k \in DOMAIN es(i) |-> ParseEntry(m, es(i)[k])]
    BY <2>3 DEF ParseMember, ChosenOf
  <2> QED BY <2>1, <2>2, <2>4 DEF ChosenOf, IsSequence, Passing
<1>3. MemberEntries(f, parsed) = UNION {Of(i) : i \in DOMAIN f.members}
  BY <1>1, <1>2, SMTT(40) DEF MemberEntries
<1> HIDE DEF parsed
<1>4. ASSUME NEW x \in MemberEntries(f, parsed) PROVE x \in MatchedEntries(f, m)
  <2>1. PICK i \in DOMAIN f.members : x \in Of(i)
    BY <1>3, <1>4
  <2>2. PICK k \in DOMAIN es(i) :
          /\ parsed[i].values[k] # <<>>
          /\ x = [key |-> es(i)[k].key, value |-> parsed[i].values[k][1]]
    BY <2>1
  <2> HIDE DEF es
  <2>3. /\ EntryResult(m, es(i)[k]) = "MGOK"
        /\ x = [key |-> es(i)[k].key, value |-> ValueAt(m, es(i)[k].key)]
    BY <1>2, <2>2, ParsedEntry
  <2>4. PICK q \in DOMAIN m : m[q].key = es(i)[k].key
    BY <2>3, EntryResultOK DEF Keys
  <2>5. x = m[q]
    BY <2>3, <2>4, EntryOfKey
  <2>6. <<i, es(i)[k].key>> \in ClaimsOf(f, m, Len(f.members))
    BY <1>0, <1>2, <2>2, <2>3 DEF ClaimsOf, MemberClaims, Taken, es
  <2>7. \E c \in ClaimsOf(f, m, Len(f.members)) : c[2] = m[q].key
    BY <2>4, <2>6
  <2> QED BY <2>5, <2>7 DEF MatchedEntries
<1>5. ASSUME NEW x \in MatchedEntries(f, m) PROVE x \in MemberEntries(f, parsed)
  <2>1. PICK q \in DOMAIN m : x = m[q] /\ \E c \in ClaimsOf(f, m, Len(f.members)) : c[2] = m[q].key
    BY <1>5 DEF MatchedEntries
  <2>2. PICK c \in ClaimsOf(f, m, Len(f.members)) : c[2] = m[q].key
    BY <2>1
  <2>3. PICK i \in 1 .. Len(f.members) : c \in MemberClaims(f, m, i)
    BY <2>2 DEF ClaimsOf
  <2> HIDE DEF es
  <2>4. PICK k \in 1 .. Len(es(i)) :
          EntryResult(m, es(i)[k]) = "MGOK" /\ c = <<i, es(i)[k].key>>
    BY <2>3 DEF MemberClaims, Taken, es
  <2>5. i \in DOMAIN f.members /\ k \in DOMAIN es(i)
    BY <1>0, <1>2, <2>4
  <2>6. es(i)[k].key = m[q].key
    BY <2>2, <2>4
  <2>7. parsed[i].values[k] # <<>> /\ parsed[i].values[k][1] = ValueAt(m, es(i)[k].key)
    BY <1>2, <2>4, <2>5, ParsedEntry
  <2>8. x = [key |-> es(i)[k].key, value |-> parsed[i].values[k][1]]
    BY <2>1, <2>6, <2>7, EntryOfKey
  <2>9. x \in Of(i)
    BY <2>5, <2>7, <2>8
  <2> QED BY <1>3, <2>5, <2>9
<1> QED BY <1>4, <1>5 DEF parsed

\* EveryEntryOnce: a map that validate_* accepts is parsed without loss.  The
\* entries in the members that parse_* returns and those that the iterator over
\* the table gives out are the entries of the map, none of them twice.
THEOREM NothingIsLost == Spec => []EveryEntryOnce
<1>1. IInv => EveryEntryOnce
  <2> SUFFICES ASSUME IInv, pc = "done", valid PROVE EveryEntryOnce
    BY DEF EveryEntryOnce
  <2> DEFINE parsed == MemberEntries(format, members)
             yielded == {table[i] : i \in DOMAIN table}
             M == Len(format.members)
  <2>1. /\ PassedUpTo(format, map, M) /\ remaining = 0
        /\ claimed = ClaimsOf(format, map, M) \cup TableClaims(format, map, Len(map))
    BY DEF IInv, AcceptedInv
  <2>2. /\ members = ParseMembers(format, map)
        /\ pos \in 1 .. Len(map) + 1 /\ look = Len(map) + 1
        /\ yielded = Yielded(format, map, pos - 1)
        /\ Cardinality(yielded) = Len(table)
        /\ \A q \in pos .. look - 1 : ~InTable(format, map[q])
    BY DEF IInv, IteratorInv
  <2>3. /\ IsFormat(format) /\ IsMap(map) /\ Len(map) \in Nat /\ DOMAIN map = 1 .. Len(map)
        /\ M \in Nat /\ DOMAIN format.members = 1 .. M
    BY ArgumentFacts DEF IInv
  <2>4. parsed = MatchedEntries(format, map)
    BY <2>1, <2>2, <2>3, ParsedAreMatched
  <2>5. yielded = {map[q] : q \in {q \in DOMAIN map : InTable(format, map[q])}}
    <3>1. \A q \in DOMAIN map : InTable(format, map[q]) => q \in 1 .. pos - 1
      BY <2>2, <2>3
    <3>2. \A q \in 1 .. pos - 1 : q \in DOMAIN map
      BY <2>2, <2>3
    <3>3. {q \in DOMAIN map : InTable(format, map[q])} = {q \in 1 .. pos - 1 : InTable(format, map[q])}
      BY <3>1, <3>2
    <3> QED BY <2>2, <3>3 DEF Yielded
  <2> HIDE DEF parsed, yielded
  <2>6. ASSUME NEW q \in DOMAIN map PROVE map[q] \in parsed \cup yielded
    <3>1. PICK c \in claimed : c[2] = map[q].key
      BY <2>1, AllClaimed
    <3>2. CASE c \in ClaimsOf(format, map, M)
      BY <2>4, <3>1, <3>2 DEF MatchedEntries
    <3>3. CASE c \in TableClaims(format, map, Len(map))
      <4>1. PICK p \in 1 .. Len(map) : InTable(format, map[p]) /\ c = <<M + 1, map[p].key>>
        BY <3>3 DEF TableClaims
      <4>2. map[p].key = map[q].key
        BY <3>1, <4>1
      <4>3. p = q
        BY <2>3, <4>2 DEF IsMap
      <4> QED BY <2>5, <4>1, <4>3
    <3> QED BY <2>1, <3>2, <3>3
  <2>7. parsed \cup yielded \subseteq {map[i] : i \in DOMAIN map}
    BY <2>4, <2>5 DEF MatchedEntries
  <2>8. ASSUME NEW x \in parsed, x \in yielded PROVE FALSE
    <3>1. PICK q \in DOMAIN map : x = map[q] /\ \E c \in ClaimsOf(format, map, M) : c[2] = map[q].key
      BY <2>4, <2>8 DEF MatchedEntries
    <3>2. PICK c \in ClaimsOf(format, map, M) : c[2] = map[q].key
      BY <3>1
    <3>3. InTable(format, map[q])
      BY <2>5, <2>8, <3>1
    <3> QED BY <2>1, <2>3, <3>2, <3>3, FreeForTable
  <2>9. parsed \cup yielded = {map[i] : i \in DOMAIN map}
    BY <2>6, <2>7
  <2>10. parsed \cap yielded = {}
    BY <2>8
  <2>11. Cardinality(yielded) = Len(table)
    BY <2>2 DEF yielded
  <2> QED BY <2>9, <2>10, <2>11 DEF EveryEntryOnce, parsed, yielded
<1> QED BY <1>1, Invariance, PTL
=============================================================================
