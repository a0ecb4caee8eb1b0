----------------------------- MODULE MCNondetMap -----------------------------
EXTENDS NondetMap

M == INSTANCE CborMeaning

\* Encodings in classes of one meaning.
Classes ==
  << {<<0>>, <<24, 0>>}, {<<1>>, <<24, 1>>}, {<<97, 97>>, <<120, 1, 97>>}, {<<65, 97>>},
     {<<129, 0>>, <<129, 24, 0>>}, {<<129, 160>>}, {<<130, 0, 1>>, <<152, 2, 24, 0, 1>>},
     {<<130, 1, 0>>}, {<<193, 0>>, <<216, 1, 0>>, <<193, 24, 0>>}, {<<194, 0>>},
     {<<160>>, <<184, 0>>}, {<<161, 0, 1>>, <<161, 24, 0, 1>>},
     {<<162, 0, 1, 1, 0>>, <<162, 1, 0, 0, 1>>, <<184, 2, 0, 1, 24, 1, 0>>},
     {<<162, 0, 1, 1, 1>>, <<162, 1, 1, 24, 0, 1>>},
     {<<161, 160, 129, 160>>, <<161, 184, 0, 129, 160>>} >>

Encodings == UNION ToSet(Classes)

ASSUME ClassesAssumption ==
  /\ \A i \in DOMAIN Classes : \A s, t \in Classes[i] : M!Meaning(s) = M!Meaning(t)
  /\ Cardinality({M!Meaning(s) : s \in Encodings}) = Len(Classes)

ClassOf(s) == CHOOSE i \in DOMAIN Classes : s \in Classes[i]

\* What NondetEquiv decides: the runs have items of the same meaning.
ItemClasses(n, l) ==
  LET start[i \in 0 .. n] == IF i = 0 THEN 0 ELSE Jump(l, start[i - 1])
  IN  [i \in 1 .. n |-> ClassOf(Slice(l, start[i - 1], start[i]))]
MCEquivList(nl1, l1, nl2, l2) == ItemClasses(nl1, l1) = ItemClasses(nl2, l2)

\* Each is read, and made again in memory of what it holds.
Again(o) ==
  IF o.head.type = Tagged THEN MkTagged(o.head.arg, TaggedPayload(o))
  ELSE InMemory(MkHeader(o.head.type, o.head.arg), Entries(o))
Objects(s) ==
  LET o == CborRead(s) IN {o} \cup IF o.form = "serialized" THEN {Again(o)} ELSE {}
KeyClass == UNION {{<<i, o>> : o \in UNION {Objects(s) : s \in Classes[i]}} : i \in DOMAIN Classes}
KeySet == {c[2] : c \in KeyClass}
Class(o) == (CHOOSE c \in KeyClass : c[2] = o)[1]

-----------------------------------------------------------------------------
Sample == {<<24, 0>>, <<162, 1, 0, 0, 1>>}
MCKeys == UNION {Objects(s) : s \in Sample}

\* Two and three entries with different values, in memory and read.
MCEntryLists ==
  {[i \in DOMAIN l |-> <<l[i], CborRead(<<65, i>>)>>] :
     l \in {<<>>} \cup {<<k1, CborRead(s)>> : k1 \in KeySet, s \in Encodings}
            \cup {<<k1, CborRead(s), k3>> : k1 \in MCKeys, s \in Encodings, k3 \in MCKeys}}
MCParsed ==
  {CborRead(<<161>> \o s \o <<65, 1>>) : s \in Encodings}
    \cup {CborRead(<<162>> \o s \o <<65, 1>> \o t \o <<65, 2>>) :
            s \in Sample, t \in {t \in Encodings : \A s \in Sample : ClassOf(s) # ClassOf(t)}}

-----------------------------------------------------------------------------
\* The classes of the keys in the map and of the key to look up, found out once.
VARIABLE classes
MCInit ==
  /\ Init
  /\ LET entries == IF x = NoMap THEN a ELSE Entries(x)
     IN  classes = [i \in DOMAIN entries |-> Class(entries[i][1])] \o <<Class(k)>>
MCNext == Next /\ UNCHANGED classes
MCSpec == MCInit /\ [][MCNext]_<<vars, classes>>

\* A map is made exactly when no two keys mean the same, in whatever form and
\* width the caller has them; then, as in a map that was parsed, a key finds
\* the value of the entry whose key has its meaning, and nothing without one.
LookupGoesByMeaning ==
  pc = "done" =>
    LET count == Len(classes) - 1
        ofKey == {i \in 1 .. count : classes[i] = Last(classes)}
    IN  /\ x # NoMap <=> Cardinality({classes[i] : i \in 1 .. count}) = count
        /\ x # NoMap => ToSet(dest) = {Entries(x)[i][2] : i \in ofKey}
=============================================================================
