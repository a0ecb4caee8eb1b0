------------------------------ MODULE MCNondet ------------------------------
(***************************************************************************)
(* The equivalence called by a user, on two runs of items, and called by    *)
(* the validator for the keys of each map of its input.                     *)
(***************************************************************************)
EXTENDS NondetValidate, SequencesExt

M == INSTANCE CborMeaning

MCBounds == {None, Some(0), Some(1), Some(2)}

-----------------------------------------------------------------------------
\* 0, 1 and a text, also with wider arguments, and what can be made of them.
Atoms == {<<0>>, <<24, 0>>, <<1>>, <<32>>, <<97, 97>>, <<120, 1, 97>>, <<65, 97>>,
          <<97, 98>>, <<244>>, <<248, 32>>}
Integers3 == {<<0>>, <<24, 0>>, <<1>>}
Flat == {<<128>>, <<129, 0>>, <<152, 1, 24, 0>>, <<130, 0, 1>>, <<193, 0>>, <<216, 1, 1>>, <<160>>,
         <<184, 0>>}

Pair(h, k1, v1, k2, v2) == h \o k1 \o v1 \o k2 \o v2
Swapped(k1, v1, k2, v2) == {Pair(<<162>>, k1, v1, k2, v2), Pair(<<184, 2>>, k2, v2, k1, v1)}
FlatMaps == {<<161>> \o k \o v : k \in Integers3, v \in {<<24, 0>>, <<1>>}}
              \cup UNION {Swapped(<<0>>, v, <<1>>, w) : v \in Integers3, w \in {<<0>>, <<1>>}}
              \cup UNION {Swapped(<<24, 0>>, <<1>>, k, <<0>>) : k \in {<<1>>, <<97, 97>>}}

\* Maps in keys, in values, in arrays and below a tag.
SmallMaps == {<<160>>, <<161, 0, 1>>, <<161, 24, 0, 1>>, <<162, 0, 1, 1, 0>>, <<162, 1, 0, 0, 1>>}
Deep == {<<161>> \o k \o <<0>> : k \in SmallMaps} \cup {<<161, 0>> \o v : v \in SmallMaps}
          \cup {<<130, 1>> \o x : x \in SmallMaps}
          \cup {<<193>> \o x : x \in SmallMaps}
          \cup Swapped(<<161, 0, 1>>, <<0>>, <<161, 1, 0>>, <<160>>)
          \cup Swapped(<<161, 0, 1>>, <<1>>, <<161, 1, 0>>, <<160>>)
Deeper3 == {<<161, 161>> \o k \o <<0, 1>> : k \in SmallMaps} \cup {<<161, 0, 161, 1>> \o v : v \in SmallMaps}

Lists == {[n |-> 1, l |-> x] : x \in Atoms \cup Flat \cup FlatMaps \cup Deep \cup Deeper3}
           \cup {[n |-> 0, l |-> <<>>], [n |-> 2, l |-> <<0, 1>>], [n |-> 2, l |-> <<24, 0, 1>>],
                 [n |-> 2, l |-> <<161, 0, 1, 160>>]}

MCCalls == {[n1 |-> a.n, l1 |-> a.l, n2 |-> b.n, l2 |-> b.l] : a \in Lists, b \in Lists}

-----------------------------------------------------------------------------
SmallKeys == {<<0>>, <<24, 0>>, <<97, 97>>, <<120, 1, 97>>, <<129, 0>>, <<160>>, <<161, 0, 1>>,
          <<184, 1, 24, 0, 1>>, <<162, 0, 1, 1, 0>>, <<162, 1, 0, 0, 1>>, <<162, 0, 1, 24, 0, 0>>}
Nested == {<<161, 161, 0, 1, 0>>, <<161, 161, 24, 0, 1, 0>>, <<129, 161, 0, 1>>, <<193, 161, 160, 0>>}
Keys == SmallKeys \cup Nested
FewKeys == {<<0>>, <<1>>, <<160>>, <<161, 0, 1>>}
MapValues == {<<0>>, <<162, 1, 0, 24, 1, 1>>, <<161, 161, 161, 0, 0, 0, 0>>}

Maps1 == {<<161>> \o k \o v : k \in Keys, v \in MapValues}
Maps2 == {<<162>> \o k1 \o v \o k2 \o <<1>> :
            k1 \in Keys, k2 \in Keys, v \in {<<0>>, <<161, 161, 161, 0, 0, 0, 0>>}}
Maps3 == {<<163>> \o k1 \o <<0>> \o k2 \o <<1>> \o k3 \o <<2>> :
            k1 \in SmallKeys, k2 \in FewKeys, k3 \in {<<0>>, <<24, 0>>, <<161, 24, 0, 1>>, <<97, 98>>}}
Around == UNION {{<<129>> \o m, <<193>> \o m \o <<255>>, <<161, 0>> \o m, <<161>> \o m \o <<0>>}
                   : m \in Maps1 \cup {<<162>> \o k1 \o <<0>> \o k2 \o <<1>> :
                                         k1 \in Nested, k2 \in Nested}}
Invalid == {<<>>, <<28>>, <<162, 0, 0, 1>>, <<163, 0, 0, 1, 1>>, <<129, 97, 200>>}

MCInputs == Keys \cup Maps1 \cup Maps2 \cup Maps3 \cup Around \cup Invalid

-----------------------------------------------------------------------------
\* What is to be known of the validator's input, found out once at the beginning:
\* whether the keys of each map differ in meaning, and the bounds for the maps
\* nested in keys.
VARIABLES caller, distinct, shallow
known == <<caller, distinct, shallow>>

Item == Slice(input, 0, len)

CalledByUser ==
  /\ caller = "user" /\ Init
  /\ input = <<>> /\ strict_check = FALSE /\ len = 0 /\ consumed = 0
  /\ item = <<>> /\ left = 0
  /\ outer = PairsFrom(<<>>, 0) /\ inner = PairsFrom(<<>>, 0)
  /\ distinct = FALSE /\ shallow = {}

CalledByValidator ==
  /\ caller = "validator" /\ ValidateInit
  /\ distinct = (len # 0 /\ M!NoRepeats(Item))
  /\ shallow = {b \in 0 .. 3 : len # 0 /\ M!KeysWithin(Item, b)}

MCInit == CalledByUser \/ CalledByValidator

MCNext ==
  \/ caller = "user" /\ Next /\ UNCHANGED <<validateVars, known>>
  \/ caller = "validator" /\ ValidateNext /\ UNCHANGED known

MCSpec == MCInit /\ [][MCNext]_<<allVars, known>> /\ WF_allVars(MCNext)

-----------------------------------------------------------------------------
\* What a run means, item by item, and how deep its maps are nested: a table.
ItemsOf(r) == M!Cut(r.l, r.n)
Meanings == [r \in Lists |-> [i \in 1 .. r.n |-> M!Meaning(ItemsOf(r)[i])]]
Depths == [r \in Lists |-> Max({0} \cup {M!MapDepth(x) : x \in ToSet(ItemsOf(r))})]

Run1 == [n |-> call.n1, l |-> call.l1]
Run2 == [n |-> call.n2, l |-> call.l2]

\* The comparison ends and decides whether the two runs mean the same, in whatever order
\* the entries of their maps come and however wide their arguments are.  It
\* gives up only when maps are nested deeper than the bound on both sides.
EquivDecidesMeaning ==
  <>/\ pc = "done"
    /\ caller = "user" =>
       IF ret = None
       THEN map_bound # None /\ Depths[Run1] > map_bound[1] /\ Depths[Run2] > map_bound[1]
       ELSE ret = Some(Meanings[Run1] = Meanings[Run2])

InBound == map_bound # None => map_bound[1] \in shallow

\* The validator returns, and accepts exactly the items whose maps have no two keys of the
\* same meaning and, in strict mode, no key with maps nested deeper than the
\* bound.  Without strict mode the bound may only make it refuse more.
AcceptsDistinctKeys ==
  <>/\ pc = "done"
    /\ caller = "validator" =>
         /\ consumed \in {0, len}
         /\ consumed # 0 => distinct
         /\ distinct /\ InBound => consumed # 0
         /\ strict_check /\ ~InBound => consumed = 0
=============================================================================
