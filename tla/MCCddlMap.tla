----------------------------- MODULE MCCddlMap -----------------------------
EXTENDS CoseTypes, CddlMap

\* Objects are numbered: keys in the order of their encodings, with one that is
\* no label, and values, for every type that an entry asks for and for none.
Items ==
  <<UKey(1), UKey(2), UKey(3), UKey(4), UKey(5), UKey(6), NKey(0), NKey(1), NKey(3),
    MkString(ByteString, <<1>>), MkString(TextString, <<97>>),
    MkArray(<<UKey(1)>>), MkArray(<<UKey(1), MkSimple(22)>>)>>
Number(x) == CHOOSE i \in DOMAIN Items : Items[i] = x

KeysUsed == 1 .. 11
MCValues == {1, 10, 12, 13}

\* A type as the numbers of the objects that its generated validator accepts.
Accepted(t) == {i \in DOMAIN Items : Validate(t, Items[i])}

Numbered(f) ==
  [f EXCEPT
     !.members =
       [i \in DOMAIN @ |-> [j \in DOMAIN @[i] |-> [k \in DOMAIN @[i][j] |->
          [@[i][j][k] EXCEPT !.key = Number(@), !.type = Accepted(@)]]]],
     !.key = Accepted(@), !.value = Accepted(@)]
MCFormats == {Numbered(f) : f \in {HeaderMap, KeyGeneric, KeyOkp}}

\* The map with the keys of ks and the values of vs.
MapOver(ks, vs) ==
  LET keys == SetToSortSeq(ks, <)
  IN  [i \in DOMAIN keys |-> [key |-> keys[i], value |-> vs[i]]]

MCObjects ==
  {[map |-> FALSE, entries |-> <<>>]}
    \cup {[map |-> TRUE, entries |-> MapOver(ks, vs)] :
            ks \in {ks \in SUBSET KeysUsed : Cardinality(ks) <= 3},
            vs \in [1 .. 3 -> MCValues]}

-----------------------------------------------------------------------------
\* cose-sign.cddl, read as a set of maps: which entries a map must and may have.
Has(key) == Number(key) \in Keys(map)
Value(key) == Items[ValueAt(map, Number(key))]
HasOfType(key, t) == Has(key) /\ Validate(t, Value(key))
OnlyOfType(key, t) == Has(key) => Validate(t, Value(key))

\* 5 and 6 never together, and each a byte string; all else is label => any.
IsHeaderMap ==
  /\ ~(Has(UKey(5)) /\ Has(UKey(6)))
  /\ OnlyOfType(UKey(5), bstr) /\ OnlyOfType(UKey(6), bstr)

\* Of the key parameters only the key type is required: a bad value of another
\* one is matched by * label => values.
IsKeyGeneric == HasOfType(UKey(1), evercddl_label)

\* The colons are cuts: a parameter that is there has the type given.
IsKeyOkp ==
  /\ Has(UKey(1)) /\ Value(UKey(1)) = UKey(1)
  /\ HasOfType(NKey(0), evercddl_label)
  /\ OnlyOfType(NKey(1), bstr) /\ OnlyOfType(NKey(3), bstr)

Conforms ==
  /\ object.map
  /\ \A k \in Keys(map) : Validate(evercddl_label, Items[k])
  /\ format.name = "header_map" => IsHeaderMap
  /\ format.name = "cose_key_generic" => IsKeyGeneric
  /\ format.name = "cose_key_okp" => IsKeyOkp

\* The call returns, with the verdict of the CDDL.
ValidatesCddl == <>(pc \in {"parse", "done"} /\ (valid <=> Conforms))

\* What was validated is parsed without loss, and the reading of the table ends.
ParsesEveryEntryOnce == <>(pc = "done" /\ EveryEntryOnce)
=============================================================================
