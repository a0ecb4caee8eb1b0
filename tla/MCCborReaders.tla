--------------------------- MODULE MCCborReaders ---------------------------
EXTENDS CborReaders, SequencesExt

E == INSTANCE CborEncoding

\* Elements of one byte and of more, and elements that hold others: each as the
\* API makes it in memory, by its encoding.
Zero == MkInt(UInt64, 0)
Made ==
  << <<<<0>>, Zero>>, <<<<56, 24>>, MkInt(NegInt64, 24)>>, <<<<24, 24>>, MkInt(UInt64, 24)>>,
     <<<<97, 97>>, MkString(TextString, <<97>>)>>, <<<<129, 0>>, MkArray(<<Zero>>)>>,
     <<<<130, 0, 1>>, MkArray(<<Zero, MkInt(UInt64, 1)>>)>>, <<<<161, 0, 0>>, CborRead(<<161, 0, 0>>)>>,
     <<<<161, 0, 129, 0>>, CborRead(<<161, 0, 129, 0>>)>> >>

ASSUME MadeAssumption == \A p \in ToSet(Made) : E!Encoding(p[2]) = p[1]

ObjectOf(s) == (CHOOSE p \in ToSet(Made) : p[1] = s)[2]
Forms(s) == {ObjectOf(s), CborRead(s)}
EncodingOf(x) == (CHOOSE p \in ToSet(Made) : x \in {p[2], CborRead(p[1])})[1]

ElementSet == {<<0>>, <<56, 24>>, <<97, 97>>, <<130, 0, 1>>, <<161, 0, 129, 0>>}
KeySet == {<<0>>, <<24, 24>>, <<97, 97>>, <<129, 0>>, <<161, 0, 0>>}
ValueSet == {<<0>>, <<129, 0>>}

MCIndices == 0 .. 3 \cup {SizeMax, SizeMax + 1, Big64}
MCKeys == UNION {Forms(s) : s \in KeySet}

MCDetEncoding(x) == EncodingOf(x)

-----------------------------------------------------------------------------
\* The encodings of the entries of an array or a map, and the object with these
\* entries, made in memory or read from a buffer.
ArrayEntries == UNION {[1 .. n -> {<<s>> : s \in ElementSet}] : n \in 0 .. 3}
MapEntries ==
  UNION {{p \in [1 .. n -> KeySet \X ValueSet] :
            \A i \in 1 .. n - 1 : LexLess(p[i][1], p[i + 1][1])} : n \in 0 .. 3}

With(type, es) ==
  LET h == MkHeader(type, Len(es))
  IN  {InMemory(h, [i \in DOMAIN es |-> [j \in DOMAIN es[i] |-> ObjectOf(es[i][j])]]),
       CborRead(HeaderBytes(h) \o FlattenSeq([i \in DOMAIN es |-> FlattenSeq(es[i])]))}

MCObjects ==
  UNION ({With(ArrayType, es) : es \in ArrayEntries} \cup {With(MapType, es) : es \in MapEntries})

Encodings(e) == [j \in DOMAIN e |-> EncodingOf(e[j])]

\* The entries that the grammar finds in an object are those it was made of.
ASSUME EntriesAssumption ==
  \A es \in ArrayEntries \cup MapEntries : \A type \in {ArrayType, MapType} :
    es \in (IF type = ArrayType THEN ArrayEntries ELSE MapEntries) =>
      \A x \in With(type, es) :
        Count(x) = Len(es) /\ \A i \in DOMAIN es : Encodings(EntryOf(x, i - 1)) = es[i]
=============================================================================
