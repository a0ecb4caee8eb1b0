--------------------------- MODULE MCCborCompare ---------------------------
EXTENDS CborCompare, SequencesExt

E == INSTANCE CborEncoding

-----------------------------------------------------------------------------
\* What the iterator it has left.
Left(it) ==
  it.s \o FlattenSeq([i \in DOMAIN it.items |->
            FlattenSeq([j \in DOMAIN it.items[i] |-> E!Encoding(it.items[i][j])])])

\* What the callers have still to look at, on either side.
Pending(side) ==
  FlattenSeq([k \in DOMAIN stack |->
    LET f == stack[Len(stack) + 1 - k]
    IN  (IF f.values = <<>> THEN <<>> ELSE E!Encoding(f.values[side]))
          \o Left(IF side = 1 THEN f.i1 ELSE f.i2)])

\* The order of the two objects is the order of their encodings.
Order == LexCompare(E!Encoding(y1), E!Encoding(y2))

\* At every point of the recursion the rest decides: the objects in work and
\* what all the callers still have to look at compare as the whole objects do,
\* or the result is there.
RestDecides ==
  /\ pc = "compare" =>
       Order = LexCompare(E!Encoding(x1) \o Pending(1), E!Encoding(x2) \o Pending(2))
  /\ pc \in {"entry", "return"} =>
       Order = IF pc = "return" /\ ret # 0 THEN ret ELSE LexCompare(Pending(1), Pending(2))

\* The comparison ends, and is the byte order of the deterministic encodings, the order
\* in which keys must come, whichever of the objects are in memory.
ComparesEncodings == <>(pc = "done" /\ ret = Order)

\* The recursion goes into objects in memory only: what was read from a buffer,
\* however deep it is nested, costs no stack.
StackIsMemoryDepth ==
  Len(stack) <= Max({E!MemoryDepth(y1), E!MemoryDepth(y2)})

-----------------------------------------------------------------------------
Leaves == {MkInt(UInt64, 0), MkInt(UInt64, 24), MkInt(UInt64, 256), MkInt(NegInt64, 0),
           MkString(ByteString, <<>>), MkString(ByteString, <<1, 0>>),
           MkString(TextString, <<97>>), MkSimple(20), MkSimple(32)}
Few == {MkInt(UInt64, 0), MkInt(UInt64, 24), MkString(ByteString, <<1, 0>>)}

Read(xs) == {CborRead(E!Encoding(x)) : x \in xs}
Both(xs) == xs \cup Read(xs)

Arrays(xs, n) == UNION {{MkArray(s) : s \in [1 .. k -> xs]} : k \in 0 .. n}
Sorted(pairs) == \A i \in 1 .. Len(pairs) - 1 :
                   LexLess(E!Encoding(pairs[i][1]), E!Encoding(pairs[i + 1][1]))
Maps(keys, xs, n) ==
  UNION {{MkMap(s) : s \in {p \in [1 .. k -> keys \X xs] : Sorted(p)}} : k \in 0 .. n}
Tags(xs) == {MkTagged(t, x) : t \in {1, 24}, x \in xs}

\* Objects of depth 1 and 2, in memory, read from a buffer and mixed.
Flat == Arrays(Few, 2) \cup Maps(Few, {MkInt(UInt64, 0), MkInt(UInt64, 24)}, 2) \cup Tags(Few)
Inner == Both({MkArray(<<MkInt(UInt64, 0)>>), MkMap(<< <<MkInt(UInt64, 0), MkInt(UInt64, 24)>> >>),
               MkTagged(1, MkInt(UInt64, 0))})
Nested == Arrays(Inner, 2) \cup Maps(Inner, {MkInt(UInt64, 0)}, 1)
            \cup Maps(Few, Inner, 1) \cup Tags(Inner)

MCObjects == Leaves \cup Both(Flat) \cup Nested \cup Read(Nested)
=============================================================================
