------------------------- MODULE CborReaders_proofs -------------------------
(***************************************************************************)
(* Proofs about CborReaders.  An iterator is at the i-th entry when what it *)
(* has left are the entries from there on, up to the last truncation; for a *)
(* serialized object that is the encoding from where the grammar says that  *)
(* the i-th entry starts.  The access by index and the lookup are iterators *)
(* too, which stop at the element asked for, or behind smaller keys.        *)
(***************************************************************************)
EXTENDS CborReaders, CborGrammar_proofs

-----------------------------------------------------------------------------
(* Rows of items *)

\* What is behind the first i items of s.
Suffix(s, i) == Slice(s, ItemStart(s, i), Len(s))

\* A row that there is: its parts begin and end in order.
LEMMA PartBounds ==
  ASSUME NEW s \in Seq(Byte), Len(s) <= SizeMax, NEW yes \in BOOLEAN, NEW o \in 0 .. Len(s),
         NEW a \in Nat, NEW b \in Nat, a <= b,
         NEW p, p = Ends(s, yes, yes)[<<o, a>>],
         NEW e, e = Ends(s, yes, yes)[<<o, b>>], e # Bad
  PROVE  p \in Nat /\ o + a <= p /\ p + (b - a) <= e /\ e <= Len(s)
<1>1. p # Bad /\ p \in o .. Len(s) /\ Ends(s, yes, yes)[<<p, b - a>>] = e
  BY RowParts
<1>2. Len(s) \in Nat /\ p \in 0 .. Len(s) /\ b - a \in Nat
  BY <1>1, LenProperties
<1>3. p + (b - a) <= e /\ e \in 0 .. Len(s)
  BY <1>1, <1>2, RowBytes
<1>4. o + a <= p
  BY <1>1, RowBytes
<1> QED BY <1>1, <1>2, <1>3, <1>4

\* The starts of two items, in order.
LEMMA RowOrder ==
  ASSUME NEW s, NEW n \in Nat, IsRow(s, n), NEW i \in Nat, NEW j \in Nat, i <= j, j <= n
  PROVE  /\ Len(s) \in Nat /\ ItemStart(s, i) \in Nat /\ ItemStart(s, j) \in Nat
         /\ i <= ItemStart(s, i) /\ ItemStart(s, i) + (j - i) <= ItemStart(s, j)
         /\ ItemStart(s, j) <= Len(s)
<1>1. s \in Seq(Byte) /\ Len(s) <= SizeMax /\ Len(s) \in Nat /\ ItemStart(s, n) = Len(s)
  BY LenProperties DEF IsRow
<1>2. PICK yes \in BOOLEAN : yes = TRUE
  OBVIOUS
<1>3. PICK z \in 0 .. Len(s) : z = 0
  BY <1>1
<1>4. PICK a, b, e : a = ItemStart(s, i) /\ b = ItemStart(s, j) /\ e = Len(s)
  OBVIOUS
<1>5. a = Ends(s, yes, yes)[<<z, i>>] /\ b = Ends(s, yes, yes)[<<z, j>>] /\ e = Ends(s, yes, yes)[<<z, n>>]
  BY <1>1, <1>2, <1>3, <1>4 DEF ItemStart
<1>6. e # Bad
  BY <1>1, <1>4 DEF Bad
<1>7. b \in Nat /\ b + (n - j) <= e
  BY <1>1, <1>5, <1>6, PartBounds
<1>8. b # Bad
  BY <1>7 DEF Bad
<1>9. a \in Nat /\ z + i <= a /\ a + (j - i) <= b
  BY <1>1, <1>5, <1>8, PartBounds
<1> QED BY <1>1, <1>3, <1>4, <1>7, <1>9

\* A row has a byte for each of its items.
LEMMA RowFacts ==
  ASSUME NEW s, NEW n \in Nat, IsRow(s, n)
  PROVE  Len(s) \in Nat /\ n <= Len(s) /\ ItemStart(s, n) = Len(s)
<1>1. ItemStart(s, n) = Len(s)
  BY DEF IsRow
<1>2. Len(s) \in Nat /\ n <= ItemStart(s, n)
  BY RowOrder
<1> QED BY <1>1, <1>2

\* The first item is at the start.
LEMMA RowStart ==
  ASSUME NEW s, NEW n \in Nat, IsRow(s, n)
  PROVE  ItemStart(s, 0) = 0
<1>1. s \in Seq(Byte) /\ Len(s) <= SizeMax /\ Len(s) \in Nat
  BY LenProperties DEF IsRow
<1>2. PICK yes \in BOOLEAN : yes = TRUE
  OBVIOUS
<1>3. PICK z \in Bad .. Len(s) : z = 0
  BY <1>1 DEF Bad
<1>4. PICK k \in Nat : k = 0
  OBVIOUS
<1>5. Ends(s, yes, yes)[<<z, k>>] = z
  BY <1>1, <1>3, <1>4, EndsBound
<1> QED BY <1>2, <1>3, <1>4, <1>5 DEF ItemStart

\* A slice occurs where it was cut out.
LEMMA SliceIsPart ==
  ASSUME NEW s \in Seq(Byte), NEW a \in Nat, NEW b \in Nat, a <= b, b <= Len(s),
         NEW t, t = Slice(s, a, b)
  PROVE  t \in Seq(Byte) /\ Len(t) = b - a /\ Occurs(t, s, a)
<1>1. t \in Seq(Byte) /\ Len(t) = b - a
  BY SliceFacts
<1>2. ASSUME NEW o \in Nat, o < Len(t) PROVE At(s, a + o) = At(t, o)
  <2>1. o < b - a
    BY <1>1, <1>2
  <2>2. At(Slice(s, a, b), o) = At(s, a + o)
    BY <2>1, SliceFacts
  <2> QED BY <2>2, Zenon
<1>3. a + Len(t) <= Len(s)
  BY <1>1, LenProperties
<1> QED BY <1>1, <1>2, <1>3 DEF Occurs

\* What is left.
LEMMA SuffixIsPart ==
  ASSUME NEW s, NEW n \in Nat, IsRow(s, n), NEW i \in Nat, i <= n,
         NEW a, a = ItemStart(s, i), NEW u, u = Suffix(s, i)
  PROVE  /\ s \in Seq(Byte) /\ Len(s) \in Nat /\ a \in Nat /\ a <= Len(s)
         /\ u \in Seq(Byte) /\ Len(u) \in Nat /\ a + Len(u) = Len(s) /\ Len(u) <= SizeMax
         /\ Occurs(u, s, a)
<1>1. s \in Seq(Byte) /\ Len(s) <= SizeMax /\ Len(s) \in Nat /\ a \in Nat /\ a <= Len(s)
  BY RowOrder DEF IsRow
<1>2. PICK l \in Nat : l = Len(s)
  BY <1>1
<1>3. u = Slice(s, a, l) /\ a <= l /\ l <= Len(s)
  <2>1. u = Slice(s, a, l)
    BY <1>2, Zenon DEF Suffix
  <2> QED BY <1>1, <1>2, <2>1, SMT
<1>4. u \in Seq(Byte) /\ Len(u) = l - a /\ Occurs(u, s, a)
  <2>1. PICK b \in Nat : b = a
    BY <1>1
  <2>2. PICK v : v = Slice(s, b, l)
    OBVIOUS
  <2>3. b <= l /\ l <= Len(s)
    BY <1>3, <2>1
  <2>4. v \in Seq(Byte) /\ Len(v) = l - b /\ Occurs(v, s, b)
    BY <1>1, <2>2, <2>3, SliceIsPart
  <2> QED BY <1>3, <2>1, <2>2, <2>4, Zenon
<1>5. Len(u) \in Nat /\ a + Len(u) = Len(s) /\ Len(u) <= SizeMax
  <2>1. PICK m : m = Len(u)
    OBVIOUS
  <2>2. m = l - a /\ l <= SizeMax /\ a <= l
    BY <1>1, <1>2, <1>4, <2>1
  <2>3. m \in Nat /\ a + m = l /\ m <= SizeMax
    BY <1>1, <1>2, <2>2, SizeAssumption
  <2> QED BY <1>2, <2>1, <2>3
<1> QED BY <1>1, <1>4, <1>5

\* An item of what is left: the jump from its start gets to its end.
LEMMA SuffixItem ==
  ASSUME NEW s, NEW n \in Nat, IsRow(s, n), NEW i \in Nat, NEW j \in Nat, i <= j, j < n,
         NEW u, u = Suffix(s, i),
         NEW x, x = ItemStart(s, j) - ItemStart(s, i),
         NEW y, y = ItemStart(s, j + 1) - ItemStart(s, i)
  PROVE  /\ Jump(u, x) = y /\ Slice(u, x, y) = ItemOf(s, j)
         /\ Slice(u, y, Len(u)) = Suffix(s, j + 1)
         /\ j = i => x = 0
<1>1. i <= n /\ j <= n /\ j + 1 \in Nat /\ j + 1 <= n /\ j <= j + 1 /\ j \in 0 .. n - 1
  OBVIOUS
<1>2. PICK a, b, c : a = ItemStart(s, i) /\ b = ItemStart(s, j) /\ c = ItemStart(s, j + 1)
  OBVIOUS
<1>3. a \in Nat /\ b \in Nat /\ c \in Nat /\ a <= b /\ b <= c /\ c <= Len(s)
  <2>1. a \in Nat /\ b \in Nat /\ a + (j - i) <= b
    BY <1>1, <1>2, RowOrder
  <2>2. c \in Nat /\ b + ((j + 1) - j) <= c /\ c <= Len(s)
    BY <1>1, <1>2, RowOrder
  <2> QED BY <2>1, <2>2
<1>4. PICK m : m = Len(u)
  OBVIOUS
<1>5. /\ s \in Seq(Byte) /\ Len(s) \in Nat /\ u \in Seq(Byte) /\ m \in Nat /\ a + m = Len(s)
      /\ m <= SizeMax /\ Occurs(u, s, a)
  BY <1>1, <1>2, <1>4, SuffixIsPart
<1>6. PICK p, q : p = b - a /\ q = c - a
  OBVIOUS
<1>7. p \in Nat /\ q \in Nat /\ p <= q /\ q <= m /\ a + p = b /\ a + q = c
  <2>1. PICK l \in Nat : l = Len(s)
    BY <1>5
  <2>2. c <= l /\ a + m = l /\ m \in Nat
    BY <1>3, <1>5, <2>1
  <2>3. a \in Nat /\ b \in Nat /\ c \in Nat /\ a <= b /\ b <= c
    BY <1>3
  <2> QED BY <1>6, <2>2, <2>3
<1>8. j = i => p = 0
  BY <1>2, <1>3, <1>6
<1>9. PICK t : t = ItemOf(s, j)
  OBVIOUS
<1>10. t = Slice(u, p, q)
  <2>1. Slice(s, a + p, a + q) = Slice(u, p, q)
    BY <1>4, <1>5, <1>7, SliceOccurs
  <2>2. t = Slice(s, b, c)
    BY <1>2, <1>9, Zenon DEF ItemOf
  <2> QED BY <1>7, <2>1, <2>2, Zenon
<1>11. Slice(u, q, m) = Suffix(s, j + 1)
  <2>1. m <= Len(u)
    BY <1>4, <1>5
  <2>2. Slice(s, a + q, a + m) = Slice(u, q, m)
    BY <1>5, <1>7, <2>1, SliceOccurs
  <2>3. Suffix(s, j + 1) = Slice(s, c, Len(s))
    BY <1>2, Zenon DEF Suffix
  <2> QED BY <1>5, <1>7, <2>2, <2>3, Zenon
<1>12. t # <<>> /\ DetLength(t) = Len(t)
  BY <1>1, <1>9 DEF IsRow
<1>13. t \in Seq(Byte) /\ Len(t) = q - p /\ Occurs(t, u, p)
  <2>1. q <= Len(u) /\ u \in Seq(Byte) /\ p \in Nat /\ q \in Nat /\ p <= q
    BY <1>4, <1>5, <1>7
  <2> QED BY <1>10, <2>1, SliceIsPart
<1>14. Jump(u, p) = p + Len(t)
  <2>1. Len(u) <= SizeMax
    BY <1>4, <1>5
  <2> QED BY <1>5, <1>12, <1>13, <2>1, JumpOverItemAt
<1>15. p + Len(t) = q
  BY <1>7, <1>13
<1>16. Jump(u, p) = q
  BY <1>14, <1>15, Zenon
<1>17. p = x /\ q = y
  BY <1>2, <1>6
<1> QED BY <1>4, <1>8, <1>9, <1>10, <1>11, <1>16, <1>17, Zenon

-----------------------------------------------------------------------------
(* Iterators *)

\* Items per entry.
Width(x) == IF x.head.type = MapType THEN 2 ELSE 1

\* The iterator at the i-th entry, from 0, with k entries left.
IterAt(x, i, k) ==
  [form |-> x.form,
   items |-> IF x.form = "serialized" THEN x.items ELSE SubSeq(x.items, i + 1, i + k),
   s |-> IF x.form = "serialized" THEN Suffix(x.bytes, Width(x) * i) ELSE x.bytes,
   len |-> k]

\* What the assumption says of an object.
LEMMA ObjectFacts ==
  ASSUME NEW x \in Objects
  PROVE  /\ x.head.type = ArrayType \/ x.head.type = MapType
         /\ Count(x) \in Nat /\ Count(x) <= SizeMax /\ Width(x) * Count(x) \in Nat
         /\ \/ x.form = "memory" /\ Len(x.items) = Count(x)
            \/ x.form = "serialized" /\ IsRow(x.bytes, Width(x) * Count(x))
<1>1. IsObject(x)
  BY ReadersAssumption
<1>2. Count(x) \in Nat
  <2>1. x.head.arg \in Argument
    BY <1>1 DEF IsObject, Header
  <2> QED BY <2>1 DEF Count, Argument
<1>3. x.head.type = ArrayType \/ x.head.type = MapType
  BY <1>1 DEF IsObject
<1>4. Width(x) * Count(x) = IF x.head.type = MapType THEN 2 * Count(x) ELSE Count(x)
  BY <1>2 DEF Width
<1>5. Width(x) * Count(x) \in Nat /\ Count(x) <= Width(x) * Count(x)
  BY <1>2, <1>4
<1>6. CASE x.form = "memory" /\ Len(x.items) = Count(x) /\ Count(x) <= SizeMax
  BY <1>2, <1>3, <1>5, <1>6
<1>7. CASE x.form = "serialized" /\ IsRow(x.bytes, Width(x) * Count(x))
  <2>1. Width(x) * Count(x) <= Len(x.bytes) /\ Len(x.bytes) <= SizeMax /\ Len(x.bytes) \in Nat
    BY <1>5, <1>7, RowFacts DEF IsRow
  <2>2. Count(x) <= SizeMax
    BY <1>2, <1>5, <2>1, SizeAssumption
  <2> QED BY <1>2, <1>3, <1>5, <1>7, <2>2
<1> QED BY <1>1, <1>4, <1>6, <1>7 DEF IsObject, Holds

\* The entries of an object in memory.
LEMMA MemoryFacts ==
  ASSUME NEW x \in Objects, x.form = "memory"
  PROVE  \E S : /\ x.items \in Seq(S) /\ Len(x.items) = Count(x)
                /\ \A i \in 0 .. Count(x) - 1 : EntryOf(x, i) = x.items[i + 1]
<1>1. IsObject(x)
  BY ReadersAssumption
<1>2. x.items \in Seq({x.items[i] : i \in DOMAIN x.items}) /\ Len(x.items) = Count(x)
  BY <1>1 DEF IsObject, Holds
<1> QED BY <1>2 DEF EntryOf

\* A part of a sequence, its first element and the rest.
LEMMA PartOfSeq ==
  ASSUME NEW S, NEW q \in Seq(S), NEW i \in Nat, NEW k \in Nat, i + k <= Len(q),
         NEW p, p = SubSeq(q, i + 1, i + k)
  PROVE  /\ p \in Seq(S) /\ Len(p) = k
         /\ \A j \in 1 .. k : p[j] = q[i + j]
<1>1. Len(q) \in Nat
  BY LenProperties
<1>2. PICK m, n \in Int : m = i + 1 /\ n = i + k
  OBVIOUS
<1>3. p = SubSeq(q, m, n) /\ m \in 1 .. Len(q) + 1 /\ n \in m - 1 .. Len(q)
  BY <1>1, <1>2
<1>4. \A j \in m .. n : q[j] \in S
  <2>1. \A j \in m .. n : j \in 1 .. Len(q)
    BY <1>1, <1>3
  <2> QED BY <2>1, ElementOfSeq
<1>5. /\ SubSeq(q, m, n) \in Seq(S)
      /\ Len(SubSeq(q, m, n)) = IF m <= n THEN n - m + 1 ELSE 0
      /\ \A j \in 1 .. n - m + 1 : SubSeq(q, m, n)[j] = q[m + j - 1]
  BY <1>4, SubSeqProperties
<1>6. n - m + 1 = k /\ (~(m <= n) => k = 0)
  BY <1>2
<1>7. \A j \in 1 .. k : m + j - 1 = i + j
  BY <1>2
<1>8. \A j \in 1 .. k : p[j] = q[m + j - 1]
  BY <1>3, <1>5, <1>6
<1> QED BY <1>3, <1>5, <1>6, <1>7, <1>8

\* The first of k + 1 elements from the i-th on, and the k behind it.
LEMMA PartHead ==
  ASSUME NEW S, NEW q \in Seq(S), NEW i \in Nat, NEW k \in Nat, i + k + 1 <= Len(q),
         NEW p, p = SubSeq(q, i + 1, i + (k + 1))
  PROVE  /\ p # <<>> /\ Head(p) = q[i + 1]
         /\ Tail(p) = SubSeq(q, (i + 1) + 1, (i + 1) + k)
<1>1. /\ p \in Seq(S) /\ Len(p) = k + 1
      /\ \A j \in 1 .. k + 1 : p[j] = q[i + j]
  <2>1. PICK k1 : k1 = k + 1
    OBVIOUS
  <2>2. k1 \in Nat /\ i + k1 <= Len(q)
    BY <2>1, LenProperties
  <2>3. PICK p1 : p1 = SubSeq(q, i + 1, i + k1)
    OBVIOUS
  <2>4. p1 \in Seq(S) /\ Len(p1) = k1 /\ \A j \in 1 .. k1 : p1[j] = q[i + j]
    BY <2>2, <2>3, PartOfSeq
  <2>5. p1 = p
    BY <2>1, <2>3, Zenon
  <2> QED BY <2>1, <2>4, <2>5, Zenon
<1>2. PICK r : r = SubSeq(q, (i + 1) + 1, (i + 1) + k)
  OBVIOUS
<1>3. r \in Seq(S) /\ Len(r) = k /\ \A j \in 1 .. k : r[j] = q[(i + 1) + j]
  <2>1. PICK i1 : i1 = i + 1
    OBVIOUS
  <2>2. i1 \in Nat /\ i1 + k <= Len(q)
    BY <2>1, LenProperties
  <2>3. SubSeq(q, i1 + 1, i1 + k) \in Seq(S) /\ Len(SubSeq(q, i1 + 1, i1 + k)) = k
        /\ \A j \in 1 .. k : SubSeq(q, i1 + 1, i1 + k)[j] = q[i1 + j]
    BY <2>2, PartOfSeq
  <2> QED BY <1>2, <2>1, <2>3, Zenon
<1>4. p # <<>> /\ Head(p) = p[1] /\ Tail(p) \in Seq(S)
      /\ Len(Tail(p)) = Len(p) - 1 /\ \A j \in 1 .. Len(p) - 1 : Tail(p)[j] = p[j + 1]
  <2>1. p # <<>>
    BY <1>1, EmptySeq
  <2>2. /\ Head(p) \in S /\ Head(p) = p[1] /\ Tail(p) \in Seq(S) /\ Len(Tail(p)) = Len(p) - 1
        /\ \A j \in 1 .. Len(Tail(p)) : Tail(p)[j] = p[j + 1]
    BY <1>1, <2>1, HeadTailProperties
  <2> QED BY <2>1, <2>2, Zenon
<1>5. p[1] = q[i + 1]
  BY <1>1
<1>6. Tail(p) = r
  <2>1. Len(Tail(p)) = k
    BY <1>1, <1>4
  <2>2. ASSUME NEW j \in 1 .. k PROVE Tail(p)[j] = r[j]
    <3>1. j + 1 \in 1 .. k + 1 /\ i + (j + 1) = (i + 1) + j /\ j \in 1 .. Len(p) - 1
      BY <1>1
    <3>2. Tail(p)[j] = p[j + 1] /\ p[j + 1] = q[i + (j + 1)]
      BY <1>1, <1>4, <3>1, Zenon
    <3>3. r[j] = q[(i + 1) + j]
      BY <1>3, Zenon
    <3> QED BY <3>1, <3>2, <3>3, Zenon
  <2> QED BY <1>3, <1>4, <2>1, <2>2, SeqEqual
<1> QED BY <1>2, <1>4, <1>5, <1>6

\* The whole of a sequence.
LEMMA WholeSeq ==
  ASSUME NEW S, NEW q \in Seq(S), NEW n, n = Len(q)
  PROVE  SubSeq(q, 1, n) = q
<1>1. PICK m : m = 0
  OBVIOUS
<1>2. m \in Nat /\ n \in Nat /\ m + n <= Len(q) /\ m + 1 = 1 /\ m + n = n
  BY <1>1, LenProperties
<1>3. PICK p : p = SubSeq(q, m + 1, m + n)
  OBVIOUS
<1>4. p \in Seq(S) /\ Len(p) = n /\ \A j \in 1 .. n : p[j] = q[m + j]
  BY <1>2, <1>3, PartOfSeq
<1>5. \A j \in 1 .. n : m + j = j
  BY <1>1, <1>2
<1>6. p = q
  <2>1. \A j \in 1 .. Len(p) : p[j] = q[j]
    BY <1>4, <1>5
  <2> QED BY <1>4, <2>1, SeqEqual
<1> QED BY <1>2, <1>3, <1>6, Zenon

\* The front of a part.
LEMMA FrontOfPart ==
  ASSUME NEW S, NEW q \in Seq(S), NEW i \in Nat, NEW k \in Nat, i + k <= Len(q),
         NEW n \in Nat, n <= k
  PROVE  SubSeq(SubSeq(q, i + 1, i + k), 1, n) = SubSeq(q, i + 1, i + n)
<1>1. PICK p, r : p = SubSeq(q, i + 1, i + k) /\ r = SubSeq(q, i + 1, i + n)
  OBVIOUS
<1>2. p \in Seq(S) /\ Len(p) = k /\ \A j \in 1 .. k : p[j] = q[i + j]
  BY <1>1, PartOfSeq
<1>3. r \in Seq(S) /\ Len(r) = n /\ \A j \in 1 .. n : r[j] = q[i + j]
  <2>1. i + n <= Len(q)
    BY LenProperties
  <2> QED BY <1>1, <2>1, PartOfSeq
<1>4. PICK m : m = 0
  OBVIOUS
<1>5. m \in Nat /\ m + n <= Len(p) /\ m + 1 = 1 /\ m + n = n
  BY <1>2, <1>4
<1>6. PICK f : f = SubSeq(p, m + 1, m + n)
  OBVIOUS
<1>7. f \in Seq(S) /\ Len(f) = n /\ \A j \in 1 .. n : f[j] = p[m + j]
  BY <1>2, <1>5, <1>6, PartOfSeq
<1>8. \A j \in 1 .. n : m + j = j /\ j \in 1 .. k
  BY <1>4
<1>9. f = r
  <2>1. \A j \in 1 .. Len(f) : f[j] = r[j]
    BY <1>2, <1>3, <1>7, <1>8
  <2> QED BY <1>3, <1>7, <2>1, SeqEqual
<1> QED BY <1>1, <1>5, <1>6, <1>9, Zenon

-----------------------------------------------------------------------------
(* The operations of an iterator *)

\* What is read where the encodings are those of an element, or of a key and a value.
LEMMA ReadsEntry ==
  ASSUME NEW r, r.form = "serialized", NEW type, NEW a, NEW b
  PROVE  /\ EntryAt(r.s, type) = <<a>> => NextEntry(r, type) = <<CborRead(a)>>
         /\ EntryAt(r.s, type) = <<a, b>> => NextEntry(r, type) = <<CborRead(a), CborRead(b)>>
<1>1. PICK e : e = EntryAt(r.s, type)
  OBVIOUS
<1>2. NextEntry(r, type) = [j \in DOMAIN e |-> CborRead(e[j])]
  BY <1>1, Zenon DEF NextEntry
<1>3. e = <<a>> => [j \in DOMAIN e |-> CborRead(e[j])] = <<CborRead(a)>>
  OBVIOUS
<1>4. e = <<a, b>> => [j \in DOMAIN e |-> CborRead(e[j])] = <<CborRead(a), CborRead(b)>>
  OBVIOUS
<1> QED BY <1>1, <1>2, <1>3, <1>4, Zenon

\* An iterator with another length.
LEMMA SetLength ==
  ASSUME NEW f, NEW m, NEW u, NEW n, NEW l,
         NEW r, r = [form |-> f, items |-> m, s |-> u, len |-> n]
  PROVE  [r EXCEPT !.len = l] = [form |-> f, items |-> m, s |-> u, len |-> l]
OBVIOUS

\* All but the first, and their number.
Rest(m) == Tail(m)
OneLess(n) == n - 1

\* An iterator over a slice, moved by one.
LEMMA AdvanceInMemory ==
  ASSUME NEW f, NEW m, NEW u, NEW n, NEW type, f # "serialized",
         NEW r, r = [form |-> f, items |-> m, s |-> u, len |-> n]
  PROVE  Advance(r, type) = [form |-> f, items |-> Rest(m), s |-> u, len |-> OneLess(n)]
<1>1. PICK m1 : m1 = Rest(m)
  OBVIOUS
<1>2. Advance(r, type) = [r EXCEPT !.items = m1, !.len = @ - 1]
  <2>1. r.form # "serialized" /\ r.items = m
    OBVIOUS
  <2> QED BY <1>1, <2>1, Zenon DEF Advance, Rest
<1>3. \A w : [w EXCEPT !.items = m1, !.len = @ - 1] = [[w EXCEPT !.items = m1] EXCEPT !.len = w.len - 1]
  OBVIOUS
<1>4. PICK q : q = [r EXCEPT !.items = m1]
  OBVIOUS
<1>5. q = [form |-> f, items |-> m1, s |-> u, len |-> n]
  BY <1>4
<1>6. r.len - 1 = OneLess(n)
  BY DEF OneLess
<1>7. [q EXCEPT !.len = OneLess(n)] = [form |-> f, items |-> m1, s |-> u, len |-> OneLess(n)]
  BY <1>5, SetLength
<1> QED BY <1>1, <1>2, <1>3, <1>4, <1>6, <1>7, Zenon

\* The same of an encoding.
LEMMA AdvanceInBytes ==
  ASSUME NEW f, NEW m, NEW u, NEW n, NEW type, f = "serialized",
         NEW r, r = [form |-> f, items |-> m, s |-> u, len |-> n], NEW u1, NEW e, e = Jump(u, 0),
         u1 = Slice(u, IF type = MapType THEN Jump(u, e) ELSE e, Len(u))
  PROVE  Advance(r, type) = [form |-> f, items |-> m, s |-> u1, len |-> OneLess(n)]
<1>1. Advance(r, type) = [r EXCEPT !.s = u1, !.len = @ - 1]
  <2>1. r.form = "serialized" /\ r.s = u
    OBVIOUS
  <2>2. Advance(r, type)
          = [r EXCEPT !.s = Slice(@, IF type = MapType THEN Jump(@, e) ELSE e, Len(@)), !.len = @ - 1]
    BY <2>1, Zenon DEF Advance
  <2> QED BY <2>1, <2>2, Zenon
<1>2. \A w : [w EXCEPT !.s = u1, !.len = @ - 1] = [[w EXCEPT !.s = u1] EXCEPT !.len = w.len - 1]
  OBVIOUS
<1>3. PICK q : q = [r EXCEPT !.s = u1]
  OBVIOUS
<1>4. q = [form |-> f, items |-> m, s |-> u1, len |-> n]
  BY <1>3
<1>5. r.len - 1 = OneLess(n)
  BY DEF OneLess
<1>6. [q EXCEPT !.len = OneLess(n)] = [form |-> f, items |-> m, s |-> u1, len |-> OneLess(n)]
  BY <1>4, SetLength
<1> QED BY <1>1, <1>2, <1>3, <1>5, <1>6, Zenon

\* The parts of an iterator over a slice.
LEMMA IterInMemory ==
  ASSUME NEW x, x.form = "memory", NEW i, NEW k, NEW r, r = IterAt(x, i, k)
  PROVE  /\ r.form # "serialized" /\ r.len = k
         /\ r.items = SubSeq(x.items, i + 1, i + k)
BY DEF IterAt

\* The same of an encoding.
LEMMA IterSerialized ==
  ASSUME NEW x, x.form = "serialized", NEW i, NEW k, NEW r, r = IterAt(x, i, k)
  PROVE  /\ r.form = "serialized" /\ r.len = k
         /\ r.s = Suffix(x.bytes, Width(x) * i)
BY DEF IterAt

\* A fresh iterator is at the first entry.
LEMMA IterStarts ==
  ASSUME NEW x \in Objects
  PROVE  IteratorInit(x) = IterAt(x, 0, Count(x))
<1>1. CASE x.form = "memory"
  <2>1. PICK S : x.items \in Seq(S) /\ Len(x.items) = Count(x)
    BY <1>1, MemoryFacts
  <2>2. PICK n \in Nat : n = Count(x)
    BY ObjectFacts
  <2>3. SubSeq(x.items, 1, n) = x.items
    BY <2>1, <2>2, WholeSeq
  <2>4. SubSeq(x.items, 0 + 1, 0 + n) = x.items
    <3>1. 0 + 1 = 1 /\ 0 + n = n
      BY <2>2
    <3> QED BY <2>3, <3>1, Zenon
  <2> QED BY <1>1, <2>1, <2>2, <2>4 DEF IteratorInit, IterAt
<1>2. CASE x.form = "serialized"
  <2>1. PICK s, n : s = x.bytes /\ n = Width(x) * Count(x)
    OBVIOUS
  <2>2. n \in Nat /\ IsRow(s, n) /\ Width(x) * 0 = 0
    BY <1>2, <2>1, ObjectFacts DEF Width
  <2>3. s \in Seq(Byte) /\ ItemStart(s, 0) = 0
    BY <2>2, RowStart DEF IsRow
  <2>4. Slice(s, ItemStart(s, 0), Len(s)) = s
    <3>1. SubSeq(s, 1, Len(s)) = s
      BY <2>3, WholeSeq
    <3>2. Slice(s, 0, Len(s)) = SubSeq(s, 0 + 1, Len(s)) /\ 0 + 1 = 1
      BY DEF Slice
    <3> QED BY <2>3, <3>1, <3>2, Zenon
  <2>5. Suffix(x.bytes, Width(x) * 0) = x.bytes
    BY <2>1, <2>2, <2>4, Zenon DEF Suffix
  <2> QED BY <1>2, <2>5 DEF IteratorInit, IterAt, Count
<1> QED BY <1>1, <1>2, ObjectFacts

\* It is at its end when none is left.
LEMMA IterEmpty ==
  ASSUME NEW x \in Objects, NEW i \in Nat, NEW k \in Nat, i + k <= Count(x)
  PROVE  IsEmpty(IterAt(x, i, k)) <=> k = 0
<1>1. PICK r : r = IterAt(x, i, k)
  OBVIOUS
<1>2. CASE x.form = "memory"
  <2>1. PICK S : x.items \in Seq(S) /\ Len(x.items) = Count(x)
    BY <1>2, MemoryFacts
  <2>2. PICK p : p = SubSeq(x.items, i + 1, i + k)
    OBVIOUS
  <2>3. i + k <= Len(x.items)
    BY <2>1
  <2>4. p \in Seq(S) /\ Len(p) = k
    BY <2>1, <2>2, <2>3, PartOfSeq
  <2>5. p = <<>> <=> k = 0
    <3>1. p = <<>> <=> Len(p) = 0
      BY <2>4, EmptySeq
    <3> QED BY <2>4, <3>1, Zenon
  <2>6. r.form # "serialized" /\ r.items = p
    BY <1>1, <1>2, <2>2 DEF IterAt
  <2> QED BY <1>1, <2>5, <2>6 DEF IsEmpty
<1>3. CASE x.form = "serialized"
  <2>1. r.form = "serialized" /\ r.len = k
    BY <1>1, <1>3, IterSerialized
  <2> QED BY <1>1, <2>1 DEF IsEmpty
<1> QED BY <1>2, <1>3, ObjectFacts

\* The entry it is at, and the step to the next, in memory.
LEMMA IterNextInMemory ==
  ASSUME NEW x \in Objects, x.form = "memory",
         NEW i \in Nat, NEW k \in Nat, i + k + 1 <= Count(x), NEW type
  PROVE  /\ NextEntry(IterAt(x, i, k + 1), type) = EntryOf(x, i)
         /\ Advance(IterAt(x, i, k + 1), type) = IterAt(x, i + 1, k)
<1>1. PICK S : /\ x.items \in Seq(S) /\ Len(x.items) = Count(x)
               /\ \A j \in 0 .. Count(x) - 1 : EntryOf(x, j) = x.items[j + 1]
  BY MemoryFacts
<1>2. PICK p : p = SubSeq(x.items, i + 1, i + (k + 1))
  OBVIOUS
<1>3. /\ Head(p) = x.items[i + 1]
      /\ Tail(p) = SubSeq(x.items, (i + 1) + 1, (i + 1) + k)
  <2>1. PICK q : q = x.items
    OBVIOUS
  <2>2. q \in Seq(S) /\ i + k + 1 <= Len(q) /\ p = SubSeq(q, i + 1, i + (k + 1))
    BY <1>1, <1>2, <2>1
  <2>3. Head(p) = q[i + 1] /\ Tail(p) = SubSeq(q, (i + 1) + 1, (i + 1) + k)
    BY <2>2, PartHead
  <2> QED BY <2>1, <2>3, Zenon
<1>4. PICK r : r = IterAt(x, i, k + 1)
  OBVIOUS
<1>5. r.form # "serialized" /\ r.items = p
  BY <1>2, <1>4 DEF IterAt
<1>6. EntryOf(x, i) = x.items[i + 1]
  <2>1. i \in 0 .. Count(x) - 1
    BY ObjectFacts
  <2> QED BY <1>1, <2>1
<1>7. NextEntry(r, type) = EntryOf(x, i)
  BY <1>3, <1>5, <1>6, Zenon DEF NextEntry
<1>9. r = [form |-> x.form, items |-> p, s |-> x.bytes, len |-> k + 1]
  <2>1. x.form # "serialized"
    OBVIOUS
  <2> QED BY <1>2, <1>4, <2>1, Zenon DEF IterAt
<1>10. Advance(r, type) = [form |-> x.form, items |-> Tail(p), s |-> x.bytes, len |-> k]
  <2>1. PICK f, u, n : f = x.form /\ u = x.bytes /\ n = k + 1
    OBVIOUS
  <2>2. r = [form |-> f, items |-> p, s |-> u, len |-> n] /\ f # "serialized"
    BY <1>9, <2>1, Zenon
  <2>3. OneLess(n) = k
    BY <2>1 DEF OneLess
  <2>4. Advance(r, type) = [form |-> f, items |-> Rest(p), s |-> u, len |-> OneLess(n)]
    BY <2>2, AdvanceInMemory
  <2> QED BY <2>1, <2>4, <2>3, Zenon DEF Rest
<1>11. IterAt(x, i + 1, k) = [form |-> x.form, items |-> Tail(p), s |-> x.bytes, len |-> k]
  <2>1. x.form # "serialized"
    OBVIOUS
  <2> QED BY <1>3, <2>1, Zenon DEF IterAt
<1> QED BY <1>4, <1>7, <1>10, <1>11, Zenon

\* The same of a serialized array.
LEMMA IterNextInArray ==
  ASSUME NEW x \in Objects, x.form = "serialized", x.head.type = ArrayType,
         NEW i \in Nat, NEW k \in Nat, i + k + 1 <= Count(x)
  PROVE  /\ NextEntry(IterAt(x, i, k + 1), ArrayType) = EntryOf(x, i)
         /\ Advance(IterAt(x, i, k + 1), ArrayType) = IterAt(x, i + 1, k)
<1>1. ArrayType # MapType /\ Width(x) = 1
  BY DEF ArrayType, MapType, Width
<1>2. PICK s, n : s = x.bytes /\ n = Count(x)
  OBVIOUS
<1>3. n \in Nat /\ IsRow(s, n) /\ i < n /\ 1 * i = i /\ 1 * (i + 1) = i + 1
  <2>1. Count(x) \in Nat /\ IsRow(x.bytes, Width(x) * Count(x))
    BY ObjectFacts
  <2>2. 1 * Count(x) = Count(x)
    BY <2>1
  <2> QED BY <1>1, <1>2, <2>1, <2>2
<1>4. PICK u, y : u = Suffix(s, i) /\ y = ItemStart(s, i + 1) - ItemStart(s, i)
  OBVIOUS
<1>5. Jump(u, 0) = y /\ Slice(u, 0, y) = ItemOf(s, i) /\ Slice(u, y, Len(u)) = Suffix(s, i + 1)
  <2>1. PICK z : z = ItemStart(s, i) - ItemStart(s, i)
    OBVIOUS
  <2>2. Jump(u, z) = y /\ Slice(u, z, y) = ItemOf(s, i) /\ Slice(u, y, Len(u)) = Suffix(s, i + 1) /\ z = 0
    BY <1>3, <1>4, <2>1, SuffixItem
  <2> QED BY <2>2, Zenon
<1>6. PICK r : r = IterAt(x, i, k + 1)
  OBVIOUS
<1>7. r = [form |-> x.form, items |-> x.items, s |-> u, len |-> k + 1]
  BY <1>1, <1>2, <1>3, <1>4, <1>6, Zenon DEF IterAt
<1>8. r.form = "serialized" /\ r.s = u
  BY <1>7
<1>9. EntryOf(x, i) = <<CborRead(ItemOf(s, i))>>
  BY <1>1, <1>2 DEF EntryOf
<1>10. NextEntry(r, ArrayType) = EntryOf(x, i)
  <2>1. EntryAt(u, ArrayType) = <<Slice(u, 0, y)>>
    BY <1>1, <1>5, Zenon DEF EntryAt
  <2>2. NextEntry(r, ArrayType) = <<CborRead(Slice(u, 0, y))>>
    BY <1>8, <2>1, ReadsEntry
  <2> QED BY <1>5, <1>9, <2>2, Zenon
<1>12. Advance(r, ArrayType) = [form |-> x.form, items |-> x.items, s |-> Suffix(s, i + 1), len |-> k]
  <2>1. PICK f, m, u1, type, l :
          f = x.form /\ m = x.items /\ u1 = Slice(u, y, Len(u)) /\ type = ArrayType /\ l = k + 1
    OBVIOUS
  <2>2. r = [form |-> f, items |-> m, s |-> u, len |-> l] /\ f = "serialized"
    BY <1>7, <2>1, Zenon
  <2>3. OneLess(l) = k
    BY <2>1 DEF OneLess
  <2>4. u1 = Slice(u, IF type = MapType THEN Jump(u, y) ELSE y, Len(u)) /\ y = Jump(u, 0)
    BY <1>1, <1>5, <2>1, Zenon
  <2>5. Advance(r, type) = [form |-> f, items |-> m, s |-> u1, len |-> OneLess(l)]
    BY <2>2, <2>4, AdvanceInBytes
  <2> QED BY <1>5, <2>1, <2>5, <2>3, Zenon
<1>13. IterAt(x, i + 1, k)
         = [form |-> x.form, items |-> x.items, s |-> Suffix(s, i + 1), len |-> k]
  BY <1>1, <1>2, <1>3, Zenon DEF IterAt
<1> QED BY <1>6, <1>10, <1>12, <1>13, Zenon

\* And of a serialized map.
LEMMA IterNextInMap ==
  ASSUME NEW x \in Objects, x.form = "serialized", x.head.type = MapType,
         NEW i \in Nat, NEW k \in Nat, i + k + 1 <= Count(x)
  PROVE  /\ NextEntry(IterAt(x, i, k + 1), MapType) = EntryOf(x, i)
         /\ Advance(IterAt(x, i, k + 1), MapType) = IterAt(x, i + 1, k)
<1>1. ArrayType # MapType /\ Width(x) = 2
  BY DEF ArrayType, MapType, Width
<1>2. PICK s, n, c, d, e : s = x.bytes /\ n = 2 * Count(x) /\ c = 2 * i /\ d = c + 1 /\ e = d + 1
  OBVIOUS
<1>3. /\ n \in Nat /\ IsRow(s, n) /\ c \in Nat /\ d \in Nat /\ c < n /\ d < n /\ c <= d
      /\ 2 * (i + 1) = e /\ 2 * i + 1 = d
  <2>1. Count(x) \in Nat /\ IsRow(x.bytes, Width(x) * Count(x))
    BY ObjectFacts
  <2>2. IsRow(s, n)
    BY <1>1, <1>2, <2>1, Zenon
  <2>3. n \in Nat /\ c \in Nat /\ d \in Nat /\ c < n /\ d < n /\ c <= d /\ 2 * (i + 1) = e /\ 2 * i + 1 = d
    BY <1>2, <2>1
  <2> QED BY <2>2, <2>3
<1>4. PICK u, y, z : /\ u = Suffix(s, c) /\ y = ItemStart(s, d) - ItemStart(s, c)
                     /\ z = ItemStart(s, e) - ItemStart(s, c)
  OBVIOUS
<1>5. Jump(u, 0) = y /\ Slice(u, 0, y) = ItemOf(s, c)
  <2>1. PICK o, y1 : o = ItemStart(s, c) - ItemStart(s, c) /\ y1 = ItemStart(s, c + 1) - ItemStart(s, c)
    OBVIOUS
  <2>2. Jump(u, o) = y1 /\ Slice(u, o, y1) = ItemOf(s, c) /\ o = 0
    BY <1>3, <1>4, <2>1, SuffixItem
  <2>3. y1 = y
    BY <1>2, <1>4, <2>1
  <2> QED BY <2>2, <2>3, Zenon
<1>6. Jump(u, y) = z /\ Slice(u, y, z) = ItemOf(s, d) /\ Slice(u, z, Len(u)) = Suffix(s, e)
  <2>1. PICK z1 : z1 = ItemStart(s, d + 1) - ItemStart(s, c)
    OBVIOUS
  <2>2. Jump(u, y) = z1 /\ Slice(u, y, z1) = ItemOf(s, d) /\ Slice(u, z1, Len(u)) = Suffix(s, d + 1)
    BY <1>3, <1>4, <2>1, SuffixItem
  <2>3. z1 = z /\ d + 1 = e
    BY <1>2, <1>4, <2>1
  <2> QED BY <2>2, <2>3, Zenon
<1>7. PICK r : r = IterAt(x, i, k + 1)
  OBVIOUS
<1>8. r = [form |-> x.form, items |-> x.items, s |-> u, len |-> k + 1]
  BY <1>1, <1>2, <1>4, <1>7, Zenon DEF IterAt
<1>9. r.form = "serialized" /\ r.s = u
  BY <1>8
<1>10. EntryOf(x, i) = <<CborRead(ItemOf(s, c)), CborRead(ItemOf(s, d))>>
  <2>1. EntryOf(x, i) = <<CborRead(ItemOf(x.bytes, 2 * i)), CborRead(ItemOf(x.bytes, 2 * i + 1))>>
    BY <1>1 DEF EntryOf
  <2> QED BY <1>2, <1>3, <2>1, Zenon
<1>11. NextEntry(r, MapType) = EntryOf(x, i)
  <2>1. EntryAt(u, MapType) = <<Slice(u, 0, y), Slice(u, y, z)>>
    BY <1>5, <1>6, Zenon DEF EntryAt
  <2>2. NextEntry(r, MapType) = <<CborRead(Slice(u, 0, y)), CborRead(Slice(u, y, z))>>
    BY <1>9, <2>1, ReadsEntry
  <2> QED BY <1>5, <1>6, <1>10, <2>2, Zenon
<1>12. Advance(r, MapType) = [form |-> x.form, items |-> x.items, s |-> Suffix(s, e), len |-> k]
  <2>1. PICK f, m, u1, type, l :
          f = x.form /\ m = x.items /\ u1 = Slice(u, z, Len(u)) /\ type = MapType /\ l = k + 1
    OBVIOUS
  <2>2. r = [form |-> f, items |-> m, s |-> u, len |-> l] /\ f = "serialized"
    BY <1>8, <2>1, Zenon
  <2>3. OneLess(l) = k
    BY <2>1 DEF OneLess
  <2>4. u1 = Slice(u, IF type = MapType THEN Jump(u, y) ELSE y, Len(u)) /\ y = Jump(u, 0)
    BY <1>5, <1>6, <2>1, Zenon
  <2>5. Advance(r, type) = [form |-> f, items |-> m, s |-> u1, len |-> OneLess(l)]
    BY <2>2, <2>4, AdvanceInBytes
  <2> QED BY <1>6, <2>1, <2>3, <2>5, Zenon
<1>13. IterAt(x, i + 1, k) = [form |-> x.form, items |-> x.items, s |-> Suffix(s, e), len |-> k]
  BY <1>1, <1>2, <1>3, Zenon DEF IterAt
<1> QED BY <1>7, <1>11, <1>12, <1>13, Zenon

\* The entry an iterator is at, and the step to the next.
LEMMA IterNext ==
  ASSUME NEW x \in Objects, NEW i \in Nat, NEW k \in Nat, NEW j, NEW l,
         k # 0, i + k <= Count(x), j = i + 1, l = k - 1
  PROVE  /\ NextEntry(IterAt(x, i, k), x.head.type) = EntryOf(x, i)
         /\ Advance(IterAt(x, i, k), x.head.type) = IterAt(x, j, l)
<1>1. PICK n \in Nat : k = n + 1
  <2>1. k - 1 \in Nat /\ k = (k - 1) + 1
    OBVIOUS
  <2> QED BY <2>1
<1>2. i + n + 1 <= Count(x) /\ l = n
  BY <1>1, ObjectFacts
<1>3. PICK type : type = x.head.type
  OBVIOUS
<1>4. /\ NextEntry(IterAt(x, i, n + 1), type) = EntryOf(x, i)
      /\ Advance(IterAt(x, i, n + 1), type) = IterAt(x, i + 1, n)
  <2>1. CASE x.form = "memory"
    BY <1>2, <2>1, IterNextInMemory
  <2>2. CASE x.form = "serialized" /\ x.head.type = ArrayType
    <3>1. /\ NextEntry(IterAt(x, i, n + 1), ArrayType) = EntryOf(x, i)
          /\ Advance(IterAt(x, i, n + 1), ArrayType) = IterAt(x, i + 1, n)
      BY <1>2, <2>2, IterNextInArray
    <3> QED BY <1>3, <2>2, <3>1, Zenon
  <2>3. CASE x.form = "serialized" /\ x.head.type = MapType
    <3>1. /\ NextEntry(IterAt(x, i, n + 1), MapType) = EntryOf(x, i)
          /\ Advance(IterAt(x, i, n + 1), MapType) = IterAt(x, i + 1, n)
      BY <1>2, <2>3, IterNextInMap
    <3> QED BY <1>3, <2>3, <3>1, Zenon
  <2> QED BY <2>1, <2>2, <2>3, ObjectFacts
<1> QED BY <1>1, <1>2, <1>3, <1>4, Zenon

\* An iterator that is truncated has the first of the entries it had.
LEMMA IterTruncated ==
  ASSUME NEW x \in Objects, NEW i \in Nat, NEW k \in Nat, i + k <= Count(x), it = IterAt(x, i, k),
         NEW n \in Nat, n <= k
  PROVE  Truncated(n) = IterAt(x, i, n)
<1>1. CASE x.form = "serialized"
  <2>1. PICK f, m, u : f = x.form /\ m = x.items /\ u = Suffix(x.bytes, Width(x) * i)
    OBVIOUS
  <2>2. PICK r : r = it
    OBVIOUS
  <2>3. r = [form |-> f, items |-> m, s |-> u, len |-> k]
    BY <1>1, <2>1, <2>2, Zenon DEF IterAt
  <2>4. [r EXCEPT !.len = n] = [form |-> f, items |-> m, s |-> u, len |-> n]
    BY <2>3, SetLength
  <2>5. r.form = "serialized"
    BY <1>1, <2>1, <2>3
  <2>6. Truncated(n) = [r EXCEPT !.len = n]
    BY <2>2, <2>5, Zenon DEF Truncated
  <2> QED BY <1>1, <2>1, <2>4, <2>6, Zenon DEF IterAt
<1>2. CASE x.form = "memory"
  <2>1. PICK S : x.items \in Seq(S) /\ Len(x.items) = Count(x)
    BY <1>2, MemoryFacts
  <2>2. PICK f, m, m1, u : /\ f = x.form /\ u = x.bytes /\ m = SubSeq(x.items, i + 1, i + k)
                           /\ m1 = SubSeq(x.items, i + 1, i + n)
    OBVIOUS
  <2>3. PICK r : r = it
    OBVIOUS
  <2>4. x.form # "serialized"
    BY <1>2
  <2>5. r = [form |-> f, items |-> m, s |-> u, len |-> k]
    BY <2>2, <2>3, <2>4, Zenon DEF IterAt
  <2>6. r.form # "serialized" /\ r.items = m
    <3>1. r.form = f /\ r.items = m
      BY <2>5
    <3> QED BY <2>2, <2>4, <3>1, Zenon
  <2>7. Slice(m, 0, n) = m1
    <3>1. SubSeq(SubSeq(x.items, i + 1, i + k), 1, n) = SubSeq(x.items, i + 1, i + n)
      <4>1. i + k <= Len(x.items)
        BY <2>1
      <4> QED BY <2>1, <4>1, FrontOfPart
    <3>2. Slice(m, 0, n) = SubSeq(m, 0 + 1, n) /\ 0 + 1 = 1
      BY DEF Slice
    <3> QED BY <2>2, <3>1, <3>2, Zenon
  <2>8. Truncated(n) = [r EXCEPT !.len = n, !.items = Slice(r.items, 0, n)]
    <3>1. Truncated(n) = [r EXCEPT !.len = n, !.items = Slice(@, 0, n)]
      BY <2>3, <2>6, Zenon DEF Truncated
    <3> QED BY <3>1
  <2>9. \A w, v : [w EXCEPT !.len = n, !.items = v] = [[w EXCEPT !.len = n] EXCEPT !.items = v]
    OBVIOUS
  <2>10. PICK q : q = [r EXCEPT !.len = n]
    OBVIOUS
  <2>11. q = [form |-> f, items |-> m, s |-> u, len |-> n]
    BY <2>5, <2>10, SetLength
  <2>12. [q EXCEPT !.items = m1] = [form |-> f, items |-> m1, s |-> u, len |-> n]
    BY <2>11
  <2>13. IterAt(x, i, n) = [form |-> f, items |-> m1, s |-> u, len |-> n]
    BY <2>2, <2>4, Zenon DEF IterAt
  <2> QED BY <2>6, <2>7, <2>8, <2>9, <2>10, <2>12, <2>13, Zenon
<1> QED BY <1>1, <1>2, ObjectFacts

\* The first item of what is left of a row, and what is behind it.
LEMMA SuffixHead ==
  ASSUME NEW s, NEW n \in Nat, IsRow(s, n), NEW i \in Nat, i < n, NEW u, u = Suffix(s, i)
  PROVE  Slice(u, 0, Jump(u, 0)) = ItemOf(s, i) /\ Slice(u, Jump(u, 0), Len(u)) = Suffix(s, i + 1)
<1>1. PICK z, y : z = ItemStart(s, i) - ItemStart(s, i) /\ y = ItemStart(s, i + 1) - ItemStart(s, i)
  OBVIOUS
<1>2. Jump(u, z) = y /\ Slice(u, z, y) = ItemOf(s, i) /\ Slice(u, y, Len(u)) = Suffix(s, i + 1) /\ z = 0
  BY <1>1, SuffixItem
<1> QED BY <1>2, Zenon

-----------------------------------------------------------------------------
(* The invariant *)

Entries(x) == {EntryOf(x, i) : i \in 0 .. Count(x) - 1}

\* The caller's iterator r over x, cut down to u entries, has yielded t.
IsIteration(x, t, u, r) ==
  /\ t \in Seq(Entries(x)) /\ u \in Nat /\ u <= Count(x) /\ Len(t) <= u
  /\ r = IterAt(x, Len(t), u - Len(t))
  /\ \A i \in 1 .. Len(t) : t[i] = EntryOf(x, i - 1)

\* The walk to the n-th element has passed p of them and is at s.
IsWalk(x, n, p, s) ==
  /\ x.form = "serialized" /\ x.head.type = ArrayType
  /\ n \in Nat /\ n < Count(x) /\ p \in Nat /\ p <= n
  /\ s = Suffix(x.bytes, p)

IsElement(x, n, r) == r = IF n < Count(x) THEN EntryOf(x, n) ELSE <<>>

\* The lookup of key k is at an entry and has found nothing: the keys in front of
\* it are smaller.
IsSearch(x, k, p, r) ==
  /\ r = <<>>
  /\ \E i \in 0 .. Count(x) - 1 :
       /\ p = IterAt(x, i, Count(x) - i)
       /\ \A j \in 0 .. i - 1 : LexLess(KeyOf(x, j), DetEncoding(k))

OfKey(x, k) == {i \in 0 .. Count(x) - 1 : KeyOf(x, i) = DetEncoding(k)}
IsAnswer(x, k, r) ==
  IF OfKey(x, k) = {} THEN r = <<>> ELSE \E i \in OfKey(x, k) : r = <<EntryOf(x, i)[2]>>

WalkInv == pc = "walk" => IsWalk(obj, arg[1], pi, pres)
SearchInv ==
  pc = "search" =>
    /\ Type = MapType /\ arg[1] \in Keys
    /\ pcont => IsSearch(obj, arg[1], pi, pres)
    /\ ~pcont => IsAnswer(obj, arg[1], pres)
DoneInv ==
  pc = "done" =>
    /\ Type = ArrayType => IsElement(obj, arg[1], result)
    /\ Type = MapType => IsAnswer(obj, arg[1], result)

AccessInv == pc \in {"hold", "walk", "search", "done"} /\ WalkInv /\ SearchInv /\ DoneInv

IInv == obj \in Objects /\ IsIteration(obj, taken, upto, it) /\ AccessInv

-----------------------------------------------------------------------------
(* The caller's iteration *)

\* The iteration starts before the first of all the entries.
LEMMA IterationStarts ==
  ASSUME NEW x \in Objects, NEW t, t = <<>>, NEW r, r = IteratorInit(x), NEW u, u = r.len
  PROVE  IsIteration(x, t, u, r)
<1>1. PICK z, n : z = 0 /\ n = Count(x)
  OBVIOUS
<1>2. z \in Nat /\ n \in Nat /\ n - z = n
  BY <1>1, ObjectFacts
<1>3. r = IterAt(x, z, n)
  <2>1. r = IterAt(x, 0, Count(x))
    BY IterStarts
  <2> QED BY <1>1, <2>1, Zenon
<1>4. u = n
  <2>1. x.form = "memory" \/ x.form = "serialized"
    BY ObjectFacts
  <2>2. CASE x.form = "memory"
    BY <1>3, <2>2, IterInMemory
  <2>3. CASE x.form = "serialized"
    BY <1>3, <2>3, IterSerialized
  <2> QED BY <2>1, <2>2, <2>3
<1>5. t \in Seq(Entries(x)) /\ Len(t) = z /\ Len(t) = 0
  BY <1>1, EmptySeq
<1>6. r = IterAt(x, Len(t), u - Len(t))
  BY <1>2, <1>3, <1>4, <1>5, Zenon
<1>7. u \in Nat /\ u <= Count(x) /\ Len(t) <= u
  BY <1>1, <1>2, <1>4, <1>5
<1>8. \A i \in 1 .. Len(t) : t[i] = EntryOf(x, i - 1)
  BY <1>5
<1> QED BY <1>5, <1>6, <1>7, <1>8 DEF IsIteration

\* The numbers of an iteration.
LEMMA IterationFacts ==
  ASSUME NEW x \in Objects, NEW t, NEW u, NEW r, IsIteration(x, t, u, r)
  PROVE  \E i, k \in Nat : /\ i = Len(t) /\ k = u - i /\ u = i + k /\ i + k <= Count(x)
                           /\ r = IterAt(x, i, k) /\ r.len = k /\ (IsEmpty(r) <=> k = 0)
<1>1. /\ t \in Seq(Entries(x)) /\ u \in Nat /\ u <= Count(x) /\ Len(t) <= u
      /\ r = IterAt(x, Len(t), u - Len(t))
  BY DEF IsIteration
<1>2. PICK i, k : i = Len(t) /\ k = u - Len(t)
  OBVIOUS
<1>3. i \in Nat /\ k \in Nat /\ k = u - i /\ u = i + k /\ i + k <= Count(x)
  <2>1. i \in Nat /\ i <= u
    BY <1>1, <1>2, LenProperties
  <2>2. k = u - i /\ u \in Nat /\ Count(x) \in Nat /\ u <= Count(x)
    BY <1>1, <1>2, ObjectFacts
  <2> QED BY <2>1, <2>2
<1>4. r = IterAt(x, i, k)
  BY <1>1, <1>2, Zenon
<1>5. r.len = k
  <2>1. x.form = "memory" \/ x.form = "serialized"
    BY ObjectFacts
  <2>2. CASE x.form = "memory"
    BY <1>4, <2>2, IterInMemory
  <2>3. CASE x.form = "serialized"
    BY <1>4, <2>3, IterSerialized
  <2> QED BY <2>1, <2>2, <2>3
<1>6. IsEmpty(r) <=> k = 0
  <2>1. IsEmpty(IterAt(x, i, k)) <=> k = 0
    BY <1>3, IterEmpty
  <2> QED BY <1>4, <2>1, Zenon
<1> QED BY <1>2, <1>3, <1>4, <1>5, <1>6

\* Taking an entry.
LEMMA IterationSteps ==
  ASSUME NEW x \in Objects, NEW t, NEW u, NEW r, IsIteration(x, t, u, r), ~IsEmpty(r),
         NEW type, type = x.head.type,
         NEW t1, t1 = Append(t, NextEntry(r, type)), NEW r1, r1 = Advance(r, type)
  PROVE  IsIteration(x, t1, u, r1)
<1>1. PICK i, k \in Nat : /\ i = Len(t) /\ k = u - i /\ u = i + k /\ i + k <= Count(x)
                          /\ r = IterAt(x, i, k) /\ (IsEmpty(r) <=> k = 0)
  BY IterationFacts
<1>2. PICK j, l : j = i + 1 /\ l = k - 1
  OBVIOUS
<1>3. k # 0 /\ j \in Nat /\ l \in Nat /\ l = u - j /\ j <= u
  BY <1>1, <1>2
<1>4. PICK e : e = EntryOf(x, i)
  OBVIOUS
<1>5. NextEntry(r, type) = e /\ r1 = IterAt(x, j, l)
  <2>1. i + k <= Count(x) /\ k # 0 /\ j = i + 1 /\ l = k - 1
    BY <1>1, <1>2, <1>3
  <2>2. /\ NextEntry(IterAt(x, i, k), x.head.type) = EntryOf(x, i)
        /\ Advance(IterAt(x, i, k), x.head.type) = IterAt(x, j, l)
    BY <2>1, IterNext
  <2> QED BY <1>1, <1>4, <2>2, Zenon
<1>6. e \in Entries(x)
  <2>1. i \in 0 .. Count(x) - 1
    BY <1>1, <1>3, ObjectFacts
  <2> QED BY <1>4, <2>1 DEF Entries
<1>7. /\ t \in Seq(Entries(x)) /\ u \in Nat /\ u <= Count(x)
      /\ \A h \in 1 .. Len(t) : t[h] = EntryOf(x, h - 1)
  BY DEF IsIteration
<1>8. t1 = Append(t, e)
  BY <1>5, Zenon
<1>9. /\ t1 \in Seq(Entries(x)) /\ Len(t1) = j
      /\ \A h \in 1 .. Len(t) : t1[h] = t[h]
      /\ t1[j] = e
  <2>1. /\ Append(t, e) \in Seq(Entries(x)) /\ Len(Append(t, e)) = Len(t) + 1
        /\ \A h \in 1 .. Len(t) : Append(t, e)[h] = t[h]
        /\ Append(t, e)[Len(t) + 1] = e
    BY <1>6, <1>7, AppendProperties
  <2>2. Len(t) + 1 = j
    BY <1>1, <1>2
  <2> QED BY <1>8, <2>1, <2>2, Zenon
<1>10. ASSUME NEW h \in 1 .. Len(t1) PROVE t1[h] = EntryOf(x, h - 1)
  <2>1. h \in 1 .. Len(t) \/ (h = j /\ h - 1 = i)
    BY <1>1, <1>2, <1>9
  <2>2. CASE h \in 1 .. Len(t)
    BY <1>7, <1>9, <2>2, Zenon
  <2>3. CASE h = j /\ h - 1 = i
    BY <1>4, <1>9, <2>3, Zenon
  <2> QED BY <2>1, <2>2, <2>3
<1>11. r1 = IterAt(x, Len(t1), u - Len(t1)) /\ Len(t1) <= u
  BY <1>3, <1>5, <1>9, Zenon
<1> QED BY <1>7, <1>9, <1>10, <1>11 DEF IsIteration

\* Truncating.
LEMMA IterationTruncated ==
  ASSUME NEW x \in Objects, NEW t, NEW u, IsIteration(x, t, u, it),
         NEW n \in Nat, n < it.len, NEW u1, u1 = Len(t) + n
  PROVE  IsIteration(x, t, u1, Truncated(n))
<1>1. PICK i, k \in Nat : /\ i = Len(t) /\ k = u - i /\ u = i + k /\ i + k <= Count(x)
                          /\ it = IterAt(x, i, k) /\ it.len = k
  BY IterationFacts
<1>2. n < k
  BY <1>1
<1>3. Truncated(n) = IterAt(x, i, n)
  <2>1. n <= k
    BY <1>2
  <2> QED BY <1>1, <2>1, IterTruncated
<1>4. u1 \in Nat /\ u1 - i = n /\ u1 <= Count(x) /\ i <= u1
  BY <1>1, <1>2, ObjectFacts
<1>5. t \in Seq(Entries(x)) /\ \A h \in 1 .. Len(t) : t[h] = EntryOf(x, h - 1)
  BY DEF IsIteration
<1>6. Truncated(n) = IterAt(x, Len(t), u1 - Len(t)) /\ Len(t) <= u1
  BY <1>1, <1>3, <1>4, Zenon
<1> QED BY <1>4, <1>5, <1>6 DEF IsIteration

-----------------------------------------------------------------------------
(* The access by index *)

\* What is behind no item is the whole row.
LEMMA SuffixWhole ==
  ASSUME NEW s, NEW n \in Nat, IsRow(s, n)
  PROVE  Suffix(s, 0) = s
<1>1. s \in Seq(Byte) /\ ItemStart(s, 0) = 0
  BY RowStart DEF IsRow
<1>2. SubSeq(s, 1, Len(s)) = s
  BY <1>1, WholeSeq
<1>3. Slice(s, 0, Len(s)) = SubSeq(s, 0 + 1, Len(s)) /\ 0 + 1 = 1
  BY DEF Slice
<1> QED BY <1>1, <1>2, <1>3, Zenon DEF Suffix

\* A serialized array is the row of its elements.
LEMMA ArrayRow ==
  ASSUME NEW x \in Objects, x.form = "serialized", x.head.type = ArrayType
  PROVE  Count(x) \in Nat /\ IsRow(x.bytes, Count(x))
<1>1. Count(x) \in Nat /\ IsRow(x.bytes, Width(x) * Count(x))
  BY ObjectFacts
<1>2. Width(x) * Count(x) = Count(x)
  BY <1>1 DEF Width, ArrayType, MapType
<1> QED BY <1>1, <1>2, Zenon

\* A number below the count is not cut.
LEMMA IndexKept ==
  ASSUME NEW x \in Objects, NEW n \in Nat, n < Count(x)
  PROVE  Size(n) = n
<1>1. n \in 0 .. SizeMax
  BY ObjectFacts, SizeAssumption
<1> QED BY <1>1, SizeId

\* An array in memory gives the element, and any array nothing from the length on;
\* the walk over the encodings starts in front of all of them.
LEMMA ItemStarts ==
  ASSUME NEW x \in Objects, x.head.type = ArrayType, NEW n \in Nat
  PROVE  /\ n < Count(x) /\ x.form = "memory" => IsElement(x, n, x.items[Size(n) + 1])
         /\ ~(n < Count(x)) => IsElement(x, n, <<>>)
         /\ n < Count(x) /\ x.form = "serialized" => IsWalk(x, n, 0, x.bytes)
<1>1. ASSUME n < Count(x), x.form = "memory" PROVE IsElement(x, n, x.items[Size(n) + 1])
  <2>1. Size(n) = n
    BY <1>1, IndexKept
  <2>2. EntryOf(x, n) = x.items[n + 1]
    BY <1>1 DEF EntryOf
  <2>3. x.items[Size(n) + 1] = EntryOf(x, n)
    BY <2>1, <2>2, Zenon
  <2> QED BY <1>1, <2>3, Zenon DEF IsElement
<1>2. ~(n < Count(x)) => IsElement(x, n, <<>>)
  BY Zenon DEF IsElement
<1>3. ASSUME n < Count(x), x.form = "serialized" PROVE IsWalk(x, n, 0, x.bytes)
  <2>1. Suffix(x.bytes, 0) = x.bytes
    BY <1>3, ArrayRow, SuffixWhole
  <2>2. PICK z : z = 0
    OBVIOUS
  <2>3. z \in Nat /\ z <= n
    BY <2>2
  <2>4. IsWalk(x, n, z, x.bytes)
    BY <1>3, <2>1, <2>2, <2>3, Zenon DEF IsWalk
  <2> QED BY <2>2, <2>4, Zenon
<1> QED BY <1>1, <1>2, <1>3

\* It passes an element,
LEMMA WalkPasses ==
  ASSUME NEW x \in Objects, NEW n, NEW p, NEW s, IsWalk(x, n, p, s), p < Size(n),
         NEW q, q = Size(p + 1)
  PROVE  IsWalk(x, n, q, Slice(s, Jump(s, 0), Len(s)))
<1>1. /\ x.form = "serialized" /\ x.head.type = ArrayType
      /\ n \in Nat /\ n < Count(x) /\ p \in Nat /\ s = Suffix(x.bytes, p)
  BY DEF IsWalk
<1>2. p < n
  BY <1>1, IndexKept
<1>3. p + 1 \in Nat /\ p + 1 < Count(x) /\ p + 1 <= n /\ p < Count(x)
  BY <1>1, <1>2, ObjectFacts
<1>4. q = p + 1
  BY <1>3, IndexKept
<1>5. Slice(s, Jump(s, 0), Len(s)) = Suffix(x.bytes, p + 1)
  <2>1. Count(x) \in Nat /\ IsRow(x.bytes, Count(x))
    BY <1>1, ArrayRow
  <2> QED BY <1>1, <1>3, <2>1, SuffixHead
<1>6. q \in Nat /\ q <= n
  BY <1>3, <1>4
<1>7. Slice(s, Jump(s, 0), Len(s)) = Suffix(x.bytes, q)
  BY <1>4, <1>5, Zenon
<1> QED BY <1>1, <1>6, <1>7, Zenon DEF IsWalk

\* and reads the one it is to find.
LEMMA WalkReads ==
  ASSUME NEW x \in Objects, NEW n, NEW p, NEW s, IsWalk(x, n, p, s), ~(p < Size(n)),
         NEW r, r = <<CborRead(Slice(s, 0, Jump(s, 0)))>>
  PROVE  IsElement(x, n, r)
<1>1. /\ x.form = "serialized" /\ x.head.type = ArrayType
      /\ n \in Nat /\ n < Count(x) /\ p \in Nat /\ p <= n /\ s = Suffix(x.bytes, p)
  BY DEF IsWalk
<1>2. p = n
  <2>1. Size(n) = n
    BY <1>1, IndexKept
  <2> QED BY <1>1, <2>1
<1>3. Slice(s, 0, Jump(s, 0)) = ItemOf(x.bytes, p)
  <2>1. Count(x) \in Nat /\ IsRow(x.bytes, Count(x)) /\ p < Count(x)
    BY <1>1, <1>2, ArrayRow
  <2> QED BY <1>1, <2>1, SuffixHead
<1>4. EntryOf(x, n) = <<CborRead(ItemOf(x.bytes, n))>>
  BY <1>1 DEF EntryOf, ArrayType, MapType
<1>5. r = EntryOf(x, n)
  BY <1>2, <1>3, <1>4, Zenon
<1> QED BY <1>1, <1>5, Zenon DEF IsElement

-----------------------------------------------------------------------------
(* The lookup *)

\* The order of two encodings, by the result of the comparison.
LEMMA CompareDecides ==
  ASSUME NEW a, NEW b, DetEncoding(a) \in Seq(Byte), DetEncoding(b) \in Seq(Byte), NEW c, c = Compare(a, b)
  PROVE  /\ c \in Int
         /\ c = 0 => DetEncoding(a) = DetEncoding(b)
         /\ c < 0 => LexLess(DetEncoding(a), DetEncoding(b))
         /\ c > 0 => LexLess(DetEncoding(b), DetEncoding(a))
<1>1. PICK u, v : u = DetEncoding(a) /\ v = DetEncoding(b)
  OBVIOUS
<1>2. c = IF LexLess(u, v) THEN -1 ELSE IF LexLess(v, u) THEN 1 ELSE 0
  BY <1>1, Zenon DEF Compare, LexCompare
<1>3. ~LexLess(u, v) /\ ~LexLess(v, u) => u = v
  BY <1>1, LexTotal
<1> QED BY <1>1, <1>2, <1>3

\* The keys of a map.
LEMMA MapKeys ==
  ASSUME NEW x \in Objects, x.head.type = MapType
  PROVE  /\ \A i \in 0 .. Count(x) - 1 : KeyOf(x, i) \in Seq(Byte)
         /\ \A i, j \in 0 .. Count(x) - 1 : i < j => LexLess(KeyOf(x, i), KeyOf(x, j))
<1>1. IsObject(x)
  BY ReadersAssumption
<1> QED BY <1>1 DEF IsObject, KeysInOrder

\* No key of the map is k when those in front of an entry are smaller than k, and
\* its own is greater, or there is no such entry.
LEMMA NoKeyThere ==
  ASSUME NEW x \in Objects, x.head.type = MapType, NEW k \in Keys,
         NEW i \in Nat, i <= Count(x),
         \A j \in 0 .. i - 1 : LexLess(KeyOf(x, j), DetEncoding(k)),
         i < Count(x) => LexLess(DetEncoding(k), KeyOf(x, i))
  PROVE  IsAnswer(x, k, <<>>)
<1>1. PICK n \in Nat : n = Count(x)
  BY ObjectFacts
<1>2. PICK e : e = DetEncoding(k)
  OBVIOUS
<1>3. e \in Seq(Byte) /\ ~LexLess(e, e)
  BY <1>2, ReadersAssumption, LexIrreflexive
<1>4. ASSUME NEW j \in 0 .. n - 1 PROVE KeyOf(x, j) # e
  <2>1. CASE j < i
    <3>1. j \in 0 .. i - 1
      BY <1>1, <2>1
    <3>2. LexLess(KeyOf(x, j), e)
      BY <1>2, <3>1, Zenon
    <3> QED BY <1>3, <3>2, Zenon
  <2>2. CASE j = i
    <3>1. LexLess(e, KeyOf(x, j))
      BY <1>1, <1>2, <2>2
    <3> QED BY <1>3, <3>1, Zenon
  <2>3. CASE j > i
    <3>1. i \in 0 .. n - 1 /\ i < n
      BY <1>1, <2>3
    <3>2. LexLess(KeyOf(x, i), KeyOf(x, j)) /\ KeyOf(x, i) \in Seq(Byte) /\ KeyOf(x, j) \in Seq(Byte)
      BY <1>1, <2>3, <3>1, MapKeys
    <3>3. LexLess(e, KeyOf(x, i))
      BY <1>1, <1>2, <3>1
    <3>4. LexLess(e, KeyOf(x, j))
      BY <1>3, <3>2, <3>3, LexTransitive
    <3> QED BY <1>3, <3>4, Zenon
  <2> QED BY <1>1, <2>1, <2>2, <2>3
<1>5. OfKey(x, k) = {}
  BY <1>1, <1>2, <1>4 DEF OfKey
<1> QED BY <1>5, Zenon DEF IsAnswer

\* The entry the lookup is at.
LEMMA SearchAt ==
  ASSUME NEW x \in Objects, x.head.type = MapType, NEW k \in Keys, NEW p, NEW r, IsSearch(x, k, p, r)
  PROVE  \E i \in Nat : /\ i < Count(x) /\ r = <<>>
                        /\ \A j \in 0 .. i - 1 : LexLess(KeyOf(x, j), DetEncoding(k))
                        /\ NextEntry(p, MapType) = EntryOf(x, i)
                        /\ Advance(p, MapType) = IterAt(x, i + 1, Count(x) - (i + 1))
<1>1. PICK n \in Nat : n = Count(x)
  BY ObjectFacts
<1>2. PICK i \in 0 .. n - 1 : /\ p = IterAt(x, i, n - i)
                              /\ \A j \in 0 .. i - 1 : LexLess(KeyOf(x, j), DetEncoding(k))
  BY <1>1, Zenon DEF IsSearch
<1>3. r = <<>>
  BY Zenon DEF IsSearch
<1>4. PICK h, j, l : h = n - i /\ j = i + 1 /\ l = n - (i + 1)
  OBVIOUS
<1>5. i \in Nat /\ h \in Nat /\ h # 0 /\ i + h <= Count(x) /\ j = i + 1 /\ l = h - 1 /\ i < Count(x)
  BY <1>1, <1>2, <1>4
<1>6. /\ NextEntry(IterAt(x, i, h), x.head.type) = EntryOf(x, i)
      /\ Advance(IterAt(x, i, h), x.head.type) = IterAt(x, j, l)
  BY <1>5, IterNext
<1>7. NextEntry(p, MapType) = EntryOf(x, i)
  BY <1>2, <1>4, <1>6, Zenon
<1>8. Advance(p, MapType) = IterAt(x, i + 1, Count(x) - (i + 1))
  BY <1>1, <1>2, <1>4, <1>6, Zenon
<1> QED BY <1>2, <1>3, <1>5, <1>7, <1>8, Zenon

\* An iterator at the i-th entry behind smaller keys either goes on or is the end.
LEMMA SearchGoesOn ==
  ASSUME NEW x \in Objects, x.head.type = MapType, NEW k \in Keys,
         NEW i \in Nat, i <= Count(x), NEW p, p = IterAt(x, i, Count(x) - i), NEW r, r = <<>>,
         \A j \in 0 .. i - 1 : LexLess(KeyOf(x, j), DetEncoding(k))
  PROVE  /\ ~IsEmpty(p) => IsSearch(x, k, p, r)
         /\ IsEmpty(p) => IsAnswer(x, k, r)
<1>1. PICK h : h = Count(x) - i
  OBVIOUS
<1>2. /\ h \in Nat /\ i + h <= Count(x) /\ (h = 0 <=> ~(i < Count(x)))
      /\ i < Count(x) => i \in 0 .. Count(x) - 1
  BY <1>1, ObjectFacts
<1>3. IsEmpty(p) <=> h = 0
  <2>1. IsEmpty(IterAt(x, i, h)) <=> h = 0
    BY <1>2, IterEmpty
  <2> QED BY <1>1, <2>1, Zenon
<1>4. ASSUME ~IsEmpty(p) PROVE IsSearch(x, k, p, r)
  <2>1. i \in 0 .. Count(x) - 1
    BY <1>2, <1>3, <1>4, Zenon
  <2> QED BY <2>1, Zenon DEF IsSearch
<1>5. ASSUME IsEmpty(p) PROVE IsAnswer(x, k, r)
  <2>1. ~(i < Count(x))
    BY <1>2, <1>3, <1>5, Zenon
  <2>2. IsAnswer(x, k, <<>>)
    BY <2>1, NoKeyThere, Zenon
  <2> QED BY <2>2, Zenon
<1> QED BY <1>4, <1>5

\* The lookup starts in front of all keys.
LEMMA SearchStarts ==
  ASSUME NEW x \in Objects, x.head.type = MapType, NEW k \in Keys,
         NEW p, p = IteratorInit(x), NEW r, r = <<>>
  PROVE  /\ ~IsEmpty(p) => IsSearch(x, k, p, r)
         /\ IsEmpty(p) => IsAnswer(x, k, r)
<1>1. PICK i, n : i = 0 /\ n = Count(x)
  OBVIOUS
<1>2. i \in Nat /\ i <= Count(x) /\ n - i = n
  BY <1>1, ObjectFacts
<1>3. p = IterAt(x, i, Count(x) - i)
  <2>1. p = IterAt(x, 0, Count(x))
    BY IterStarts
  <2> QED BY <1>1, <1>2, <2>1, Zenon
<1>4. \A j \in 0 .. i - 1 : LexLess(KeyOf(x, j), DetEncoding(k))
  BY <1>1
<1> QED BY <1>2, <1>3, <1>4, SearchGoesOn

\* What a comparison with the key of an entry says.
LEMMA SearchCompares ==
  ASSUME NEW x \in Objects, x.head.type = MapType, NEW k \in Keys,
         NEW i \in Nat, i < Count(x), NEW e, e = EntryOf(x, i), NEW c, c = Compare(e[1], k)
  PROVE  /\ c = 0 => i \in OfKey(x, k)
         /\ c < 0 => LexLess(KeyOf(x, i), DetEncoding(k))
         /\ c > 0 => LexLess(DetEncoding(k), KeyOf(x, i))
<1>1. i \in 0 .. Count(x) - 1
  BY ObjectFacts
<1>2. PICK a : a = e[1]
  OBVIOUS
<1>3. KeyOf(x, i) = DetEncoding(a)
  BY <1>2, Zenon DEF KeyOf
<1>4. DetEncoding(a) \in Seq(Byte) /\ DetEncoding(k) \in Seq(Byte)
  <2>1. KeyOf(x, i) \in Seq(Byte)
    BY <1>1, MapKeys
  <2> QED BY <1>3, <2>1, ReadersAssumption
<1>5. c = Compare(a, k)
  BY <1>2, Zenon
<1>6. /\ c = 0 => DetEncoding(a) = DetEncoding(k)
      /\ c < 0 => LexLess(DetEncoding(a), DetEncoding(k))
      /\ c > 0 => LexLess(DetEncoding(k), DetEncoding(a))
  BY <1>4, <1>5, CompareDecides
<1>7. c = 0 => i \in OfKey(x, k)
  BY <1>1, <1>3, <1>6 DEF OfKey
<1> QED BY <1>3, <1>6, <1>7, Zenon

\* The key is found,
LEMMA SearchFinds ==
  ASSUME NEW x \in Objects, x.head.type = MapType, NEW k \in Keys, NEW p, NEW r, IsSearch(x, k, p, r),
         NEW e, e = NextEntry(p, MapType), Compare(e[1], k) = 0, NEW r1, r1 = <<e[2]>>
  PROVE  IsAnswer(x, k, r1)
<1>1. PICK i \in Nat : i < Count(x) /\ NextEntry(p, MapType) = EntryOf(x, i)
  BY SearchAt
<1>2. e = EntryOf(x, i)
  BY <1>1, Zenon
<1>3. PICK c : c = Compare(e[1], k)
  OBVIOUS
<1>4. i \in OfKey(x, k)
  <2>1. c = 0 => i \in OfKey(x, k)
    BY <1>1, <1>2, <1>3, SearchCompares
  <2> QED BY <1>3, <2>1, Zenon
<1>5. r1 = <<EntryOf(x, i)[2]>>
  BY <1>2, Zenon
<1> QED BY <1>4, <1>5, Zenon DEF IsAnswer

\* or passed,
LEMMA SearchPasses ==
  ASSUME NEW x \in Objects, x.head.type = MapType, NEW k \in Keys, NEW p, NEW r, IsSearch(x, k, p, r),
         NEW e, e = NextEntry(p, MapType), Compare(e[1], k) < 0, NEW q, q = Advance(p, MapType)
  PROVE  /\ ~IsEmpty(q) => IsSearch(x, k, q, r)
         /\ IsEmpty(q) => IsAnswer(x, k, r)
<1>1. PICK i \in Nat : /\ i < Count(x) /\ NextEntry(p, MapType) = EntryOf(x, i) /\ r = <<>>
                       /\ \A j \in 0 .. i - 1 : LexLess(KeyOf(x, j), DetEncoding(k))
                       /\ Advance(p, MapType) = IterAt(x, i + 1, Count(x) - (i + 1))
  BY SearchAt
<1>2. e = EntryOf(x, i)
  BY <1>1, Zenon
<1>3. PICK c : c = Compare(e[1], k)
  OBVIOUS
<1>4. LexLess(KeyOf(x, i), DetEncoding(k))
  <2>1. c < 0 => LexLess(KeyOf(x, i), DetEncoding(k))
    BY <1>1, <1>2, <1>3, SearchCompares
  <2> QED BY <1>3, <2>1, Zenon
<1>5. PICK h : h = i + 1
  OBVIOUS
<1>6. h \in Nat /\ h <= Count(x)
  BY <1>1, <1>5, ObjectFacts
<1>7. q = IterAt(x, h, Count(x) - h)
  BY <1>1, <1>5, Zenon
<1>8. ASSUME NEW j \in 0 .. h - 1 PROVE LexLess(KeyOf(x, j), DetEncoding(k))
  <2>1. j \in 0 .. i - 1 \/ j = i
    BY <1>5
  <2> QED BY <1>1, <1>4, <2>1, Zenon
<1>9. r = <<>>
  BY <1>1, Zenon
<1> QED BY <1>6, <1>7, <1>8, <1>9, SearchGoesOn

\* or given up at a greater one: none of those behind it is the key.
LEMMA SearchGivesUp ==
  ASSUME NEW x \in Objects, x.head.type = MapType, NEW k \in Keys, NEW p, NEW r, IsSearch(x, k, p, r),
         NEW e, e = NextEntry(p, MapType), Compare(e[1], k) > 0
  PROVE  IsAnswer(x, k, r)
<1>1. PICK i \in Nat : /\ i < Count(x) /\ NextEntry(p, MapType) = EntryOf(x, i) /\ r = <<>>
                       /\ \A j \in 0 .. i - 1 : LexLess(KeyOf(x, j), DetEncoding(k))
  BY SearchAt
<1>2. e = EntryOf(x, i)
  BY <1>1, Zenon
<1>3. PICK c : c = Compare(e[1], k)
  OBVIOUS
<1>4. LexLess(DetEncoding(k), KeyOf(x, i))
  <2>1. c > 0 => LexLess(DetEncoding(k), KeyOf(x, i))
    BY <1>1, <1>2, <1>3, SearchCompares
  <2> QED BY <1>3, <2>1, Zenon
<1>5. i <= Count(x)
  BY <1>1, ObjectFacts
<1>6. IsAnswer(x, k, <<>>)
  BY <1>1, <1>4, <1>5, NoKeyThere, Zenon
<1> QED BY <1>1, <1>6, Zenon

-----------------------------------------------------------------------------
(* The steps *)

\* The initial states satisfy the invariant.
LEMMA InitInv == Init => IInv
<1> SUFFICES ASSUME Init PROVE IInv
  OBVIOUS
<1>1. obj \in Objects /\ it = IteratorInit(obj) /\ taken = <<>> /\ upto = it.len /\ pc = "hold"
  BY DEF Init
<1>2. IsIteration(obj, taken, upto, it)
  BY <1>1, IterationStarts
<1> QED BY <1>1, <1>2 DEF IInv, AccessInv, WalkInv, SearchInv, DoneInv

\* Every step preserves the invariant.
LEMMA StepInv == IInv /\ [Next]_vars => IInv'
<1> SUFFICES ASSUME IInv, [Next]_vars PROVE IInv'
  OBVIOUS
<1>1. obj \in Objects /\ IsIteration(obj, taken, upto, it) /\ AccessInv
  BY DEF IInv
<1>2. ASSUME IsIteration(obj, taken', upto', it'), obj' = obj, AccessInv' PROVE IInv'
  BY <1>1, <1>2 DEF IInv
<1>3. ASSUME UNCHANGED iteration, AccessInv' PROVE IInv'
  <2>1. obj' = obj /\ taken' = taken /\ upto' = upto /\ it' = it
    BY <1>3 DEF iteration
  <2>2. IsIteration(obj, taken', upto', it')
    BY <1>1, <2>1, Zenon
  <2> QED BY <1>2, <1>3, <2>1, <2>2
<1>4. ASSUME obj' = obj, pc = "hold", pc' = pc PROVE AccessInv'
  BY <1>4 DEF AccessInv, WalkInv, SearchInv, DoneInv
<1>5. CASE UNCHANGED vars
  <2>1. UNCHANGED iteration
    BY <1>5 DEF vars, iteration
  <2>2. AccessInv'
    BY <1>1, <1>5 DEF vars, AccessInv, WalkInv, SearchInv, DoneInv, Type
  <2> QED BY <1>3, <2>1, <2>2
<1>6. CASE NextItem
  <2>1. /\ pc = "hold" /\ ~IsEmpty(it) /\ taken' = Append(taken, NextEntry(it, obj.head.type))
        /\ it' = Advance(it, obj.head.type) /\ obj' = obj /\ upto' = upto /\ pc' = pc
    BY <1>6 DEF NextItem, Type
  <2>2. IsIteration(obj, taken', upto, it')
    BY <1>1, <2>1, IterationSteps
  <2> QED BY <1>2, <1>4, <2>1, <2>2
<1>7. CASE \E n \in 0 .. upto : TruncateTo(n)
  <2>1. PICK n \in 0 .. upto : TruncateTo(n)
    BY <1>7
  <2>2. /\ pc = "hold" /\ n < it.len /\ it' = Truncated(n) /\ upto' = Len(taken) + n
        /\ obj' = obj /\ taken' = taken /\ pc' = pc /\ n \in Nat
    BY <1>1, <2>1 DEF TruncateTo, IsIteration
  <2>3. IsIteration(obj, taken, upto', it')
    BY <1>1, <2>2, IterationTruncated
  <2>4. IsIteration(obj, taken', upto', it')
    BY <2>2, <2>3, Zenon
  <2> QED BY <1>2, <1>4, <2>2, <2>4
<1>8. CASE \E n \in Indices : GetItem(n)
  <2>1. PICK n \in Indices : GetItem(n)
    BY <1>8
  <2>2. /\ obj.head.type = ArrayType /\ arg' = <<n>> /\ pi' = 0 /\ pres' = obj.bytes
        /\ pc' = (IF n < Count(obj) /\ obj.form = "serialized" THEN "walk" ELSE "done")
        /\ result' = (IF n < Count(obj) /\ obj.form = "memory" THEN obj.items[Size(n) + 1] ELSE <<>>)
        /\ UNCHANGED iteration /\ obj' = obj /\ n \in Nat
    BY <2>1, ReadersAssumption DEF GetItem, Type, Count, iteration
  <2>3. /\ n < Count(obj) /\ obj.form = "memory" => IsElement(obj, n, obj.items[Size(n) + 1])
        /\ ~(n < Count(obj)) => IsElement(obj, n, <<>>)
        /\ n < Count(obj) /\ obj.form = "serialized" => IsWalk(obj, n, 0, obj.bytes)
    BY <1>1, <2>2, ItemStarts
  <2>4. arg'[1] = n
    BY <2>2
  <2>5. CASE n < Count(obj) /\ obj.form = "serialized"
    <3>1. pc' = "walk" /\ IsWalk(obj, arg'[1], pi', pres')
      BY <2>2, <2>3, <2>4, <2>5, Zenon
    <3>2. AccessInv'
      BY <2>2, <3>1 DEF AccessInv, WalkInv, SearchInv, DoneInv
    <3> QED BY <1>3, <2>2, <3>2
  <2>6. CASE ~(n < Count(obj) /\ obj.form = "serialized")
    <3>1. pc' = "done"
      BY <2>2, <2>6
    <3>2. IsElement(obj, arg'[1], result')
      <4>1. CASE n < Count(obj)
        <5>1. obj.form = "memory"
          BY <1>1, <2>6, <4>1, ObjectFacts
        <5>2. result' = obj.items[Size(n) + 1]
          BY <2>2, <4>1, <5>1, Zenon
        <5> QED BY <2>3, <2>4, <4>1, <5>1, <5>2, Zenon
      <4>2. CASE ~(n < Count(obj))
        <5>1. result' = <<>>
          BY <2>2, <4>2, Zenon
        <5> QED BY <2>3, <2>4, <4>2, <5>1, Zenon
      <4> QED BY <4>1, <4>2
    <3>3. AccessInv'
      BY <2>2, <3>1, <3>2 DEF AccessInv, WalkInv, SearchInv, DoneInv, Type, ArrayType, MapType
    <3> QED BY <1>3, <2>2, <3>3
  <2> QED BY <2>5, <2>6
<1>9. CASE PassElement
  <2>1. /\ pc = "walk" /\ pi < Size(arg[1]) /\ pi' = Size(pi + 1)
        /\ pres' = Slice(pres, Jump(pres, 0), Len(pres))
        /\ UNCHANGED iteration /\ obj' = obj /\ pc' = pc /\ arg' = arg
    BY <1>9 DEF PassElement, InFront, iteration
  <2>2. IsWalk(obj, arg[1], pi, pres)
    BY <1>1, <2>1 DEF AccessInv, WalkInv
  <2>3. IsWalk(obj, arg[1], pi', pres')
    <3>1. PICK n : n = arg[1]
      OBVIOUS
    <3>2. IsWalk(obj, n, pi, pres) /\ pi < Size(n)
      BY <2>1, <2>2, <3>1
    <3>3. IsWalk(obj, n, pi', Slice(pres, Jump(pres, 0), Len(pres)))
      BY <1>1, <2>1, <3>2, WalkPasses
    <3> QED BY <2>1, <3>1, <3>3, Zenon
  <2>4. AccessInv'
    BY <2>1, <2>3 DEF AccessInv, WalkInv, SearchInv, DoneInv
  <2> QED BY <1>3, <2>1, <2>4
<1>10. CASE ReadElement
  <2>1. /\ pc = "walk" /\ ~(pi < Size(arg[1])) /\ result' = <<CborRead(Slice(pres, 0, Jump(pres, 0)))>>
        /\ pc' = "done" /\ UNCHANGED iteration /\ obj' = obj /\ arg' = arg
    BY <1>10 DEF ReadElement, InFront, iteration
  <2>2. IsWalk(obj, arg[1], pi, pres)
    BY <1>1, <2>1 DEF AccessInv, WalkInv
  <2>3. IsElement(obj, arg[1], result') /\ obj.head.type = ArrayType
    <3>1. PICK n, r : n = arg[1] /\ r = result'
      OBVIOUS
    <3>2. IsWalk(obj, n, pi, pres) /\ ~(pi < Size(n)) /\ r = <<CborRead(Slice(pres, 0, Jump(pres, 0)))>>
      BY <2>1, <2>2, <3>1, Zenon
    <3>3. IsElement(obj, n, r)
      BY <1>1, <3>2, WalkReads
    <3>4. obj.head.type = ArrayType
      BY <2>2 DEF IsWalk
    <3> QED BY <3>1, <3>3, <3>4, Zenon
  <2>4. AccessInv'
    BY <2>1, <2>3 DEF AccessInv, WalkInv, SearchInv, DoneInv, Type, ArrayType, MapType
  <2> QED BY <1>3, <2>1, <2>4
<1>11. CASE \E k \in Keys : MapGet(k)
  <2>1. PICK k \in Keys : MapGet(k)
    BY <1>11
  <2>2. /\ obj.head.type = MapType /\ arg' = <<k>> /\ pi' = IteratorInit(obj) /\ pres' = <<>>
        /\ pcont' = ~IsEmpty(pi') /\ pc' = "search" /\ UNCHANGED iteration /\ obj' = obj
    BY <2>1 DEF MapGet, Type, iteration
  <2>3. /\ ~IsEmpty(pi') => IsSearch(obj, k, pi', pres')
        /\ IsEmpty(pi') => IsAnswer(obj, k, pres')
    BY <1>1, <2>2, SearchStarts
  <2>4. arg'[1] = k
    BY <2>2
  <2>5. /\ pcont' => IsSearch(obj, arg'[1], pi', pres')
        /\ ~pcont' => IsAnswer(obj, arg'[1], pres')
    BY <2>2, <2>3, <2>4, Zenon
  <2>6. AccessInv'
    BY <2>2, <2>4, <2>5 DEF AccessInv, WalkInv, SearchInv, DoneInv, Type
  <2> QED BY <1>3, <2>2, <2>6
<1>12. ASSUME Searching
       PROVE  /\ pc = "search" /\ obj.head.type = MapType /\ arg[1] \in Keys
              /\ IsSearch(obj, arg[1], pi, pres)
  BY <1>1, <1>12 DEF AccessInv, SearchInv, Searching, Type
<1>13. ASSUME Searching, UNCHANGED iteration, pc' = pc, arg' = arg,
              pcont' => IsSearch(obj, arg[1], pi', pres'), ~pcont' => IsAnswer(obj, arg[1], pres')
       PROVE  IInv'
  <2>1. obj' = obj
    BY <1>13 DEF iteration
  <2>2. AccessInv'
    BY <1>12, <1>13, <2>1 DEF AccessInv, WalkInv, SearchInv, DoneInv, Type
  <2> QED BY <1>3, <1>13, <2>2
<1>14. CASE Found
  <2>1. /\ Searching /\ Compare(NextEntry(pi, MapType)[1], arg[1]) = 0
        /\ pres' = <<NextEntry(pi, MapType)[2]>> /\ pcont' = FALSE
        /\ UNCHANGED iteration /\ pc' = pc /\ arg' = arg
    BY <1>14, Zenon DEF Found, comp, entry
  <2>2. PICK k, e : k = arg[1] /\ e = NextEntry(pi, MapType)
    OBVIOUS
  <2>3. Compare(e[1], k) = 0 /\ pres' = <<e[2]>>
    BY <2>1, <2>2, Zenon
  <2>4. obj.head.type = MapType /\ k \in Keys /\ IsSearch(obj, k, pi, pres)
    BY <1>12, <2>1, <2>2, Zenon
  <2>5. IsAnswer(obj, k, pres')
    BY <1>1, <2>2, <2>3, <2>4, SearchFinds
  <2> QED BY <1>13, <2>1, <2>2, <2>5, Zenon
<1>15. CASE Smaller
  <2>1. /\ Searching /\ Compare(NextEntry(pi, MapType)[1], arg[1]) < 0
        /\ pi' = Advance(pi, MapType) /\ pcont' = ~IsEmpty(pi') /\ pres' = pres
        /\ UNCHANGED iteration /\ pc' = pc /\ arg' = arg
    BY <1>15, Zenon DEF Smaller, comp, entry
  <2>2. PICK k, e : k = arg[1] /\ e = NextEntry(pi, MapType)
    OBVIOUS
  <2>3. Compare(e[1], k) < 0
    BY <2>1, <2>2, Zenon
  <2>4. obj.head.type = MapType /\ k \in Keys /\ IsSearch(obj, k, pi, pres)
    BY <1>12, <2>1, <2>2, Zenon
  <2>5. /\ ~IsEmpty(pi') => IsSearch(obj, k, pi', pres)
        /\ IsEmpty(pi') => IsAnswer(obj, k, pres)
    BY <1>1, <2>1, <2>2, <2>3, <2>4, SearchPasses
  <2>6. /\ pcont' => IsSearch(obj, arg[1], pi', pres')
        /\ ~pcont' => IsAnswer(obj, arg[1], pres')
    BY <2>1, <2>2, <2>5, Zenon
  <2> QED BY <1>13, <2>1, <2>6, Zenon
<1>16. CASE Greater
  <2>1. /\ Searching /\ Compare(NextEntry(pi, MapType)[1], arg[1]) > 0
        /\ pcont' = FALSE /\ pres' = pres
        /\ UNCHANGED iteration /\ pc' = pc /\ arg' = arg
    BY <1>16, Zenon DEF Greater, comp, entry
  <2>2. PICK k, e : k = arg[1] /\ e = NextEntry(pi, MapType)
    OBVIOUS
  <2>3. Compare(e[1], k) > 0
    BY <2>1, <2>2, Zenon
  <2>4. obj.head.type = MapType /\ k \in Keys /\ IsSearch(obj, k, pi, pres)
    BY <1>12, <2>1, <2>2, Zenon
  <2>5. IsAnswer(obj, k, pres)
    BY <1>1, <2>2, <2>3, <2>4, SearchGivesUp
  <2> QED BY <1>13, <2>1, <2>2, <2>5, Zenon
<1>17. CASE Return
  <2>1. /\ pc = "search" /\ ~pcont /\ result' = pres /\ pc' = "done"
        /\ UNCHANGED iteration /\ obj' = obj /\ arg' = arg
    BY <1>17 DEF Return, iteration
  <2>2. obj.head.type = MapType /\ IsAnswer(obj, arg[1], result')
    BY <1>1, <2>1 DEF AccessInv, SearchInv, Type
  <2>3. AccessInv'
    BY <2>1, <2>2 DEF AccessInv, WalkInv, SearchInv, DoneInv, Type, ArrayType, MapType
  <2> QED BY <1>3, <2>1, <2>3
<1> QED BY <1>5, <1>6, <1>7, <1>8, <1>9, <1>10, <1>11, <1>14, <1>15, <1>16, <1>17 DEF Next

\* The invariant holds of all behaviours.
LEMMA ReadersInv == Spec => []IInv
<1>1. Init => IInv
  BY InitInv
<1>2. IInv /\ [Next]_vars => IInv'
  BY StepInv
<1> QED BY <1>1, <1>2, PTL DEF Spec

\* However often an iterator is truncated between its elements, it yields the
\* entries in order, each once, up to the last truncation; and the element at an
\* index is the one it has at that place, for arrays and maps of every size in
\* memory and in every validated buffer (impl_cbor_det_array_iterator_next and
\* _truncate, impl_cbor_det_map_iterator_next, impl_cbor_det_get_array_item).
THEOREM ReadersInOrder == Spec => []ElementsAreReadInOrder
<1>1. ASSUME IInv PROVE ElementsAreReadInOrder
  <2>1. obj \in Objects /\ IsIteration(obj, taken, upto, it) /\ DoneInv
    BY <1>1 DEF IInv, AccessInv
  <2>2. \A i \in 1 .. Len(taken) : taken[i] = EntryOf(obj, i - 1)
    BY <2>1 DEF IsIteration
  <2>3. PICK i, k \in Nat : /\ i = Len(taken) /\ k = upto - i /\ upto = i + k
                            /\ it.len = k /\ (IsEmpty(it) <=> k = 0)
    BY <2>1, IterationFacts
  <2>4. it.len = upto - Len(taken) /\ (IsEmpty(it) <=> Len(taken) = upto)
    BY <2>3
  <2>5. pc = "done" /\ Type = ArrayType =>
          result = IF arg[1] < Count(obj) THEN EntryOf(obj, arg[1]) ELSE <<>>
    BY <2>1 DEF DoneInv, IsElement
  <2> QED BY <2>2, <2>4, <2>5 DEF ElementsAreReadInOrder
<1>2. IInv => ElementsAreReadInOrder
  BY <1>1
<1> QED BY <1>2, ReadersInv, PTL

\* A lookup finds the value of the key if the map has the key, and nothing
\* otherwise: giving up at the first greater key misses no entry, for maps of
\* every size and every key (impl_cbor_det_map_get).
THEOREM LookupFinds == Spec => []FindsTheValue
<1>1. IInv => FindsTheValue
  BY DEF IInv, AccessInv, DoneInv, IsAnswer, OfKey, FindsTheValue
<1> QED BY <1>1, ReadersInv, PTL
=============================================================================
