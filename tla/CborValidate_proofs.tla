------------------------- MODULE CborValidate_proofs -------------------------
(***************************************************************************)
(* For every input no larger than a usize, whatever the width of usize,     *)
(* cbor_validate_det returns what the grammar of deterministic CBOR says,   *)
(* its counters never wrap around, and no pass leaves the buffer.           *)
(*                                                                         *)
(* The argument: a pass with n items missing at offset off decides the row  *)
(* of n items at off.  As long as the pass succeeds, that row ends where    *)
(* the whole item does, in the grammar the pass checks; when the pass       *)
(* fails, that grammar has no item.  The passes that check nothing are on   *)
(* a row of the weak grammar, which the first pass found to end at len, so  *)
(* that every item they expect has a byte of its own before len.            *)
(*                                                                         *)
(* The two loops over bytes that the passes call are proved about too, for  *)
(* byte strings of any length: the comparison of keys reads inside of both  *)
(* and returns their lexicographic order, and the scan of a text string     *)
(* accepts exactly the well-formed UTF-8.                                   *)
(***************************************************************************)
EXTENDS CborValidate, ByteLoops, CborGrammar_proofs

-----------------------------------------------------------------------------
\* The grammars of the three passes: what is valid, what is also in shortest
\* form, and what also has the keys of its maps in order.
Weak(s) == Ends(s, FALSE, FALSE)
Short(s) == Ends(s, TRUE, FALSE)
Strict(s) == Ends(s, TRUE, TRUE)

\* The items missing after the item at offset o, k being missing before it.
After(s, o, k) == (k - 1) + Announced(ReadHeader(s, o))

\* A pass over s is at the k items at offset o and found no fault so far, or it
\* found one (good is FALSE); end is the grammar it decides.
Decides(end, o, k, good) == IF good THEN end[<<o, k>>] = end[<<0, 1>>] ELSE end[<<0, 1>>] = Bad

\* The cells of cbor_raw_sorted for the map at offset o with left keys to come:
\* k is a key of the map, t the offset after its value, and the keys up to k
\* ascend.
OnKey(s, o, k, t, left) ==
  LET h == ReadHeader(s, o)
      he == JumpHeader(s, o)
      j == h.arg - left
      a == Weak(s)[<<he, 2 * (j - 1)>>]
  IN  /\ h.type = MapType /\ h.arg \in Nat /\ left \in Nat /\ j \in 1 .. h.arg
      /\ k = <<a, Weak(s)[<<a, 1>>]>> /\ t = Weak(s)[<<he, 2 * j>>]
      /\ \A i \in 1 .. j - 1 : KeyOrder(Key(s, he, i - 1, Weak(s)), Key(s, he, i, Weak(s)))

Cells ==
  /\ input \in Seq(Byte) /\ Len(input) <= SizeMax
  /\ pc \in {"raw", "ints", "sorted", "keys", "done"}
  /\ off \in 0 .. Len(input) /\ n \in 0 .. Len(input) + 1 /\ n <= SizeMax /\ res \in BOOLEAN
  /\ len \in 0 .. Len(input)
  /\ key \in (0 .. Len(input)) \X (0 .. Len(input))
  /\ tail \in 0 .. Len(input) /\ pairs \in 0 .. Len(input)

RawInv == pc = "raw" => len = 0 /\ ret = 0 /\ Decides(Weak(input), off, n, res)

\* What the first pass found, and where the unchecked passes are.
ValidInv ==
  /\ pc # "raw" => len = ValidLength(input)
  /\ pc \in {"ints", "sorted", "keys"} =>
       /\ ret = 0 /\ len > 0
       /\ Weak(input)[<<0, 1>>] = len /\ Weak(input)[<<off, n>>] = len

IntsInv == pc = "ints" => Decides(Short(input), off, n, res)

SortedInv ==
  /\ pc \in {"sorted", "keys"} =>
       Short(input)[<<off, n>>] = len /\ Decides(Strict(input), off, n, res)
  /\ pc = "keys" => res /\ n > 0 /\ OnKey(input, off, key, tail, pairs)

DoneInv == pc = "done" => ret = DetLength(input)

IInv == Cells /\ RawInv /\ ValidInv /\ IntsInv /\ SortedInv /\ DoneInv

-----------------------------------------------------------------------------
\* The announced count, when the checked step count accepts it.
LEMMA CountInBounds ==
  ASSUME NEW s, NEW o, NEW bound \in 0 .. SizeMax,
         ReadHeader(s, o).arg \in Nat,
         StepCount(ReadHeader(s, o), bound).ok,
         StepCount(ReadHeader(s, o), bound).count <= bound
  PROVE  /\ RemainingDataItems(ReadHeader(s, o)) \in 0 .. bound
         /\ StepCount(ReadHeader(s, o), bound).count = RemainingDataItems(ReadHeader(s, o))
<1> DEFINE h == ReadHeader(s, o)
<1>0. SizeMax \in Nat
  BY SizeAssumption
<1>1. StepCount(h, bound).count = RemainingDataItems(h) /\ RemainingDataItems(h) <= bound
  BY DEF StepCount
<1>2. RemainingDataItems(h) \in Nat
  <2>1. \A x \in Nat : Size(x) \in Nat
    BY <1>0 DEF Size
  <2>2. Size(h.arg) \in Nat /\ Size(Size(h.arg) + Size(h.arg)) \in Nat
    BY <2>1
  <2> QED BY <2>2 DEF RemainingDataItems
<1> QED BY <1>0, <1>1, <1>2

\* Even a count that RawBadCount then refuses is one per byte of the buffer.
LEMMA AcceptedCountFits ==
  ASSUME NEW s \in Seq(Byte), Len(s) <= SizeMax, NEW o, NEW bound \in 0 .. Len(s),
         ReadHeader(s, o).arg \in Nat,
         StepCount(ReadHeader(s, o), bound).ok
  PROVE  /\ RemainingDataItems(ReadHeader(s, o)) \in 0 .. Len(s) + 1
         /\ ReadHeader(s, o).type = MapType =>
              RemainingDataItems(ReadHeader(s, o)) = 2 * ReadHeader(s, o).arg
<1> DEFINE h == ReadHeader(s, o)
<1>0. SizeMax \in Nat /\ Len(s) \in Nat
  BY SizeAssumption, LenProperties
<1>1. CASE h.type = ArrayType
  <2>1. h.arg \in 0 .. bound /\ h.arg \in 0 .. SizeMax
    BY <1>0, <1>1 DEF StepCount
  <2>2. Size(h.arg) = h.arg
    BY <2>1, SizeId
  <2>3. RemainingDataItems(h) = h.arg
    BY <1>1, <2>2 DEF RemainingDataItems, ArrayType, MapType, Tagged
  <2> QED BY <1>0, <1>1, <2>1, <2>3 DEF ArrayType, MapType
<1>2. CASE h.type = MapType
  <2>1. h.arg \in 0 .. bound /\ h.arg \in 0 .. SizeMax
    BY <1>0, <1>2 DEF StepCount
  <2>2. Size(h.arg) = h.arg
    BY <2>1, SizeId
  <2>3. Size(bound - h.arg) = bound - h.arg
    BY <1>0, <2>1, SizeId
  <2>4. bound - h.arg >= h.arg
    BY <1>2, <2>2, <2>3 DEF StepCount
  <2>5. h.arg + h.arg \in 0 .. SizeMax /\ h.arg + h.arg \in 0 .. Len(s)
    BY <1>0, <2>1, <2>4
  <2>6. Size(Size(h.arg) + Size(h.arg)) = h.arg + h.arg
    BY <2>2, <2>5, SizeId
  <2>7. RemainingDataItems(h) = h.arg + h.arg
    <3>1. h.type = MapType /\ MapType # ArrayType /\ MapType # Tagged
      BY <1>2 DEF ArrayType, MapType, Tagged
    <3> HIDE DEF h
    <3>2. RemainingDataItems(h) = Size(Size(h.arg) + Size(h.arg))
      BY <3>1 DEF RemainingDataItems
    <3> QED BY <2>6, <3>2
  <2> HIDE DEF h
  <2>8. h.arg + h.arg = 2 * h.arg /\ h.arg + h.arg \in 0 .. Len(s) + 1
    BY <1>0, <2>1, <2>5
  <2> QED BY <2>7, <2>8 DEF h
<1>3. CASE h.type \notin {ArrayType, MapType}
  BY <1>0, <1>3 DEF RemainingDataItems
<1> QED BY <1>1, <1>2, <1>3

\* The count a header announces, narrowed to a usize.
LEMMA RemainingFits ==
  ASSUME NEW h, h.arg \in Nat
  PROVE  RemainingDataItems(h) \in 0 .. SizeMax
<1>1. SizeMax \in Nat /\ 1 <= SizeMax
  BY SMT, SizeAssumption
<1>2. \A x \in Nat : Size(x) \in 0 .. SizeMax
  BY <1>1 DEF Size
<1>3. Size(h.arg) \in Nat /\ Size(h.arg) + Size(h.arg) \in Nat
  BY <1>1, <1>2
<1>4. /\ Size(h.arg) \in 0 .. SizeMax /\ Size(Size(h.arg) + Size(h.arg)) \in 0 .. SizeMax
      /\ 0 \in 0 .. SizeMax /\ 1 \in 0 .. SizeMax
  BY <1>1, <1>2, <1>3
<1> QED BY <1>4 DEF RemainingDataItems

\* An item of a row of valid items: its header is behind the last pass's checks,
\* the code's count is exact, and the row goes on behind it.
LEMMA ValidStep ==
  ASSUME NEW s \in Seq(Byte), Len(s) <= SizeMax, NEW o \in 0 .. Len(s), NEW k \in Nat, k > 0,
         Weak(s)[<<o, k>>] # Bad
  PROVE  /\ ValidateLeaf(s, o).ok /\ ReadHeader(s, o).arg \in Nat
         /\ JumpLeaf(s, o) \in o + 1 .. Len(s) /\ JumpLeaf(s, o) \in 0 .. Len(s)
         /\ After(s, o, k) \in Nat /\ After(s, o, k) <= Len(s)
         /\ Size(Size(k - 1) + RemainingDataItems(ReadHeader(s, o))) = After(s, o, k)
         /\ Weak(s)[<<JumpLeaf(s, o), After(s, o, k)>>] = Weak(s)[<<o, k>>]
         /\ Weak(s)[<<o, k>>] \in 0 .. Len(s)
         /\ JumpLeaf(s, o) + After(s, o, k) <= Weak(s)[<<o, k>>]
         /\ o + k <= Weak(s)[<<o, k>>]
<1>0. Len(s) \in Nat /\ SizeMax \in Nat
  BY LenProperties, SizeAssumption
<1>1. PICK no \in BOOLEAN : no = FALSE
  OBVIOUS
<1>2. PICK E : E = Ends(s, no, no)
  OBVIOUS
<1>3. E = Weak(s)
  BY <1>1, <1>2 DEF Weak
<1>4. PICK q, a : q = JumpLeaf(s, o) /\ a = Announced(ReadHeader(s, o))
  OBVIOUS
<1>5. Accepts(s, o, no, no)
  <2>1. Ends(s, no, no)[<<o, k>>] # Bad
    BY <1>2, <1>3
  <2> QED BY <2>1, LeafStep
<1>6. /\ E[<<o, k>>] = E[<<q, (k - 1) + a>>]
      /\ q \in o + 1 .. Len(s) /\ a \in Nat
  BY <1>2, <1>4, <1>5, LeafStep
<1>7. ValidateLeaf(s, o).ok /\ ReadHeader(s, o).arg \in Nat
  BY <1>5, LeafInBuffer DEF Accepts
<1>8. PICK m \in Nat : m = (k - 1) + a
  BY <1>6
<1>9. m = After(s, o, k)
  BY <1>4, <1>8 DEF After
<1>10. E[<<q, m>>] # Bad /\ E[<<q, m>>] = E[<<o, k>>]
  BY <1>6, <1>8, <1>3
<1>11. q \in 0 .. Len(s)
  BY <1>0, <1>6
<1>12. E[<<q, m>>] \in 0 .. Len(s) /\ q + m <= E[<<q, m>>]
  <2>1. Ends(s, no, no)[<<q, m>>] # Bad
    BY <1>2, <1>10
  <2>2. /\ Ends(s, no, no)[<<q, m>>] \in 0 .. Len(s)
        /\ q + m <= Ends(s, no, no)[<<q, m>>]
    BY <1>11, <2>1, RowBytes
  <2> QED BY <1>2, <2>2
<1>13. o + k <= E[<<o, k>>]
  <2>1. Ends(s, no, no)[<<o, k>>] # Bad
    BY <1>2, <1>10
  <2>2. o + k <= Ends(s, no, no)[<<o, k>>]
    BY <1>11, <2>1, RowBytes
  <2> QED BY <1>2, <2>2
<1>14. m <= Len(s) /\ k - 1 \in 0 .. SizeMax /\ a <= SizeMax /\ m \in 0 .. SizeMax
  BY <1>0, <1>6, <1>8, <1>11, <1>12
<1>15. RemainingDataItems(ReadHeader(s, o)) = a
  BY <1>4, <1>7, <1>14, RemainingIsAnnounced
<1>16. Size(k - 1) = k - 1 /\ Size((k - 1) + a) = m
  BY <1>8, <1>14, SizeId
<1> QED BY <1>4, <1>6, <1>7, <1>9, <1>10, <1>11, <1>12, <1>13, <1>14, <1>15, <1>16, <1>3

\* A pass that accepts a header and its payload still decides its grammar one
\* item on, and one that does not has decided it.
LEMMA DecideStep ==
  ASSUME NEW s \in Seq(Byte), Len(s) <= SizeMax, NEW short \in BOOLEAN, NEW sorted \in BOOLEAN,
         NEW o \in 0 .. Len(s), NEW k \in Nat, k > 0,
         Decides(Ends(s, short, sorted), o, k, TRUE)
  PROVE  IF Accepts(s, o, short, sorted)
         THEN Decides(Ends(s, short, sorted), JumpLeaf(s, o), After(s, o, k), TRUE)
         ELSE \A p, m : Decides(Ends(s, short, sorted), p, m, FALSE)
<1>1. PICK E : E = Ends(s, short, sorted)
  OBVIOUS
<1>2. E[<<o, k>>] = E[<<0, 1>>]
  BY <1>1 DEF Decides
<1>3. CASE Accepts(s, o, short, sorted)
  <2>1. E[<<o, k>>] = E[<<JumpLeaf(s, o), After(s, o, k)>>]
    BY <1>1, <1>3, LeafStep DEF After
  <2> QED BY <1>1, <1>2, <1>3, <2>1 DEF Decides
<1>4. CASE ~Accepts(s, o, short, sorted)
  <2>1. E[<<o, k>>] = Bad
    BY <1>1, <1>4, LeafStep
  <2> QED BY <1>1, <1>2, <1>4, <2>1 DEF Decides
<1> QED BY <1>3, <1>4

\* The end of a row of no items.
LEMMA NoneMissing ==
  ASSUME NEW s \in Seq(Byte), Len(s) <= SizeMax, NEW short \in BOOLEAN, NEW sorted \in BOOLEAN,
         NEW o \in 0 .. Len(s)
  PROVE  Ends(s, short, sorted)[<<o, 0>>] = o
<1>1. o \in Bad .. Len(s) /\ 0 \in Nat
  BY LenProperties DEF Bad
<1> QED BY <1>1, EndsBound

\* What is invalid is not in shortest form, and what is not is not deterministic.
LEMMA Weakest ==
  ASSUME NEW s \in Seq(Byte), Len(s) <= SizeMax
  PROVE  /\ Short(s)[<<0, 1>>] # Bad => Weak(s)[<<0, 1>>] = Short(s)[<<0, 1>>]
         /\ Strict(s)[<<0, 1>>] # Bad => Short(s)[<<0, 1>>] = Strict(s)[<<0, 1>>]
<1>1. PICK c : c = <<0, 1>>
  OBVIOUS
<1>2. c \in Places(s)
  BY <1>1, LenProperties DEF Places, Bad
<1>3. PICK yes \in BOOLEAN, no \in BOOLEAN : yes = TRUE /\ no = FALSE
  OBVIOUS
<1>4. Ends(s, yes, no)[c] # Bad => Ends(s, no, no)[c] = Ends(s, yes, no)[c]
  BY <1>2, <1>3, EndsWeaker
<1>5. Ends(s, yes, yes)[c] # Bad => Ends(s, yes, no)[c] = Ends(s, yes, yes)[c]
  BY <1>2, <1>3, EndsWeaker
<1> QED BY <1>1, <1>3, <1>4, <1>5 DEF Weak, Short, Strict

\* The length of the item at the start of a buffer, by the weak and the strict
\* grammar.
LEMMA Lengths ==
  ASSUME NEW s
  PROVE  /\ ValidLength(s) = IF Weak(s)[<<0, 1>>] = Bad THEN 0 ELSE Weak(s)[<<0, 1>>]
         /\ DetLength(s) = IF Strict(s)[<<0, 1>>] = Bad THEN 0 ELSE Strict(s)[<<0, 1>>]
  BY DEF ValidLength, DetLength, ItemEnd, Weak, Strict

-----------------------------------------------------------------------------
\* Doubling a number within a bound.
LEMMA Doubling ==
  ASSUME NEW x \in Nat, NEW b \in Nat, NEW z \in Nat, b <= z, x + x <= b
  PROVE  x \in 0 .. z /\ b - x \in 0 .. z /\ x <= b /\ b - x >= x
  OBVIOUS

\* What the first pass asks of k items missing at offset o is what the weak
\* grammar needs: with more items than bytes there is no row of k items.
LEMMA RawTest ==
  ASSUME NEW s \in Seq(Byte), Len(s) <= SizeMax, NEW o \in 0 .. Len(s), NEW k \in Nat, k > 0,
         NEW left, left = Size(Len(s) - o), NEW bound, bound = Size(left - k),
         NEW c, c = StepCount(ReadHeader(s, o), bound)
  PROVE  /\ left = Len(s) - o
         /\ Weak(s)[<<o, k>>] # Bad => k <= left /\ ValidateLeaf(s, o).ok /\ c.ok /\ c.count <= bound
         /\ k <= left /\ ValidateLeaf(s, o).ok /\ c.ok =>
              c.count \in 0 .. Len(s) + 1 /\ c.count <= SizeMax
         /\ k <= left /\ ValidateLeaf(s, o).ok /\ c.ok /\ c.count <= bound =>
              /\ ValidateLeaf(s, o).off = JumpLeaf(s, o)
              /\ JumpLeaf(s, o) \in 0 .. Len(s)
              /\ Size(Size(k - 1) + c.count) = After(s, o, k)
              /\ After(s, o, k) \in 0 .. Len(s)
<1>1. Len(s) \in Nat /\ SizeMax \in Nat
  BY LenProperties, SizeAssumption
<1>2. PICK h : h = ReadHeader(s, o)
  OBVIOUS
<1>3. left = Len(s) - o
  BY <1>1, SizeId
<1>4. k <= left => bound = Len(s) - o - k /\ bound \in 0 .. SizeMax /\ bound \in 0 .. Len(s)
  <2>1. k <= left => left - k \in 0 .. SizeMax /\ left - k \in 0 .. Len(s)
    BY <1>1, <1>3
  <2> QED BY <1>3, <2>1, SizeId
<1>5. c.count = RemainingDataItems(h)
  BY <1>2 DEF StepCount
<1>6. ValidateLeaf(s, o).ok =>
        /\ h.arg \in Nat /\ ValidateLeaf(s, o).off = JumpLeaf(s, o)
        /\ JumpLeaf(s, o) \in o + 1 .. Len(s) /\ JumpLeaf(s, o) \in 0 .. Len(s)
  <2>1. /\ ValidateLeaf(s, o).off \in o .. Len(s)
        /\ ValidateLeaf(s, o).ok => /\ o < ValidateLeaf(s, o).off
                                    /\ ValidateLeaf(s, o).off = JumpLeaf(s, o)
                                    /\ ReadHeader(s, o).arg \in Nat
    BY LeafInBuffer
  <2> QED BY <1>1, <1>2, <2>1
<1>7. ASSUME Weak(s)[<<o, k>>] # Bad
      PROVE  k <= left /\ ValidateLeaf(s, o).ok /\ c.ok /\ c.count <= bound
  <2>1. PICK q, m, e : q = JumpLeaf(s, o) /\ m = After(s, o, k) /\ e = Weak(s)[<<o, k>>]
    OBVIOUS
  <2>2. /\ ValidateLeaf(s, o).ok /\ h.arg \in Nat
        /\ q \in o + 1 .. Len(s) /\ m \in Nat /\ e \in 0 .. Len(s)
        /\ q + m <= e /\ o + k <= e
    BY <1>2, <1>7, <2>1, ValidStep
  <2>3. k <= left
    BY <1>1, <1>3, <2>2
  <2>4. PICK a : a = Announced(h)
    OBVIOUS
  <2>5. m = (k - 1) + a /\ a \in Nat
    <3>1. a \in Nat
      BY <2>2, <2>4 DEF Announced
    <3> QED BY <1>2, <2>1, <2>4, <3>1 DEF After
  <2>6. a <= Len(s) - o - k
    BY <1>1, <2>2, <2>5
  <2>7. bound = Len(s) - o - k /\ bound \in 0 .. SizeMax
    BY <1>4, <2>3
  <2>8. a <= bound /\ a <= SizeMax
    BY <1>1, <2>5, <2>6, <2>7
  <2>9. RemainingDataItems(h) = a
    BY <2>2, <2>4, <2>8, RemainingIsAnnounced
  <2>10. c.ok
    <3>1. CASE h.type = ArrayType
      BY <1>2, <2>4, <2>8, <3>1 DEF Announced, StepCount, ArrayType, MapType
    <3>2. CASE h.type = MapType
      <4>1. PICK x \in Nat : x = h.arg /\ a = x + x
        BY <2>2, <2>4, <3>2 DEF Announced, ArrayType, MapType
      <4>2. x \in 0 .. SizeMax /\ bound - x \in 0 .. SizeMax /\ x <= bound /\ bound - x >= x
        <5>1. bound \in Nat /\ bound <= SizeMax /\ x + x <= bound
          BY <1>1, <2>7, <2>8, <4>1
        <5> QED BY <1>1, <5>1, Doubling
      <4>3. Size(x) = x /\ Size(bound - x) = bound - x
        BY <4>2, SizeId
      <4> QED BY <1>2, <3>2, <4>1, <4>2, <4>3 DEF StepCount
    <3>3. CASE h.type \notin {ArrayType, MapType}
      BY <1>2, <3>3 DEF StepCount
    <3> QED BY <3>1, <3>2, <3>3
  <2> QED BY <1>5, <2>2, <2>3, <2>8, <2>9, <2>10
<1>8. ASSUME k <= left, ValidateLeaf(s, o).ok, c.ok
      PROVE  c.count \in 0 .. Len(s) + 1 /\ c.count <= SizeMax
  <2>1. bound \in 0 .. Len(s) /\ ReadHeader(s, o).arg \in Nat
    BY <1>2, <1>4, <1>6, <1>8
  <2>2. StepCount(ReadHeader(s, o), bound).ok
    BY <1>8
  <2>3. RemainingDataItems(ReadHeader(s, o)) \in 0 .. Len(s) + 1
    BY <2>1, <2>2, AcceptedCountFits
  <2>4. RemainingDataItems(h) \in 0 .. SizeMax
    BY <1>2, <2>1, RemainingFits
  <2> QED BY <1>1, <1>2, <1>5, <2>3, <2>4
<1>9. ASSUME k <= left, ValidateLeaf(s, o).ok, c.ok, c.count <= bound
      PROVE  /\ Size(Size(k - 1) + c.count) = After(s, o, k)
             /\ After(s, o, k) \in 0 .. Len(s)
  <2>1. bound = Len(s) - o - k /\ bound \in 0 .. Len(s) /\ h.arg \in Nat
    BY <1>4, <1>6, <1>9
  <2>2. c.count \in 0 .. Len(s) + 1
    BY <1>8, <1>9
  <2>3. c.count = Announced(h)
    <3>1. CASE h.type = MapType
      <4>1. StepCount(ReadHeader(s, o), bound).ok
        BY <1>9
      <4>2. RemainingDataItems(ReadHeader(s, o)) = 2 * ReadHeader(s, o).arg
        BY <1>2, <2>1, <3>1, <4>1, AcceptedCountFits
      <4> QED BY <1>2, <1>5, <3>1, <4>2 DEF Announced, ArrayType, MapType
    <3>2. CASE h.type = ArrayType
      <4>1. h.arg \in 0 .. SizeMax
        BY <1>1, <1>2, <1>4, <1>9, <2>1, <3>2, SMTT(40) DEF StepCount
      <4>2. Size(h.arg) = h.arg
        BY <4>1, SizeId
      <4> QED BY <1>5, <3>2, <4>2 DEF Announced, RemainingDataItems, ArrayType, MapType, Tagged
    <3>3. CASE h.type \notin {ArrayType, MapType}
      BY <1>5, <3>3 DEF Announced, RemainingDataItems
    <3> QED BY <3>1, <3>2, <3>3
  <2>4. k - 1 \in 0 .. SizeMax /\ (k - 1) + c.count \in 0 .. SizeMax /\ (k - 1) + c.count \in 0 .. Len(s)
    <3>1. PICK x \in Nat : x = c.count
      BY <1>1, <2>2
    <3>2. x <= Len(s) - o - k /\ o \in Nat
      BY <1>1, <1>9, <2>1, <3>1, SMTT(40)
    <3> QED BY <1>1, <3>1, <3>2
  <2>5. Size(k - 1) = k - 1 /\ Size((k - 1) + c.count) = (k - 1) + c.count
    BY <2>4, SizeId
  <2> QED BY <1>2, <2>3, <2>4, <2>5 DEF After
<1> QED BY <1>3, <1>6, <1>7, <1>8, <1>9

\* The facts about the present state that every case below starts from.
LEMMA Facts ==
  ASSUME IInv
  PROVE  /\ input \in Seq(Byte) /\ Len(input) <= SizeMax /\ Len(input) \in Nat /\ SizeMax \in Nat
         /\ off \in 0 .. Len(input) /\ n \in Nat /\ n \in 0 .. Len(input) + 1 /\ n <= SizeMax
         /\ res \in BOOLEAN /\ len \in 0 .. Len(input)
  BY LenProperties, SizeAssumption DEF IInv, Cells

\* The first pass starts at the row of the one item the whole buffer should hold.
LEMMA InitIInv == Init => IInv
<1> SUFFICES ASSUME Init PROVE IInv
  OBVIOUS
<1>1. input \in Seq(Byte) /\ Len(input) <= SizeMax /\ Len(input) \in Nat
  BY InputsAssumption, LenProperties DEF Init
<1>2. 1 <= SizeMax
  BY SMT, SizeAssumption
<1>3. Cells
  BY <1>1, <1>2 DEF Init, Cells
<1>4. Decides(Weak(input), off, n, res)
  BY DEF Init, Decides
<1> QED BY <1>3, <1>4 DEF Init, IInv, RawInv, ValidInv, IntsInv, SortedInv, DoneInv

\* The first pass, at an item it accepts.
LEMMA RawItemIInv == IInv /\ RawItem => IInv'
<1> SUFFICES ASSUME IInv, RawItem PROVE IInv'
  OBVIOUS
<1>0. /\ input \in Seq(Byte) /\ Len(input) <= SizeMax /\ Len(input) \in Nat /\ SizeMax \in Nat
      /\ off \in 0 .. Len(input) /\ n \in Nat
  BY Facts
<1>1. /\ pc = "raw" /\ res = TRUE /\ n > 0 /\ n <= Remaining /\ Leaf.ok /\ Count.ok /\ Count.count <= Bound
      /\ off' = Leaf.off /\ n' = Size(Size(n - 1) + Count.count)
      /\ UNCHANGED <<input, pc, res, len, key, tail, pairs, ret>>
  BY Facts DEF RawItem, Looping, CountOk, keyVars
<1>2. PICK left, bound, c :
        /\ left = Size(Len(input) - off) /\ bound = Size(left - n)
        /\ c = StepCount(ReadHeader(input, off), bound)
        /\ left = Remaining /\ bound = Bound /\ c = Count
  BY DEF Remaining, Bound, Count
<1>3. n <= left /\ ValidateLeaf(input, off).ok /\ c.ok /\ c.count <= bound
  BY <1>1, <1>2 DEF Leaf
<1>4. /\ ValidateLeaf(input, off).off = JumpLeaf(input, off)
      /\ JumpLeaf(input, off) \in 0 .. Len(input)
      /\ Size(Size(n - 1) + c.count) = After(input, off, n)
      /\ After(input, off, n) \in 0 .. Len(input)
  BY <1>0, <1>1, <1>2, <1>3, RawTest
<1>5. off' = JumpLeaf(input, off) /\ n' = After(input, off, n)
  BY <1>1, <1>2, <1>4 DEF Leaf
<1>6. Decides(Weak(input), off', n', TRUE)
  <2>1. PICK no \in BOOLEAN : no = FALSE
    OBVIOUS
  <2>2. Weak(input) = Ends(input, no, no)
    BY <2>1 DEF Weak
  <2>3. Accepts(input, off, no, no)
    BY <1>3, <2>1 DEF Accepts
  <2>4. Decides(Ends(input, no, no), off, n, TRUE)
    BY <1>1, <2>2 DEF IInv, RawInv
  <2>5. Decides(Ends(input, no, no), JumpLeaf(input, off), After(input, off, n), TRUE)
    BY <1>0, <1>1, <2>3, <2>4, DecideStep
  <2> QED BY <1>5, <2>2, <2>5
<1>7. Cells'
  <2>1. off' \in 0 .. Len(input) /\ n' \in 0 .. Len(input) + 1 /\ n' <= SizeMax
    BY <1>0, <1>4, <1>5
  <2> QED BY <1>1, <2>1 DEF IInv, Cells
<1>8. RawInv'
  BY <1>1, <1>6 DEF IInv, RawInv
<1> QED BY <1>1, <1>7, <1>8 DEF IInv, ValidInv, IntsInv, SortedInv, DoneInv

\* The first pass, at a header, a payload or a count it rejects.
LEMMA RawRejectIInv == IInv /\ (RawTooMany \/ RawBadLeaf \/ RawBadCount) => IInv'
<1> SUFFICES ASSUME IInv, RawTooMany \/ RawBadLeaf \/ RawBadCount PROVE IInv'
  OBVIOUS
<1>0. /\ input \in Seq(Byte) /\ Len(input) <= SizeMax /\ Len(input) \in Nat /\ SizeMax \in Nat
      /\ off \in 0 .. Len(input) /\ n \in Nat /\ n \in 0 .. Len(input) + 1 /\ n <= SizeMax
  BY Facts
<1>1. /\ pc = "raw" /\ res = TRUE /\ n > 0 /\ res' = FALSE
      /\ UNCHANGED <<input, pc, len, key, tail, pairs, ret>>
  BY Facts DEF RawTooMany, RawBadLeaf, RawBadCount, Looping, keyVars
<1>2. PICK left, bound, c :
        /\ left = Size(Len(input) - off) /\ bound = Size(left - n)
        /\ c = StepCount(ReadHeader(input, off), bound)
        /\ left = Remaining /\ bound = Bound /\ c = Count
  BY DEF Remaining, Bound, Count
<1>3. ~(n <= left /\ ValidateLeaf(input, off).ok /\ c.ok /\ c.count <= bound)
  <2>1. left = Len(input) - off
    BY <1>0, <1>1, <1>2, RawTest
  <2>2. n > left => ~(n <= left)
    BY <1>0, <2>1
  <2> QED BY <1>2, <2>2 DEF RawTooMany, RawBadLeaf, RawBadCount, Leaf, CountOk
<1>4. Weak(input)[<<off, n>>] = Bad
  BY <1>0, <1>1, <1>2, <1>3, RawTest
<1>5. Weak(input)[<<0, 1>>] = Bad
  BY <1>1, <1>4 DEF IInv, RawInv, Decides
<1>6. off' \in 0 .. Len(input)
  <2>1. ValidateLeaf(input, off).off \in off .. Len(input)
    BY <1>0, LeafInBuffer
  <2> QED BY <1>0, <2>1 DEF RawTooMany, RawBadLeaf, RawBadCount, Leaf
<1>7. n' \in 0 .. Len(input) + 1 /\ n' <= SizeMax
  <2>1. CASE n' = n
    BY <1>0, <2>1
  <2>2. CASE n' # n
    <3>1. n <= left /\ ValidateLeaf(input, off).ok /\ c.ok /\ n' = c.count
      BY <1>2, <2>2 DEF RawTooMany, RawBadLeaf, RawBadCount, Leaf
    <3>2. /\ left = Size(Len(input) - off) /\ bound = Size(left - n)
          /\ c = StepCount(ReadHeader(input, off), bound)
      BY <1>2
    <3>3. n <= left /\ ValidateLeaf(input, off).ok /\ c.ok =>
            c.count \in 0 .. Len(input) + 1 /\ c.count <= SizeMax
      BY <1>0, <1>1, <3>2, RawTest
    <3> QED BY <3>1, <3>3
  <2> QED BY <2>1, <2>2
<1>8. Cells'
  BY <1>1, <1>6, <1>7 DEF IInv, Cells
<1>9. RawInv'
  BY <1>1, <1>5 DEF IInv, RawInv, Decides
<1> QED BY <1>1, <1>8, <1>9 DEF IInv, ValidInv, IntsInv, SortedInv, DoneInv

\* The end of the first pass: what it accepted is the weak grammar's item.
LEMMA RawEndIInv == IInv /\ RawEnd => IInv'
<1> SUFFICES ASSUME IInv, RawEnd PROVE IInv'
  OBVIOUS
<1>0. /\ input \in Seq(Byte) /\ Len(input) <= SizeMax /\ Len(input) \in Nat /\ SizeMax \in Nat
      /\ off \in 0 .. Len(input) /\ n \in Nat /\ n \in 0 .. Len(input) + 1 /\ n <= SizeMax
      /\ res \in BOOLEAN /\ 1 <= SizeMax
  <2>1. 1 <= SizeMax
    BY SMT, SizeAssumption
  <2> QED BY <2>1, Facts
<1>1. /\ pc = "raw" /\ ~(res /\ n > 0) /\ len' = (IF res THEN off ELSE 0) /\ ret = 0
      /\ Decides(Weak(input), off, n, res)
      /\ UNCHANGED <<input, key, tail, pairs>>
  BY DEF RawEnd, LoopEnds, IInv, RawInv, keyVars
<1>2. PICK w, d : w = Weak(input)[<<0, 1>>] /\ d = Strict(input)[<<0, 1>>]
  OBVIOUS
<1>3. CASE res
  <2>1. n = 0 /\ len' = off
    BY <1>0, <1>1, <1>3
  <2>2. w = off
    <3>1. PICK no \in BOOLEAN : no = FALSE
      OBVIOUS
    <3>2. Weak(input) = Ends(input, no, no)
      BY <3>1 DEF Weak
    <3>3. Weak(input)[<<off, 0>>] = off
      BY <1>0, <3>2, NoneMissing
    <3> QED BY <1>1, <1>2, <1>3, <2>1, <3>3 DEF Decides
  <2>3. w > 0
    <3>0. 0 \in 0 .. Len(input) /\ 1 \in Nat
      BY <1>0
    <3>1. PICK no \in BOOLEAN, z \in 0 .. Len(input), one \in Nat : no = FALSE /\ z = 0 /\ one = 1
      BY <3>0
    <3>2. Weak(input) = Ends(input, no, no) /\ w = Ends(input, no, no)[<<z, one>>]
      BY <1>2, <3>1 DEF Weak
    <3>3. w # Bad
      BY <1>0, <2>2, <3>1 DEF Bad
    <3>4. z + one <= Ends(input, no, no)[<<z, one>>]
      BY <1>0, <3>1, <3>2, <3>3, RowBytes
    <3> QED BY <1>0, <2>2, <3>1, <3>2, <3>4
  <2>4. len' # 0
    BY <1>0, <2>1, <2>2, <2>3
  <2>5. pc' = "ints" /\ off' = 0 /\ n' = 1 /\ res' = TRUE /\ ret' = 0
    BY <1>1, <2>4 DEF RawEnd, StartPass
  <2>6. w # Bad /\ len' = w /\ len' > 0
    BY <1>0, <2>1, <2>2, <2>3 DEF Bad
  <2>7. Cells'
    BY <1>0, <1>1, <2>1, <2>5 DEF IInv, Cells
  <2>8. ValidInv'
    BY <1>1, <1>2, <2>5, <2>6, Lengths DEF ValidInv
  <2>9. IntsInv'
    BY <2>5 DEF IntsInv, Decides
  <2> QED BY <2>5, <2>7, <2>8, <2>9 DEF IInv, RawInv, SortedInv, DoneInv
<1>4. CASE ~res
  <2>1. w = Bad /\ len' = 0
    BY <1>1, <1>2, <1>4 DEF Decides
  <2>2. pc' = "done" /\ ret' = 0 /\ UNCHANGED <<off, n, res>>
    BY <2>1 DEF RawEnd, loopVars
  <2>3. d = Bad
    BY <1>0, <1>2, <2>1, Weakest
  <2>4. Cells'
    BY <1>0, <1>1, <2>1, <2>2 DEF IInv, Cells
  <2>5. ValidInv' /\ DoneInv'
    BY <1>1, <1>2, <2>1, <2>2, <2>3, Lengths DEF ValidInv, DoneInv
  <2> QED BY <2>2, <2>4, <2>5 DEF IInv, RawInv, IntsInv, SortedInv
<1> QED BY <1>0, <1>3, <1>4

-----------------------------------------------------------------------------
\* The keys and values of a map among k valid items are where the jumps of
\* cbor_raw_sorted get to: the j-th key from a to b and its value from b to c.
LEMMA KeyPlaces ==
  ASSUME NEW s \in Seq(Byte), Len(s) <= SizeMax, NEW o \in 0 .. Len(s), NEW k \in Nat, k > 0,
         Weak(s)[<<o, k>>] # Bad,
         NEW h, h = ReadHeader(s, o), h.type = MapType, NEW j \in 1 .. h.arg,
         NEW he, he = JumpHeader(s, o),
         NEW a, a = Weak(s)[<<he, 2 * (j - 1)>>],
         NEW b, b = Weak(s)[<<a, 1>>],
         NEW c, c = Weak(s)[<<he, 2 * j>>]
  PROVE  /\ he \in 0 .. Len(s) /\ h.arg \in Nat
         /\ a \in 0 .. Len(s) /\ b \in 0 .. Len(s) /\ c \in 0 .. Len(s)
         /\ a < b /\ b < c
         /\ c + 2 * (h.arg - j) <= Weak(s)[<<o, k>>]
         /\ Jump(s, a) = b /\ Jump(s, b) = c
<1>0. Len(s) \in Nat
  BY LenProperties
<1>1. PICK no \in BOOLEAN : no = FALSE
  OBVIOUS
<1>2. PICK E : E = Ends(s, no, no)
  OBVIOUS
<1>3. E = Weak(s)
  BY <1>1, <1>2 DEF Weak
<1>4. PICK m, e : m = After(s, o, k) /\ e = E[<<o, k>>]
  OBVIOUS
<1>5. /\ h.arg \in Nat /\ JumpLeaf(s, o) \in 0 .. Len(s) /\ m \in Nat
      /\ E[<<JumpLeaf(s, o), m>>] = e /\ e \in 0 .. Len(s)
  BY <1>3, <1>4, ValidStep
<1>6. JumpLeaf(s, o) = he
  BY DEF JumpLeaf, IsString, MapType, ByteString, TextString
<1>7. PICK p \in Nat : p = 2 * h.arg /\ m = (k - 1) + p
  <2>1. Announced(h) = 2 * h.arg
    BY DEF Announced, ArrayType, MapType
  <2> QED BY <1>4, <1>5, <2>1 DEF After
<1>8. he \in 0 .. Len(s) /\ E[<<he, m>>] = e /\ e # Bad
  BY <1>5, <1>6 DEF Bad
<1>9. PICK pe : pe = E[<<he, p>>]
  OBVIOUS
<1>10. pe # Bad /\ pe \in 0 .. Len(s) /\ pe <= e
  <2>1. p <= m /\ m - p = k - 1 /\ k - 1 \in Nat
    BY <1>7
  <2>2. E[<<he, p>>] # Bad /\ E[<<he, p>>] \in he .. Len(s) /\ E[<<E[<<he, p>>], m - p>>] = E[<<he, m>>]
    BY <1>2, <1>5, <1>8, <2>1, RowParts, SMTT(40)
  <2>3. pe \in 0 .. Len(s)
    BY <1>0, <1>8, <1>9, <2>2
  <2>4. PICK r \in Nat : r = k - 1
    BY <2>1
  <2>5. E[<<pe, r>>] = e
    BY <1>8, <1>9, <2>1, <2>2, <2>4
  <2>6. Ends(s, no, no)[<<pe, r>>] # Bad
    BY <1>2, <1>8, <2>5
  <2>7. pe + r <= Ends(s, no, no)[<<pe, r>>]
    BY <2>3, <2>6, RowBytes
  <2>8. pe + r <= e
    BY <1>2, <2>5, <2>7
  <2> QED BY <1>5, <1>9, <2>2, <2>3, <2>8, SMTT(40)
<1>11. PICK i, r \in Nat : i = 2 * (j - 1) /\ r = p - i /\ i <= p /\ r >= 2 /\ r - 2 = 2 * (h.arg - j)
  <2>1. PICK x \in Nat : x = h.arg
    BY <1>5
  <2>2. p = 2 * x /\ j \in 1 .. x
    BY <1>7, <2>1
  <2>3. /\ 2 * (j - 1) \in Nat /\ p - 2 * (j - 1) \in Nat /\ 2 * (j - 1) <= p
        /\ p - 2 * (j - 1) >= 2 /\ p - 2 * (j - 1) - 2 = 2 * (x - j)
    BY <2>2
  <2> QED BY <2>1, <2>3
<1>12. a # Bad /\ a \in 0 .. Len(s) /\ E[<<a, r>>] = pe
  <2>1. E[<<he, i>>] # Bad /\ E[<<he, i>>] \in he .. Len(s) /\ E[<<E[<<he, i>>], p - i>>] = E[<<he, p>>]
    BY <1>2, <1>8, <1>9, <1>10, <1>11, RowParts
  <2> QED BY <1>0, <1>3, <1>8, <1>9, <1>11, <2>1
<1>13. ASSUME NEW x \in 0 .. Len(s), NEW l \in Nat, l >= 1, E[<<x, l>>] = pe,
              NEW y, y = E[<<x, 1>>]
       PROVE  /\ y \in 0 .. Len(s) /\ x < y /\ E[<<y, l - 1>>] = pe /\ y + (l - 1) <= pe
              /\ Jump(s, x) = y
  <2>1. Ends(s, no, no)[<<x, l>>] # Bad
    BY <1>2, <1>10, <1>13
  <2>2. Ends(s, no, no)[<<x, 1>>] # Bad
    BY <1>13, <2>1, RowHead
  <2>3. Jump(s, x) = y
    BY <1>1, <1>2, <1>13, <2>2, JumpIsEnd
  <2>4. PICK one, d \in Nat : one = 1 /\ d = l - 1
    BY <1>13
  <2>5. x \in Bad .. Len(s) /\ one + d = l
    BY <1>0, <1>13, <2>4 DEF Bad
  <2>6. E[<<x, one + d>>] = E[<<E[<<x, one>>], d>>]
    BY <1>2, <2>4, <2>5, EndsAdd
  <2>7. E[<<y, d>>] = pe
    BY <1>13, <2>4, <2>5, <2>6
  <2>8. y \in 0 .. Len(s) /\ x + one <= y
    <3>1. Ends(s, no, no)[<<x, one>>] # Bad
      BY <2>2, <2>4
    <3>2. /\ Ends(s, no, no)[<<x, one>>] \in 0 .. Len(s)
          /\ x + one <= Ends(s, no, no)[<<x, one>>]
      BY <2>4, <3>1, RowBytes
    <3> QED BY <1>2, <1>13, <2>4, <3>2
  <2>9. y + d <= pe
    <3>1. Ends(s, no, no)[<<y, d>>] # Bad
      BY <1>2, <1>10, <2>7
    <3>2. y + d <= Ends(s, no, no)[<<y, d>>]
      BY <2>4, <2>8, <3>1, RowBytes
    <3> QED BY <1>2, <2>7, <3>2
  <2> QED BY <1>0, <1>13, <2>3, <2>4, <2>7, <2>8, <2>9
<1>14. b \in 0 .. Len(s) /\ a < b /\ E[<<b, r - 1>>] = pe /\ Jump(s, a) = b
  BY <1>3, <1>11, <1>12, <1>13, SMTT(40)
<1>15. PICK l \in Nat : l = r - 1 /\ l >= 1 /\ l - 1 = 2 * (h.arg - j)
  <2>1. r - 1 \in Nat /\ r - 1 >= 1 /\ (r - 1) - 1 = r - 2
    BY <1>11
  <2> QED BY <1>11, <2>1
<1>16. PICK d : d = E[<<b, 1>>]
  OBVIOUS
<1>17. d \in 0 .. Len(s) /\ b < d /\ d + (l - 1) <= pe /\ Jump(s, b) = d
  BY <1>13, <1>14, <1>15, <1>16
<1>18. d = c
  <2>1. PICK one, two \in Nat : one = 1 /\ two = 2
    OBVIOUS
  <2>2. he \in Bad .. Len(s) /\ a \in Bad .. Len(s)
    BY <1>0, <1>8, <1>12 DEF Bad
  <2>3. i + two = 2 * j /\ one + one = two
    <3>1. j \in Nat
      BY <1>5
    <3> QED BY <1>11, <2>1, <3>1
  <2>4. E[<<he, i + two>>] = E[<<E[<<he, i>>], two>>]
    BY <1>2, <2>1, <2>2, EndsAdd
  <2>5. E[<<a, one + one>>] = E[<<E[<<a, one>>], one>>]
    BY <1>2, <2>1, <2>2, EndsAdd
  <2> QED BY <1>3, <1>11, <1>16, <2>1, <2>4, <2>5, <2>3
<1>19. c + 2 * (h.arg - j) <= e
  <2>1. PICK z \in Nat : z = 2 * (h.arg - j)
    BY <1>15
  <2>2. c + z <= pe /\ c \in 0 .. Len(s)
    BY <1>15, <1>17, <1>18, <2>1
  <2>3. c + z <= e
    BY <1>0, <1>5, <1>10, <2>2, SMTT(40)
  <2> QED BY <2>1, <2>3
<1> QED BY <1>3, <1>4, <1>5, <1>8, <1>12, <1>14, <1>17, <1>18, <1>19

\* What OnKey says of the cells: the keys are not empty and every pair to come
\* has its bytes before the end of the k items.
LEMMA OnKeyPlaces ==
  ASSUME NEW s \in Seq(Byte), Len(s) <= SizeMax, NEW o \in 0 .. Len(s), NEW m \in Nat, m > 0,
         Weak(s)[<<o, m>>] # Bad,
         NEW k, NEW t, NEW left, OnKey(s, o, k, t, left)
  PROVE  /\ left \in 0 .. Len(s)
         /\ k \in (0 .. Len(s)) \X (0 .. Len(s)) /\ t \in 0 .. Len(s)
         /\ k[1] < k[2] /\ k[2] < t /\ t + 2 * left <= Weak(s)[<<o, m>>]
<1>1. PICK h, he : h = ReadHeader(s, o) /\ he = JumpHeader(s, o)
  OBVIOUS
<1>2. PICK j : j = h.arg - left
  OBVIOUS
<1>3. PICK a, b, c : /\ a = Weak(s)[<<he, 2 * (j - 1)>>] /\ b = Weak(s)[<<a, 1>>]
                     /\ c = Weak(s)[<<he, 2 * j>>]
  OBVIOUS
<1>4. /\ h.type = MapType /\ h.arg \in Nat /\ left \in Nat /\ j \in 1 .. h.arg
      /\ k = <<a, b>> /\ t = c
  BY <1>1, <1>2, <1>3 DEF OnKey
<1>5. /\ a \in 0 .. Len(s) /\ b \in 0 .. Len(s) /\ c \in 0 .. Len(s)
      /\ a < b /\ b < c
      /\ c + 2 * (h.arg - j) <= Weak(s)[<<o, m>>]
  <2>1. h.type = MapType /\ j \in 1 .. h.arg
    BY <1>4
  <2> QED BY <1>1, <1>3, <2>1, KeyPlaces, SMTT(40)
<1>6. h.arg - j = left
  BY <1>2, <1>4
<1>7. t + 2 * left <= Weak(s)[<<o, m>>] /\ Weak(s)[<<o, m>>] \in 0 .. Len(s)
  BY <1>4, <1>5, <1>6, ValidStep
<1>8. left \in 0 .. Len(s)
  <2>1. PICK e : e = Weak(s)[<<o, m>>]
    OBVIOUS
  <2>2. t \in Nat /\ e \in Nat /\ e <= Len(s) /\ t + 2 * left <= e /\ left \in Nat /\ Len(s) \in Nat
    BY <1>4, <1>5, <1>7, <2>1, LenProperties
  <2> QED BY <2>2
<1> QED BY <1>4, <1>5, <1>7, <1>8

\* The cells when cbor_raw_sorted starts on a map of two pairs or more.
LEMMA OnFirstKey ==
  ASSUME NEW s \in Seq(Byte), Len(s) <= SizeMax, NEW o \in 0 .. Len(s), NEW m \in Nat, m > 0,
         Weak(s)[<<o, m>>] # Bad,
         NEW h, h = ReadHeader(s, o), h.type = MapType, h.arg >= 2,
         NEW he, he = JumpHeader(s, o)
  PROVE  OnKey(s, o, <<he, Jump(s, he)>>, Jump(s, Jump(s, he)), h.arg - 1)
<1>1. PICK a, b, c : /\ a = Weak(s)[<<he, 2 * (1 - 1)>>] /\ b = Weak(s)[<<a, 1>>]
                     /\ c = Weak(s)[<<he, 2 * 1>>]
  OBVIOUS
<1>2. h.arg \in Nat
  BY ValidStep
<1>3. PICK j \in 1 .. h.arg : j = 1
  BY <1>2
<1>4. a = Weak(s)[<<he, 2 * (j - 1)>>] /\ c = Weak(s)[<<he, 2 * j>>]
  BY <1>1, <1>3
<1>5. he \in 0 .. Len(s) /\ Jump(s, a) = b /\ Jump(s, b) = c
  BY <1>1, <1>4, KeyPlaces
<1>6. a = he
  <2>1. PICK no \in BOOLEAN : no = FALSE
    OBVIOUS
  <2>2. Weak(s) = Ends(s, no, no)
    BY <2>1 DEF Weak
  <2>3. Ends(s, no, no)[<<he, 0>>] = he
    BY <1>5, NoneMissing
  <2>4. 2 * (1 - 1) = 0
    OBVIOUS
  <2> QED BY <1>1, <2>2, <2>3, <2>4
<1>7. h.arg - 1 \in Nat /\ h.arg - (h.arg - 1) = j /\ ~(\E i \in 1 .. j - 1 : TRUE)
  BY <1>2, <1>3
<1>8. <<he, Jump(s, he)>> = <<a, Weak(s)[<<a, 1>>]>> /\ Jump(s, Jump(s, he)) = c
  BY <1>1, <1>5, <1>6
<1> QED BY <1>2, <1>4, <1>7, <1>8 DEF OnKey

\* The next key: the cells move on to it, and if it is not greater than the
\* last one the keys of the map do not ascend.
LEMMA OnNextKey ==
  ASSUME NEW s \in Seq(Byte), Len(s) <= SizeMax, NEW o \in 0 .. Len(s), NEW m \in Nat, m > 0,
         Weak(s)[<<o, m>>] # Bad,
         NEW k, NEW t, NEW left, OnKey(s, o, k, t, left), left > 0
  PROVE  IF KeyOrder(Slice(s, k[1], k[2]), Slice(s, t, Jump(s, t)))
         THEN OnKey(s, o, <<t, Jump(s, t)>>, Jump(s, Jump(s, t)), left - 1)
         ELSE ~SortedAt(s, o)
<1> DEFINE ordered == KeyOrder(Slice(s, k[1], k[2]), Slice(s, t, Jump(s, t)))
<1>1. PICK h, he : h = ReadHeader(s, o) /\ he = JumpHeader(s, o)
  OBVIOUS
<1>2. PICK j : j = h.arg - left
  OBVIOUS
<1>3. /\ h.type = MapType /\ h.arg \in Nat /\ left \in Nat /\ j \in 1 .. h.arg
      /\ k = <<Weak(s)[<<he, 2 * (j - 1)>>], Weak(s)[<<Weak(s)[<<he, 2 * (j - 1)>>], 1>>]>>
      /\ t = Weak(s)[<<he, 2 * j>>]
      /\ \A i \in 1 .. j - 1 : KeyOrder(Key(s, he, i - 1, Weak(s)), Key(s, he, i, Weak(s)))
  BY <1>1, <1>2 DEF OnKey
<1>4. PICK i \in 1 .. h.arg : i = j + 1 /\ j = i - 1 /\ i = h.arg - (left - 1) /\ left - 1 \in Nat
  <2>1. PICK x \in Nat : x = h.arg
    BY <1>3
  <2>2. j = x - left /\ j \in Nat
    BY <1>2, <1>3, <2>1
  <2>3. j + 1 \in 1 .. x /\ j = (j + 1) - 1 /\ j + 1 = x - (left - 1) /\ left - 1 \in Nat
    BY <1>3, <2>2
  <2> QED BY <2>1, <2>3
<1>5. PICK b, c : b = Weak(s)[<<t, 1>>] /\ c = Weak(s)[<<he, 2 * i>>]
  OBVIOUS
<1>6. Jump(s, t) = b /\ Jump(s, b) = c
  <2>1. t = Weak(s)[<<he, 2 * (i - 1)>>]
    BY <1>3, <1>4
  <2> QED BY <1>1, <1>3, <1>5, <2>1, KeyPlaces, SMTT(40)
<1>7. /\ Slice(s, k[1], k[2]) = Key(s, he, j - 1, Weak(s))
      /\ Slice(s, t, Jump(s, t)) = Key(s, he, j, Weak(s))
  BY <1>3, <1>5, <1>6 DEF Key
<1>8. ordered <=> KeyOrder(Key(s, he, j - 1, Weak(s)), Key(s, he, j, Weak(s)))
  BY <1>7
<1>9. CASE ordered
  <2>1. ASSUME NEW x \in 1 .. i - 1
        PROVE  KeyOrder(Key(s, he, x - 1, Weak(s)), Key(s, he, x, Weak(s)))
    <3>1. x = j \/ x \in 1 .. j - 1
      BY <1>3, <1>4
    <3> QED BY <1>3, <1>8, <1>9, <3>1
  <2>2. <<t, Jump(s, t)>> = <<Weak(s)[<<he, 2 * (i - 1)>>], Weak(s)[<<Weak(s)[<<he, 2 * (i - 1)>>], 1>>]>>
    BY <1>3, <1>4, <1>5, <1>6
  <2>3. Jump(s, Jump(s, t)) = Weak(s)[<<he, 2 * i>>]
    BY <1>5, <1>6
  <2>4. OnKey(s, o, <<t, Jump(s, t)>>, Jump(s, Jump(s, t)), left - 1)
    BY <1>1, <1>3, <1>4, <2>1, <2>2, <2>3 DEF OnKey
  <2> QED BY <1>9, <2>4
<1>10. CASE ~ordered
  <2>1. j \in 1 .. h.arg - 1
    BY <1>3, <1>4
  <2>2. ~KeysAscend(s, he, h.arg, Weak(s))
    BY <1>8, <1>10, <2>1 DEF KeysAscend
  <2>3. ~SortedAt(s, o)
    BY <1>1, <1>3, <2>2 DEF SortedAt, Weak
  <2> QED BY <1>10, <2>3
<1> QED BY <1>9, <1>10

\* When no pair is left, or if there never were two, the keys ascend.
LEMMA OnLastKey ==
  ASSUME NEW s, NEW o, NEW k, NEW t, OnKey(s, o, k, t, 0)
  PROVE  SortedAt(s, o)
<1>1. PICK h, he : h = ReadHeader(s, o) /\ he = JumpHeader(s, o)
  OBVIOUS
<1>2. h.arg \in Nat /\ h.arg - 0 = h.arg
  BY <1>1 DEF OnKey
<1>3. \A i \in 1 .. h.arg - 1 : KeyOrder(Key(s, he, i - 1, Weak(s)), Key(s, he, i, Weak(s)))
  BY <1>1, <1>2 DEF OnKey
<1> QED BY <1>1, <1>3 DEF SortedAt, KeysAscend, Weak

\* A map with one pair, and what is no map, have no keys to compare.
LEMMA FewKeys ==
  ASSUME NEW s, NEW o, ReadHeader(s, o).arg \in Nat,
         ~(ReadHeader(s, o).type = MapType /\ ReadHeader(s, o).arg >= 2)
  PROVE  SortedAt(s, o)
<1>1. PICK h : h = ReadHeader(s, o)
  OBVIOUS
<1>2. h.type = MapType => ~(\E i \in 1 .. h.arg - 1 : TRUE)
  BY <1>1
<1> QED BY <1>1, <1>2 DEF SortedAt, KeysAscend

-----------------------------------------------------------------------------
\* The second and the third pass at an item: where Advance takes them.
LEMMA LaterFacts ==
  ASSUME IInv, pc \in {"ints", "sorted", "keys"}, n > 0
  PROVE  /\ len > 0 /\ Weak(input)[<<off, n>>] = len /\ len # Bad
         /\ ValidateLeaf(input, off).ok /\ ReadHeader(input, off).arg \in Nat
         /\ off < JumpLeaf(input, off) /\ JumpLeaf(input, off) <= len
         /\ JumpLeaf(input, off) \in 0 .. Len(input)
         /\ After(input, off, n) \in 0 .. Len(input) /\ After(input, off, n) <= SizeMax
         /\ Weak(input)[<<JumpLeaf(input, off), After(input, off, n)>>] = len
         /\ off + n <= len
         /\ Advance => off' = JumpLeaf(input, off) /\ n' = After(input, off, n)
<1>0. /\ input \in Seq(Byte) /\ Len(input) <= SizeMax /\ Len(input) \in Nat /\ SizeMax \in Nat
      /\ off \in 0 .. Len(input) /\ n \in Nat /\ len \in 0 .. Len(input)
  BY Facts
<1>1. len > 0 /\ Weak(input)[<<off, n>>] = len /\ len # Bad
  BY <1>0 DEF IInv, ValidInv, Bad
<1>2. PICK q, m : q = JumpLeaf(input, off) /\ m = After(input, off, n)
  OBVIOUS
<1>3. /\ ValidateLeaf(input, off).ok /\ ReadHeader(input, off).arg \in Nat
      /\ q \in off + 1 .. Len(input) /\ q \in 0 .. Len(input)
      /\ m \in Nat /\ m <= Len(input)
      /\ Size(Size(n - 1) + RemainingDataItems(ReadHeader(input, off))) = m
      /\ Weak(input)[<<q, m>>] = len
      /\ q + m <= len /\ off + n <= len
  <2>1. Weak(input)[<<off, n>>] # Bad
    BY <1>1
  <2> QED BY <1>0, <1>1, <1>2, <2>1, ValidStep
<1>4. Advance => off' = q /\ n' = m
  BY <1>2, <1>3 DEF Advance
<1>5. off < q /\ q <= len /\ m \in 0 .. Len(input) /\ m <= SizeMax
  BY <1>0, <1>3
<1> QED BY <1>1, <1>2, <1>3, <1>4, <1>5

\* The same in the grammar of shortest forms, for the third pass.
LEMMA ShortFacts ==
  ASSUME IInv, pc \in {"sorted", "keys"}, n > 0
  PROVE  /\ IntsOptimal(ReadHeader(input, off))
         /\ Short(input)[<<JumpLeaf(input, off), After(input, off, n)>>] = len
<1>0. /\ input \in Seq(Byte) /\ Len(input) <= SizeMax
      /\ off \in 0 .. Len(input) /\ n \in Nat
  BY Facts
<1>1. Short(input)[<<off, n>>] = len /\ len # Bad
  BY LaterFacts DEF IInv, SortedInv
<1>2. PICK yes \in BOOLEAN, no \in BOOLEAN : yes = TRUE /\ no = FALSE
  OBVIOUS
<1>3. Short(input) = Ends(input, yes, no)
  BY <1>2 DEF Short
<1>4. Ends(input, yes, no)[<<off, n>>] # Bad
  BY <1>1, <1>3
<1>5. Accepts(input, off, yes, no)
  BY <1>0, <1>4, LeafStep
<1>6. Ends(input, yes, no)[<<off, n>>] = Ends(input, yes, no)[<<JumpLeaf(input, off), After(input, off, n)>>]
  BY <1>0, <1>5, LeafStep DEF After
<1>7. IntsOptimal(ReadHeader(input, off))
  BY <1>2, <1>5 DEF Accepts
<1> QED BY <1>1, <1>3, <1>6, <1>7

\* The cells after Advance.
LEMMA AdvanceCells ==
  ASSUME IInv, Advance, n > 0, pc \in {"ints", "sorted", "keys"},
         pc' \in {"ints", "sorted"}, UNCHANGED <<input, res, len, key, tail, pairs, ret>>
  PROVE  Cells' /\ ValidInv'
<1>1. off' \in 0 .. Len(input) /\ n' \in 0 .. Len(input) + 1 /\ n' <= SizeMax
  BY Facts, LaterFacts
<1>2. Weak(input)[<<off', n'>>] = len
  BY LaterFacts
<1>3. Cells'
  BY <1>1 DEF IInv, Cells
<1>4. ValidInv'
  BY <1>2 DEF IInv, ValidInv
<1> QED BY <1>3, <1>4

\* The second pass.
LEMMA IntsIInv == IInv /\ (IntsItem \/ IntsBad) => IInv'
<1> SUFFICES ASSUME IInv, IntsItem \/ IntsBad PROVE IInv'
  OBVIOUS
<1>0. /\ input \in Seq(Byte) /\ Len(input) <= SizeMax
      /\ off \in 0 .. Len(input) /\ n \in Nat
  BY Facts
<1>1. /\ pc = "ints" /\ pc' = "ints" /\ res = TRUE /\ n > 0
      /\ UNCHANGED <<input, len, key, tail, pairs, ret>>
  BY Facts DEF IntsItem, IntsBad, Looping, keyVars
<1>2. PICK yes \in BOOLEAN, no \in BOOLEAN : yes = TRUE /\ no = FALSE
  OBVIOUS
<1>3. Short(input) = Ends(input, yes, no)
  BY <1>2 DEF Short
<1>4. Decides(Ends(input, yes, no), off, n, TRUE)
  BY <1>1, <1>3 DEF IInv, IntsInv
<1>5. Accepts(input, off, yes, no) <=> IntsOptimal(ReadHeader(input, off))
  <2>1. ValidateLeaf(input, off).ok
    BY <1>1, LaterFacts
  <2> QED BY <1>2, <2>1 DEF Accepts
<1>6. CASE IntsItem
  <2>1. Advance /\ res' = TRUE /\ Accepts(input, off, yes, no)
    BY <1>1, <1>5, <1>6 DEF IntsItem
  <2>2. Cells' /\ ValidInv'
    BY <1>1, <2>1, AdvanceCells
  <2>3. Decides(Ends(input, yes, no), JumpLeaf(input, off), After(input, off, n), TRUE)
    BY <1>0, <1>1, <1>4, <2>1, DecideStep
  <2>4. off' = JumpLeaf(input, off) /\ n' = After(input, off, n)
    BY <1>1, <2>1, LaterFacts
  <2>5. IntsInv'
    BY <1>1, <1>3, <2>1, <2>3, <2>4 DEF IntsInv
  <2> QED BY <1>1, <2>2, <2>5 DEF IInv, RawInv, SortedInv, DoneInv
<1>7. CASE IntsBad
  <2>1. off' = off /\ n' = n /\ res' = FALSE /\ ~Accepts(input, off, yes, no)
    BY <1>5, <1>7 DEF IntsBad
  <2>2. Decides(Ends(input, yes, no), off, n, FALSE)
    BY <1>0, <1>1, <1>4, <2>1, DecideStep
  <2>3. IntsInv'
    BY <1>1, <1>3, <2>1, <2>2 DEF IntsInv
  <2>4. Cells' /\ ValidInv'
    BY <1>1, <2>1 DEF IInv, Cells, ValidInv
  <2> QED BY <1>1, <2>3, <2>4 DEF IInv, RawInv, SortedInv, DoneInv
<1> QED BY <1>6, <1>7

\* A later pass that succeeded is at len, with no item missing.
LEMMA PassDone ==
  ASSUME IInv, pc \in {"ints", "sorted"}, res, ~(res /\ n > 0)
  PROVE  n = 0 /\ off = len
<1>0. /\ input \in Seq(Byte) /\ Len(input) <= SizeMax
      /\ off \in 0 .. Len(input) /\ n \in Nat
  BY Facts
<1>1. n = 0
  BY <1>0
<1>2. PICK no \in BOOLEAN : no = FALSE
  OBVIOUS
<1>3. Weak(input) = Ends(input, no, no)
  BY <1>2 DEF Weak
<1>4. Weak(input)[<<off, 0>>] = off
  BY <1>0, <1>3, NoneMissing
<1>5. Weak(input)[<<off, n>>] = len
  BY DEF IInv, ValidInv
<1> QED BY <1>1, <1>4, <1>5

\* The end of the second pass.
LEMMA IntsEndIInv == IInv /\ IntsEnd => IInv'
<1> SUFFICES ASSUME IInv, IntsEnd PROVE IInv'
  OBVIOUS
<1>0. /\ input \in Seq(Byte) /\ Len(input) <= SizeMax /\ Len(input) \in Nat
      /\ off \in 0 .. Len(input) /\ n \in Nat /\ res \in BOOLEAN /\ 1 <= SizeMax
  <2>1. 1 <= SizeMax
    BY SMT, SizeAssumption
  <2> QED BY <2>1, Facts
<1>1. /\ pc = "ints" /\ ~(res /\ n > 0) /\ ret = 0
      /\ Decides(Short(input), off, n, res)
      /\ len = ValidLength(input) /\ len > 0 /\ Weak(input)[<<0, 1>>] = len
      /\ UNCHANGED <<input, len, key, tail, pairs>>
  BY DEF IntsEnd, LoopEnds, IInv, IntsInv, ValidInv, keyVars
<1>2. CASE res
  <2>1. n = 0 /\ off = len
    BY <1>1, <1>2, PassDone
  <2>2. pc' = "sorted" /\ off' = 0 /\ n' = 1 /\ res' = TRUE /\ ret' = 0
    BY <1>1, <1>2 DEF IntsEnd, StartPass
  <2>3. Short(input)[<<off, 0>>] = off
    <3>1. PICK yes \in BOOLEAN, no \in BOOLEAN : yes = TRUE /\ no = FALSE
      OBVIOUS
    <3>2. Short(input) = Ends(input, yes, no)
      BY <3>1 DEF Short
    <3> QED BY <1>0, <3>2, NoneMissing
  <2>4. Short(input)[<<0, 1>>] = len
    BY <1>1, <1>2, <2>1, <2>3 DEF Decides
  <2>5. Cells'
    BY <1>0, <1>1, <2>2 DEF IInv, Cells
  <2>6. ValidInv'
    BY <1>1, <2>2 DEF ValidInv
  <2>7. SortedInv'
    BY <1>1, <2>2, <2>4 DEF SortedInv, Decides
  <2> QED BY <2>2, <2>5, <2>6, <2>7 DEF IInv, RawInv, IntsInv, DoneInv
<1>3. CASE ~res
  <2>1. pc' = "done" /\ ret' = 0 /\ UNCHANGED <<off, n, res>>
    BY <1>3 DEF IntsEnd, loopVars
  <2>2. Short(input)[<<0, 1>>] = Bad
    BY <1>1, <1>3 DEF Decides
  <2>3. Strict(input)[<<0, 1>>] = Bad
    BY <1>0, <2>2, Weakest
  <2>4. Cells'
    BY <1>1, <2>1 DEF IInv, Cells
  <2>5. ValidInv' /\ DoneInv'
    BY <1>1, <2>1, <2>3, Lengths DEF ValidInv, DoneInv
  <2> QED BY <2>1, <2>4, <2>5 DEF IInv, RawInv, IntsInv, SortedInv
<1> QED BY <1>0, <1>2, <1>3

\* What the strict grammar asks of an item of the third pass.
LEMMA StrictAccepts ==
  ASSUME IInv, pc \in {"sorted", "keys"}, n > 0
  PROVE  Accepts(input, off, TRUE, TRUE) <=> SortedAt(input, off)
  BY LaterFacts, ShortFacts DEF Accepts

\* The third pass gets past an item whose keys ascend.
LEMMA SortedAdvance ==
  ASSUME IInv, Advance, n > 0, res = TRUE, pc \in {"sorted", "keys"}, pc' = "sorted",
         UNCHANGED <<input, res, len, key, tail, pairs, ret>>, SortedAt(input, off)
  PROVE  IInv'
<1>0. /\ input \in Seq(Byte) /\ Len(input) <= SizeMax
      /\ off \in 0 .. Len(input) /\ n \in Nat
  BY Facts
<1>1. PICK yes \in BOOLEAN : yes = TRUE
  OBVIOUS
<1>2. Strict(input) = Ends(input, yes, yes)
  BY <1>1 DEF Strict
<1>3. Decides(Ends(input, yes, yes), off, n, TRUE)
  BY <1>2 DEF IInv, SortedInv
<1>4. Accepts(input, off, yes, yes)
  BY <1>1, StrictAccepts
<1>5. Decides(Ends(input, yes, yes), JumpLeaf(input, off), After(input, off, n), TRUE)
  BY <1>0, <1>3, <1>4, DecideStep
<1>6. off' = JumpLeaf(input, off) /\ n' = After(input, off, n)
  BY LaterFacts
<1>7. Short(input)[<<off', n'>>] = len
  BY <1>6, ShortFacts
<1>8. SortedInv'
  BY <1>2, <1>5, <1>6, <1>7 DEF SortedInv
<1>9. Cells' /\ ValidInv'
  BY AdvanceCells
<1> QED BY <1>8, <1>9 DEF IInv, RawInv, IntsInv, DoneInv

\* The third pass at an item with no two keys, and after the last key of a map.
LEMMA SortedItemIInv == IInv /\ (SortedLeaf \/ KeysEnd) => IInv'
<1> SUFFICES ASSUME IInv, SortedLeaf \/ KeysEnd PROVE IInv'
  OBVIOUS
<1>1. CASE SortedLeaf
  <2>1. /\ pc = "sorted" /\ pc' = "sorted" /\ res = TRUE /\ n > 0 /\ Advance
        /\ UNCHANGED <<input, res, len, key, tail, pairs, ret>>
    BY <1>1, Facts DEF SortedLeaf, Looping, keyVars
  <2>2. SortedAt(input, off)
    BY <1>1, <2>1, LaterFacts, FewKeys DEF SortedLeaf, HasKeysToCompare
  <2> QED BY <2>1, <2>2, SortedAdvance
<1>2. CASE KeysEnd
  <2>1. /\ pc = "keys" /\ pc' = "sorted" /\ pairs = 0 /\ Advance
        /\ UNCHANGED <<input, res, len, key, tail, pairs, ret>>
    BY <1>2 DEF KeysEnd, keyVars
  <2>2. res = TRUE /\ n > 0 /\ OnKey(input, off, key, tail, pairs)
    BY <2>1, Facts DEF IInv, SortedInv
  <2>3. SortedAt(input, off)
    BY <2>1, <2>2, OnLastKey
  <2> QED BY <2>1, <2>2, <2>3, SortedAdvance
<1> QED BY <1>1, <1>2

\* The third pass at a map of two pairs or more, and from key to key.
LEMMA KeysIInv == IInv /\ (SortedMap \/ KeyAscends) => IInv'
<1> SUFFICES ASSUME IInv, SortedMap \/ KeyAscends PROVE IInv'
  OBVIOUS
<1>0. /\ input \in Seq(Byte) /\ Len(input) <= SizeMax
      /\ off \in 0 .. Len(input) /\ n \in Nat
  BY Facts
<1>1. /\ pc \in {"sorted", "keys"} /\ pc' = "keys"
      /\ UNCHANGED <<input, off, n, res, len, ret>>
  BY DEF SortedMap, KeyAscends, Looping, loopVars
<1>2. res = TRUE /\ n > 0
  BY <1>1, Facts DEF SortedMap, KeyAscends, Looping, IInv, SortedInv
<1>3. Weak(input)[<<off, n>>] # Bad
  BY <1>1, <1>2, LaterFacts
<1>4. OnKey(input, off, key', tail', pairs')
  <2>1. CASE SortedMap
    <3>1. PICK h, he : h = ReadHeader(input, off) /\ he = JumpHeader(input, off)
      OBVIOUS
    <3>2. h.type = MapType /\ h.arg >= 2
      BY <2>1, <3>1 DEF SortedMap, HasKeysToCompare
    <3>3. /\ key' = <<he, Jump(input, he)>> /\ tail' = Jump(input, Jump(input, he))
          /\ pairs' = h.arg - 1
      BY <2>1, <3>1 DEF SortedMap
    <3> QED BY <1>0, <1>2, <1>3, <3>1, <3>2, <3>3, OnFirstKey
  <2>2. CASE KeyAscends
    <3>1. OnKey(input, off, key, tail, pairs) /\ pairs > 0
      BY <2>2 DEF KeyAscends, IInv, SortedInv
    <3>2. /\ key' = <<tail, Jump(input, tail)>> /\ tail' = Jump(input, Jump(input, tail))
          /\ pairs' = pairs - 1
      BY <2>2 DEF KeyAscends, NextKey
    <3>3. KeyOrder(Slice(input, key[1], key[2]), Slice(input, tail, Jump(input, tail)))
      BY <2>2 DEF KeyAscends, NextKey, KeyAt
    <3> QED BY <1>0, <1>2, <1>3, <3>1, <3>2, <3>3, OnNextKey
  <2> QED BY <2>1, <2>2
<1>5. /\ key' \in (0 .. Len(input)) \X (0 .. Len(input)) /\ tail' \in 0 .. Len(input)
      /\ pairs' \in 0 .. Len(input)
  BY <1>0, <1>2, <1>3, <1>4, OnKeyPlaces
<1>6. Cells'
  BY <1>1, <1>5 DEF IInv, Cells
<1>7. ValidInv'
  BY <1>1 DEF IInv, ValidInv
<1>8. SortedInv'
  BY <1>1, <1>2, <1>4 DEF IInv, SortedInv
<1> QED BY <1>1, <1>6, <1>7, <1>8 DEF IInv, RawInv, IntsInv, DoneInv

\* The third pass at a key that is not greater than the one before.
LEMMA KeyBadIInv == IInv /\ KeyBad => IInv'
<1> SUFFICES ASSUME IInv, KeyBad PROVE IInv'
  OBVIOUS
<1>0. /\ input \in Seq(Byte) /\ Len(input) <= SizeMax
      /\ off \in 0 .. Len(input) /\ n \in Nat
  BY Facts
<1>1. /\ pc = "keys" /\ pc' = "sorted" /\ pairs > 0 /\ res' = FALSE
      /\ UNCHANGED <<input, off, n, len, key, tail, pairs, ret>>
      /\ ~KeyOrder(Slice(input, key[1], key[2]), Slice(input, tail, Jump(input, tail)))
  BY DEF KeyBad, NextKey, KeyAt, keyVars
<1>2. /\ res = TRUE /\ n > 0 /\ OnKey(input, off, key, tail, pairs)
      /\ Decides(Strict(input), off, n, res)
  BY <1>1, Facts DEF IInv, SortedInv
<1>3. Weak(input)[<<off, n>>] # Bad
  BY <1>1, <1>2, LaterFacts
<1>4. ~SortedAt(input, off)
  BY <1>0, <1>1, <1>2, <1>3, OnNextKey
<1>5. PICK yes \in BOOLEAN : yes = TRUE
  OBVIOUS
<1>6. Strict(input) = Ends(input, yes, yes)
  BY <1>5 DEF Strict
<1>7. ~Accepts(input, off, yes, yes)
  BY <1>1, <1>2, <1>4, <1>5, StrictAccepts
<1>8. Decides(Ends(input, yes, yes), off, n, FALSE)
  BY <1>0, <1>2, <1>6, <1>7, DecideStep
<1>9. Cells'
  BY <1>1 DEF IInv, Cells
<1>10. ValidInv' /\ SortedInv'
  BY <1>1, <1>6, <1>8 DEF IInv, ValidInv, SortedInv
<1> QED BY <1>1, <1>9, <1>10 DEF IInv, RawInv, IntsInv, DoneInv

\* The end of the third pass.
LEMMA SortedEndIInv == IInv /\ SortedEnd => IInv'
<1> SUFFICES ASSUME IInv, SortedEnd PROVE IInv'
  OBVIOUS
<1>0. /\ input \in Seq(Byte) /\ Len(input) <= SizeMax /\ Len(input) \in Nat
      /\ off \in 0 .. Len(input) /\ n \in Nat /\ res \in BOOLEAN
  BY Facts
<1>1. /\ pc = "sorted" /\ ~(res /\ n > 0) /\ pc' = "done" /\ ret' = (IF res THEN len ELSE 0)
      /\ Decides(Strict(input), off, n, res) /\ len > 0
      /\ UNCHANGED <<input, off, n, res, len, key, tail, pairs>>
  BY DEF SortedEnd, LoopEnds, IInv, SortedInv, ValidInv, loopVars, keyVars
<1>2. ret' = DetLength(input)
  <2>1. CASE res
    <3>1. n = 0 /\ off = len
      BY <1>1, <2>1, PassDone
    <3>2. PICK yes \in BOOLEAN : yes = TRUE
      OBVIOUS
    <3>3. Strict(input) = Ends(input, yes, yes)
      BY <3>2 DEF Strict
    <3>4. Strict(input)[<<off, 0>>] = off
      BY <1>0, <3>3, NoneMissing
    <3>5. Strict(input)[<<0, 1>>] = len /\ len # Bad
      BY <1>1, <2>1, <3>1, <3>4 DEF Decides, Bad
    <3> QED BY <1>1, <2>1, <3>5, Lengths
  <2>2. CASE ~res
    <3>1. Strict(input)[<<0, 1>>] = Bad
      BY <1>1, <2>2 DEF Decides
    <3> QED BY <1>1, <2>2, <3>1, Lengths
  <2> QED BY <1>0, <2>1, <2>2
<1>3. Cells'
  BY <1>1 DEF IInv, Cells
<1>4. ValidInv' /\ DoneInv'
  BY <1>1, <1>2 DEF IInv, ValidInv, DoneInv
<1> QED BY <1>1, <1>3, <1>4 DEF IInv, RawInv, IntsInv, SortedInv

\* Every step of the validator keeps the invariant.
LEMMA NextIInv == IInv /\ [Next]_vars => IInv'
<1> SUFFICES ASSUME IInv, [Next]_vars PROVE IInv'
  OBVIOUS
<1>1. CASE RawPass
  BY <1>1, RawItemIInv, RawRejectIInv, RawEndIInv DEF RawPass
<1>2. CASE IntsPass
  BY <1>2, IntsIInv, IntsEndIInv DEF IntsPass
<1>3. CASE SortedPass
  BY <1>3, SortedItemIInv, KeysIInv, KeyBadIInv, SortedEndIInv DEF SortedPass
<1>4. CASE UNCHANGED vars
  BY <1>4 DEF vars, loopVars, keyVars, IInv, Cells, RawInv, ValidInv, IntsInv, SortedInv, DoneInv
<1> QED BY <1>1, <1>2, <1>3, <1>4 DEF Next

\* A buffer that fits a usize has no more pairs than an argument can count.
LEMMA CountsAreArguments == SizeMax \in Nat /\ \A x \in 0 .. SizeMax : x \in 0 .. Big64
<1>1. SizeMax \in Nat /\ SizeMax < Big64
  BY SMT, SizeAssumption DEF Big64, Big32
<1>2. Big64 \in Nat
  BY SMT DEF Big64, Big32
<1> QED BY SMT, <1>1, <1>2

\* What the invariant says of a state.
LEMMA IInvTypes == IInv => TypeOK
<1> SUFFICES ASSUME IInv PROVE TypeOK
  OBVIOUS
<1>1. /\ input \in Seq(Byte) /\ Len(input) <= SizeMax /\ Len(input) \in Nat /\ SizeMax \in Nat
      /\ off \in 0 .. SizeMax /\ n \in 0 .. SizeMax
  BY Facts
<1>2. ret \in {0, len}
  <2>1. CASE pc = "done"
    <3>1. len = ValidLength(input) /\ ret = DetLength(input)
      BY <2>1 DEF IInv, ValidInv, DoneInv
    <3> QED BY <1>1, <3>1, Lengths, Weakest
  <2>2. CASE pc # "done"
    BY <2>2 DEF IInv, Cells, RawInv, ValidInv
  <2> QED BY <2>1, <2>2
<1>3. pairs \in 0 .. Big64
  <2>1. pairs \in 0 .. SizeMax
    BY <1>1 DEF IInv, Cells
  <2> QED BY <2>1, CountsAreArguments
<1> QED BY <1>1, <1>2, <1>3 DEF IInv, Cells, TypeOK

\* What the runs check of the validator.
LEMMA IInvProperties ==
  IInv => /\ CountsStayInBuffer /\ PassesEndTogether /\ KeysStayInBuffer
          /\ RawPassDecidesValidity /\ ReturnsDetLength
<1> SUFFICES ASSUME IInv
             PROVE  /\ CountsStayInBuffer /\ PassesEndTogether /\ KeysStayInBuffer
                    /\ RawPassDecidesValidity /\ ReturnsDetLength
  OBVIOUS
<1>0. /\ input \in Seq(Byte) /\ Len(input) <= SizeMax /\ Len(input) \in Nat
      /\ off \in 0 .. Len(input) /\ n \in Nat /\ n \in 0 .. Len(input) + 1 /\ len \in 0 .. Len(input)
  BY Facts
<1>1. ASSUME pc \in {"ints", "sorted", "keys"}, n = 0 PROVE off = len
  <2>1. PICK no \in BOOLEAN : no = FALSE
    OBVIOUS
  <2>2. Weak(input) = Ends(input, no, no)
    BY <2>1 DEF Weak
  <2>3. Weak(input)[<<off, 0>>] = off
    BY <1>0, <2>2, NoneMissing
  <2>4. Weak(input)[<<off, n>>] = len
    BY <1>1 DEF IInv, ValidInv
  <2> QED BY <1>1, <2>3, <2>4
<1>2. ASSUME pc \in {"ints", "sorted", "keys"}
      PROVE  off + n <= len
  <2>1. CASE n = 0
    BY <1>0, <1>1, <1>2, <2>1
  <2>2. CASE n > 0
    BY <1>2, <2>2, LaterFacts
  <2> QED BY <1>0, <2>1, <2>2
<1>3. CountsStayInBuffer
  BY <1>0, <1>2, LaterFacts DEF CountsStayInBuffer
<1>4. PassesEndTogether
  BY <1>1 DEF PassesEndTogether
<1>5. KeysStayInBuffer
  <2>1. SUFFICES ASSUME pc = "keys"
                 PROVE  key[1] < key[2] /\ key[2] < tail /\ tail + 2 * pairs <= len
    BY DEF KeysStayInBuffer
  <2>2. n > 0 /\ OnKey(input, off, key, tail, pairs)
    BY <2>1 DEF IInv, SortedInv
  <2>3. Weak(input)[<<off, n>>] = len /\ Weak(input)[<<off, n>>] # Bad
    BY <2>1, <2>2, LaterFacts
  <2>4. key[1] < key[2] /\ key[2] < tail /\ tail + 2 * pairs <= Weak(input)[<<off, n>>]
    BY <1>0, <2>2, <2>3, OnKeyPlaces
  <2> QED BY <2>3, <2>4
<1>6. RawPassDecidesValidity
  BY DEF IInv, ValidInv, RawPassDecidesValidity
<1>7. ReturnsDetLength
  BY DEF IInv, DoneInv, ReturnsDetLength
<1> QED BY <1>3, <1>4, <1>5, <1>6, <1>7

-----------------------------------------------------------------------------
\* The cells of the three passes keep their types: no counter leaves a usize.
THEOREM ValidateTypeOK == Spec => []TypeOK
  BY InitIInv, NextIInv, IInvTypes, PTL DEF Spec

\* cbor_validate accepts exactly the byte strings that begin with an item of the
\* recursive grammar, and finds its end, with nothing but a count of the items
\* left: for every input, every depth of nesting and every width of usize.
THEOREM ValidateRawPassDecidesValidity == Spec => []RawPassDecidesValidity
  BY InitIInv, NextIInv, IInvProperties, PTL DEF Spec

\* cbor_validate_det returns the length of the deterministic item the input
\* begins with, and 0 if it begins with none.
THEOREM ValidateReturnsDetLength == Spec => []ReturnsDetLength
  BY InitIInv, NextIInv, IInvProperties, PTL DEF Spec

\* cbor_raw_sorted, which checks nothing, compares keys that are inside of the
\* item the first pass accepted, and every pair still to come is there.
THEOREM ValidateKeysStayInBuffer == Spec => []KeysStayInBuffer
  BY InitIInv, NextIInv, IInvProperties, PTL DEF Spec

\* No counter of the three passes wraps around and no pass reads or cuts
\* outside of the buffer, for every input and every width of usize.
THEOREM ValidateStaysInBuffer == Spec => []CountsStayInBuffer
  BY InitIInv, NextIInv, IInvProperties, PTL DEF Spec

\* The unchecked passes end exactly where the checked one did.
THEOREM ValidatePassesEndTogether == Spec => []PassesEndTogether
  BY InitIInv, NextIInv, IInvProperties, PTL DEF Spec

-----------------------------------------------------------------------------
(* The loops over bytes that the passes call: the comparison of keys *)

\* A byte string has a length and integers for its bytes.
LEMMA ByteStrings ==
  ASSUME NEW a \in Seq(Byte)
  PROVE  Len(a) \in Nat /\ \A j \in 1 .. Len(a) : a[j] \in Int
<1>1. \A j \in 1 .. Len(a) : a[j] \in Byte
  BY ElementOfSeq
<1>2. Len(a) \in Nat
  BY LenProperties
<1>3. \A x \in Byte : x \in Int
  BY DEF Byte
<1> QED BY <1>1, <1>2, <1>3

\* Two strings are never each less than the other.
LEMMA LexLessAsymmetric ==
  ASSUME NEW a \in Seq(Byte), NEW b \in Seq(Byte), LexLess(a, b)
  PROVE  ~LexLess(b, a)
BY LexTransitive, LexIrreflexive

\* The loop starts with the invariant.
LEMMA CompareStarts == CompareInit => ComparisonInv
<1> SUFFICES ASSUME CompareInit PROVE ComparisonInv
  OBVIOUS
<1>1. s1 \in Seq(Byte) /\ s2 \in Seq(Byte) /\ Len(s1) \in Nat /\ Len(s2) \in Nat
  BY StringsAssumption DEF CompareInit
<1>2. Len(s1) = 0 /\ Len(s2) > 0 => LexLess(s1, s2)
  BY <1>1 DEF LexLess
<1>3. Len(s2) = 0 /\ Len(s1) > 0 => LexLess(s2, s1)
  BY <1>1 DEF LexLess
<1> QED BY <1>1, <1>2, <1>3 DEF CompareInit, ComparisonInv, ComparisonTypeOK

\* Every step of the loop keeps it.
LEMMA CompareSteps == ComparisonInv /\ [CompareNext]_comparison => ComparisonInv'
<1> SUFFICES ASSUME ComparisonInv, [CompareNext]_comparison PROVE ComparisonInv'
  OBVIOUS
<1>0. /\ s1 \in Seq(Byte) /\ s2 \in Seq(Byte) /\ Len(s1) \in Nat /\ Len(s2) \in Nat
      /\ \A j \in 1 .. Len(s1) : s1[j] \in Int
      /\ \A j \in 1 .. Len(s2) : s2[j] \in Int
  BY StringsAssumption, ByteStrings DEF ComparisonInv, ComparisonTypeOK
<1>1. CASE Differ
  <2>1. /\ s1' = s1 /\ s2' = s2 /\ pi1' = pi1 /\ pi2' = pi2
        /\ pi1 < Len(s1) /\ pi2 < Len(s2) /\ pi1 = pi2
        /\ s1[pi1 + 1] # s2[pi2 + 1]
        /\ pres' = IF s1[pi1 + 1] < s2[pi2 + 1] THEN -1 ELSE 1
    BY <1>0, <1>1 DEF Differ, Comparing, Compared, ByteCompare, At, ComparisonInv, ComparisonTypeOK
  <2>2. s1[pi1 + 1] < s2[pi2 + 1] => LexLess(s1, s2)
    BY <1>0, <2>1 DEF LexLess, ComparisonInv, ComparisonTypeOK
  <2>3. s2[pi2 + 1] < s1[pi1 + 1] => LexLess(s2, s1)
    BY <1>0, <2>1 DEF LexLess, ComparisonInv, ComparisonTypeOK
  <2>4. s1[pi1 + 1] < s2[pi2 + 1] \/ s2[pi2 + 1] < s1[pi1 + 1]
    BY <1>0, <2>1 DEF ComparisonInv, ComparisonTypeOK
  <2> QED BY <2>1, <2>2, <2>3, <2>4 DEF ComparisonInv, ComparisonTypeOK
<1>2. CASE OneEnds
  <2>1. /\ s1' = s1 /\ s2' = s2 /\ pi1' = pi1 /\ pi2' = pi2
        /\ pi1 < Len(s1) /\ pi2 < Len(s2) /\ pi1 = pi2
        /\ s1[pi1 + 1] = s2[pi2 + 1]
        /\ (pi1 + 1 < Len(s1)) # (pi2 + 1 < Len(s2))
        /\ pres' = IF pi2 + 1 < Len(s2) THEN -1 ELSE 1
    BY <1>0, <1>2 DEF OneEnds, Comparing, Compared, ByteCompare, At, ComparisonInv, ComparisonTypeOK
  <2>2. pi2 + 1 < Len(s2) => LexLess(s1, s2)
    <3> SUFFICES ASSUME pi2 + 1 < Len(s2) PROVE LexLess(s1, s2)
      OBVIOUS
    <3>1. Len(s1) = pi1 + 1 /\ pi1 + 2 \in 1 .. Len(s2)
      BY <1>0, <2>1 DEF ComparisonInv, ComparisonTypeOK
    <3>2. \A j \in 1 .. (pi1 + 2) - 1 : s1[j] = s2[j]
      BY <1>0, <2>1, <3>1 DEF ComparisonInv, ComparisonTypeOK
    <3> QED BY <1>0, <2>1, <3>1, <3>2 DEF LexLess, ComparisonInv, ComparisonTypeOK
  <2>3. pi1 + 1 < Len(s1) => LexLess(s2, s1)
    <3> SUFFICES ASSUME pi1 + 1 < Len(s1) PROVE LexLess(s2, s1)
      OBVIOUS
    <3>1. Len(s2) = pi1 + 1 /\ pi1 + 2 \in 1 .. Len(s1)
      BY <1>0, <2>1 DEF ComparisonInv, ComparisonTypeOK
    <3>2. \A j \in 1 .. (pi1 + 2) - 1 : s2[j] = s1[j]
      BY <1>0, <2>1, <3>1 DEF ComparisonInv, ComparisonTypeOK
    <3> QED BY <1>0, <2>1, <3>1, <3>2 DEF LexLess, ComparisonInv, ComparisonTypeOK
  <2> QED BY <2>1, <2>2, <2>3 DEF ComparisonInv, ComparisonTypeOK
<1>3. CASE NextByte
  <2>1. /\ s1' = s1 /\ s2' = s2 /\ pres' = pres /\ pres = 0
        /\ pi1' = pi1 + 1 /\ pi2' = pi2 + 1
        /\ pi1 < Len(s1) /\ pi2 < Len(s2) /\ pi1 = pi2
        /\ s1[pi1 + 1] = s2[pi2 + 1]
        /\ (pi1 + 1 < Len(s1)) = (pi2 + 1 < Len(s2))
    BY <1>0, <1>3 DEF NextByte, Comparing, Compared, ByteCompare, At, ComparisonInv, ComparisonTypeOK
  <2>2. \A j \in 1 .. pi1 + 1 : s1[j] = s2[j]
    BY <1>0, <2>1 DEF ComparisonInv, ComparisonTypeOK
  <2> QED BY <1>0, <2>1, <2>2 DEF ComparisonInv, ComparisonTypeOK
<1>4. CASE UNCHANGED comparison
  BY <1>4 DEF comparison, ComparisonInv, ComparisonTypeOK
<1> QED BY <1>1, <1>2, <1>3, <1>4 DEF CompareNext

\* While the loop runs, both indices are inside of their slices.
LEMMA CompareReads == ComparisonInv => ReadsInBounds
  BY DEF ComparisonInv, ComparisonTypeOK, ReadsInBounds, Comparing

\* What the loop has found when it ends is the order of the strings.
LEMMA CompareResult == ComparisonInv => ResultIsLexOrder
<1> SUFFICES ASSUME ComparisonInv, ~Comparing PROVE pres = LexCompare(s1, s2)
  BY DEF ResultIsLexOrder
<1>0. /\ s1 \in Seq(Byte) /\ s2 \in Seq(Byte) /\ Len(s1) \in Nat /\ Len(s2) \in Nat
      /\ \A j \in 1 .. Len(s1) : s1[j] \in Int
      /\ \A j \in 1 .. Len(s2) : s2[j] \in Int
  BY StringsAssumption, ByteStrings DEF ComparisonInv, ComparisonTypeOK
<1>1. CASE pres = -1
  BY <1>1 DEF ComparisonInv, LexCompare
<1>2. CASE pres = 1
  <2>1. LexLess(s2, s1)
    BY <1>2 DEF ComparisonInv
  <2>2. ~LexLess(s1, s2)
    BY <1>0, <2>1, LexLessAsymmetric
  <2> QED BY <1>2, <2>1, <2>2 DEF LexCompare
<1>3. CASE pres = 0
  <2>1. pi1 = Len(s1) /\ pi1 = Len(s2)
    BY <1>0, <1>3 DEF ComparisonInv, ComparisonTypeOK, Comparing
  <2>2. \A j \in 1 .. Len(s1) : s1[j] = s2[j]
    BY <2>1 DEF ComparisonInv
  <2>3. ~LexLess(s1, s2) /\ ~LexLess(s2, s1)
    BY <1>0, <2>1, <2>2 DEF LexLess
  <2> QED BY <1>3, <2>3 DEF LexCompare
<1> QED BY <1>1, <1>2, <1>3 DEF ComparisonInv, ComparisonTypeOK

\* lex_compare_bytes returns the lexicographic order of its two slices, for
\* slices of any length and content.
THEOREM LexCompareCorrect == CompareSpec => []ResultIsLexOrder
  BY CompareStarts, CompareSteps, CompareResult, PTL DEF CompareSpec

\* It never indexes the second slice out of bounds.
THEOREM LexCompareInBounds == CompareSpec => []ReadsInBounds
  BY CompareStarts, CompareSteps, CompareReads, PTL DEF CompareSpec

-----------------------------------------------------------------------------
(* The scan *)

\* A scalar value that takes as many bytes as one of at least first does.
Spells(v, first) == v >= first /\ v <= 1114111 /\ v \notin 55296 .. 57343

\* The characters of one to four bytes, by what IsCharacter asks of each byte
\* and of the bits that they spell.
OneByteCharacter(x) == x \in 0 .. 127 /\ Spells(x, 0)
TwoByteCharacter(x, y) ==
  /\ x \in 192 .. 223 /\ y \in 128 .. 191
  /\ Spells(64 * (x - 192) + (y - 128), 128)
ThreeByteCharacter(x, y, z) ==
  /\ x \in 224 .. 239 /\ y \in 128 .. 191 /\ z \in 128 .. 191
  /\ Spells(4096 * (x - 224) + 64 * (y - 128) + (z - 128), 2048)
FourByteCharacter(x, y, z, w) ==
  /\ x \in 240 .. 247 /\ y \in 128 .. 191 /\ z \in 128 .. 191 /\ w \in 128 .. 191
  /\ Spells(262144 * (x - 240) + 4096 * (y - 128) + 64 * (z - 128) + (w - 128), 65536)

\* What ThreeBytes and FourBytes test, of the bytes themselves.
ThreeByteTest(x, y, z) ==
  /\ Continuation(z)
  /\ \/ x = 224 /\ Within(y, 160, 191)
     \/ x = 237 /\ Within(y, 128, 159)
     \/ x \notin {224, 237} /\ Within(x, 225, 239) /\ Continuation(y)

FourByteTest(x, y, z, w) ==
  /\ Continuation(z) /\ Continuation(w)
  /\ \/ x = 240 /\ Within(y, 144, 191)
     \/ Within(x, 241, 243) /\ Continuation(y)
     \/ x = 244 /\ Within(y, 128, 143)

\* A sequence of one to four bytes is a character if its bytes are one.
LEMMA CharacterBytes ==
  ASSUME NEW b
  PROVE  /\ Len(b) = 1 => (IsCharacter(b) <=> OneByteCharacter(b[1]))
         /\ Len(b) = 2 => (IsCharacter(b) <=> TwoByteCharacter(b[1], b[2]))
         /\ Len(b) = 3 => (IsCharacter(b) <=> ThreeByteCharacter(b[1], b[2], b[3]))
         /\ Len(b) = 4 => (IsCharacter(b) <=> FourByteCharacter(b[1], b[2], b[3], b[4]))
<1>1. CASE Len(b) = 1
  <2>1. IsCharacter(b) <=> b[1] \in 0 .. 127 /\ Spells(Scalar(b), 0)
    BY <1>1, SMTT(40) DEF IsCharacter, Spells
  <2>2. Scalar(b) = b[1]
    BY <1>1, SMT DEF Scalar
  <2> QED BY <1>1, <2>1, <2>2, SMT DEF OneByteCharacter
<1>2. CASE Len(b) = 2
  <2>1. IsCharacter(b) <=> /\ b[1] \in 192 .. 223 /\ \A j \in 2 .. 2 : b[j] \in 128 .. 191
                           /\ Spells(Scalar(b), 128)
    BY <1>2, SMTT(40) DEF IsCharacter, Spells
  <2>2. Scalar(b) = 64 * (b[1] - 192) + (b[2] - 128)
    BY <1>2, SMT DEF Scalar
  <2>3. (\A j \in 2 .. 2 : b[j] \in 128 .. 191) <=> b[2] \in 128 .. 191
    BY SMT
  <2> QED BY <1>2, <2>1, <2>2, <2>3, SMT DEF TwoByteCharacter
<1>3. CASE Len(b) = 3
  <2>1. IsCharacter(b) <=> /\ b[1] \in 224 .. 239 /\ \A j \in 2 .. 3 : b[j] \in 128 .. 191
                           /\ Spells(Scalar(b), 2048)
    BY <1>3, SMTT(40) DEF IsCharacter, Spells
  <2>2. Scalar(b) = 4096 * (b[1] - 224) + 64 * (b[2] - 128) + (b[3] - 128)
    BY <1>3, SMT DEF Scalar
  <2>3. (\A j \in 2 .. 3 : b[j] \in 128 .. 191) <=> b[2] \in 128 .. 191 /\ b[3] \in 128 .. 191
    BY SMT
  <2> QED BY <1>3, <2>1, <2>2, <2>3, SMT DEF ThreeByteCharacter
<1>4. CASE Len(b) = 4
  <2>1. IsCharacter(b) <=> /\ b[1] \in 240 .. 247 /\ \A j \in 2 .. 4 : b[j] \in 128 .. 191
                           /\ Spells(Scalar(b), 65536)
    BY <1>4, SMTT(40) DEF IsCharacter, Spells
  <2>2. Scalar(b) = 262144 * (b[1] - 240) + 4096 * (b[2] - 128) + 64 * (b[3] - 128) + (b[4] - 128)
    BY <1>4, SMT DEF Scalar
  <2>3. (\A j \in 2 .. 4 : b[j] \in 128 .. 191)
          <=> b[2] \in 128 .. 191 /\ b[3] \in 128 .. 191 /\ b[4] \in 128 .. 191
    BY SMT
  <2> QED BY <1>4, <2>1, <2>2, <2>3, SMT DEF FourByteCharacter
<1>5. Len(b) = 1 => ~(Len(b) = 2) /\ ~(Len(b) = 3) /\ ~(Len(b) = 4)
  BY SMT
<1> QED BY <1>1, <1>2, <1>3, <1>4, SMT

\* Of one byte, the scalar value is the byte; of two, the bits reach 80 from the
\* lead C2 on.
LEMMA ShortCharacters ==
  ASSUME NEW x \in Nat, NEW y \in Nat
  PROVE  /\ OneByteCharacter(x) <=> x <= 127
         /\ TwoByteCharacter(x, y) <=> Within(x, 194, 223) /\ Continuation(y)
BY SMTT(40) DEF OneByteCharacter, TwoByteCharacter, Spells, Within, Continuation

\* Of three bytes the bits reach 800 from E0 A0 on, and ED A0 to ED BF are the
\* surrogates.
LEMMA ThreeByteCharacters ==
  ASSUME NEW x \in Nat, NEW y \in Nat, NEW z \in Nat
  PROVE  ThreeByteCharacter(x, y, z) <=> ThreeByteTest(x, y, z)
<1>1. CASE x = 224
  BY <1>1, SMTT(40) DEF ThreeByteCharacter, ThreeByteTest, Spells, Within, Continuation
<1>2. CASE x = 237
  BY <1>2, SMTT(40) DEF ThreeByteCharacter, ThreeByteTest, Spells, Within, Continuation
<1>3. CASE x # 224 /\ x # 237
  BY <1>3, SMTT(40) DEF ThreeByteCharacter, ThreeByteTest, Spells, Within, Continuation
<1> QED BY <1>1, <1>2, <1>3, SMT

\* Of four bytes the bits reach 10000 from F0 90 on and 10FFFF at F4 8F.
LEMMA FourByteCharacters ==
  ASSUME NEW x \in Nat, NEW y \in Nat, NEW z \in Nat, NEW w \in Nat
  PROVE  FourByteCharacter(x, y, z, w) <=> FourByteTest(x, y, z, w)
<1>1. CASE x = 240
  BY <1>1, SMTT(40) DEF FourByteCharacter, FourByteTest, Spells, Within, Continuation
<1>2. CASE x \in 241 .. 243
  BY <1>2, SMTT(40) DEF FourByteCharacter, FourByteTest, Spells, Within, Continuation
<1>3. CASE x = 244
  BY <1>3, SMTT(40) DEF FourByteCharacter, FourByteTest, Spells, Within, Continuation
<1>4. CASE x \notin 240 .. 244
  BY <1>4, SMTT(40) DEF FourByteCharacter, FourByteTest, Spells, Within, Continuation
<1> QED BY <1>1, <1>2, <1>3, <1>4, SMT

\* The part of a byte string behind i is its bytes from there on.
LEMMA PartBytes ==
  ASSUME NEW b \in Seq(Byte), NEW i \in Nat, NEW k \in Nat, i + k <= Len(b)
  PROVE  /\ Len(Slice(b, i, i + k)) = k
         /\ \A j \in 1 .. k : Slice(b, i, i + k)[j] = b[i + j] /\ b[i + j] \in Nat
<1>1. Len(b) \in Nat
  BY LenProperties
<1>2. PICK m, w \in Int : m = i + 1 /\ w = i + k
  OBVIOUS
<1>3. Slice(b, i, i + k) = SubSeq(b, m, w) /\ m \in 1 .. Len(b) + 1 /\ w \in m - 1 .. Len(b)
  BY <1>1, <1>2 DEF Slice
<1>4. /\ Len(SubSeq(b, m, w)) = IF m <= w THEN w - m + 1 ELSE 0
      /\ \A j \in 1 .. w - m + 1 : SubSeq(b, m, w)[j] = b[m + j - 1]
  BY <1>3, SubSeqProperties, SMTT(40)
<1>5. w - m + 1 = k /\ (~(m <= w) => k = 0)
  BY <1>2
<1>6. ASSUME NEW j \in 1 .. k PROVE m + j - 1 = i + j /\ b[i + j] \in Nat
  <2>1. i + j \in 1 .. Len(b)
    BY <1>1
  <2>2. b[i + j] \in Byte
    BY <2>1, ElementOfSeq
  <2>3. Byte \subseteq Nat
    BY SMT DEF Byte
  <2>4. m + j - 1 = i + j
    BY <1>2
  <2> QED BY <2>2, <2>3, <2>4, Zenon
<1>7. \A j \in 1 .. k : SubSeq(b, m, w)[j] = b[m + j - 1]
  BY <1>4, <1>5
<1>8. \A j \in 1 .. k : SubSeq(b, m, w)[j] = b[i + j]
  BY <1>6, <1>7
<1>9. Len(SubSeq(b, m, w)) = k
  BY <1>4, <1>5
<1> QED BY <1>3, <1>6, <1>8, <1>9

\* What the code looks at, by the number of bytes it goes on.
LEMMA NextBytes ==
  ASSUME NEW b \in Seq(Byte), NEW i \in Nat, i < Len(b)
  PROVE  /\ Utf8Next(b, i) = i + 1 <=> At(b, i) <= 127
         /\ Utf8Next(b, i) = i + 2 <=> i + 2 <= Len(b) /\ TwoBytes(b, i)
         /\ Utf8Next(b, i) = i + 3 <=> i + 3 <= Len(b) /\ ThreeBytes(b, i)
         /\ Utf8Next(b, i) = i + 4 <=> i + 4 <= Len(b) /\ FourBytes(b, i)
         /\ Utf8Next(b, i) # i => \E k \in 1 .. 4 : Utf8Next(b, i) = i + k
<1>1. Len(b) \in Nat /\ At(b, i) \in Nat
  BY ByteElements
<1>2. TwoBytes(b, i) => At(b, i) >= 194 /\ At(b, i) <= 223
  BY DEF TwoBytes, Within
<1>3. ThreeBytes(b, i) => At(b, i) >= 224 /\ At(b, i) <= 239
  BY <1>1 DEF ThreeBytes, Within
<1>4. FourBytes(b, i) => At(b, i) >= 240 /\ At(b, i) <= 244
  BY <1>1 DEF FourBytes, Within
<1>5. PICK w : w = Utf8Next(b, i)
  OBVIOUS
<1>6. w = IF At(b, i) <= 127 THEN i + 1
          ELSE IF i + 2 <= Len(b) /\ TwoBytes(b, i) THEN i + 2
          ELSE IF i + 3 <= Len(b) /\ ThreeBytes(b, i) THEN i + 3
          ELSE IF i + 4 <= Len(b) /\ FourBytes(b, i) THEN i + 4
          ELSE i
  BY <1>1, <1>5, SMT DEF Utf8Next
<1>7. w = i \/ \E k \in 1 .. 4 : w = i + k
  BY <1>6, SMT
<1> QED BY <1>1, <1>2, <1>3, <1>4, <1>5, <1>6, <1>7, SMTT(40)

\* The code goes on by k bytes where the k bytes there are a character.
LEMMA NextIsCharacter ==
  ASSUME NEW b \in Seq(Byte), NEW i \in Nat, NEW k \in 1 .. 4, i + k <= Len(b)
  PROVE  IsCharacter(Slice(b, i, i + k)) <=> Utf8Next(b, i) = i + k
<1>1. Len(b) \in Nat /\ i < Len(b)
  BY LenProperties, SMT
<1>2. PICK c : c = Slice(b, i, i + k)
  OBVIOUS
<1>3. Len(c) = k /\ \A j \in 1 .. k : c[j] = b[i + j] /\ b[i + j] \in Nat
  BY <1>2, PartBytes, SMT
<1>4. CASE k = 1
  <2>1. c[1] = At(b, i) /\ At(b, i) \in Nat
    BY <1>3, <1>4, SMT DEF At
  <2>2. IsCharacter(c) <=> At(b, i) <= 127
    BY <1>3, <1>4, <2>1, CharacterBytes, ShortCharacters, SMT
  <2> QED BY <1>1, <1>2, <1>4, <2>2, NextBytes, SMT
<1>5. CASE k = 2
  <2>1. /\ c[1] = At(b, i) /\ At(b, i) \in Nat
        /\ c[2] = At(b, i + 1) /\ At(b, i + 1) \in Nat
    BY <1>3, <1>5, SMT DEF At
  <2>2. IsCharacter(c) <=> TwoByteCharacter(c[1], c[2])
    BY <1>3, <1>5, CharacterBytes, SMT
  <2>3. IsCharacter(c) <=> TwoBytes(b, i)
    BY <2>1, <2>2, ShortCharacters, SMT DEF TwoBytes
  <2> QED BY <1>1, <1>2, <1>5, <2>3, NextBytes, SMT
<1>6. CASE k = 3
  <2>1. /\ c[1] = At(b, i) /\ At(b, i) \in Nat
        /\ c[2] = At(b, i + 1) /\ At(b, i + 1) \in Nat
        /\ c[3] = At(b, i + 2) /\ At(b, i + 2) \in Nat
    BY <1>3, <1>6, SMT DEF At
  <2>2. IsCharacter(c) <=> ThreeByteCharacter(c[1], c[2], c[3])
    BY <1>3, <1>6, CharacterBytes, SMT
  <2>3. ThreeBytes(b, i) <=> ThreeByteTest(At(b, i), At(b, i + 1), At(b, i + 2))
    BY DEF ThreeBytes, ThreeByteTest
  <2>4. ThreeByteCharacter(At(b, i), At(b, i + 1), At(b, i + 2))
          <=> ThreeByteTest(At(b, i), At(b, i + 1), At(b, i + 2))
    BY <2>1, ThreeByteCharacters, Zenon
  <2>5. IsCharacter(c) <=> ThreeBytes(b, i)
    BY <2>1, <2>2, <2>3, <2>4, SMT
  <2> QED BY <1>1, <1>2, <1>6, <2>5, NextBytes, SMT
<1>7. CASE k = 4
  <2>1. /\ c[1] = At(b, i) /\ At(b, i) \in Nat
        /\ c[2] = At(b, i + 1) /\ At(b, i + 1) \in Nat
        /\ c[3] = At(b, i + 2) /\ At(b, i + 2) \in Nat
        /\ c[4] = At(b, i + 3) /\ At(b, i + 3) \in Nat
    BY <1>3, <1>7, SMT DEF At
  <2>2. IsCharacter(c) <=> FourByteCharacter(c[1], c[2], c[3], c[4])
    BY <1>3, <1>7, CharacterBytes, SMT
  <2>3. FourBytes(b, i) <=> FourByteTest(At(b, i), At(b, i + 1), At(b, i + 2), At(b, i + 3))
    BY DEF FourBytes, FourByteTest
  <2>4. FourByteCharacter(At(b, i), At(b, i + 1), At(b, i + 2), At(b, i + 3))
          <=> FourByteTest(At(b, i), At(b, i + 1), At(b, i + 2), At(b, i + 3))
    BY <2>1, FourByteCharacters, Zenon
  <2>5. IsCharacter(c) <=> FourBytes(b, i)
    BY <2>1, <2>2, <2>3, <2>4, SMT
  <2> QED BY <1>1, <1>2, <1>7, <2>5, NextBytes, SMT
<1> QED BY <1>4, <1>5, <1>6, <1>7, SMT
-----------------------------------------------------------------------------
(* The recursive definitions *)

\* A function on the offsets 0 .. w that is given by its values at later
\* offsets exists.  R says which ones each is given by.
LEMMA ForwardFunction ==
  ASSUME NEW w \in Nat, NEW R, \A i, j \in 0 .. w : <<i, j>> \in R => i < j
  PROVE  \E f : f = [i \in 0 .. w |-> i = w \/ \E j \in 0 .. w : <<i, j>> \in R /\ f[j]]
<1> DEFINE Body(f, i) == i = w \/ \E j \in 0 .. w : <<i, j>> \in R /\ f[j]
           Good(f, k) == \A i \in 0 .. w : w - i <= k => f[i] = Body(f, i)
           S == {k \in Nat : \E f : f = [i \in 0 .. w |-> f[i]] /\ Good(f, k)}
<1>1. 0 \in S
  <2> DEFINE f == [i \in 0 .. w |-> TRUE]
  <2>1. \A i \in 0 .. w : w - i <= 0 => i = w
    OBVIOUS
  <2>2. Good(f, 0)
    BY <2>1
  <2>3. f = [i \in 0 .. w |-> f[i]]
    OBVIOUS
  <2> HIDE DEF Good, f
  <2> QED BY <2>2, <2>3
<1>2. ASSUME NEW k \in S PROVE k + 1 \in S
  <2>1. PICK f : f = [i \in 0 .. w |-> f[i]] /\ Good(f, k)
    BY <1>2
  <2> DEFINE g == [i \in 0 .. w |-> Body(f, i)]
  <2>2. ASSUME NEW i \in 0 .. w, w - i <= k + 1 PROVE g[i] = Body(g, i)
    <3>1. ASSUME NEW j \in 0 .. w, <<i, j>> \in R PROVE f[j] = g[j]
      <4>1. i < j
        BY <3>1
      <4>2. k \in Nat
        BY <1>2
      <4>3. w - j <= k
        BY <2>2, <4>1, <4>2
      <4>4. f[j] = Body(f, j)
        BY <2>1, <4>3
      <4> QED BY <4>4
    <3>2. Body(f, i) = Body(g, i)
      <4> HIDE DEF g
      <4> QED BY <3>1
    <3>3. g[i] = Body(f, i)
      OBVIOUS
    <3> HIDE DEF g, Body
    <3> QED BY <3>2, <3>3
  <2>3. g = [i \in 0 .. w |-> g[i]]
    OBVIOUS
  <2>4. Good(g, k + 1)
    BY <2>2
  <2>5. k + 1 \in Nat
    BY <1>2
  <2> HIDE DEF Good, g
  <2> QED BY <2>3, <2>4, <2>5
<1>3. S = Nat
  <2> HIDE DEF S
  <2>1. S \subseteq Nat BY DEF S
  <2> QED BY <1>1, <1>2, <2>1, Induction
<1>4. PICK f : f = [i \in 0 .. w |-> f[i]] /\ Good(f, w)
  BY <1>3
<1>5. ASSUME NEW i \in 0 .. w PROVE f[i] = Body(f, i)
  <2>1. w - i <= w
    OBVIOUS
  <2> HIDE DEF Body
  <2> QED BY <1>4, <2>1
<1>6. f = [i \in 0 .. w |-> Body(f, i)]
  <2> HIDE DEF Body, Good
  <2> QED BY <1>4, <1>5
<1> QED BY <1>6

\* f tells of every offset of b whether the scan gets from there to the end.
GetsThrough(f, b) ==
  \A i \in 0 .. Len(b) :
    f[i] <=> i = Len(b) \/ (Utf8Next(b, i) # i /\ f[Utf8Next(b, i)])

\* Where the scan goes on in b.
LEMMA NextInside ==
  ASSUME NEW b \in Seq(Byte), NEW i \in 0 .. Len(b), i # Len(b), Utf8Next(b, i) # i
  PROVE  Utf8Next(b, i) \in 0 .. Len(b) /\ i < Utf8Next(b, i)
<1>1. Len(b) \in Nat /\ i \in Nat /\ i < Len(b)
  BY LenProperties
<1>2. PICK k \in 1 .. 4 : Utf8Next(b, i) = i + k
  BY <1>1, NextBytes
<1>3. i + k <= Len(b)
  BY <1>1, <1>2, NextBytes, SMT
<1> QED BY <1>1, <1>2, <1>3

\* Utf8Correct is such a function.
LEMMA Utf8CorrectScans ==
  ASSUME NEW b \in Seq(Byte)
  PROVE  \E f : GetsThrough(f, b) /\ (Utf8Correct(b) <=> f[0])
<1> DEFINE w == Len(b)
           R == {p \in (0 .. w) \X (0 .. w) :
                   p[1] # w /\ Utf8Next(b, p[1]) # p[1] /\ p[2] = Utf8Next(b, p[1])}
           F(f) == [i \in 0 .. w |-> i = w \/ (Utf8Next(b, i) # i /\ f[Utf8Next(b, i)])]
<1>1. w \in Nat
  BY LenProperties
<1>2. \A i, j \in 0 .. w : <<i, j>> \in R <=> i # w /\ Utf8Next(b, i) # i /\ j = Utf8Next(b, i)
  OBVIOUS
<1>3. \A i, j \in 0 .. w : <<i, j>> \in R => i < j
  BY <1>2, NextInside
<1>4. \E f : f = F(f)
  <2>1. PICK f : f = [i \in 0 .. w |-> i = w \/ \E j \in 0 .. w : <<i, j>> \in R /\ f[j]]
    <3> HIDE DEF w, R
    <3> QED BY <1>1, <1>3, ForwardFunction
  <2>2. ASSUME NEW i \in 0 .. w
        PROVE  (i = w \/ \E j \in 0 .. w : <<i, j>> \in R /\ f[j])
                 <=> (i = w \/ (Utf8Next(b, i) # i /\ f[Utf8Next(b, i)]))
    <3>1. i # w /\ Utf8Next(b, i) # i => Utf8Next(b, i) \in 0 .. w
      BY NextInside
    <3> HIDE DEF w, R
    <3> QED BY <1>2, <3>1
  <2> HIDE DEF w, R
  <2>3. f = F(f)
    BY <2>1, <2>2
  <2> QED BY <2>3
<1> DEFINE h == CHOOSE f : f = F(f)
<1>5. h = F(h)
  <2> HIDE DEF F
  <2> QED BY <1>4
<1>6. Utf8Correct(b) <=> h[0]
  BY DEF Utf8Correct
<1> HIDE DEF h
<1>7. GetsThrough(h, b)
  BY <1>5 DEF GetsThrough
<1> QED BY <1>6, <1>7

\* And so is WellFormed, although it looks for characters.
LEMMA WellFormedScans ==
  ASSUME NEW b \in Seq(Byte)
  PROVE  \E f : GetsThrough(f, b) /\ (WellFormed(b) <=> f[0])
<1> DEFINE w == Len(b)
           Char(i, k) == i + k <= w /\ IsCharacter(Slice(b, i, i + k))
           R == {p \in (0 .. w) \X (0 .. w) : \E k \in 1 .. 4 : p[2] = p[1] + k /\ Char(p[1], k)}
           F(f) == [i \in 0 .. w |->
                      \/ i = w
                      \/ \E k \in 1 .. 4 :
                           i + k <= Len(b) /\ IsCharacter(Slice(b, i, i + k)) /\ f[i + k]]
<1>1. w \in Nat
  BY LenProperties
<1>2. \A i, j \in 0 .. w : <<i, j>> \in R <=> \E k \in 1 .. 4 : j = i + k /\ Char(i, k)
  OBVIOUS
<1>3. \A i, j \in 0 .. w : <<i, j>> \in R => i < j
  <2> HIDE DEF R, Char, w
  <2> QED BY <1>1, <1>2
<1>4. \E f : f = F(f)
  <2>1. PICK f : f = [i \in 0 .. w |-> i = w \/ \E j \in 0 .. w : <<i, j>> \in R /\ f[j]]
    <3> HIDE DEF w, R
    <3> QED BY <1>1, <1>3, ForwardFunction
  <2>2. ASSUME NEW i \in 0 .. w
        PROVE  (i = w \/ \E j \in 0 .. w : <<i, j>> \in R /\ f[j])
                 <=> (i = w \/ \E k \in 1 .. 4 : Char(i, k) /\ f[i + k])
    <3>1. \A k \in 1 .. 4 : Char(i, k) => i + k \in 0 .. w
      BY <1>1
    <3> HIDE DEF w, R, Char
    <3> QED BY <1>2, <3>1
  <2>3. f = [i \in 0 .. w |-> i = w \/ \E k \in 1 .. 4 : Char(i, k) /\ f[i + k]]
    <3> HIDE DEF w, R, Char
    <3> QED BY <2>1, <2>2
  <2>4. f = F(f)
    BY <2>3
  <2> QED BY <2>4
<1> DEFINE h == CHOOSE f : f = F(f)
<1>5. h = F(h)
  <2> HIDE DEF F
  <2> QED BY <1>4
<1>6. WellFormed(b) <=> h[0]
  BY DEF WellFormed
<1> HIDE DEF h
<1>7. ASSUME NEW i \in 0 .. w
      PROVE  h[i] <=> i = w \/ (Utf8Next(b, i) # i /\ h[Utf8Next(b, i)])
  <2>1. h[i] <=> i = w \/ \E k \in 1 .. 4 : Char(i, k) /\ h[i + k]
    BY <1>5
  <2>2. ASSUME NEW k \in 1 .. 4 PROVE Char(i, k) <=> i + k <= w /\ Utf8Next(b, i) = i + k
    BY NextIsCharacter
  <2>3. i # w /\ Utf8Next(b, i) # i => \E k \in 1 .. 4 : i + k <= w /\ Utf8Next(b, i) = i + k
    <3> SUFFICES ASSUME i # w, Utf8Next(b, i) # i
                 PROVE  \E k \in 1 .. 4 : i + k <= w /\ Utf8Next(b, i) = i + k
      OBVIOUS
    <3>1. i \in Nat /\ i < w
      BY <1>1
    <3>2. PICK k \in 1 .. 4 : Utf8Next(b, i) = i + k
      BY <3>1, NextBytes
    <3>3. Utf8Next(b, i) \in 0 .. w
      BY NextInside
    <3> QED BY <3>2, <3>3
  <2>4. \A k \in 1 .. 4 : i + k # i
    OBVIOUS
  <2>5. ~(\E k \in 1 .. 4 : w + k <= w)
    BY <1>1
  <2> HIDE DEF w, Char
  <2> QED BY <2>1, <2>2, <2>3, <2>4, <2>5, SMT
<1>8. GetsThrough(h, b)
  BY <1>7 DEF GetsThrough
<1> QED BY <1>6, <1>8

\* Two functions that tell it say the same.
LEMMA ScansAgree ==
  ASSUME NEW b \in Seq(Byte), NEW f, NEW g, GetsThrough(f, b), GetsThrough(g, b)
  PROVE  f[0] <=> g[0]
<1> DEFINE S == {k \in Nat : \A i \in 0 .. Len(b) : Len(b) - i <= k => (f[i] <=> g[i])}
<1>1. Len(b) \in Nat
  BY LenProperties
<1>2. 0 \in S
  <2>1. \A i \in 0 .. Len(b) : Len(b) - i <= 0 => i = Len(b)
    BY <1>1
  <2> QED BY <2>1 DEF GetsThrough
<1>3. ASSUME NEW k \in S PROVE k + 1 \in S
  <2>1. ASSUME NEW i \in 0 .. Len(b), Len(b) - i <= k + 1 PROVE f[i] <=> g[i]
    <3>1. CASE i = Len(b) \/ Utf8Next(b, i) = i
      BY <3>1 DEF GetsThrough
    <3>2. CASE i # Len(b) /\ Utf8Next(b, i) # i
      <4>1. PICK j \in 0 .. Len(b) : j = Utf8Next(b, i) /\ i < j
        BY <3>2, NextInside
      <4>2. Len(b) - j <= k
        BY <1>1, <1>3, <2>1, <4>1
      <4>3. f[j] <=> g[j]
        BY <1>3, <4>2
      <4> QED BY <3>2, <4>1, <4>3 DEF GetsThrough
    <3> QED BY <3>1, <3>2
  <2> QED BY <1>3, <2>1
<1>4. S = Nat
  <2> HIDE DEF S
  <2>1. S \subseteq Nat BY DEF S
  <2> QED BY <1>2, <1>3, <2>1, Induction
<1>5. Len(b) \in S
  BY <1>1, <1>4
<1> QED BY <1>1, <1>5

\* The two definitions of UTF-8 mean the same.
LEMMA CorrectIsWellFormed ==
  ASSUME NEW b \in Seq(Byte)
  PROVE  Utf8Correct(b) <=> WellFormed(b)
BY Utf8CorrectScans, WellFormedScans, ScansAgree

-----------------------------------------------------------------------------
(* The scan *)

\* Between two steps, the text is well-formed if and only if no fault has been
\* found and it is from the index on.
ScanInv ==
  /\ text \in Texts /\ pi \in 0 .. Len(text) /\ ok \in BOOLEAN
  /\ \A f : GetsThrough(f, text) => (f[0] <=> ok /\ f[pi])

\* What the scan has found when it ends.
ScanDecides ==
  ~Scanning => (ok <=> WellFormed(text)) /\ (ok <=> Utf8Correct(text))

\* It holds before the first character.
LEMMA ScanStarts == ScanInit => ScanInv
<1> SUFFICES ASSUME ScanInit PROVE ScanInv
  OBVIOUS
<1>1. text \in Texts /\ text \in Seq(Byte) /\ pi = 0 /\ ok = TRUE
  BY TextsAssumption DEF ScanInit
<1>2. Len(text) \in Nat
  BY <1>1, LenProperties
<1> QED BY <1>1, <1>2 DEF ScanInv

\* A character that is passed, or a fault that ends the scan, keeps it.
LEMMA ScanSteps == ScanInv /\ [ScanNext]_scan => ScanInv'
<1> SUFFICES ASSUME ScanInv, [ScanNext]_scan PROVE ScanInv'
  OBVIOUS
<1>1. text \in Seq(Byte) /\ Len(text) \in Nat
  BY TextsAssumption, LenProperties DEF ScanInv
<1>2. CASE Accept
  <2>1. /\ text' = text /\ ok' = ok /\ ok /\ pi \in 0 .. Len(text) /\ pi # Len(text)
        /\ Utf8Next(text, pi) # pi /\ pi' = Utf8Next(text, pi)
    BY <1>1, <1>2 DEF Accept, Scanning, ScanInv
  <2>2. pi' \in 0 .. Len(text)
    BY <1>1, <2>1, NextInside
  <2>3. \A f : GetsThrough(f, text) => (f[pi] <=> f[pi'])
    BY <2>1 DEF GetsThrough
  <2> QED BY <2>1, <2>2, <2>3 DEF ScanInv
<1>3. CASE Reject
  <2>1. /\ text' = text /\ pi' = pi /\ ok' = FALSE /\ pi \in 0 .. Len(text) /\ pi # Len(text)
        /\ Utf8Next(text, pi) = pi
    BY <1>1, <1>3 DEF Reject, Scanning, ScanInv
  <2>2. \A f : GetsThrough(f, text) => ~f[pi]
    BY <2>1 DEF GetsThrough
  <2> QED BY <2>1, <2>2 DEF ScanInv
<1>4. CASE UNCHANGED scan
  BY <1>4 DEF scan, ScanInv
<1> QED BY <1>2, <1>3, <1>4 DEF ScanNext

\* A scan that has ended has found a fault or reached the end.
LEMMA ScanResult == ScanInv => ScanDecides
<1> SUFFICES ASSUME ScanInv, ~Scanning PROVE ok <=> Utf8Correct(text)
  <2>1. ScanInv => text \in Seq(Byte)
    BY TextsAssumption DEF ScanInv
  <2> QED BY <2>1, CorrectIsWellFormed DEF ScanDecides
<1>1. text \in Seq(Byte) /\ Len(text) \in Nat
  BY TextsAssumption, LenProperties DEF ScanInv
<1>2. PICK f : GetsThrough(f, text) /\ (Utf8Correct(text) <=> f[0])
  BY <1>1, Utf8CorrectScans
<1>3. f[0] <=> ok /\ f[pi]
  BY <1>2 DEF ScanInv
<1>4. ok => pi = Len(text)
  BY <1>1 DEF Scanning, ScanInv
<1>5. pi = Len(text) => f[pi]
  BY <1>1, <1>2 DEF GetsThrough
<1> QED BY <1>2, <1>3, <1>4, <1>5

\* impl_correct, for texts of any length and content, returns true exactly for
\* well-formed UTF-8, and so does the function that stands for it in the model
\* of the validator: the safety part of DecidesUtf8.
THEOREM Utf8ScanDecides == ScanSpec => []ScanDecides
  BY ScanStarts, ScanSteps, ScanResult, PTL DEF ScanSpec
=============================================================================
