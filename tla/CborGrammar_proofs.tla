-------------------------- MODULE CborGrammar_proofs --------------------------
(***************************************************************************)
(* The grammar of CborGrammar unfolded, for every byte sequence that fits a *)
(* usize: items end behind the bytes they need, items in a row add up, and  *)
(* to read an item is to read its header and payload and then, in the same  *)
(* row, the items its header announces.  The last is how a flat count of    *)
(* the items left decides what the recursive grammar says.                  *)
(***************************************************************************)
EXTENDS CborGrammar, SequenceTheorems, WellFoundedInduction, TLAPS

-----------------------------------------------------------------------------
\* A set of natural numbers has a least element.
LEMMA Least ==
  ASSUME NEW T, T \subseteq Nat, T # {}
  PROVE  \E x \in T : \A y \in T : x <= y
<1> DEFINE R == OpToRel(<, Nat)
<1>1. IsWellFoundedOn(R, Nat)
  BY NatLessThanWellFounded
<1>2. \A x, y \in Nat : y < x => <<y, x>> \in R
  BY DEF OpToRel
<1> HIDE DEF R
<1>3. \E x \in T : \A y \in T : ~ (<<y, x>> \in R)
  BY <1>1, WFMin
<1>4. PICK x \in T : \A y \in T : ~ (<<y, x>> \in R)
  BY <1>3
<1>5. \A y \in T : x <= y
  <2>1. SUFFICES ASSUME NEW y \in T PROVE x <= y
    OBVIOUS
  <2>2. x \in Nat /\ y \in Nat /\ ~(y < x)
    BY <1>2, <1>4
  <2> QED
    BY <2>2
<1> QED
  BY <1>5

\* A set that has 0, and with a number the next one, has them all.
LEMMA Induction ==
  ASSUME NEW S, S \subseteq Nat, 0 \in S, \A k \in S : k + 1 \in S
  PROVE S = Nat
<1> SUFFICES ASSUME S # Nat PROVE FALSE
  OBVIOUS
<1>1. PICK x \in Nat \ S : \A y \in Nat \ S : x <= y
  <2>1. Nat \ S \subseteq Nat /\ Nat \ S # {}
    OBVIOUS
  <2> QED
    BY <2>1, Least
<1>2. x # 0
  OBVIOUS
<1>3. x - 1 \in Nat /\ ~(x <= x - 1) /\ x - 1 + 1 = x
  BY <1>2
<1>4. x - 1 \in S
  BY <1>1, <1>3
<1> QED
  BY <1>3, <1>4

-----------------------------------------------------------------------------
\* What can be read of a byte sequence.
LEMMA ByteElements ==
  ASSUME NEW s \in Seq(Byte)
  PROVE  /\ Len(s) \in Nat
         /\ \A o \in 0 .. Len(s) - 1 : At(s, o) \in Nat /\ At(s, o) <= 255
<1>1. \A j \in 1 .. Len(s) : s[j] \in Byte
  BY ElementOfSeq
<1>2. Len(s) \in Nat
  BY LenProperties
<1>3. \A o \in 0 .. Len(s) - 1 : o + 1 \in 1 .. Len(s)
  BY <1>2
<1>4. \A x \in Byte : x \in Nat /\ x <= 255
  BY DEF Byte
<1>5. ASSUME NEW o \in 0 .. Len(s) - 1
      PROVE  At(s, o) \in Nat /\ At(s, o) <= 255
  <2>1. s[o + 1] \in Byte
    BY <1>1, <1>3
  <2> QED BY <1>4, <2>1 DEF At
<1> QED BY <1>2, <1>5

\* A number that fits a usize is not changed by the narrowing.
LEMMA SizeId ==
  ASSUME NEW x \in 0 .. SizeMax
  PROVE  Size(x) = x
  BY SizeAssumption DEF Size

\* The argument of a header that fits the buffer, by its additional information.
LEMMA ArgumentRange ==
  ASSUME NEW s \in Seq(Byte), NEW o \in 0 .. Len(s) - 1,
         NEW i, i = AdditionalInfo(s, o),
         o + 1 + LongArgumentLen(i) <= Len(s),
         NEW a, a = ReadHeader(s, o).arg
  PROVE  /\ i \in Nat /\ i <= 31 /\ a \in Nat
         /\ i \notin {24, 25, 26, 27} => a = i
         /\ i = 24 => a <= 255
         /\ i = 25 => a <= 65535
         /\ i = 26 => a <= Big32
         /\ i = 27 => a <= Big64
<1>0. Len(s) \in Nat /\ \A p \in 0 .. Len(s) - 1 : At(s, p) \in Nat /\ At(s, p) <= 255
  BY ByteElements
<1>1. i \in Nat /\ i <= 31
  <2>1. At(s, o) \in Nat
    BY <1>0
  <2> QED BY <2>1 DEF AdditionalInfo
<1>2. ASSUME NEW p \in 0 .. Len(s) - 2
      PROVE  /\ BE16(s, p) \in Nat /\ BE16(s, p) <= 65535
             /\ At(s, p) < 64 => BE16(s, p) <= 16383
  <2>1. p \in 0 .. Len(s) - 1 /\ p + 1 \in 0 .. Len(s) - 1
    BY <1>0
  <2>2. At(s, p) \in Nat /\ At(s, p) <= 255 /\ At(s, p + 1) \in Nat /\ At(s, p + 1) <= 255
    BY <1>0, <2>1
  <2> QED BY <2>2, SMTT(40) DEF BE16
<1>3. ASSUME NEW p \in 0 .. Len(s) - 4
      PROVE  BE32(s, p) \in Nat /\ BE32(s, p) <= Big32
  <2>1. p \in 0 .. Len(s) - 2 /\ p + 2 \in 0 .. Len(s) - 2 /\ p \in 0 .. Len(s) - 1
    BY <1>0
  <2>2. /\ BE16(s, p + 2) \in Nat /\ BE16(s, p + 2) <= 65535
        /\ BE16(s, p) \in Nat /\ At(s, p) \in Nat
        /\ At(s, p) < 64 => BE16(s, p) <= 16383
    BY <1>0, <1>2, <2>1
  <2> QED BY <2>2, SMTT(40) DEF BE32, Big32
<1>4. ASSUME NEW p \in 0 .. Len(s) - 8
      PROVE  BE64(s, p) \in Nat /\ BE64(s, p) <= Big64
  <2>1. p + 4 \in 0 .. Len(s) - 4
    BY <1>0
  <2>2. BE32(s, p + 4) \in Nat /\ BE32(s, p + 4) <= Big32
    BY <1>3, <2>1
  <2>3. BE64(s, p) = Big64 \/ BE64(s, p) = BE32(s, p + 4)
    BY DEF BE64
  <2> QED BY <2>2, <2>3 DEF Big64, Big32
<1>5. a = ArgumentAt(s, o, i)
  BY DEF ReadHeader
<1>6. i = 24 => a \in Nat /\ a <= 255
  <2> SUFFICES ASSUME i = 24 PROVE a \in Nat /\ a <= 255
    OBVIOUS
  <2>1. o + 1 \in 0 .. Len(s) - 1
    BY <1>0 DEF LongArgumentLen, Info8
  <2>2. a = At(s, o + 1)
    BY <1>5 DEF ArgumentAt, Info8
  <2> QED BY <1>0, <2>1, <2>2
<1>7. i = 25 => a \in Nat /\ a <= 65535
  <2> SUFFICES ASSUME i = 25 PROVE a \in Nat /\ a <= 65535
    OBVIOUS
  <2>1. o + 1 \in 0 .. Len(s) - 2
    BY <1>0 DEF LongArgumentLen, Info8, Info16
  <2>2. a = BE16(s, o + 1)
    BY <1>5 DEF ArgumentAt, Info8, Info16
  <2> QED BY <1>2, <2>1, <2>2
<1>8. i = 26 => a \in Nat /\ a <= Big32
  <2> SUFFICES ASSUME i = 26 PROVE a \in Nat /\ a <= Big32
    OBVIOUS
  <2>1. o + 1 \in 0 .. Len(s) - 4
    BY <1>0 DEF LongArgumentLen, Info8, Info16, Info32
  <2>2. a = BE32(s, o + 1)
    BY <1>5 DEF ArgumentAt, Info8, Info16, Info32
  <2> QED BY <1>3, <2>1, <2>2
<1>9. i = 27 => a \in Nat /\ a <= Big64
  <2> SUFFICES ASSUME i = 27 PROVE a \in Nat /\ a <= Big64
    OBVIOUS
  <2>1. o + 1 \in 0 .. Len(s) - 8
    BY <1>0 DEF LongArgumentLen, Info8, Info16, Info32, Info64
  <2>2. a = BE64(s, o + 1)
    BY <1>5 DEF ArgumentAt, Info8, Info16, Info32, Info64
  <2> QED BY <1>4, <2>1, <2>2
<1>10. i \notin {24, 25, 26, 27} => a = i
  BY <1>5 DEF ArgumentAt, Info8, Info16, Info32, Info64
<1> QED BY <1>1, <1>6, <1>7, <1>8, <1>9, <1>10

\* What validate_header accepts lies inside of the buffer, and jump_header
\* finds the same end.
LEMMA HeaderInBuffer ==
  ASSUME NEW s \in Seq(Byte), Len(s) <= SizeMax, NEW o \in 0 .. Len(s)
  PROVE  LET v == ValidateHeader(s, o)
         IN  /\ v.off \in o .. Len(s)
             /\ v.ok => /\ o < Len(s) /\ o < v.off
                        /\ v.off = JumpHeader(s, o)
                        /\ v.off = o + 1 + LongArgumentLen(AdditionalInfo(s, o))
<1> DEFINE k == LongArgumentLen(AdditionalInfo(s, o))
<1>0. Len(s) \in Nat /\ o \in Nat /\ SizeMax \in Nat
  BY LenProperties, SizeAssumption
<1>1. k \in {0, 1, 2, 4, 8}
  BY DEF LongArgumentLen
<1>2. Size(Len(s) - o) = Len(s) - o
  BY <1>0, SizeId
<1>3. CASE o = Len(s)
  BY <1>0, <1>2, <1>3 DEF ValidateHeader
<1>4. CASE o < Len(s)
  <2>1. Size(o + 1) = o + 1 /\ Size(Len(s) - (o + 1)) = Len(s) - (o + 1)
    BY <1>0, <1>4, SizeId
  <2>2. CASE Len(s) - (o + 1) < k
    BY <1>0, <1>1, <1>2, <1>4, <2>1, <2>2 DEF ValidateHeader
  <2>3. CASE Len(s) - (o + 1) >= k
    <3>1. Size(o + 1 + k) = o + 1 + k
      BY <1>0, <1>1, <1>4, <2>3, SizeId
    <3> QED BY <1>0, <1>1, <1>2, <1>4, <2>1, <2>3, <3>1 DEF ValidateHeader, JumpHeader
  <2> QED BY <1>0, <1>1, <2>2, <2>3
<1> QED BY <1>0, <1>3, <1>4

\* The same for a header with its string payload, and the argument is a number.
LEMMA LeafInBuffer ==
  ASSUME NEW s \in Seq(Byte), Len(s) <= SizeMax, NEW o \in 0 .. Len(s)
  PROVE  LET v == ValidateLeaf(s, o)
         IN  /\ v.off \in o .. Len(s)
             /\ v.ok => /\ o < Len(s) /\ o < v.off
                        /\ v.off = JumpLeaf(s, o)
                        /\ ReadHeader(s, o).arg \in Nat
<1> DEFINE v == ValidateHeader(s, o)
           h == ReadHeader(s, o)
<1>0. Len(s) \in Nat /\ o \in Nat /\ SizeMax \in Nat
  BY LenProperties, SizeAssumption
<1>1. v.off \in o .. Len(s)
  BY HeaderInBuffer
<1>2. v.ok => /\ o < Len(s) /\ o < v.off /\ v.off = JumpHeader(s, o)
              /\ v.off = o + 1 + LongArgumentLen(AdditionalInfo(s, o))
  BY HeaderInBuffer
<1>3. v.ok => h.arg \in Nat
  BY <1>0, <1>1, <1>2, ArgumentRange
<1>4. CASE ~v.ok
  BY <1>1, <1>4 DEF ValidateLeaf
<1>5. CASE v.ok /\ ~IsString(h)
  BY <1>1, <1>2, <1>3, <1>5 DEF ValidateLeaf, JumpLeaf
<1>6. CASE v.ok /\ IsString(h) /\ h.arg > Size(Len(s) - v.off)
  BY <1>0, <1>1, <1>6 DEF ValidateLeaf
<1>7. CASE v.ok /\ IsString(h) /\ ~(h.arg > Size(Len(s) - v.off))
  <2>1. Size(Len(s) - v.off) = Len(s) - v.off
    BY <1>0, <1>1, SizeId
  <2>2. h.arg \in 0 .. SizeMax /\ v.off + h.arg \in v.off .. Len(s)
    BY <1>0, <1>1, <1>3, <1>7, <2>1
  <2>3. Size(h.arg) = h.arg /\ Size(v.off + Size(h.arg)) = v.off + h.arg
    BY <1>0, <1>1, <2>2, SizeId
  <2>4. ValidateLeaf(s, o).off = v.off + h.arg
    BY <1>7, <2>3 DEF ValidateLeaf
  <2>5. JumpLeaf(s, o) = v.off + h.arg
    BY <1>2, <1>7, <2>3 DEF JumpLeaf
  <2> QED BY <1>0, <1>1, <1>2, <1>3, <1>7, <2>2, <2>4, <2>5
<1> QED BY <1>4, <1>5, <1>6, <1>7

-----------------------------------------------------------------------------
\* The grammar's shortest form is what the code calls optimal.
LEMMA ShortestIsOptimal ==
  ASSUME NEW i \in Nat, i <= 27, NEW a \in Nat,
         i \notin {24, 25, 26, 27} => a = i,
         i = 24 => a <= 255, i = 25 => a <= 65535, i = 26 => a <= Big32, i = 27 => a <= Big64
  PROVE  ShortestLen(a) = 1 + LongArgumentLen(i) <=> RawOptimal(RawSize(i), a)
<1>1. CASE i \notin {24, 25, 26, 27}
  <2>1. i <= 23 /\ a = i
    BY <1>1
  <2>2. LongArgumentLen(i) = 0 /\ RawSize(i) = 0
    BY <1>1 DEF LongArgumentLen, RawSize, Info8, Info16, Info32, Info64
  <2> QED BY <2>1, <2>2 DEF ShortestLen, RawOptimal, MaxInline
<1>2. CASE i = 24
  <2>1. LongArgumentLen(i) = 1 /\ RawSize(i) = 1
    BY <1>2 DEF LongArgumentLen, RawSize, Info8, Info16, Info32, Info64
  <2> QED BY <1>2, <2>1 DEF ShortestLen, RawOptimal, MaxInline
<1>3. CASE i = 25
  <2>1. LongArgumentLen(i) = 2 /\ RawSize(i) = 2
    BY <1>3 DEF LongArgumentLen, RawSize, Info8, Info16, Info32, Info64
  <2> QED BY <1>3, <2>1 DEF ShortestLen, RawOptimal, MaxInline
<1>4. CASE i = 26
  <2>1. LongArgumentLen(i) = 4 /\ RawSize(i) = 3
    BY <1>4 DEF LongArgumentLen, RawSize, Info8, Info16, Info32, Info64
  <2> QED BY <1>4, <2>1 DEF ShortestLen, RawOptimal, MaxInline
<1>5. CASE i = 27
  <2>1. LongArgumentLen(i) = 8 /\ RawSize(i) = 4
    BY <1>5 DEF LongArgumentLen, RawSize, Info8, Info16, Info32, Info64
  <2> QED BY <1>5, <2>1 DEF ShortestLen, RawOptimal, MaxInline, Big64, Big32
<1> QED BY <1>1, <1>2, <1>3, <1>4, <1>5

\* A header of the grammar is one that validate_header accepts, and where the
\* shortest form is asked for, one that cbor_raw_ints_optimal accepts.
LEMMA HeadAgrees ==
  ASSUME NEW s \in Seq(Byte), Len(s) <= SizeMax, NEW o \in 0 .. Len(s), NEW short \in BOOLEAN
  PROVE  HeadEnd(s, o, short) =
           IF ValidateHeader(s, o).ok /\ (short => IntsOptimal(ReadHeader(s, o)))
           THEN JumpHeader(s, o) ELSE Bad
<1> DEFINE i == AdditionalInfo(s, o)
           k == LongArgumentLen(i)
           h == ReadHeader(s, o)
<1>0. Len(s) \in Nat /\ o \in Nat /\ SizeMax \in Nat
  BY LenProperties, SizeAssumption
<1>1. Size(Len(s) - o) = Len(s) - o
  BY <1>0, SizeId
<1>2. CASE o = Len(s)
  <2>1. HeadEnd(s, o, short) = Bad
    BY <1>0, <1>2 DEF HeadEnd
  <2>2. ~ValidateHeader(s, o).ok
    BY <1>0, <1>1, <1>2 DEF ValidateHeader
  <2> QED BY <2>1, <2>2
<1>3. CASE o < Len(s)
  <2>0. Size(o + 1) = o + 1 /\ Size(Len(s) - (o + 1)) = Len(s) - (o + 1) /\ o \in 0 .. Len(s) - 1
    BY <1>0, <1>3, SizeId
  <2>1. k \in {0, 1, 2, 4, 8} /\ i \in Nat
    <3>1. At(s, o) \in Nat
      BY <2>0, ByteElements
    <3> QED BY <3>1 DEF LongArgumentLen, AdditionalInfo
  <2>2. CASE i > 27 \/ o + 1 + k > Len(s)
    <3>1. HeadEnd(s, o, short) = Bad
      BY <1>0, <1>3, <2>2 DEF HeadEnd
    <3>2. ~InitialByteOk(s, o) \/ ~(Size(Len(s) - Size(o + 1)) >= k)
      BY <1>0, <2>0, <2>1, <2>2 DEF InitialByteOk, InfoUnassigned
    <3>3. ~ValidateHeader(s, o).ok
      BY <3>2 DEF ValidateHeader
    <3> QED BY <3>1, <3>3
  <2>3. CASE i <= 27 /\ o + 1 + k <= Len(s)
    <3>1. JumpHeader(s, o) = o + 1 + k
      <4>1. o + 1 + k \in 0 .. SizeMax
        BY <1>0, <2>1, <2>3
      <4> QED BY <4>1, SizeId DEF JumpHeader
    <3>2. ValidateHeader(s, o).ok <=>
            /\ MajorType(s, o) = SimpleValue => i <= Info8
            /\ k = 1 /\ MajorType(s, o) = SimpleValue => At(s, o + 1) >= MinLongSimple
      <4>1. Size(Len(s) - o) >= 1 /\ Size(Len(s) - Size(o + 1)) >= k
        BY <1>0, <1>1, <1>3, <2>0, <2>1, <2>3
      <4>2. InitialByteOk(s, o) <=> (MajorType(s, o) = SimpleValue => i <= Info8)
        BY <2>1, <2>3 DEF InitialByteOk, InfoUnassigned
      <4> QED BY <2>0, <4>1, <4>2 DEF ValidateHeader
    <3>3. HeadEnd(s, o, short) =
            IF MajorType(s, o) = SimpleValue
            THEN IF i <= 23 \/ (i = 24 /\ At(s, o + 1) >= 32) THEN o + 1 + k ELSE Bad
            ELSE IF short /\ ShortestLen(h.arg) # o + 1 + k - o THEN Bad
            ELSE o + 1 + k
      BY <1>0, <1>3, <2>1, <2>3, SMTT(40) DEF HeadEnd
    <3>4. CASE MajorType(s, o) = SimpleValue
      <4>1. IntsOptimal(h)
        BY <3>4 DEF IntsOptimal, ReadHeader
      <4>2. k = 1 <=> i = 24
        BY DEF LongArgumentLen, Info8, Info16, Info32, Info64
      <4>3. ValidateHeader(s, o).ok <=> (i <= 23 \/ (i = 24 /\ At(s, o + 1) >= 32))
        BY <2>1, <3>2, <3>4, <4>2 DEF Info8, MinLongSimple
      <4> QED BY <3>1, <3>3, <3>4, <4>1, <4>3
    <3>5. CASE MajorType(s, o) # SimpleValue
      <4>1. ValidateHeader(s, o).ok
        BY <3>2, <3>5
      <4>2. ShortestLen(h.arg) = 1 + k <=> RawOptimal(RawSize(i), h.arg)
        <5>1. PICK j, a : j = i /\ a = h.arg
          OBVIOUS
        <5>2. /\ j \in Nat /\ a \in Nat
              /\ j \notin {24, 25, 26, 27} => a = j
              /\ j = 24 => a <= 255
              /\ j = 25 => a <= 65535
              /\ j = 26 => a <= Big32
              /\ j = 27 => a <= Big64
          BY <2>0, <2>3, <5>1, ArgumentRange
        <5>3. j <= 27
          BY <2>3, <5>1
        <5>4. ShortestLen(a) = 1 + LongArgumentLen(j) <=> RawOptimal(RawSize(j), a)
          BY <5>2, <5>3, ShortestIsOptimal
        <5> QED BY <5>1, <5>4
      <4>3. IntsOptimal(h) <=> RawOptimal(RawSize(i), h.arg)
        BY <3>5 DEF IntsOptimal, ReadHeader
      <4>4. o + 1 + k - o = 1 + k
        BY <1>0, <2>1
      <4> QED BY <3>1, <3>3, <3>5, <4>1, <4>2, <4>3, <4>4
    <3> QED BY <3>4, <3>5
  <2> QED BY <1>0, <2>1, <2>2, <2>3
<1> QED BY <1>0, <1>2, <1>3

-----------------------------------------------------------------------------
\* Where a header of the grammar ends, and what it holds.
LEMMA HeadFacts ==
  ASSUME NEW s \in Seq(Byte), Len(s) <= SizeMax, NEW o \in 0 .. Len(s), NEW short \in BOOLEAN
  PROVE  \/ HeadEnd(s, o, short) = Bad
         \/ /\ HeadEnd(s, o, short) \in o + 1 .. Len(s) /\ HeadEnd(s, o, short) # Bad
            /\ HeadEnd(s, o, short) = JumpHeader(s, o)
            /\ ValidateHeader(s, o).off = JumpHeader(s, o)
            /\ ReadHeader(s, o).arg \in Nat /\ ReadHeader(s, o).type \in 0 .. 7
<1>0. Len(s) \in Nat /\ o \in Nat
  BY LenProperties
<1>1. CASE ValidateHeader(s, o).ok
  <2>1. /\ o < Len(s) /\ o < ValidateHeader(s, o).off
        /\ ValidateHeader(s, o).off \in o .. Len(s)
        /\ ValidateHeader(s, o).off = JumpHeader(s, o)
        /\ ValidateHeader(s, o).off = o + 1 + LongArgumentLen(AdditionalInfo(s, o))
    BY <1>1, HeaderInBuffer
  <2>2. o \in 0 .. Len(s) - 1 /\ o + 1 + LongArgumentLen(AdditionalInfo(s, o)) <= Len(s)
    BY <1>0, <2>1
  <2>3. ReadHeader(s, o).arg \in Nat
    BY <2>2, ArgumentRange
  <2>4. ReadHeader(s, o).type \in 0 .. 7
    <3>1. At(s, o) \in Nat /\ At(s, o) <= 255
      BY <2>2, ByteElements
    <3>2. At(s, o) \div 32 \in 0 .. 7
      BY <3>1
    <3> QED BY <3>2 DEF ReadHeader, MajorType
  <2>5. HeadEnd(s, o, short) = JumpHeader(s, o) \/ HeadEnd(s, o, short) = Bad
    BY HeadAgrees
  <2>6. JumpHeader(s, o) \in o + 1 .. Len(s) /\ JumpHeader(s, o) # Bad
    BY <1>0, <2>1 DEF Bad
  <2> QED BY <2>1, <2>3, <2>4, <2>5, <2>6
<1>2. CASE ~ValidateHeader(s, o).ok
  BY <1>2, HeadAgrees
<1> QED BY <1>1, <1>2

\* What the end e of a row of items at the place c can be: it has a byte for each.
InBounds(s, c, e) ==
  e \in Bad .. Len(s) /\ (e # Bad => c[1] # Bad /\ c[1] + c[2] <= e)

\* f and g agree on where the rows behind offset o end, and say what can be.
AgreeBehind(s, o, f, g) ==
  \A c \in Places(s) : c[1] > o \/ c[1] = Bad => f[c] = g[c] /\ InBounds(s, c, f[c])

\* The end of an item depends only on where the items behind its header end.
LEMMA ItemEndLocal ==
  ASSUME NEW s \in Seq(Byte), Len(s) <= SizeMax, NEW o \in 0 .. Len(s),
         NEW short \in BOOLEAN, NEW sorted \in BOOLEAN, NEW f, NEW g,
         AgreeBehind(s, o, f, g)
  PROVE  /\ ItemEndBy(s, o, short, sorted, f) = ItemEndBy(s, o, short, sorted, g)
         /\ \/ ItemEndBy(s, o, short, sorted, f) = Bad
            \/ ItemEndBy(s, o, short, sorted, f) \in o + 1 .. Len(s)
<1>1. PICK he, h : he = HeadEnd(s, o, short) /\ h = ReadHeader(s, o)
  OBVIOUS
<1>2. Len(s) \in Nat /\ o \in Nat
  BY LenProperties
<1>3. ItemEndBy(s, o, short, sorted, f) = ItemBehind(s, he, h, sorted, f)
      /\ ItemEndBy(s, o, short, sorted, g) = ItemBehind(s, he, h, sorted, g)
  BY <1>1 DEF ItemEndBy
<1>4. CASE he = Bad
  BY <1>3, <1>4 DEF ItemBehind
<1>5. CASE he # Bad
  <2>1. he \in o + 1 .. Len(s) /\ he \in Nat /\ h.arg \in Nat /\ h.type \in 0 .. 7
    <3>1. he \in o + 1 .. Len(s) /\ h.arg \in Nat /\ h.type \in 0 .. 7
      BY <1>1, <1>5, HeadFacts
    <3> QED BY <1>2, <3>1
  <2>2. ASSUME NEW k \in Nat
        PROVE  /\ f[<<he, k>>] = g[<<he, k>>]
               /\ f[<<he, k>>] = Bad \/ f[<<he, k>>] \in o + 1 .. Len(s)
    <3>1. <<he, k>> \in Places(s) /\ he > o
      BY <1>2, <2>1 DEF Places, Bad
    <3>2. f[<<he, k>>] = g[<<he, k>>] /\ InBounds(s, <<he, k>>, f[<<he, k>>])
      BY <3>1 DEF AgreeBehind
    <3> QED BY <1>2, <2>1, <3>2 DEF InBounds
  <2>3. ASSUME NEW i \in Nat PROVE Key(s, he, i, f) = Key(s, he, i, g)
    <3>1. PICK a : a = f[<<he, 2 * i>>]
      OBVIOUS
    <3>2. a = g[<<he, 2 * i>>] /\ (a = Bad \/ a \in o + 1 .. Len(s))
      <4>1. 2 * i \in Nat
        OBVIOUS
      <4> QED BY <2>2, <3>1, <4>1
    <3>3. <<a, 1>> \in Places(s) /\ (a > o \/ a = Bad)
      BY <1>2, <3>2 DEF Places, Bad
    <3>4. f[<<a, 1>>] = g[<<a, 1>>]
      BY <3>3 DEF AgreeBehind
    <3> QED BY <3>1, <3>2, <3>4 DEF Key
  <2>4. KeysAscend(s, he, h.arg, f) = KeysAscend(s, he, h.arg, g)
    <3>1. \A i \in 1 .. h.arg - 1 : i \in Nat /\ i - 1 \in Nat
      BY <2>1
    <3> QED BY <2>3, <3>1 DEF KeysAscend
  <2>5. ItemEndFrom(s, he, h, f[<<he, 2 * h.arg>>], sorted, f)
          = ItemEndFrom(s, he, h, g[<<he, 2 * h.arg>>], sorted, g)
    <3>1. 2 * h.arg \in Nat
      BY <2>1
    <3>2. /\ f[<<he, 2 * h.arg>>] = g[<<he, 2 * h.arg>>]
          /\ f[<<he, h.arg>>] = g[<<he, h.arg>>] /\ f[<<he, 1>>] = g[<<he, 1>>]
      BY <2>1, <2>2, <3>1
    <3> QED BY <2>4, <3>2 DEF ItemEndFrom
  <2>6. \/ ItemEndFrom(s, he, h, f[<<he, 2 * h.arg>>], sorted, f) = Bad
        \/ ItemEndFrom(s, he, h, f[<<he, 2 * h.arg>>], sorted, f) \in o + 1 .. Len(s)
    <3>1. PICK pe, ae, te : pe = f[<<he, 2 * h.arg>>] /\ ae = f[<<he, h.arg>>] /\ te = f[<<he, 1>>]
      OBVIOUS
    <3>2. /\ pe = Bad \/ pe \in o + 1 .. Len(s)
          /\ ae = Bad \/ ae \in o + 1 .. Len(s)
          /\ te = Bad \/ te \in o + 1 .. Len(s)
      <4>1. 2 * h.arg \in Nat
        BY <2>1
      <4> QED BY <2>1, <2>2, <3>1, <4>1
    <3>3. h.arg <= Len(s) - he => he + h.arg \in o + 1 .. Len(s)
      BY <1>2, <2>1
    <3> QED BY <2>1, <3>1, <3>2, <3>3
            DEF ItemEndFrom, UInt64, NegInt64, ByteString, TextString, ArrayType, MapType,
                Tagged, SimpleValue
  <2> QED BY <1>3, <1>5, <2>5, <2>6 DEF ItemBehind
<1> QED BY <1>4, <1>5

\* One item of a row, when f is known for what is behind it.
EndsBody(s, short, sorted, f, c) ==
  IF c[2] = 0 \/ c[1] = Bad THEN c[1]
  ELSE f[<<ItemEndBy(s, c[1], short, sorted, f), c[2] - 1>>]

\* At most k - 1 bytes of s are left at the place c.
Near(s, c, k) == c[1] = Bad \/ Len(s) - c[1] < k

\* A place: a row after its first item is nearer to the end of s.
LEMMA PlaceFacts ==
  ASSUME NEW s \in Seq(Byte), NEW c \in Places(s)
  PROVE  /\ c = <<c[1], c[2]>> /\ c[2] \in Nat
         /\ c[1] = Bad \/ (c[1] \in 0 .. Len(s) /\ c[1] # Bad)
         /\ ~Near(s, c, 0) \/ c[1] = Bad
         /\ Near(s, c, Len(s) + 1)
<1>1. Len(s) \in Nat
  BY LenProperties
<1>2. c = <<c[1], c[2]>> /\ c[1] \in Bad .. Len(s) /\ c[2] \in Nat
  BY DEF Places
<1> QED BY <1>1, <1>2 DEF Near, Bad

\* One step of the recursion, from the places with at most k - 1 bytes left to
\* those with at most k.
LEMMA EndsStep ==
  ASSUME NEW s \in Seq(Byte), Len(s) <= SizeMax, NEW short \in BOOLEAN, NEW sorted \in BOOLEAN,
         NEW k \in Nat, NEW f, NEW g,
         \A d \in Places(s) : Near(s, d, k) => f[d] = g[d] /\ InBounds(s, d, f[d]),
         NEW c \in Places(s), Near(s, c, k + 1), c[2] # 0, c[1] # Bad
  PROVE  /\ EndsBody(s, short, sorted, f, c) = EndsBody(s, short, sorted, g, c)
         /\ InBounds(s, c, EndsBody(s, short, sorted, f, c))
<1> DEFINE o == c[1]
           e == ItemEndBy(s, o, short, sorted, f)
           d == <<e, c[2] - 1>>
<1>1. Len(s) \in Nat /\ o \in 0 .. Len(s) /\ c[2] \in Nat /\ c[2] > 0 /\ Len(s) - o < k + 1
  BY LenProperties, PlaceFacts DEF Near
<1>2. ASSUME NEW b \in Places(s), b[1] > o \/ b[1] = Bad
      PROVE  f[b] = g[b] /\ InBounds(s, b, f[b])
  <2>1. b[1] = Bad \/ b[1] \in 0 .. Len(s)
    BY PlaceFacts
  <2>2. Near(s, b, k)
    BY <1>1, <1>2, <2>1 DEF Near
  <2> QED BY <2>2
<1>3. /\ e = ItemEndBy(s, o, short, sorted, g)
      /\ e = Bad \/ e \in o + 1 .. Len(s)
  <2>1. PICK p : p = c[1]
    OBVIOUS
  <2>2. p \in 0 .. Len(s) /\ AgreeBehind(s, p, f, g)
    BY <1>1, <1>2, <2>1 DEF AgreeBehind
  <2>3. /\ ItemEndBy(s, p, short, sorted, f) = ItemEndBy(s, p, short, sorted, g)
        /\ \/ ItemEndBy(s, p, short, sorted, f) = Bad
           \/ ItemEndBy(s, p, short, sorted, f) \in p + 1 .. Len(s)
    BY <2>2, ItemEndLocal
  <2> QED BY <2>1, <2>3
<1> HIDE DEF e
<1>4. d \in Places(s) /\ (d[1] > o \/ d[1] = Bad)
  BY <1>1, <1>3 DEF Places, Bad
<1>5. f[d] = g[d] /\ InBounds(s, d, f[d])
  BY <1>2, <1>4
<1>6. EndsBody(s, short, sorted, f, c) = f[d] /\ EndsBody(s, short, sorted, g, c) = g[d]
  BY <1>3 DEF EndsBody, e
<1>7. InBounds(s, c, f[d])
  <2> DEFINE x == f[d]
  <2>1. x \in Bad .. Len(s) /\ (x # Bad => e # Bad /\ e + (c[2] - 1) <= x)
    BY <1>5 DEF InBounds
  <2> HIDE DEF x, d
  <2>2. x # Bad => o # Bad /\ o + c[2] <= x
    <3> SUFFICES ASSUME x # Bad PROVE o # Bad /\ o + c[2] <= x
      OBVIOUS
    <3>1. e \in o + 1 .. Len(s) /\ e + (c[2] - 1) <= x /\ x \in Int
      BY <1>1, <1>3, <2>1 DEF Bad
    <3> QED BY <1>1, <3>1, SMTT(40) DEF Bad
  <2> QED BY <2>1, <2>2 DEF InBounds, x
<1> QED BY <1>5, <1>6, <1>7

\* The grammar, unfolded once at every place.
LEMMA EndsUnfold ==
  ASSUME NEW s \in Seq(Byte), Len(s) <= SizeMax, NEW short \in BOOLEAN, NEW sorted \in BOOLEAN
  PROVE  \A c \in Places(s) :
           Ends(s, short, sorted)[c] = EndsBody(s, short, sorted, Ends(s, short, sorted), c)
<1> DEFINE F(f) == [c \in Places(s) |->
                      IF c[2] = 0 \/ c[1] = Bad THEN c[1]
                      ELSE f[<<ItemEndBy(s, c[1], short, sorted, f), c[2] - 1>>]]
           Body(f, c) == EndsBody(s, short, sorted, f, c)
           Good(f, k) == \A c \in Places(s) : Near(s, c, k) => f[c] = Body(f, c) /\ InBounds(s, c, f[c])
           S == {k \in Nat : \E f : f = [c \in Places(s) |-> f[c]] /\ Good(f, k)}
<1>0. Len(s) \in Nat
  BY LenProperties
<1>1. 0 \in S
  <2> DEFINE f == [c \in Places(s) |-> Bad]
  <2>1. ASSUME NEW c \in Places(s), Near(s, c, 0)
        PROVE  f[c] = Body(f, c) /\ InBounds(s, c, f[c])
    <3>1. c[1] = Bad
      BY <2>1, PlaceFacts
    <3>2. Bad \in Bad .. Len(s)
      BY <1>0 DEF Bad
    <3> QED BY <3>1, <3>2 DEF EndsBody, InBounds
  <2>2. Good(f, 0)
    BY <2>1
  <2>3. f = [c \in Places(s) |-> f[c]]
    OBVIOUS
  <2> HIDE DEF f, Good
  <2> QED BY <2>2, <2>3
<1>2. ASSUME NEW k \in S PROVE k + 1 \in S
  <2>0. k \in Nat
    OBVIOUS
  <2>1. PICK f : f = [c \in Places(s) |-> f[c]] /\ Good(f, k)
    OBVIOUS
  <2> HIDE DEF S
  <2> DEFINE g == [c \in Places(s) |-> Body(f, c)]
  <2>2. \A d \in Places(s) : Near(s, d, k) => f[d] = g[d] /\ InBounds(s, d, f[d])
    BY <2>1
  <2>3. ASSUME NEW c \in Places(s), Near(s, c, k + 1)
        PROVE  g[c] = Body(g, c) /\ InBounds(s, c, g[c])
    <3>1. g[c] = Body(f, c)
      OBVIOUS
    <3> HIDE DEF g
    <3>2. CASE c[2] = 0 \/ c[1] = Bad
      <4>1. Body(f, c) = c[1] /\ Body(g, c) = c[1]
        BY <3>2 DEF EndsBody
      <4>2. InBounds(s, c, c[1])
        BY <1>0, <3>2, PlaceFacts DEF InBounds, Bad
      <4> QED BY <3>1, <4>1, <4>2
    <3>3. CASE c[2] # 0 /\ c[1] # Bad
      BY <2>0, <2>2, <2>3, <3>1, <3>3, EndsStep
    <3> QED BY <3>2, <3>3
  <2>4. g = [c \in Places(s) |-> g[c]]
    OBVIOUS
  <2>5. Good(g, k + 1)
    <3> HIDE DEF g, Body
    <3> QED BY <2>3
  <2> HIDE DEF Good, g
  <2> QED BY <2>0, <2>4, <2>5 DEF S
<1>3. S = Nat
  <2>1. S \subseteq Nat
    OBVIOUS
  <2> HIDE DEF S
  <2> QED BY <1>1, <1>2, <2>1, Induction
<1>4. PICK f : f = [c \in Places(s) |-> f[c]] /\ Good(f, Len(s) + 1)
  <2>1. Len(s) + 1 \in S
    <3> HIDE DEF S
    <3> QED BY <1>0, <1>3
  <2> QED BY <2>1
<1>5. \E ff : ff = F(ff)
  <2>1. \A c \in Places(s) : f[c] = Body(f, c)
    BY <1>4, PlaceFacts
  <2>2. \A c \in Places(s) : F(f)[c] = Body(f, c)
    BY DEF EndsBody
  <2>3. f = F(f)
    <3>1. F(f) = [c \in Places(s) |-> F(f)[c]]
      OBVIOUS
    <3> HIDE DEF F, Body
    <3> QED BY <1>4, <2>1, <2>2, <3>1
  <2> HIDE DEF F
  <2> QED BY <2>3
<1> DEFINE E == CHOOSE ff : ff = F(ff)
<1>6. E = F(E)
  <2> HIDE DEF F
  <2> QED BY <1>5
<1>7. Ends(s, short, sorted) = E
  BY DEF Ends
<1> HIDE DEF E
<1>8. \A c \in Places(s) : E[c] = Body(E, c)
  BY <1>6 DEF EndsBody
<1> QED BY <1>7, <1>8

\* Items end inside of s, with a byte for each of them.
LEMMA EndsFit ==
  ASSUME NEW s \in Seq(Byte), Len(s) <= SizeMax, NEW short \in BOOLEAN, NEW sorted \in BOOLEAN
  PROVE  \A c \in Places(s) : InBounds(s, c, Ends(s, short, sorted)[c])
<1> DEFINE E == Ends(s, short, sorted)
           S == {k \in Nat : \A c \in Places(s) : Near(s, c, k) => InBounds(s, c, E[c])}
<1>0. Len(s) \in Nat
  BY LenProperties
<1>1. \A c \in Places(s) : E[c] = EndsBody(s, short, sorted, E, c)
  BY EndsUnfold
<1> HIDE DEF E
<1>2. ASSUME NEW c \in Places(s), c[2] = 0 \/ c[1] = Bad
      PROVE  InBounds(s, c, E[c])
  <2>1. E[c] = c[1]
    BY <1>1, <1>2 DEF EndsBody
  <2> QED BY <1>0, <1>2, <2>1, PlaceFacts DEF InBounds, Bad
<1>3. 0 \in S
  BY <1>2, PlaceFacts
<1>4. ASSUME NEW k \in S PROVE k + 1 \in S
  <2>1. k \in Nat /\ \A d \in Places(s) : Near(s, d, k) => E[d] = E[d] /\ InBounds(s, d, E[d])
    OBVIOUS
  <2>2. ASSUME NEW c \in Places(s), Near(s, c, k + 1) PROVE InBounds(s, c, E[c])
    <3>1. CASE c[2] # 0 /\ c[1] # Bad
      <4>1. InBounds(s, c, EndsBody(s, short, sorted, E, c))
        BY <2>1, <2>2, <3>1, EndsStep
      <4> QED BY <1>1, <4>1
    <3> QED BY <1>2, <3>1
  <2> QED BY <2>1, <2>2
<1>5. S = Nat
  <2>1. S \subseteq Nat
    OBVIOUS
  <2> HIDE DEF S
  <2> QED BY <1>3, <1>4, <2>1, Induction
<1>6. Len(s) + 1 \in S
  <2> HIDE DEF S
  <2> QED BY <1>0, <1>5
<1>7. \A c \in Places(s) : InBounds(s, c, E[c])
  BY <1>6, PlaceFacts
<1> QED BY <1>7 DEF E

\* The same for a row given by its offset and its length.
LEMMA EndsBound ==
  ASSUME NEW s \in Seq(Byte), Len(s) <= SizeMax, NEW short \in BOOLEAN, NEW sorted \in BOOLEAN,
         NEW o \in Bad .. Len(s), NEW k \in Nat
  PROVE  LET e == Ends(s, short, sorted)[<<o, k>>]
         IN  /\ e \in Bad .. Len(s)
             /\ e # Bad => e \in 0 .. Len(s) /\ o \in 0 .. Len(s) /\ o + k <= e
             /\ k = 0 \/ o = Bad => e = o
<1>1. <<o, k>> \in Places(s)
  BY DEF Places
<1>2. PICK e : e = Ends(s, short, sorted)[<<o, k>>]
  OBVIOUS
<1>3. InBounds(s, <<o, k>>, e)
  BY <1>1, <1>2, EndsFit
<1>4. e \in Bad .. Len(s) /\ (e # Bad => o # Bad /\ o + k <= e)
  BY <1>3 DEF InBounds
<1>5. e = EndsBody(s, short, sorted, Ends(s, short, sorted), <<o, k>>)
  BY <1>1, <1>2, EndsUnfold
<1>6. k = 0 \/ o = Bad => e = o
  BY <1>5 DEF EndsBody
<1>7. Len(s) \in Nat
  BY LenProperties
<1> QED BY <1>2, <1>4, <1>6, <1>7 DEF Bad

\* A row of items is its first item and the row behind it.
LEMMA EndsFirst ==
  ASSUME NEW s \in Seq(Byte), Len(s) <= SizeMax, NEW short \in BOOLEAN, NEW sorted \in BOOLEAN,
         NEW o \in 0 .. Len(s)
  PROVE  LET E == Ends(s, short, sorted)
             e == ItemEndBy(s, o, short, sorted, E)
         IN  /\ e = Bad \/ e \in o + 1 .. Len(s)
             /\ e \in Bad .. Len(s)
             /\ \A k \in Nat : k > 0 => E[<<o, k>>] = E[<<e, k - 1>>]
<1>1. PICK E : E = Ends(s, short, sorted)
  OBVIOUS
<1>2. /\ \A c \in Places(s) : E[c] = EndsBody(s, short, sorted, E, c)
      /\ AgreeBehind(s, o, E, E)
  BY <1>1, EndsUnfold, EndsFit DEF AgreeBehind
<1>3. PICK e : e = ItemEndBy(s, o, short, sorted, E)
  OBVIOUS
<1>4. e = Bad \/ e \in o + 1 .. Len(s)
  BY <1>2, <1>3, ItemEndLocal
<1>5. Len(s) \in Nat /\ o # Bad
  BY LenProperties DEF Bad
<1>6. ASSUME NEW k \in Nat, k > 0 PROVE E[<<o, k>>] = E[<<e, k - 1>>]
  <2>1. <<o, k>> \in Places(s)
    BY <1>5 DEF Places, Bad
  <2> QED BY <1>2, <1>3, <1>5, <1>6, <2>1 DEF EndsBody
<1>7. e \in Bad .. Len(s)
  BY <1>4, <1>5 DEF Bad
<1> QED BY <1>1, <1>3, <1>4, <1>6, <1>7

\* Rows add up.
LEMMA EndsAdd ==
  ASSUME NEW s \in Seq(Byte), Len(s) <= SizeMax, NEW short \in BOOLEAN, NEW sorted \in BOOLEAN
  PROVE  \A a, b \in Nat : \A o \in Bad .. Len(s) :
           LET E == Ends(s, short, sorted)
           IN  E[<<o, a + b>>] = E[<<E[<<o, a>>], b>>]
<1>1. PICK E : E = Ends(s, short, sorted)
  OBVIOUS
<1> DEFINE S == {a \in Nat : \A b \in Nat : \A o \in Bad .. Len(s) :
                               E[<<o, a + b>>] = E[<<E[<<o, a>>], b>>]}
<1>2. Len(s) \in Nat
  BY LenProperties
<1>3. \A o \in Bad .. Len(s) : \A k \in Nat : k = 0 \/ o = Bad => E[<<o, k>>] = o
  BY <1>1, EndsBound
<1>4. 0 \in S
  BY <1>3
<1>5. ASSUME NEW a \in S PROVE a + 1 \in S
  <2>0. /\ a \in Nat
        /\ \A b \in Nat : \A o \in Bad .. Len(s) : E[<<o, a + b>>] = E[<<E[<<o, a>>], b>>]
    OBVIOUS
  <2>1. ASSUME NEW b \in Nat, NEW o \in Bad .. Len(s)
        PROVE  E[<<o, (a + 1) + b>>] = E[<<E[<<o, a + 1>>], b>>]
    <3>1. CASE o = Bad
      BY <1>3, <2>0, <3>1
    <3>2. CASE o # Bad
      <4>1. o \in 0 .. Len(s)
        BY <1>2, <3>2 DEF Bad
      <4>2. PICK e : e = ItemEndBy(s, o, short, sorted, E)
        OBVIOUS
      <4>3. /\ e \in Bad .. Len(s)
            /\ \A k \in Nat : k > 0 => E[<<o, k>>] = E[<<e, k - 1>>]
        BY <1>1, <4>1, <4>2, EndsFirst
      <4>4. /\ (a + 1) + b \in Nat /\ (a + 1) + b > 0 /\ ((a + 1) + b) - 1 = a + b
            /\ a + 1 \in Nat /\ a + 1 > 0 /\ (a + 1) - 1 = a
        BY <2>0
      <4>5. E[<<o, (a + 1) + b>>] = E[<<e, a + b>>] /\ E[<<o, a + 1>>] = E[<<e, a>>]
        BY <4>3, <4>4
      <4> QED BY <2>0, <4>3, <4>5
    <3> QED BY <3>1, <3>2
  <2> QED BY <2>0, <2>1
<1>6. S = Nat
  <2>1. S \subseteq Nat
    OBVIOUS
  <2> HIDE DEF S
  <2> QED BY <1>4, <1>5, <2>1, Induction
<1> QED BY <1>1, <1>6

\* The same of one row of n items: it is a row of a items and one of b behind it.
LEMMA RowAdd ==
  ASSUME NEW s \in Seq(Byte), Len(s) <= SizeMax, NEW short \in BOOLEAN, NEW sorted \in BOOLEAN,
         NEW o \in Bad .. Len(s), NEW a \in Nat, NEW b \in Nat, NEW n, n = a + b,
         NEW p, p = Ends(s, short, sorted)[<<o, a>>]
  PROVE  Ends(s, short, sorted)[<<o, n>>] = Ends(s, short, sorted)[<<p, b>>]
<1>1. \A x, y \in Nat : \A d \in Bad .. Len(s) :
        Ends(s, short, sorted)[<<d, x + y>>]
          = Ends(s, short, sorted)[<<Ends(s, short, sorted)[<<d, x>>], y>>]
  BY EndsAdd, ZenonT(60)
<1>2. Ends(s, short, sorted)[<<o, a + b>>]
        = Ends(s, short, sorted)[<<Ends(s, short, sorted)[<<o, a>>], b>>]
  BY <1>1, Zenon
<1> QED BY <1>2, Zenon

-----------------------------------------------------------------------------
\* A row that there is has a byte for each of its items.
LEMMA RowBytes ==
  ASSUME NEW s \in Seq(Byte), Len(s) <= SizeMax, NEW short \in BOOLEAN, NEW sorted \in BOOLEAN,
         NEW o \in 0 .. Len(s), NEW k \in Nat, Ends(s, short, sorted)[<<o, k>>] # Bad
  PROVE  /\ Ends(s, short, sorted)[<<o, k>>] \in 0 .. Len(s)
         /\ o + k <= Ends(s, short, sorted)[<<o, k>>]
<1>1. o \in Bad .. Len(s)
  BY LenProperties DEF Bad
<1> QED BY <1>1, EndsBound

\* Where f has a row behind offset o, g has the same.
SameBehind(s, o, f, g) == \A d \in Places(s) : d[1] > o /\ f[d] # Bad => g[d] = f[d]

\* Parts of a row are rows.
LEMMA RowParts ==
  ASSUME NEW s \in Seq(Byte), Len(s) <= SizeMax, NEW short \in BOOLEAN, NEW sorted \in BOOLEAN,
         NEW o \in 0 .. Len(s), NEW a \in Nat, NEW b \in Nat, a <= b,
         Ends(s, short, sorted)[<<o, b>>] # Bad
  PROVE  LET E == Ends(s, short, sorted)
         IN  /\ E[<<o, a>>] # Bad /\ E[<<o, a>>] \in o .. Len(s)
             /\ E[<<E[<<o, a>>], b - a>>] = E[<<o, b>>]
<1>1. PICK E : E = Ends(s, short, sorted)
  OBVIOUS
<1>2. Len(s) \in Nat /\ o \in Bad .. Len(s) /\ Bad \in Bad .. Len(s) /\ b - a \in Nat /\ a + (b - a) = b
  BY LenProperties DEF Bad
<1>3. E[<<o, b>>] = E[<<E[<<o, a>>], b - a>>]
  <2>1. E[<<o, a + (b - a)>>] = E[<<E[<<o, a>>], b - a>>]
    BY <1>1, <1>2, EndsAdd
  <2> QED BY <1>2, <2>1
<1>4. E[<<Bad, b - a>>] = Bad
  BY <1>1, <1>2, EndsBound
<1>5. E[<<o, a>>] # Bad
  BY <1>1, <1>3, <1>4
<1>6. E[<<o, a>>] \in 0 .. Len(s) /\ o + a <= E[<<o, a>>]
  BY <1>1, <1>2, <1>5, EndsBound
<1>7. E[<<o, a>>] \in o .. Len(s)
  BY <1>2, <1>6
<1> QED BY <1>1, <1>3, <1>5, <1>7

\* The first item of a row is an item.
LEMMA RowHead ==
  ASSUME NEW s \in Seq(Byte), Len(s) <= SizeMax, NEW short \in BOOLEAN, NEW sorted \in BOOLEAN,
         NEW o \in 0 .. Len(s), NEW b \in Nat, 1 <= b,
         Ends(s, short, sorted)[<<o, b>>] # Bad
  PROVE  Ends(s, short, sorted)[<<o, 1>>] # Bad
<1>1. PICK E : E = Ends(s, short, sorted)
  OBVIOUS
<1>2. PICK a, d \in Nat : a = 1 /\ d = b - 1
  OBVIOUS
<1>3. Len(s) \in Nat /\ o \in Bad .. Len(s) /\ Bad \in Bad .. Len(s) /\ a + d = b
  BY <1>2, LenProperties DEF Bad
<1>4. E[<<o, a + d>>] = E[<<E[<<o, a>>], d>>]
  BY <1>1, <1>2, <1>3, EndsAdd
<1>5. E[<<Bad, d>>] = Bad
  BY <1>1, <1>2, <1>3, EndsBound
<1> QED BY <1>1, <1>2, <1>3, <1>4, <1>5

\* The keys of a map whose pairs are a row.
LEMMA KeySame ==
  ASSUME NEW s \in Seq(Byte), Len(s) <= SizeMax, NEW short \in BOOLEAN, NEW sorted \in BOOLEAN,
         NEW o \in Bad .. Len(s), NEW p \in 0 .. Len(s), p > o,
         NEW pairs \in Nat, NEW g,
         SameBehind(s, o, Ends(s, short, sorted), g),
         Ends(s, short, sorted)[<<p, 2 * pairs>>] # Bad
  PROVE  KeysAscend(s, p, pairs, g) <=> KeysAscend(s, p, pairs, Ends(s, short, sorted))
<1>1. PICK E : E = Ends(s, short, sorted)
  OBVIOUS
<1>2. Len(s) \in Nat /\ o \in Int /\ 2 * pairs \in Nat
  BY LenProperties DEF Bad
<1>3. ASSUME NEW i \in Nat, i < pairs PROVE Key(s, p, i, g) = Key(s, p, i, E)
  <2>1. 2 * i \in Nat /\ 2 * i <= 2 * pairs /\ 2 * pairs - 2 * i \in Nat /\ 1 <= 2 * pairs - 2 * i
    BY <1>3
  <2>2. PICK a : a = E[<<p, 2 * i>>]
    OBVIOUS
  <2>3. a # Bad /\ a \in p .. Len(s) /\ E[<<a, 2 * pairs - 2 * i>>] = E[<<p, 2 * pairs>>]
    BY <1>1, <1>2, <2>1, <2>2, RowParts
  <2>4. a \in 0 .. Len(s) /\ a > o
    BY <1>2, <2>3
  <2>5. E[<<a, 1>>] # Bad
    <3>1. PICK b \in Nat : b = 2 * pairs - 2 * i
      BY <2>1
    <3>2. 1 <= b /\ Ends(s, short, sorted)[<<a, b>>] # Bad
      BY <1>1, <2>1, <2>3, <3>1
    <3>3. Ends(s, short, sorted)[<<a, 1>>] # Bad
      BY <2>4, <3>1, <3>2, RowHead
    <3> QED BY <1>1, <3>3
  <2>6. <<p, 2 * i>> \in Places(s) /\ <<a, 1>> \in Places(s)
    BY <1>2, <2>1, <2>4 DEF Places, Bad
  <2>7. g[<<p, 2 * i>>] = a /\ g[<<a, 1>>] = E[<<a, 1>>]
    BY <1>1, <2>2, <2>3, <2>4, <2>5, <2>6 DEF SameBehind
  <2> QED BY <2>2, <2>7 DEF Key
<1>4. \A i \in 1 .. pairs - 1 : i \in Nat /\ i < pairs /\ i - 1 \in Nat /\ i - 1 < pairs
  OBVIOUS
<1>5. KeysAscend(s, p, pairs, g) <=> KeysAscend(s, p, pairs, E)
  BY <1>3, <1>4 DEF KeysAscend
<1> QED BY <1>1, <1>5

\* An item of a stricter grammar is an item, as long, of a weaker one.
LEMMA ItemWeaker ==
  ASSUME NEW s \in Seq(Byte), Len(s) <= SizeMax, NEW o \in 0 .. Len(s),
         NEW sh0 \in BOOLEAN, NEW so0 \in BOOLEAN, NEW sh1 \in BOOLEAN, NEW so1 \in BOOLEAN,
         sh0 => sh1, so0 => so1,
         SameBehind(s, o, Ends(s, sh1, so1), Ends(s, sh0, so0)),
         ItemEndBy(s, o, sh1, so1, Ends(s, sh1, so1)) # Bad
  PROVE  ItemEndBy(s, o, sh0, so0, Ends(s, sh0, so0)) = ItemEndBy(s, o, sh1, so1, Ends(s, sh1, so1))
<1>1. PICK f, g : f = Ends(s, sh1, so1) /\ g = Ends(s, sh0, so0)
  OBVIOUS
<1>2. PICK he, h : he = HeadEnd(s, o, sh1) /\ h = ReadHeader(s, o)
  OBVIOUS
<1>3. Len(s) \in Nat /\ o \in Nat
  BY LenProperties
<1>4. /\ ItemEndBy(s, o, sh1, so1, f) = ItemBehind(s, he, h, so1, f)
      /\ ItemEndBy(s, o, sh0, so0, g) = ItemBehind(s, HeadEnd(s, o, sh0), h, so0, g)
  BY <1>2 DEF ItemEndBy
<1>5. he # Bad
  BY <1>1, <1>4 DEF ItemBehind
<1>6. HeadEnd(s, o, sh0) = he
  <2>1. ValidateHeader(s, o).ok /\ (sh1 => IntsOptimal(h)) /\ he = JumpHeader(s, o)
    BY <1>2, <1>5, HeadAgrees
  <2>2. sh0 => IntsOptimal(h)
    BY <2>1
  <2> QED BY <1>2, <2>1, <2>2, HeadAgrees
<1>7. /\ he \in o + 1 .. Len(s) /\ he \in 0 .. Len(s) /\ he > o
      /\ h.arg \in Nat /\ h.type \in 0 .. 7
  <2>1. he \in o + 1 .. Len(s) /\ h.arg \in Nat /\ h.type \in 0 .. 7
    BY <1>2, <1>5, HeadFacts
  <2> QED BY <1>3, <2>1
<1>8. ASSUME NEW k \in Nat, f[<<he, k>>] # Bad PROVE g[<<he, k>>] = f[<<he, k>>]
  <2>1. <<he, k>> \in Places(s)
    BY <1>3, <1>7 DEF Places, Bad
  <2> QED BY <1>1, <1>7, <1>8, <2>1 DEF SameBehind
<1>9. f[<<he, 2 * h.arg>>] # Bad => (KeysAscend(s, he, h.arg, g) <=> KeysAscend(s, he, h.arg, f))
  <2>1. o \in Bad .. Len(s)
    BY <1>3 DEF Bad
  <2> QED BY <1>1, <1>7, <2>1, KeySame
<1>10. 2 * h.arg \in Nat
  BY <1>7
<1>11. ItemEndFrom(s, he, h, f[<<he, 2 * h.arg>>], so1, f) # Bad
  BY <1>1, <1>4, <1>5 DEF ItemBehind
<1>12. ItemEndFrom(s, he, h, g[<<he, 2 * h.arg>>], so0, g)
         = ItemEndFrom(s, he, h, f[<<he, 2 * h.arg>>], so1, f)
  <2>1. CASE h.type \in {UInt64, NegInt64, SimpleValue, ByteString, TextString}
    BY <2>1 DEF ItemEndFrom, UInt64, NegInt64, ByteString, TextString, ArrayType, MapType,
                Tagged, SimpleValue
  <2>2. CASE h.type = ArrayType
    <3>1. ItemEndFrom(s, he, h, f[<<he, 2 * h.arg>>], so1, f) = f[<<he, h.arg>>]
          /\ ItemEndFrom(s, he, h, g[<<he, 2 * h.arg>>], so0, g) = g[<<he, h.arg>>]
      BY <2>2 DEF ItemEndFrom, UInt64, NegInt64, ByteString, TextString, ArrayType, MapType,
                Tagged, SimpleValue
    <3> QED BY <1>7, <1>8, <1>11, <3>1
  <2>3. CASE h.type = Tagged
    <3>1. ItemEndFrom(s, he, h, f[<<he, 2 * h.arg>>], so1, f) = f[<<he, 1>>]
          /\ ItemEndFrom(s, he, h, g[<<he, 2 * h.arg>>], so0, g) = g[<<he, 1>>]
      BY <2>3 DEF ItemEndFrom, UInt64, NegInt64, ByteString, TextString, ArrayType, MapType,
                Tagged, SimpleValue
    <3> QED BY <1>8, <1>11, <3>1
  <2>4. CASE h.type = MapType
    <3> DEFINE x == f[<<he, 2 * h.arg>>]
               y == g[<<he, 2 * h.arg>>]
               kf == KeysAscend(s, he, h.arg, f)
               kg == KeysAscend(s, he, h.arg, g)
    <3>1. /\ ItemEndFrom(s, he, h, x, so1, f) = IF x # Bad /\ (so1 => kf) THEN x ELSE Bad
          /\ ItemEndFrom(s, he, h, y, so0, g) = IF y # Bad /\ (so0 => kg) THEN y ELSE Bad
      BY <2>4 DEF ItemEndFrom, UInt64, NegInt64, ByteString, TextString, ArrayType, MapType,
                Tagged, SimpleValue
    <3>2. x # Bad /\ (so1 => kf)
      BY <1>11, <3>1
    <3>3. y = x
      BY <1>8, <1>10, <3>2
    <3>4. kg <=> kf
      BY <1>9, <3>2
    <3> HIDE DEF x, y, kf, kg
    <3>5. so0 => kg
      BY <3>2, <3>4
    <3>6. ItemEndFrom(s, he, h, y, so0, g) = x /\ ItemEndFrom(s, he, h, x, so1, f) = x
      BY <3>1, <3>2, <3>3, <3>5
    <3> QED BY <3>6 DEF x, y
  <2> QED BY <1>7, <2>1, <2>2, <2>3, <2>4
          DEF UInt64, NegInt64, ByteString, TextString, ArrayType, MapType, Tagged, SimpleValue
<1>13. ItemBehind(s, he, h, so1, f) = ItemBehind(s, he, h, so0, g)
  BY <1>5, <1>12 DEF ItemBehind
<1> QED BY <1>1, <1>4, <1>6, <1>13

\* A row of a stricter grammar is a row, as long, of a weaker one.
LEMMA EndsWeaker ==
  ASSUME NEW s \in Seq(Byte), Len(s) <= SizeMax,
         NEW sh0 \in BOOLEAN, NEW so0 \in BOOLEAN, NEW sh1 \in BOOLEAN, NEW so1 \in BOOLEAN,
         sh0 => sh1, so0 => so1
  PROVE  \A c \in Places(s) :
           Ends(s, sh1, so1)[c] # Bad => Ends(s, sh0, so0)[c] = Ends(s, sh1, so1)[c]
<1>1. PICK f, g : f = Ends(s, sh1, so1) /\ g = Ends(s, sh0, so0)
  OBVIOUS
<1> DEFINE S == {k \in Nat : \A c \in Places(s) : Near(s, c, k) /\ f[c] # Bad => g[c] = f[c]}
<1>2. Len(s) \in Nat
  BY LenProperties
<1>3. ASSUME NEW c \in Places(s), c[2] = 0 \/ c[1] = Bad
      PROVE  f[c] = g[c]
  <2>1. f[c] = EndsBody(s, sh1, so1, f, c)
    BY <1>1, EndsUnfold
  <2>2. g[c] = EndsBody(s, sh0, so0, g, c)
    BY <1>1, EndsUnfold
  <2> QED BY <1>3, <2>1, <2>2 DEF EndsBody
<1>4. 0 \in S
  BY <1>3, PlaceFacts
<1>5. ASSUME NEW k \in S PROVE k + 1 \in S
  <2>1. k \in Nat /\ \A d \in Places(s) : Near(s, d, k) /\ f[d] # Bad => g[d] = f[d]
    OBVIOUS
  <2> HIDE DEF S
  <2>2. ASSUME NEW c \in Places(s), Near(s, c, k + 1), f[c] # Bad PROVE g[c] = f[c]
    <3>1. CASE c[2] # 0 /\ c[1] # Bad
      <4>1. PICK o, m : c = <<o, m>>
        BY PlaceFacts
      <4>2. o \in 0 .. Len(s) /\ m \in Nat /\ m > 0 /\ Len(s) - o < k + 1
        BY <1>2, <2>2, <3>1, <4>1, PlaceFacts DEF Near
      <4>3. ASSUME NEW d \in Places(s), d[1] > o, f[d] # Bad PROVE g[d] = f[d]
        <5>1. d[1] \in 0 .. Len(s)
          BY <4>2, <4>3, PlaceFacts DEF Bad
        <5>2. Near(s, d, k)
          BY <1>2, <2>1, <4>2, <4>3, <5>1 DEF Near
        <5> QED BY <2>1, <4>3, <5>2
      <4>4. SameBehind(s, o, Ends(s, sh1, so1), Ends(s, sh0, so0))
        BY <1>1, <4>3 DEF SameBehind
      <4>5. PICK e1, e0 : e1 = ItemEndBy(s, o, sh1, so1, f) /\ e0 = ItemEndBy(s, o, sh0, so0, g)
        OBVIOUS
      <4>6. f[c] = f[<<e1, m - 1>>] /\ (e1 = Bad \/ e1 \in o + 1 .. Len(s))
        BY <1>1, <4>1, <4>2, <4>5, EndsFirst, ZenonT(60)
      <4>7. g[c] = g[<<e0, m - 1>>]
        BY <1>1, <4>1, <4>2, <4>5, EndsFirst, ZenonT(60)
      <4>8. e1 # Bad
        <5>1. Bad \in Bad .. Len(s) /\ m - 1 \in Nat
          BY <1>2, <4>2 DEF Bad
        <5>2. f[<<Bad, m - 1>>] = Bad
          BY <1>1, <5>1, EndsBound
        <5> QED BY <2>2, <4>6, <5>2
      <4>9. e0 = e1
        BY <1>1, <4>2, <4>4, <4>5, <4>8, ItemWeaker
      <4>10. <<e1, m - 1>> \in Places(s) /\ e1 > o
        BY <1>2, <4>2, <4>6, <4>8 DEF Places, Bad
      <4> QED BY <2>2, <4>3, <4>6, <4>7, <4>9, <4>10
    <3> QED BY <1>3, <3>1
  <2> QED BY <2>1, <2>2 DEF S
<1>6. S = Nat
  <2>1. S \subseteq Nat
    OBVIOUS
  <2> HIDE DEF S
  <2> QED BY <1>4, <1>5, <2>1, Induction
<1>7. Len(s) + 1 \in S
  <2> HIDE DEF S
  <2> QED BY <1>2, <1>6
<1>8. \A c \in Places(s) : f[c] # Bad => g[c] = f[c]
  BY <1>7, PlaceFacts
<1> QED BY <1>1, <1>8

-----------------------------------------------------------------------------
\* The items a header announces, and what a pass asks of one header and its
\* payload: that it is valid, in shortest form if short, and that the keys of a
\* map ascend if sorted.
Announced(h) ==
  IF h.type = ArrayType THEN h.arg
  ELSE IF h.type = MapType THEN 2 * h.arg
  ELSE IF h.type = Tagged THEN 1
  ELSE 0

SortedAt(s, o) ==
  LET h == ReadHeader(s, o)
  IN  h.type = MapType => KeysAscend(s, JumpHeader(s, o), h.arg, Ends(s, FALSE, FALSE))

Accepts(s, o, short, sorted) ==
  /\ ValidateLeaf(s, o).ok
  /\ short => IntsOptimal(ReadHeader(s, o))
  /\ sorted => SortedAt(s, o)

\* The keys of a map ascend in every grammar that has its pairs, if in one.
LEMMA KeysWeaker ==
  ASSUME NEW s \in Seq(Byte), Len(s) <= SizeMax, NEW short \in BOOLEAN, NEW sorted \in BOOLEAN,
         NEW p \in 0 .. Len(s), NEW pairs \in Nat,
         Ends(s, short, sorted)[<<p, 2 * pairs>>] # Bad
  PROVE  KeysAscend(s, p, pairs, Ends(s, FALSE, FALSE))
           <=> KeysAscend(s, p, pairs, Ends(s, short, sorted))
<1>1. PICK o \in Bad .. Len(s) : o = Bad
  BY LenProperties DEF Bad
<1>2. SameBehind(s, o, Ends(s, short, sorted), Ends(s, FALSE, FALSE))
  <2>1. \A c \in Places(s) :
          Ends(s, short, sorted)[c] # Bad => Ends(s, FALSE, FALSE)[c] = Ends(s, short, sorted)[c]
    BY EndsWeaker, ZenonT(60)
  <2> QED BY <2>1 DEF SameBehind
<1>3. p > o
  BY <1>1 DEF Bad
<1> QED BY <1>1, <1>2, <1>3, KeySame

\* An item is a header and payload the passes accept, and a row of as many
\* items as the header announces.
LEMMA ItemIsLeaf ==
  ASSUME NEW s \in Seq(Byte), Len(s) <= SizeMax, NEW short \in BOOLEAN, NEW sorted \in BOOLEAN,
         NEW o \in 0 .. Len(s)
  PROVE  LET E == Ends(s, short, sorted)
         IN  ItemEndBy(s, o, short, sorted, E) =
               IF Accepts(s, o, short, sorted)
               THEN E[<<JumpLeaf(s, o), Announced(ReadHeader(s, o))>>]
               ELSE Bad
<1>1. PICK E : E = Ends(s, short, sorted)
  OBVIOUS
<1>2. PICK he, h : he = HeadEnd(s, o, short) /\ h = ReadHeader(s, o)
  OBVIOUS
<1>3. Len(s) \in Nat /\ o \in Nat /\ SizeMax \in Nat
  BY LenProperties, SizeAssumption
<1>4. ItemEndBy(s, o, short, sorted, E) = ItemBehind(s, he, h, sorted, E)
  BY <1>2 DEF ItemEndBy
<1>5. he = IF ValidateHeader(s, o).ok /\ (short => IntsOptimal(h)) THEN JumpHeader(s, o) ELSE Bad
  BY <1>2, HeadAgrees
<1>6. ValidateLeaf(s, o).ok => ValidateHeader(s, o).ok
  BY DEF ValidateLeaf
<1>7. CASE he = Bad
  <2>1. ~(ValidateHeader(s, o).ok /\ (short => IntsOptimal(h)))
    <3>1. \/ he = Bad /\ ~(he \in o + 1 .. Len(s))
      BY <1>3, <1>7 DEF Bad
    <3>2. ValidateHeader(s, o).ok => JumpHeader(s, o) \in 0 .. Len(s)
      BY <1>3, HeaderInBuffer
    <3> QED BY <1>3, <1>5, <1>7, <3>2 DEF Bad
  <2>2. ~Accepts(s, o, short, sorted)
    BY <1>2, <1>6, <2>1 DEF Accepts
  <2> QED BY <1>1, <1>4, <1>7, <2>2 DEF ItemBehind
<1>8. CASE he # Bad
  <2>1. /\ he \in o + 1 .. Len(s) /\ he = JumpHeader(s, o) /\ ValidateHeader(s, o).off = he
        /\ h.arg \in Nat /\ h.type \in 0 .. 7
    BY <1>2, <1>8, HeadFacts
  <2>2. ValidateHeader(s, o).ok /\ (short => IntsOptimal(h))
    BY <1>5, <1>8
  <2>3. he \in 0 .. Len(s) /\ he \in Nat
    BY <1>3, <2>1
  <2>4. ItemBehind(s, he, h, sorted, E) = ItemEndFrom(s, he, h, E[<<he, 2 * h.arg>>], sorted, E)
    BY <1>8 DEF ItemBehind
  <2>5. Accepts(s, o, short, sorted) <=> ValidateLeaf(s, o).ok /\ (sorted => SortedAt(s, o))
    BY <1>2, <2>2 DEF Accepts
  <2>6. CASE IsString(h)
    <3>1. h.type \in {ByteString, TextString}
      BY <2>6 DEF IsString
    <3>2. SortedAt(s, o)
      BY <1>2, <3>1 DEF SortedAt, ByteString, TextString, MapType
    <3>3. Announced(h) = 0
      BY <3>1 DEF Announced, ByteString, TextString, ArrayType, MapType, Tagged
    <3>4. Size(Len(s) - he) = Len(s) - he
      BY <1>3, <2>1, SizeId
    <3>5. CASE h.arg > Len(s) - he
      <4>1. ~ValidateLeaf(s, o).ok
        BY <1>2, <2>1, <2>2, <2>6, <3>4, <3>5 DEF ValidateLeaf
      <4>2. ItemEndFrom(s, he, h, E[<<he, 2 * h.arg>>], sorted, E) = Bad
        <5>1. ~(h.arg <= Len(s) - he)
          BY <1>3, <2>1, <3>5
        <5> QED BY <3>1, <5>1
                DEF ItemEndFrom, UInt64, NegInt64, SimpleValue, ByteString, TextString, ArrayType,
                    MapType, Tagged
      <4> QED BY <1>1, <1>2, <1>4, <2>4, <2>5, <4>1, <4>2
    <3>6. CASE h.arg <= Len(s) - he
      <4>1. h.arg \in 0 .. SizeMax /\ he + h.arg \in 0 .. SizeMax /\ he + h.arg \in 0 .. Len(s)
        BY <1>3, <2>1, <3>6
      <4>2. Size(h.arg) = h.arg /\ Size(he + h.arg) = he + h.arg
        BY <4>1, SizeId
      <4>3. JumpLeaf(s, o) = he + h.arg
        BY <1>2, <2>1, <2>6, <4>2 DEF JumpLeaf
      <4>4. ValidateLeaf(s, o).ok
              <=> (h.type = TextString => Utf8Correct(Slice(s, he, he + h.arg)))
        <5>1. ~(h.arg > Len(s) - he)
          BY <1>3, <2>1, <3>6
        <5> QED BY <1>2, <2>1, <2>2, <2>6, <3>4, <4>2, <5>1 DEF ValidateLeaf
      <4>5. E[<<JumpLeaf(s, o), Announced(h)>>] = he + h.arg
        <5>1. he + h.arg \in Bad .. Len(s) /\ 0 \in Nat
          BY <4>1 DEF Bad
        <5>2. E[<<he + h.arg, 0>>] = he + h.arg
          BY <1>1, <5>1, EndsBound
        <5> QED BY <3>3, <4>3, <5>2
      <4>6. ItemEndFrom(s, he, h, E[<<he, 2 * h.arg>>], sorted, E) =
              IF h.type = TextString => Utf8Correct(Slice(s, he, he + h.arg))
              THEN he + h.arg ELSE Bad
        BY <3>1, <3>6
           DEF ItemEndFrom, UInt64, NegInt64, SimpleValue, ByteString, TextString, ArrayType,
               MapType, Tagged
      <4> QED BY <1>1, <1>2, <1>4, <2>4, <2>5, <3>2, <4>4, <4>5, <4>6
    <3> QED BY <1>3, <2>1, <3>5, <3>6
  <2>7. CASE ~IsString(h)
    <3>1. ValidateLeaf(s, o).ok /\ JumpLeaf(s, o) = he
      BY <1>2, <2>1, <2>2, <2>7 DEF ValidateLeaf, JumpLeaf
    <3>2. h.type \in {UInt64, NegInt64, SimpleValue, ArrayType, MapType, Tagged}
      BY <2>1, <2>7
         DEF IsString, UInt64, NegInt64, SimpleValue, ByteString, TextString, ArrayType,
             MapType, Tagged
    <3>3. CASE h.type = MapType
      <4>1. PICK pe : pe = E[<<he, 2 * h.arg>>]
        OBVIOUS
      <4>2. ItemEndFrom(s, he, h, pe, sorted, E) =
              IF pe # Bad /\ (sorted => KeysAscend(s, he, h.arg, E)) THEN pe ELSE Bad
        BY <3>3
           DEF ItemEndFrom, UInt64, NegInt64, SimpleValue, ByteString, TextString, ArrayType,
               MapType, Tagged
      <4>3. SortedAt(s, o) <=> KeysAscend(s, he, h.arg, Ends(s, FALSE, FALSE))
        BY <1>2, <2>1, <3>3 DEF SortedAt
      <4>4. pe # Bad => (SortedAt(s, o) <=> KeysAscend(s, he, h.arg, E))
        BY <1>1, <2>1, <2>3, <4>1, <4>3, KeysWeaker
      <4>5. Announced(h) = 2 * h.arg
        BY <3>3 DEF Announced, ArrayType, MapType
      <4>6. E[<<JumpLeaf(s, o), Announced(h)>>] = pe
        BY <3>1, <4>1, <4>5
      <4>7. ItemEndBy(s, o, short, sorted, E) = ItemEndFrom(s, he, h, pe, sorted, E)
        BY <1>4, <2>4, <4>1
      <4> HIDE <2>4
      <4> QED BY <1>1, <1>2, <2>5, <3>1, <4>2, <4>4, <4>6, <4>7
    <3>4. CASE h.type # MapType
      <4>1. SortedAt(s, o)
        BY <1>2, <3>4 DEF SortedAt
      <4>2. PICK t, a, e : /\ t = h.type /\ a = Announced(h)
                           /\ e = ItemEndFrom(s, he, h, E[<<he, 2 * h.arg>>], sorted, E)
        OBVIOUS
      <4>3. E[<<he, 0>>] = he
        <5>1. he \in Bad .. Len(s) /\ 0 \in Nat
          BY <2>1, <1>3 DEF Bad
        <5> QED BY <1>1, <5>1, EndsBound
      <4>4. /\ t \in {0, 1, 7} => e = he
            /\ t = 4 => e = E[<<he, h.arg>>]
            /\ t = 6 => e = E[<<he, 1>>]
        BY <4>2
           DEF ItemEndFrom, UInt64, NegInt64, SimpleValue, ByteString, TextString, ArrayType,
               MapType, Tagged
      <4>5. /\ t \in {0, 1, 7} => a = 0
            /\ t = 4 => a = h.arg
            /\ t = 6 => a = 1
        BY <4>2 DEF Announced, ArrayType, MapType, Tagged
      <4>6. t \in {0, 1, 7} \/ t = 4 \/ t = 6
        BY <3>2, <3>4, <4>2 DEF UInt64, NegInt64, SimpleValue, ArrayType, MapType, Tagged
      <4>7. e = E[<<he, a>>]
        BY <4>3, <4>4, <4>5, <4>6
      <4> QED BY <1>1, <1>2, <1>4, <2>4, <2>5, <3>1, <4>1, <4>2, <4>7
    <3> QED BY <3>3, <3>4
  <2> QED BY <2>6, <2>7
<1> QED BY <1>7, <1>8

\* One step of a pass with k items missing: the flat count decides a row of
\* items as the recursive grammar does.
LEMMA LeafStep ==
  ASSUME NEW s \in Seq(Byte), Len(s) <= SizeMax, NEW short \in BOOLEAN, NEW sorted \in BOOLEAN,
         NEW o \in 0 .. Len(s), NEW k \in Nat, k > 0
  PROVE  LET E == Ends(s, short, sorted)
             m == (k - 1) + Announced(ReadHeader(s, o))
         IN  IF Accepts(s, o, short, sorted)
             THEN /\ E[<<o, k>>] = E[<<JumpLeaf(s, o), m>>]
                  /\ JumpLeaf(s, o) \in o + 1 .. Len(s) /\ Announced(ReadHeader(s, o)) \in Nat
             ELSE E[<<o, k>>] = Bad
<1>1. PICK E : E = Ends(s, short, sorted)
  OBVIOUS
<1>2. PICK e, p, a : /\ e = ItemEndBy(s, o, short, sorted, E)
                     /\ p = JumpLeaf(s, o) /\ a = Announced(ReadHeader(s, o))
  OBVIOUS
<1>3. Len(s) \in Nat /\ k - 1 \in Nat
  BY LenProperties
<1>4. E[<<o, k>>] = E[<<e, k - 1>>]
  BY <1>1, <1>2, EndsFirst
<1>5. e = IF Accepts(s, o, short, sorted) THEN E[<<p, a>>] ELSE Bad
  BY <1>1, <1>2, ItemIsLeaf
<1>6. CASE Accepts(s, o, short, sorted)
  <2>1. p \in o + 1 .. Len(s) /\ ReadHeader(s, o).arg \in Nat
    <3>1. ValidateLeaf(s, o).ok
      BY <1>6 DEF Accepts
    <3>2. /\ ValidateLeaf(s, o).off \in o .. Len(s) /\ o < ValidateLeaf(s, o).off
          /\ ValidateLeaf(s, o).off = p /\ ReadHeader(s, o).arg \in Nat
      BY <1>2, <3>1, LeafInBuffer
    <3> QED BY <1>3, <3>2
  <2>2. a \in Nat
    BY <1>2, <2>1 DEF Announced
  <2>3. p \in Bad .. Len(s) /\ a + (k - 1) = (k - 1) + a
    BY <1>3, <2>1, <2>2 DEF Bad
  <2>4. E[<<p, a + (k - 1)>>] = E[<<E[<<p, a>>], k - 1>>]
    BY <1>1, <1>3, <2>2, <2>3, EndsAdd
  <2> QED BY <1>1, <1>2, <1>4, <1>5, <1>6, <2>1, <2>2, <2>3, <2>4
<1>7. CASE ~Accepts(s, o, short, sorted)
  <2>1. Bad \in Bad .. Len(s)
    BY <1>3 DEF Bad
  <2>2. E[<<Bad, k - 1>>] = Bad
    BY <1>1, <1>3, <2>1, EndsBound
  <2> QED BY <1>1, <1>4, <1>5, <1>7, <2>2
<1> QED BY <1>6, <1>7

\* What the code counts is what the header announces, if that fits a usize.
LEMMA RemainingIsAnnounced ==
  ASSUME NEW h, h.arg \in Nat, Announced(h) <= SizeMax
  PROVE  RemainingDataItems(h) = Announced(h)
<1>0. SizeMax \in Nat
  BY SizeAssumption
<1>1. CASE h.type = ArrayType
  <2>1. h.arg \in 0 .. SizeMax
    BY <1>0, <1>1 DEF Announced
  <2> QED BY <1>1, <2>1, SizeId
          DEF Announced, RemainingDataItems, ArrayType, MapType, Tagged
<1>2. CASE h.type = MapType
  <2>1. PICK x \in Nat : x = h.arg /\ Announced(h) = x + x
    BY <1>2 DEF Announced, ArrayType, MapType
  <2>2. x \in 0 .. SizeMax /\ x + x \in 0 .. SizeMax
    BY <1>0, <2>1
  <2>3. Size(x) = x /\ Size(x + x) = x + x
    BY <2>2, SizeId
  <2>4. RemainingDataItems(h) = Size(Size(h.arg) + Size(h.arg))
    BY <1>2 DEF RemainingDataItems, ArrayType, MapType, Tagged
  <2> QED BY <2>1, <2>3, <2>4
<1>3. CASE h.type \notin {ArrayType, MapType}
  BY <1>3 DEF Announced, RemainingDataItems
<1> QED BY <1>1, <1>2, <1>3

-----------------------------------------------------------------------------
\* Where the loop of jump_raw_data_item ends.
JumpStops(s, c) ==
  c[2] = 0 \/ JumpNext(s, c) \notin (c[1] + 1 .. Len(s)) \X Nat
JumpPlaces(s) == (0 .. Len(s)) \X Nat

\* jump_raw_data_item's loop, unfolded: there is a function that gives the end of the
\* loop for every <<offset, items missing>>, and Jump is its value at the start.
LEMMA JumpLoop ==
  ASSUME NEW s, Len(s) \in Nat, NEW o \in 0 .. Len(s)
  PROVE  \E f :
           /\ Jump(s, o) = f[<<o, 1>>]
           /\ \A c \in JumpPlaces(s) :
                f[c] = IF JumpStops(s, c) THEN c[1] ELSE f[JumpNext(s, c)]
<1> DEFINE F(f) == [c \in JumpPlaces(s) |-> IF JumpStops(s, c) THEN c[1] ELSE f[JumpNext(s, c)]]
<1> DEFINE Body(f, c) == IF JumpStops(s, c) THEN c[1] ELSE f[JumpNext(s, c)]
           Good(f, k) == \A c \in JumpPlaces(s) : Len(s) - c[1] <= k => f[c] = Body(f, c)
           S == {k \in Nat : \E f : f = [c \in JumpPlaces(s) |-> f[c]] /\ Good(f, k)}
<1>0. ASSUME NEW c \in JumpPlaces(s)
      PROVE  /\ c[1] \in 0 .. Len(s)
             /\ JumpStops(s, c) \/ (JumpNext(s, c) \in JumpPlaces(s) /\ c[1] < JumpNext(s, c)[1])
  BY DEF JumpPlaces, JumpStops
<1>1. \E f : f = F(f)
  <2>1. 0 \in S
    <3> DEFINE f == [c \in JumpPlaces(s) |-> c[1]]
    <3>1. ASSUME NEW c \in JumpPlaces(s), Len(s) - c[1] <= 0 PROVE f[c] = Body(f, c)
      <4>1. JumpStops(s, c)
        BY <1>0, <3>1 DEF JumpPlaces
      <4> QED BY <4>1
    <3> QED BY <3>1
  <2>2. ASSUME NEW k \in S PROVE k + 1 \in S
    <3>1. PICK f : f = [c \in JumpPlaces(s) |-> f[c]] /\ Good(f, k)
      BY <2>2
    <3> DEFINE g == [c \in JumpPlaces(s) |-> Body(f, c)]
    <3>2. ASSUME NEW c \in JumpPlaces(s), Len(s) - c[1] <= k + 1 PROVE g[c] = Body(g, c)
      <4>1. CASE JumpStops(s, c)
        BY <4>1
      <4>2. CASE ~JumpStops(s, c)
        <5> DEFINE e == JumpNext(s, c)
        <5>1. e \in JumpPlaces(s) /\ Len(s) - e[1] <= k
          BY <1>0, <2>2, <3>2, <4>2
        <5>2. f[e] = Body(f, e)
          BY <3>1, <5>1
        <5> QED BY <4>2, <5>1, <5>2
      <4> QED BY <4>1, <4>2
    <3>3. g = [c \in JumpPlaces(s) |-> g[c]]
      OBVIOUS
    <3>4. Good(g, k + 1)
      BY <3>2
    <3> HIDE DEF Good
    <3> QED BY <2>2, <3>3, <3>4
  <2>3. S = Nat
    <3> HIDE DEF S
    <3>1. S \subseteq Nat BY DEF S
    <3> QED BY <2>1, <2>2, <3>1, Induction
  <2>4. PICK f : f = [c \in JumpPlaces(s) |-> f[c]] /\ Good(f, Len(s))
    BY <2>3
  <2>5. ASSUME NEW c \in JumpPlaces(s) PROVE f[c] = Body(f, c)
    <3>1. Len(s) - c[1] <= Len(s)
      BY <1>0
    <3> HIDE DEF Body
    <3> QED BY <2>4, <3>1
  <2> QED BY <2>4, <2>5
<1> DEFINE f == CHOOSE g : g = F(g)
<1>3. f = F(f)
  <2> HIDE DEF F
  <2> QED BY <1>1
<1>4. Jump(s, o) = f[<<o, 1>>]
  BY DEF Jump, JumpOn, JumpPlaces, JumpStops
<1> HIDE DEF f
<1>5. \A c \in JumpPlaces(s) : f[c] = IF JumpStops(s, c) THEN c[1] ELSE f[JumpNext(s, c)]
  BY <1>3
<1> QED BY <1>4, <1>5

\* jump_raw_data_item, which checks nothing, gets from the start of a valid item
\* to its end.
LEMMA JumpIsEnd ==
  ASSUME NEW s \in Seq(Byte), Len(s) <= SizeMax, NEW o \in 0 .. Len(s),
         Ends(s, FALSE, FALSE)[<<o, 1>>] # Bad
  PROVE  Jump(s, o) = Ends(s, FALSE, FALSE)[<<o, 1>>]
<1>0. Len(s) \in Nat /\ SizeMax \in Nat
  BY LenProperties, SizeAssumption
<1>1. PICK E : E = Ends(s, FALSE, FALSE)
  OBVIOUS
<1>2. PICK f : /\ Jump(s, o) = f[<<o, 1>>]
               /\ \A c \in JumpPlaces(s) :
                    f[c] = IF JumpStops(s, c) THEN c[1] ELSE f[JumpNext(s, c)]
  BY <1>0, JumpLoop
<1> DEFINE S == {k \in Nat : \A p \in 0 .. Len(s) : \A m \in Nat :
                   Len(s) - p < k /\ E[<<p, m>>] # Bad => f[<<p, m>>] = E[<<p, m>>]}
<1>3. 0 \in S
  BY <1>0
<1>4. ASSUME NEW k \in S PROVE k + 1 \in S
  <2>1. /\ k \in Nat
        /\ \A p \in 0 .. Len(s) : \A m \in Nat :
             Len(s) - p < k /\ E[<<p, m>>] # Bad => f[<<p, m>>] = E[<<p, m>>]
    OBVIOUS
  <2> HIDE DEF S
  <2>2. ASSUME NEW p \in 0 .. Len(s), NEW m \in Nat, Len(s) - p < k + 1, E[<<p, m>>] # Bad
        PROVE  f[<<p, m>>] = E[<<p, m>>]
    <3>1. PICK c : c = <<p, m>>
      OBVIOUS
    <3>2. c \in JumpPlaces(s) /\ c[1] = p /\ c[2] = m
      BY <3>1 DEF JumpPlaces
    <3>3. f[c] = IF JumpStops(s, c) THEN p ELSE f[JumpNext(s, c)]
      BY <1>2, <3>2
    <3>4. CASE m = 0
      <4>1. f[c] = p
        BY <3>2, <3>3, <3>4 DEF JumpStops
      <4>2. E[<<p, m>>] = p
        <5>1. PICK no \in BOOLEAN : no = FALSE
          OBVIOUS
        <5>2. E = Ends(s, no, no)
          BY <1>1, <5>1
        <5>3. p \in Bad .. Len(s)
          BY <1>0 DEF Bad
        <5> QED BY <3>4, <5>2, <5>3, EndsBound
      <4> QED BY <3>1, <4>1, <4>2
    <3>5. CASE m > 0
      <4>1. PICK q, a : q = JumpLeaf(s, p) /\ a = Announced(ReadHeader(s, p))
        OBVIOUS
      <4>2. Accepts(s, p, FALSE, FALSE)
        BY <1>1, <2>2, <3>5, LeafStep
      <4>3. /\ E[<<p, m>>] = E[<<q, (m - 1) + a>>]
            /\ q \in p + 1 .. Len(s) /\ a \in Nat
        BY <1>1, <3>5, <4>1, <4>2, LeafStep
      <4>4. PICK b \in Nat : b = (m - 1) + a
        BY <3>5, <4>3
      <4>5. q \in Bad .. Len(s) /\ q \in 0 .. Len(s) /\ Len(s) - q < k /\ q \in p + 1 .. Len(s)
        BY <1>0, <2>1, <2>2, <4>3 DEF Bad
      <4>6. E[<<q, b>>] # Bad /\ E[<<p, m>>] = E[<<q, b>>]
        BY <2>2, <4>3, <4>4
      <4>7. q + b <= E[<<q, b>>] /\ E[<<q, b>>] \in 0 .. Len(s)
        BY <1>1, <4>5, <4>6, EndsBound
      <4>8. b \in 0 .. SizeMax /\ a <= SizeMax
        BY <1>0, <3>5, <4>3, <4>4, <4>5, <4>7
      <4>9. ReadHeader(s, p).arg \in Nat
        BY <4>2, LeafInBuffer DEF Accepts
      <4>10. RemainingDataItems(ReadHeader(s, p)) = a
        BY <4>1, <4>8, <4>9, RemainingIsAnnounced
      <4>11. Size(m - 1 + RemainingDataItems(ReadHeader(s, p))) = b
        BY <4>4, <4>8, <4>10, SizeId
      <4>12. JumpNext(s, c) = <<q, b>>
        BY <3>2, <4>1, <4>11 DEF JumpNext
      <4>13. ~JumpStops(s, c)
        BY <3>2, <3>5, <4>5, <4>12 DEF JumpStops
      <4>14. f[<<p, m>>] = f[<<q, b>>]
        BY <3>1, <3>3, <4>12, <4>13
      <4> QED BY <2>1, <4>5, <4>6, <4>14
    <3> QED BY <3>4, <3>5
  <2> QED BY <2>1, <2>2 DEF S
<1>5. S = Nat
  <2>1. S \subseteq Nat
    OBVIOUS
  <2> HIDE DEF S
  <2> QED BY <1>3, <1>4, <2>1, Induction
<1>6. Len(s) + 1 \in S
  <2> HIDE DEF S
  <2> QED BY <1>0, <1>5
<1>7. f[<<o, 1>>] = E[<<o, 1>>]
  <2>1. Len(s) - o < Len(s) + 1 /\ 1 \in Nat
    BY <1>0
  <2>2. E[<<o, 1>>] # Bad
    BY <1>1
  <2> QED BY <1>6, <2>1, <2>2
<1> HIDE DEF S
<1> QED BY <1>1, <1>2, <1>7

-----------------------------------------------------------------------------
\* t occurs in s from offset d on.
Occurs(t, s, d) ==
  d \in Nat /\ d + Len(t) <= Len(s) /\ \A o \in Nat : o < Len(t) => At(s, d + o) = At(t, o)

\* What a slice is.
LEMMA SliceFacts ==
  ASSUME NEW s \in Seq(Byte), NEW a \in Nat, NEW b \in Nat, a <= b, b <= Len(s)
  PROVE  /\ Slice(s, a, b) \in Seq(Byte) /\ Len(Slice(s, a, b)) = b - a
         /\ \A o \in Nat : o < b - a => At(Slice(s, a, b), o) = At(s, a + o)
<1>1. Len(s) \in Nat
  BY LenProperties
<1>2. PICK m, n \in Int : m = a + 1 /\ n = b
  OBVIOUS
<1>3. Slice(s, a, b) = SubSeq(s, m, n) /\ m \in 1 .. Len(s) + 1 /\ n \in m - 1 .. Len(s)
  BY <1>1, <1>2 DEF Slice
<1>4. /\ SubSeq(s, m, n) \in Seq(Byte)
      /\ Len(SubSeq(s, m, n)) = IF m <= n THEN n - m + 1 ELSE 0
      /\ \A i \in 1 .. n - m + 1 : SubSeq(s, m, n)[i] = s[m + i - 1]
  BY <1>3, SubSeqProperties, SMTT(40)
<1>5. n - m + 1 = b - a /\ (~(m <= n) => b - a = 0)
  BY <1>2
<1>6. ASSUME NEW o \in Nat, o < b - a PROVE At(Slice(s, a, b), o) = At(s, a + o)
  <2>1. o + 1 \in 1 .. n - m + 1 /\ m + (o + 1) - 1 = a + o + 1
    BY <1>2, <1>6
  <2>2. SubSeq(s, m, n)[o + 1] = s[m + (o + 1) - 1]
    BY <1>4, <2>1
  <2> QED BY <1>3, <2>1, <2>2 DEF At
<1> QED BY <1>3, <1>4, <1>5, <1>6

\* Parts of t are parts of s.
LEMMA SliceOccurs ==
  ASSUME NEW s \in Seq(Byte), NEW t \in Seq(Byte), NEW d, Occurs(t, s, d),
         NEW a \in Nat, NEW b \in Nat, a <= b, b <= Len(t)
  PROVE  Slice(s, d + a, d + b) = Slice(t, a, b)
<1>1. Len(s) \in Nat /\ Len(t) \in Nat /\ d \in Nat /\ d + Len(t) <= Len(s)
  BY LenProperties DEF Occurs
<1>2. PICK x, y : x = Slice(s, d + a, d + b) /\ y = Slice(t, a, b)
  OBVIOUS
<1>3. /\ x \in Seq(Byte) /\ Len(x) = b - a
      /\ \A i \in 1 .. b - a : x[i] = s[d + a + i]
  <2>1. PICK m, n \in Int : m = d + a + 1 /\ n = d + b
    BY <1>1
  <2>2. x = SubSeq(s, m, n) /\ m \in 1 .. Len(s) + 1 /\ n \in m - 1 .. Len(s)
    BY <1>1, <1>2, <2>1 DEF Slice
  <2>3. /\ SubSeq(s, m, n) \in Seq(Byte)
        /\ Len(SubSeq(s, m, n)) = IF m <= n THEN n - m + 1 ELSE 0
        /\ \A i \in 1 .. n - m + 1 : SubSeq(s, m, n)[i] = s[m + i - 1]
    BY <2>2, SubSeqProperties
  <2>4. n - m + 1 = b - a /\ (~(m <= n) => b - a = 0)
    BY <1>1, <2>1
  <2>5. \A i \in 1 .. b - a : m + i - 1 = d + a + i
    BY <1>1, <2>1
  <2> QED BY <2>2, <2>3, <2>4, <2>5
<1>4. /\ y \in Seq(Byte) /\ Len(y) = b - a
      /\ \A i \in 1 .. b - a : y[i] = t[a + i]
  <2>1. PICK m, n \in Int : m = a + 1 /\ n = b
    BY <1>1
  <2>2. y = SubSeq(t, m, n) /\ m \in 1 .. Len(t) + 1 /\ n \in m - 1 .. Len(t)
    BY <1>1, <1>2, <2>1 DEF Slice
  <2>3. /\ SubSeq(t, m, n) \in Seq(Byte)
        /\ Len(SubSeq(t, m, n)) = IF m <= n THEN n - m + 1 ELSE 0
        /\ \A i \in 1 .. n - m + 1 : SubSeq(t, m, n)[i] = t[m + i - 1]
    BY <2>2, SubSeqProperties
  <2>4. n - m + 1 = b - a /\ (~(m <= n) => b - a = 0)
    BY <1>1, <2>1
  <2>5. \A i \in 1 .. b - a : m + i - 1 = a + i
    BY <1>1, <2>1
  <2> QED BY <2>2, <2>3, <2>4, <2>5
<1>5. \A i \in 1 .. b - a : s[d + a + i] = t[a + i]
  <2> SUFFICES ASSUME NEW i \in 1 .. b - a PROVE s[d + a + i] = t[a + i]
    OBVIOUS
  <2>1. PICK o \in Nat : o = a + i - 1 /\ o < Len(t) /\ d + o + 1 = d + a + i /\ o + 1 = a + i
    BY <1>1
  <2>2. At(s, d + o) = At(t, o)
    BY <2>1 DEF Occurs
  <2> QED BY <2>1, <2>2 DEF At
<1>6. x = y
  BY <1>3, <1>4, <1>5, SeqEqual
<1> QED BY <1>2, <1>6

\* A header of t is a header of s.
LEMMA HeadOccurs ==
  ASSUME NEW s \in Seq(Byte), NEW t \in Seq(Byte), NEW d, Occurs(t, s, d),
         NEW short \in BOOLEAN, NEW o \in 0 .. Len(t), HeadEnd(t, o, short) # Bad
  PROVE  /\ HeadEnd(s, d + o, short) = d + HeadEnd(t, o, short)
         /\ ReadHeader(s, d + o) = ReadHeader(t, o)
<1>1. Len(s) \in Nat /\ Len(t) \in Nat /\ d \in Nat /\ d + Len(t) <= Len(s) /\ o \in Nat
  BY LenProperties DEF Occurs
<1>2. PICK i, k : i = AdditionalInfo(t, o) /\ k = LongArgumentLen(i)
  OBVIOUS
<1>3. o < Len(t) /\ i \in Nat /\ i <= 27 /\ o + 1 + k <= Len(t)
  <2>1. o < Len(t)
    BY <1>1, <1>2 DEF HeadEnd
  <2>2. ~(i > 27 \/ o + 1 + k > Len(t))
    BY <1>2, <2>1 DEF HeadEnd
  <2>3. At(t, o) \in Nat
    <3>1. o \in 0 .. Len(t) - 1
      BY <1>1, <2>1
    <3> QED BY <3>1, ByteElements
  <2>4. i \in Nat /\ k \in Nat
    BY <1>2, <2>3 DEF AdditionalInfo, LongArgumentLen
  <2> QED BY <1>1, <2>1, <2>2, <2>4
<1>4. ASSUME NEW p \in Nat, p < Len(t) PROVE At(s, d + p) = At(t, p)
  BY <1>4 DEF Occurs
<1>5. /\ AdditionalInfo(s, d + o) = i /\ MajorType(s, d + o) = MajorType(t, o)
  BY <1>2, <1>1, <1>3, <1>4 DEF AdditionalInfo, MajorType
<1>6. k \in Nat /\ (k = 1 \/ k = 2 \/ k = 4 \/ k = 8 \/ k = 0)
  BY <1>2 DEF LongArgumentLen
<1>7. \A j \in 0 .. k - 1 : At(s, d + o + 1 + j) = At(t, o + 1 + j)
  <2> SUFFICES ASSUME NEW j \in 0 .. k - 1 PROVE At(s, d + o + 1 + j) = At(t, o + 1 + j)
    OBVIOUS
  <2>1. PICK p \in Nat : p = o + 1 + j /\ p < Len(t) /\ d + p = d + o + 1 + j
    BY <1>1, <1>3, <1>6
  <2> QED BY <1>4, <2>1
<1>8. ArgumentAt(s, d + o, i) = ArgumentAt(t, o, i)
  <2>1. PICK q, p \in Nat : q = d + o + 1 /\ p = o + 1
    BY <1>1
  <2>2. \A j \in 0 .. k - 1 : At(s, q + j) = At(t, p + j)
    BY <1>7, <2>1
  <2>3. CASE i = Info8
    <3>1. k = 1
      BY <1>2, <2>3 DEF LongArgumentLen, Info8, Info16, Info32, Info64
    <3>2. 0 \in 0 .. k - 1 /\ q + 0 = q /\ p + 0 = p
      BY <2>1, <3>1
    <3>3. At(s, q) = At(t, p)
      BY <2>2, <3>2
    <3> QED BY <2>1, <2>3, <3>3 DEF ArgumentAt
  <2>4. CASE i = Info16
    <3>1. k = 2
      BY <1>2, <2>4 DEF LongArgumentLen, Info8, Info16, Info32, Info64
    <3>2. 0 \in 0 .. k - 1 /\ 1 \in 0 .. k - 1 /\ q + 0 = q /\ p + 0 = p
      BY <2>1, <3>1
    <3>3. BE16(s, q) = BE16(t, p)
      BY <2>2, <3>2 DEF BE16
    <3> QED BY <2>1, <2>4, <3>3 DEF ArgumentAt, Info8, Info16
  <2>5. CASE i = Info32
    <3>1. k = 4
      BY <1>2, <2>5 DEF LongArgumentLen, Info8, Info16, Info32, Info64
    <3>2. At(s, q) = At(t, p) /\ At(s, q + 1) = At(t, p + 1)
          /\ At(s, q + 2) = At(t, p + 2) /\ At(s, q + 2 + 1) = At(t, p + 2 + 1)
      <4>1. 0 \in 0 .. k - 1 /\ 1 \in 0 .. k - 1 /\ 2 \in 0 .. k - 1 /\ 3 \in 0 .. k - 1
            /\ q + 0 = q /\ p + 0 = p /\ q + 3 = q + 2 + 1 /\ p + 3 = p + 2 + 1
        BY <2>1, <3>1
      <4> QED BY <2>2, <4>1
    <3>3. BE32(s, q) = BE32(t, p)
      BY <3>2 DEF BE32, BE16
    <3> QED BY <2>1, <2>5, <3>3 DEF ArgumentAt, Info8, Info16, Info32
  <2>6. CASE i = Info64
    <3>1. k = 8
      BY <1>2, <2>6 DEF LongArgumentLen, Info8, Info16, Info32, Info64
    <3>2. \A j \in 0 .. 3 : At(s, q + j) = At(t, p + j)
      <4>1. \A j \in 0 .. 3 : j \in 0 .. k - 1
        BY <3>1
      <4> QED BY <2>2, <4>1
    <3>3. BE32(s, q + 4) = BE32(t, p + 4)
      <4>1. At(s, q + 4) = At(t, p + 4) /\ At(s, q + 4 + 1) = At(t, p + 4 + 1)
            /\ At(s, q + 4 + 2) = At(t, p + 4 + 2) /\ At(s, q + 4 + 2 + 1) = At(t, p + 4 + 2 + 1)
        <5>1. 4 \in 0 .. k - 1 /\ 5 \in 0 .. k - 1 /\ 6 \in 0 .. k - 1 /\ 7 \in 0 .. k - 1
              /\ q + 5 = q + 4 + 1 /\ p + 5 = p + 4 + 1 /\ q + 6 = q + 4 + 2 /\ p + 6 = p + 4 + 2
              /\ q + 7 = q + 4 + 2 + 1 /\ p + 7 = p + 4 + 2 + 1
          BY <2>1, <3>1
        <5> QED BY <2>2, <5>1
      <4> QED BY <4>1 DEF BE32, BE16
    <3>4. BE64(s, q) = BE64(t, p)
      BY <3>2, <3>3 DEF BE64
    <3> QED BY <2>1, <2>6, <3>4 DEF ArgumentAt, Info8, Info16, Info32, Info64
  <2>7. CASE i \notin {Info8, Info16, Info32, Info64}
    BY <2>7 DEF ArgumentAt
  <2> QED BY <2>3, <2>4, <2>5, <2>6, <2>7
<1>9. ReadHeader(s, d + o) = ReadHeader(t, o)
  BY <1>2, <1>5, <1>8 DEF ReadHeader
<1>10. HeadEnd(s, d + o, short) = d + HeadEnd(t, o, short)
  <2>1. PICK simple \in BOOLEAN : simple = (MajorType(t, o) = SimpleValue)
    OBVIOUS
  <2>2. PICK m, n \in Nat : m = o + 1 + k /\ n = d + o + 1 + k /\ n = d + m
                            /\ m - o = 1 + k /\ n - (d + o) = 1 + k
    BY <1>1, <1>6
  <2>3. ~(o >= Len(t)) /\ ~(i > 27 \/ m > Len(t)) /\ ~(d + o >= Len(s)) /\ ~(i > 27 \/ n > Len(s))
    BY <1>1, <1>3, <1>6, <2>2
  <2>4. HeadEnd(t, o, short) =
          IF simple THEN IF i <= 23 \/ (i = 24 /\ At(t, o + 1) >= 32) THEN m ELSE Bad
          ELSE IF short /\ ShortestLen(ReadHeader(t, o).arg) # 1 + k THEN Bad
          ELSE m
    BY <1>2, <2>1, <2>2, <2>3 DEF HeadEnd
  <2>5. HeadEnd(s, d + o, short) =
          IF simple THEN IF i <= 23 \/ (i = 24 /\ At(s, d + o + 1) >= 32) THEN n ELSE Bad
          ELSE IF short /\ ShortestLen(ReadHeader(t, o).arg) # 1 + k THEN Bad
          ELSE n
    BY <1>2, <1>5, <1>9, <2>1, <2>2, <2>3 DEF HeadEnd
  <2>6. i = 24 => At(s, d + o + 1) = At(t, o + 1)
    <3> SUFFICES ASSUME i = 24 PROVE At(s, d + o + 1) = At(t, o + 1)
      OBVIOUS
    <3>1. k = 1
      BY <1>2 DEF LongArgumentLen, Info8, Info16, Info32, Info64
    <3>2. 0 \in 0 .. k - 1 /\ d + o + 1 + 0 = d + o + 1 /\ o + 1 + 0 = o + 1
      BY <1>1, <3>1
    <3> QED BY <1>7, <3>2
  <2> QED BY <2>2, <2>4, <2>5, <2>6
<1> QED BY <1>9, <1>10

\* Where f has a row of t behind offset o, g has the same row of s, d further.
ShiftedBehind(t, o, d, f, g) ==
  \A p \in 0 .. Len(t) : \A k \in Nat :
    p > o /\ f[<<p, k>>] # Bad => g[<<d + p, k>>] = d + f[<<p, k>>]

\* An item of t is an item of s.
LEMMA ItemOccurs ==
  ASSUME NEW s \in Seq(Byte), NEW t \in Seq(Byte), Len(s) <= SizeMax, NEW d, Occurs(t, s, d),
         NEW short \in BOOLEAN, NEW sorted \in BOOLEAN, NEW o \in 0 .. Len(t),
         ShiftedBehind(t, o, d, Ends(t, short, sorted), Ends(s, short, sorted)),
         ItemEndBy(t, o, short, sorted, Ends(t, short, sorted)) # Bad
  PROVE  ItemEndBy(s, d + o, short, sorted, Ends(s, short, sorted))
           = d + ItemEndBy(t, o, short, sorted, Ends(t, short, sorted))
<1>1. PICK f, g : f = Ends(t, short, sorted) /\ g = Ends(s, short, sorted)
  OBVIOUS
<1>2. PICK he, h : he = HeadEnd(t, o, short) /\ h = ReadHeader(t, o)
  OBVIOUS
<1>3. /\ Len(s) \in Nat /\ Len(t) \in Nat /\ o \in Nat /\ d \in Nat
      /\ d + Len(t) <= Len(s) /\ Len(t) <= SizeMax
  <2>1. Len(s) \in Nat /\ Len(t) \in Nat /\ o \in Nat /\ d \in Nat /\ d + Len(t) <= Len(s)
    BY LenProperties DEF Occurs
  <2> QED BY <2>1, SizeAssumption
<1>4. ItemBehind(t, he, h, sorted, f) # Bad /\ he # Bad
      /\ ItemEndBy(t, o, short, sorted, f) = ItemBehind(t, he, h, sorted, f)
  BY <1>1, <1>2 DEF ItemEndBy, ItemBehind
<1>5. HeadEnd(s, d + o, short) = d + he /\ ReadHeader(s, d + o) = h
  BY <1>2, <1>4, HeadOccurs
<1>6. he \in Nat /\ he > o /\ he <= Len(t) /\ h.arg \in Nat /\ h.type \in 0 .. 7 /\ d + he # Bad
  <2>1. he \in o + 1 .. Len(t) /\ h.arg \in Nat /\ h.type \in 0 .. 7
    BY <1>2, <1>3, <1>4, HeadFacts
  <2> QED BY <1>3, <2>1 DEF Bad
<1>7. ItemEndBy(s, d + o, short, sorted, g) = ItemBehind(s, d + he, h, sorted, g)
  BY <1>5 DEF ItemEndBy
<1>8. ASSUME NEW p \in Nat, p > o, p <= Len(t), NEW k \in Nat, f[<<p, k>>] # Bad
      PROVE  g[<<d + p, k>>] = d + f[<<p, k>>]
  <2>1. p \in 0 .. Len(t)
    BY <1>3, <1>8
  <2> QED BY <1>1, <1>8, <2>1 DEF ShiftedBehind
<1>9. PICK pairs \in Nat : pairs = 2 * h.arg
  BY <1>6
<1>10. ItemEndFrom(t, he, h, f[<<he, pairs>>], sorted, f) # Bad
       /\ ItemEndFrom(t, he, h, f[<<he, pairs>>], sorted, f) = ItemBehind(t, he, h, sorted, f)
  BY <1>4, <1>9 DEF ItemBehind
<1>11. ItemBehind(s, d + he, h, sorted, g) = ItemEndFrom(s, d + he, h, g[<<d + he, pairs>>], sorted, g)
  BY <1>6, <1>9 DEF ItemBehind
<1>12. f[<<he, pairs>>] # Bad => (KeysAscend(s, d + he, h.arg, g) <=> KeysAscend(t, he, h.arg, f))
  <2> SUFFICES ASSUME f[<<he, pairs>>] # Bad
               PROVE  KeysAscend(s, d + he, h.arg, g) <=> KeysAscend(t, he, h.arg, f)
    OBVIOUS
  <2>1. ASSUME NEW i \in Nat, i < h.arg PROVE Key(s, d + he, i, g) = Key(t, he, i, f)
    <3>1. PICK i2 \in Nat : i2 = 2 * i /\ i2 < pairs /\ 1 <= pairs - i2 /\ pairs - i2 \in Nat
      BY <1>6, <1>9, <2>1, SMTT(40)
    <3>2. PICK a : a = f[<<he, i2>>]
      OBVIOUS
    <3>3. a # Bad /\ a \in he .. Len(t) /\ f[<<a, pairs - i2>>] = f[<<he, pairs>>]
      <4>1. he \in 0 .. Len(t) /\ i2 <= pairs
        BY <1>3, <1>6, <3>1
      <4> QED BY <1>1, <1>3, <3>1, <3>2, <4>1, RowParts
    <3>4. a \in Nat /\ a > o /\ a <= Len(t) /\ a \in 0 .. Len(t)
      BY <1>3, <1>6, <3>3
    <3>5. PICK b : b = f[<<a, 1>>]
      OBVIOUS
    <3>6. b # Bad
      <4>1. PICK m \in Nat : m = pairs - i2 /\ 1 <= m
        BY <3>1
      <4>2. f[<<a, m>>] # Bad
        BY <3>3, <4>1
      <4> QED BY <1>1, <1>3, <3>4, <3>5, <4>1, <4>2, RowHead
    <3>7. b \in Nat /\ a <= b /\ b <= Len(t)
      <4>1. b \in 0 .. Len(t) /\ a + 1 <= b
        BY <1>1, <1>3, <3>4, <3>5, <3>6, RowBytes
      <4> QED BY <1>3, <3>4, <4>1
    <3>8. g[<<d + he, i2>>] = d + a
      BY <1>6, <1>8, <3>1, <3>2, <3>3
    <3>9. g[<<d + a, 1>>] = d + b
      BY <1>8, <3>4, <3>5, <3>6
    <3>10. Slice(s, d + a, d + b) = Slice(t, a, b)
      BY <3>4, <3>7, SliceOccurs
    <3>11. Key(t, he, i, f) = Slice(t, a, b) /\ Key(s, d + he, i, g) = Slice(s, d + a, d + b)
      BY <3>1, <3>2, <3>5, <3>8, <3>9 DEF Key
    <3> QED BY <3>10, <3>11
  <2>2. \A i \in 1 .. h.arg - 1 : i \in Nat /\ i < h.arg /\ i - 1 \in Nat /\ i - 1 < h.arg
    BY <1>6
  <2> QED BY <2>1, <2>2 DEF KeysAscend
<1>13. ItemEndFrom(s, d + he, h, g[<<d + he, pairs>>], sorted, g)
         = d + ItemEndFrom(t, he, h, f[<<he, pairs>>], sorted, f)
  <2>1. CASE h.type \in {UInt64, NegInt64, SimpleValue}
    <3>1. /\ ItemEndFrom(s, d + he, h, g[<<d + he, pairs>>], sorted, g) = d + he
          /\ ItemEndFrom(t, he, h, f[<<he, pairs>>], sorted, f) = he
      BY <2>1 DEF ItemEndFrom, UInt64, NegInt64, ByteString, TextString, ArrayType, MapType,
                Tagged, SimpleValue
    <3> QED BY <3>1
  <2>2. CASE h.type \in {ByteString, TextString}
    <3>1. h.arg <= Len(t) - he /\ ItemEndFrom(t, he, h, f[<<he, pairs>>], sorted, f) = he + h.arg
          /\ (h.type = TextString => Utf8Correct(Slice(t, he, he + h.arg)))
      BY <1>10, <2>2 DEF ItemEndFrom, UInt64, NegInt64, ByteString, TextString, ArrayType, MapType,
                Tagged, SimpleValue
    <3>2. PICK x \in Nat : x = h.arg /\ he + x <= Len(t) /\ he + x \in Nat /\ he <= he + x
      BY <1>3, <1>6, <3>1
    <3>3. Slice(s, d + he, d + (he + x)) = Slice(t, he, he + x)
      BY <1>6, <3>2, SliceOccurs
    <3>4. d + (he + x) = d + he + x /\ x <= Len(s) - (d + he)
      BY <1>3, <1>6, <3>2
    <3>5. ItemEndFrom(s, d + he, h, g[<<d + he, pairs>>], sorted, g) = d + he + x
      BY <2>2, <3>1, <3>2, <3>3, <3>4 DEF ItemEndFrom, UInt64, NegInt64, ByteString, TextString,
                ArrayType, MapType, Tagged, SimpleValue
    <3> QED BY <3>1, <3>2, <3>4, <3>5
  <2>3. CASE h.type = ArrayType
    <3>1. ItemEndFrom(t, he, h, f[<<he, pairs>>], sorted, f) = f[<<he, h.arg>>]
          /\ ItemEndFrom(s, d + he, h, g[<<d + he, pairs>>], sorted, g) = g[<<d + he, h.arg>>]
      BY <2>3 DEF ItemEndFrom, UInt64, NegInt64, ByteString, TextString, ArrayType, MapType,
                Tagged, SimpleValue
    <3> QED BY <1>6, <1>8, <1>10, <3>1
  <2>4. CASE h.type = Tagged
    <3>1. ItemEndFrom(t, he, h, f[<<he, pairs>>], sorted, f) = f[<<he, 1>>]
          /\ ItemEndFrom(s, d + he, h, g[<<d + he, pairs>>], sorted, g) = g[<<d + he, 1>>]
      BY <2>4 DEF ItemEndFrom, UInt64, NegInt64, ByteString, TextString, ArrayType, MapType,
                Tagged, SimpleValue
    <3> QED BY <1>6, <1>8, <1>10, <3>1
  <2>5. CASE h.type = MapType
    <3>1. PICK x, y : x = f[<<he, pairs>>] /\ y = g[<<d + he, pairs>>]
      OBVIOUS
    <3> DEFINE kf == KeysAscend(t, he, h.arg, f)
               kg == KeysAscend(s, d + he, h.arg, g)
    <3>2. /\ ItemEndFrom(t, he, h, x, sorted, f) = IF x # Bad /\ (sorted => kf) THEN x ELSE Bad
          /\ ItemEndFrom(s, d + he, h, y, sorted, g) = IF y # Bad /\ (sorted => kg) THEN y ELSE Bad
      BY <2>5 DEF ItemEndFrom, UInt64, NegInt64, ByteString, TextString, ArrayType, MapType,
                Tagged, SimpleValue
    <3>3. x # Bad /\ (sorted => kf)
      BY <1>10, <3>1, <3>2
    <3>4. y = d + x
      BY <1>6, <1>8, <3>1, <3>3
    <3>5. kg <=> kf
      BY <1>12, <3>1, <3>3
    <3>6. x \in Nat
      <4>1. he \in 0 .. Len(t)
        BY <1>3, <1>6
      <4>2. x \in 0 .. Len(t)
        BY <1>1, <1>3, <3>1, <3>3, <4>1, RowBytes
      <4> QED BY <4>2
    <3>7. y # Bad
      BY <1>3, <3>4, <3>6 DEF Bad
    <3> HIDE DEF kf, kg
    <3>8. sorted => kg
      BY <3>3, <3>5
    <3>9. ItemEndFrom(t, he, h, x, sorted, f) = x /\ ItemEndFrom(s, d + he, h, y, sorted, g) = y
      BY <3>2, <3>3, <3>7, <3>8
    <3> QED BY <3>1, <3>4, <3>9
  <2> QED BY <1>6, <2>1, <2>2, <2>3, <2>4, <2>5
          DEF UInt64, NegInt64, ByteString, TextString, ArrayType, MapType, Tagged, SimpleValue
<1> QED BY <1>1, <1>4, <1>7, <1>10, <1>11, <1>13

\* A row of t is a row of s.
LEMMA EndsOccurs ==
  ASSUME NEW s \in Seq(Byte), NEW t \in Seq(Byte), Len(s) <= SizeMax, NEW d, Occurs(t, s, d),
         NEW short \in BOOLEAN, NEW sorted \in BOOLEAN
  PROVE  \A p \in 0 .. Len(t) : \A m \in Nat :
           Ends(t, short, sorted)[<<p, m>>] # Bad
             => Ends(s, short, sorted)[<<d + p, m>>] = d + Ends(t, short, sorted)[<<p, m>>]
<1>1. PICK f, g : f = Ends(t, short, sorted) /\ g = Ends(s, short, sorted)
  OBVIOUS
<1>2. /\ Len(s) \in Nat /\ Len(t) \in Nat /\ d \in Nat /\ d + Len(t) <= Len(s) /\ Len(t) <= SizeMax
  <2>1. Len(s) \in Nat /\ Len(t) \in Nat /\ d \in Nat /\ d + Len(t) <= Len(s)
    BY LenProperties DEF Occurs
  <2> QED BY <2>1, SizeAssumption
<1> DEFINE Shifted(p, m) == f[<<p, m>>] # Bad => g[<<d + p, m>>] = d + f[<<p, m>>]
           S == {k \in Nat : \A p \in 0 .. Len(t) : \A m \in Nat : Len(t) - p < k => Shifted(p, m)}
<1>3. ASSUME NEW p \in 0 .. Len(t)
      PROVE  p \in Bad .. Len(t) /\ d + p \in Bad .. Len(s) /\ d + p \in 0 .. Len(s) /\ p # Bad
  BY <1>2 DEF Bad
<1>4. 0 \in S
  BY <1>2
<1>5. ASSUME NEW k \in S PROVE k + 1 \in S
  <2>1. k \in Nat /\ \A p \in 0 .. Len(t) : \A m \in Nat : Len(t) - p < k => Shifted(p, m)
    OBVIOUS
  <2> HIDE DEF S
  <2>2. ASSUME NEW p \in 0 .. Len(t), NEW m \in Nat, Len(t) - p < k + 1, f[<<p, m>>] # Bad
        PROVE  g[<<d + p, m>>] = d + f[<<p, m>>]
    <3>1. CASE m = 0
      <4>1. f[<<p, m>>] = p
        BY <1>1, <1>2, <1>3, <3>1, EndsBound
      <4>2. g[<<d + p, m>>] = d + p
        BY <1>1, <1>3, <3>1, EndsBound
      <4> QED BY <4>1, <4>2
    <3>2. CASE m > 0
      <4>1. PICK e1, e0 : e1 = ItemEndBy(t, p, short, sorted, f)
                          /\ e0 = ItemEndBy(s, d + p, short, sorted, g)
        OBVIOUS
      <4>2. f[<<p, m>>] = f[<<e1, m - 1>>] /\ (e1 = Bad \/ e1 \in p + 1 .. Len(t))
        BY <1>1, <1>2, <3>2, <4>1, EndsFirst, ZenonT(60)
      <4>3. g[<<d + p, m>>] = g[<<e0, m - 1>>]
        BY <1>1, <1>3, <3>2, <4>1, EndsFirst
      <4>4. e1 # Bad
        <5>1. Bad \in Bad .. Len(t) /\ m - 1 \in Nat
          BY <1>2, <3>2 DEF Bad
        <5>2. f[<<Bad, m - 1>>] = Bad
          BY <1>1, <1>2, <5>1, EndsBound
        <5> QED BY <2>2, <4>2, <5>2
      <4>5. ASSUME NEW q \in 0 .. Len(t), NEW n \in Nat, q > p, f[<<q, n>>] # Bad
            PROVE  g[<<d + q, n>>] = d + f[<<q, n>>]
        <5>1. Len(t) - q < k
          BY <1>2, <2>1, <2>2, <4>5
        <5> QED BY <2>1, <4>5, <5>1
      <4>6. ShiftedBehind(t, p, d, f, g)
        BY <4>5 DEF ShiftedBehind
      <4>7. e0 = d + e1
        BY <1>1, <4>1, <4>4, <4>6, ItemOccurs
      <4>8. e1 \in 0 .. Len(t) /\ e1 > p /\ m - 1 \in Nat
        BY <1>2, <3>2, <4>2, <4>4
      <4>9. f[<<e1, m - 1>>] # Bad
        BY <2>2, <4>2
      <4>10. g[<<d + e1, m - 1>>] = d + f[<<e1, m - 1>>]
        BY <4>5, <4>8, <4>9
      <4> QED BY <4>2, <4>3, <4>7, <4>10
    <3> QED BY <3>1, <3>2
  <2> QED BY <2>1, <2>2 DEF S
<1>6. S = Nat
  <2>1. S \subseteq Nat
    OBVIOUS
  <2> HIDE DEF S
  <2> QED BY <1>4, <1>5, <2>1, Induction
<1>7. Len(t) + 1 \in S
  <2> HIDE DEF S
  <2> QED BY <1>2, <1>6
<1>8. \A p \in 0 .. Len(t) : \A m \in Nat : Shifted(p, m)
  <2>1. \A p \in 0 .. Len(t) : Len(t) - p < Len(t) + 1
    BY <1>2
  <2> QED BY <1>7, <2>1
<1> QED BY <1>1, <1>8

\* The same of one row of t, which is in s at offset q.
LEMMA RowOccurs ==
  ASSUME NEW s \in Seq(Byte), NEW t \in Seq(Byte), Len(s) <= SizeMax, NEW d, Occurs(t, s, d),
         NEW short \in BOOLEAN, NEW sorted \in BOOLEAN, NEW p \in 0 .. Len(t), NEW m \in Nat,
         NEW q, q = d + p, NEW e, e = Ends(t, short, sorted)[<<p, m>>], e # Bad
  PROVE  Ends(s, short, sorted)[<<q, m>>] = d + e
<1>1. \A x \in 0 .. Len(t) : \A y \in Nat :
        Ends(t, short, sorted)[<<x, y>>] # Bad
          => Ends(s, short, sorted)[<<d + x, y>>] = d + Ends(t, short, sorted)[<<x, y>>]
  BY EndsOccurs, SMTT(30)
<1>2. Ends(s, short, sorted)[<<d + p, m>>] = d + Ends(t, short, sorted)[<<p, m>>]
  BY <1>1, Zenon
<1> QED BY <1>2, Zenon

\* The unchecked jump from the start of an item gets to its end, whatever stands
\* before and behind it.
LEMMA JumpOverItemAt ==
  ASSUME NEW s \in Seq(Byte), NEW t \in Seq(Byte), Len(s) <= SizeMax, NEW d, Occurs(t, s, d),
         t # <<>>, DetLength(t) = Len(t)
  PROVE  Jump(s, d) = d + Len(t)
<1>1. /\ Len(s) \in Nat /\ Len(t) \in Nat /\ d \in Nat /\ d + Len(t) <= Len(s) /\ Len(t) # 0
  BY LenProperties, EmptySeq DEF Occurs
<1>2. PICK yes \in BOOLEAN, no \in BOOLEAN, k \in Nat, z \in Nat : yes = TRUE /\ no = FALSE /\ k = 1 /\ z = 0
  OBVIOUS
<1>3. Ends(t, yes, yes)[<<z, k>>] = Len(t)
  BY <1>1, <1>2 DEF DetLength, ItemEnd
<1>4. z \in 0 .. Len(t) /\ Len(t) # Bad /\ d + z = d /\ d + Len(t) # Bad /\ d \in 0 .. Len(s)
  BY <1>1, <1>2 DEF Bad
<1>5. PICK e, f : e = Len(t) /\ f = d + e
  OBVIOUS
<1>6. Ends(s, yes, yes)[<<d, k>>] = f
  <2>1. PICK q : q = d + z
    OBVIOUS
  <2>2. e = Ends(t, yes, yes)[<<z, k>>] /\ e # Bad
    BY <1>3, <1>4, <1>5
  <2>3. z \in 0 .. Len(t)
    BY <1>4
  <2>4. Ends(s, yes, yes)[<<q, k>>] = d + e
    BY <2>1, <2>2, <2>3, RowOccurs
  <2> QED BY <1>4, <1>5, <2>1, <2>4
<1>7. Ends(s, no, no)[<<d, k>>] = f
  <2>1. <<d, k>> \in Places(s)
    BY <1>1, <1>2 DEF Places, Bad
  <2>2. no => yes
    BY <1>2
  <2>3. f # Bad
    BY <1>4, <1>5
  <2> QED BY <1>6, <2>1, <2>2, <2>3, EndsWeaker
<1>8. Ends(s, FALSE, FALSE)[<<d, 1>>] = f
  BY <1>2, <1>7
<1> QED BY <1>4, <1>5, <1>8, JumpIsEnd

\* The same at the start of a buffer.
LEMMA JumpOverItem ==
  ASSUME NEW s \in Seq(Byte), NEW t \in Seq(Byte), Len(s) <= SizeMax, Occurs(t, s, 0),
         t # <<>>, DetLength(t) = Len(t)
  PROVE  Jump(s, 0) = Len(t)
<1>1. Jump(s, 0) = 0 + Len(t)
  BY JumpOverItemAt
<1> QED BY <1>1, LenProperties

-----------------------------------------------------------------------------
(* The order of keys *)

\* A byte is a number.
LEMMA ByteIsNat ==
  ASSUME NEW a \in Seq(Byte), NEW i \in 1 .. Len(a)
  PROVE  a[i] \in Nat
<1>1. a[i] \in Byte
  BY ElementOfSeq
<1>2. \A x \in Byte : x \in Nat
  BY DEF Byte
<1> QED BY <1>1, <1>2

\* No byte string is less than itself.
LEMMA LexIrreflexive ==
  ASSUME NEW a \in Seq(Byte)
  PROVE  ~LexLess(a, a)
<1> SUFFICES ASSUME NEW i \in 1 .. Len(a), a[i] < a[i] PROVE FALSE
  BY DEF LexLess
<1>1. a[i] \in Nat
  BY ByteIsNat
<1> QED BY <1>1

\* What is less than a lesser one is less.
LEMMA LexTransitive ==
  ASSUME NEW a \in Seq(Byte), NEW b \in Seq(Byte), NEW c \in Seq(Byte),
         LexLess(a, b), LexLess(b, c)
  PROVE  LexLess(a, c)
<1>1. Len(a) \in Nat /\ Len(b) \in Nat /\ Len(c) \in Nat
  BY LenProperties
<1>2. PICK i \in 1 .. Len(b) :
        i <= Len(a) + 1 /\ (\A m \in 1 .. i - 1 : a[m] = b[m]) /\ (i <= Len(a) => a[i] < b[i])
  BY DEF LexLess
<1>3. PICK j \in 1 .. Len(c) :
        j <= Len(b) + 1 /\ (\A m \in 1 .. j - 1 : b[m] = c[m]) /\ (j <= Len(b) => b[j] < c[j])
  BY DEF LexLess
<1>4. CASE i < j
  <2>1. i \in 1 .. Len(c) /\ i \in 1 .. j - 1
    BY <1>1, <1>4
  <2>2. \A m \in 1 .. i - 1 : m \in 1 .. j - 1
    BY <1>4
  <2>3. \A m \in 1 .. i - 1 : a[m] = c[m]
    BY <1>2, <1>3, <2>2
  <2>4. i <= Len(a) => a[i] < c[i]
    BY <1>2, <1>3, <2>1
  <2> QED BY <1>2, <2>1, <2>3, <2>4 DEF LexLess
<1>5. CASE j < i
  <2>1. j \in 1 .. i - 1 /\ j <= Len(b) /\ j <= Len(a) + 1
    BY <1>1, <1>2, <1>5
  <2>2. \A m \in 1 .. j - 1 : m \in 1 .. i - 1
    BY <1>5
  <2>3. \A m \in 1 .. j - 1 : a[m] = c[m]
    BY <1>2, <1>3, <2>2
  <2>4. a[j] < c[j]
    BY <1>2, <1>3, <2>1
  <2> QED BY <2>1, <2>3, <2>4 DEF LexLess
<1>6. CASE i = j
  <2>1. \A m \in 1 .. i - 1 : a[m] = c[m]
    BY <1>2, <1>3, <1>6
  <2>2. ASSUME i <= Len(a) PROVE a[i] < c[i]
    <3>1. a[i] \in Nat /\ b[i] \in Nat /\ c[i] \in Nat
      <4>1. i \in 1 .. Len(a) /\ i \in 1 .. Len(b) /\ i \in 1 .. Len(c)
        BY <1>1, <1>6, <2>2
      <4> QED BY <4>1, ByteIsNat
    <3>2. a[i] < b[i] /\ b[i] < c[i]
      BY <1>1, <1>2, <1>3, <1>6, <2>2
    <3> QED BY <3>1, <3>2
  <2> QED BY <1>2, <1>6, <2>1, <2>2 DEF LexLess
<1>7. i < j \/ j < i \/ i = j
  BY <1>1
<1> QED BY <1>4, <1>5, <1>6, <1>7

\* Of two byte strings one is less, or they are the same.
LEMMA LexTotal ==
  ASSUME NEW a \in Seq(Byte), NEW b \in Seq(Byte), ~LexLess(a, b), ~LexLess(b, a)
  PROVE  a = b
<1>1. Len(a) \in Nat /\ Len(b) \in Nat
  BY LenProperties
<1> DEFINE T == {i \in Nat : i >= 1 /\ i <= Len(a) /\ i <= Len(b) /\ a[i] # b[i]}
<1>2. T = {}
  <2> SUFFICES ASSUME T # {} PROVE FALSE
    OBVIOUS
  <2>1. PICK i \in T : \A y \in T : i <= y
    <3>1. T \subseteq Nat
      OBVIOUS
    <3> HIDE DEF T
    <3> QED BY <3>1, Least
  <2>2. i \in 1 .. Len(a) /\ i \in 1 .. Len(b) /\ i <= Len(a) + 1 /\ i <= Len(b) + 1 /\ a[i] # b[i]
    BY <1>1
  <2>3. \A m \in 1 .. i - 1 : a[m] = b[m]
    <3> SUFFICES ASSUME NEW m \in 1 .. i - 1, a[m] # b[m] PROVE FALSE
      OBVIOUS
    <3>1. m \in T /\ ~(i <= m)
      BY <1>1, <2>2
    <3> QED BY <2>1, <3>1
  <2>4. a[i] \in Nat /\ b[i] \in Nat
    BY <2>2, ByteIsNat
  <2>5. a[i] < b[i] \/ b[i] < a[i]
    BY <2>2, <2>4
  <2>6. \A m \in 1 .. i - 1 : b[m] = a[m]
    BY <2>3
  <2>7. CASE a[i] < b[i]
    BY <2>2, <2>3, <2>7 DEF LexLess
  <2>8. CASE b[i] < a[i]
    BY <2>2, <2>6, <2>8 DEF LexLess
  <2> QED BY <2>5, <2>7, <2>8
<1>3. \A i \in Nat : i >= 1 /\ i <= Len(a) /\ i <= Len(b) => a[i] = b[i]
  BY <1>2
<1> HIDE DEF T
<1>4. CASE Len(a) < Len(b)
  <2>1. PICK i \in Nat : i = Len(a) + 1
    BY <1>1
  <2>2. i \in 1 .. Len(b) /\ i <= Len(a) + 1 /\ ~(i <= Len(a)) /\ \A m \in 1 .. i - 1 : a[m] = b[m]
    BY <1>1, <1>3, <1>4, <2>1
  <2> QED BY <2>2 DEF LexLess
<1>5. CASE Len(b) < Len(a)
  <2>1. PICK i \in Nat : i = Len(b) + 1
    BY <1>1
  <2>2. i \in 1 .. Len(a) /\ i <= Len(b) + 1 /\ ~(i <= Len(b)) /\ \A m \in 1 .. i - 1 : b[m] = a[m]
    BY <1>1, <1>3, <1>5, <2>1
  <2> QED BY <2>2 DEF LexLess
<1>6. CASE Len(a) = Len(b)
  <2>1. \A i \in 1 .. Len(a) : a[i] = b[i]
    BY <1>1, <1>3, <1>6
  <2> QED BY <1>6, <2>1, SeqEqual
<1> QED BY <1>1, <1>4, <1>5, <1>6
=============================================================================
