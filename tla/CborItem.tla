------------------------------ MODULE CborItem ------------------------------
(***************************************************************************)
(* What the passes over an encoded item share (cbordetveraux.rs): the       *)
(* header layer, which is the initial byte, its long argument, the header   *)
(* validator and the header jumper; the test for UTF-8; the validator of    *)
(* one header with its string payload; the jump over a whole item; and the  *)
(* comparison of byte strings.  A buffer is a sequence of bytes and an      *)
(* offset is what the code calls an offset: the byte at offset o of s is    *)
(* s[o + 1].                                                                *)
(*                                                                         *)
(* SizeMax is the largest usize.  The code does its size arithmetic with    *)
(* wrapping_add and wrapping_sub and narrows u64 arguments with "as usize": *)
(* Size(x) is what is left of x.  A small SizeMax makes every wrap-around   *)
(* of a real machine happen on buffers of a few bytes.                      *)
(*                                                                         *)
(* A u64 argument is exact below 2^30.  Big32 stands for every argument     *)
(* from 2^30 to 2^32 - 1 and Big64 for every argument of 2^32 and more:     *)
(* the code compares arguments with buffer lengths, all smaller, and with   *)
(* the thresholds 24, 256, 65536 and 2^32 of the minimal encoding.          *)
(*                                                                         *)
(* impl_correct keeps an index and a result in a while loop.  Utf8Next is   *)
(* the body of the loop, Utf8Correct what the loop returns.                 *)
(***************************************************************************)
EXTENDS Integers, Sequences

CONSTANT SizeMax

ASSUME SizeAssumption == SizeMax \in Nat \ {0} /\ SizeMax < 1073741824

Byte == 0 .. 255
Size(x) == x % (SizeMax + 1)

Big32 == 1073741824
Big64 == Big32 + 1
Argument == 0 .. Big64

UInt64 == 0
NegInt64 == 1
ByteString == 2
TextString == 3
ArrayType == 4
MapType == 5
Tagged == 6
SimpleValue == 7

\* additional_info_long_argument_{8,16,32,64}_bits and additional_info_unassigned_min
Info8 == 24
Info16 == 25
Info32 == 26
Info64 == 27
InfoUnassigned == 28
MaxInline == 23
MinLongSimple == 32

-----------------------------------------------------------------------------
At(s, o) == s[o + 1]

\* The bytes of s from offset a up to, not including, offset b.
Slice(s, a, b) == SubSeq(s, a + 1, b)

MajorType(s, o) == At(s, o) \div 32
AdditionalInfo(s, o) == At(s, o) % 32

\* The bytes the long argument announced by additional information i takes.
LongArgumentLen(i) ==
  CASE i = Info8 -> 1
    [] i = Info16 -> 2
    [] i = Info32 -> 4
    [] i = Info64 -> 8
    [] OTHER -> 0

\* raw_uint64.size: 0 for an argument in the initial byte, then 1, 2, 3, 4.
RawSize(i) ==
  CASE i = Info8 -> 1
    [] i = Info16 -> 2
    [] i = Info32 -> 3
    [] i = Info64 -> 4
    [] OTHER -> 0

\* Big-endian integers of two, four and eight bytes at offset o.
BE16(s, o) == 256 * At(s, o) + At(s, o + 1)
BE32(s, o) == IF At(s, o) >= 64 THEN Big32 ELSE 65536 * BE16(s, o) + BE16(s, o + 2)
BE64(s, o) ==
  IF \E i \in 0 .. 3 : At(s, o + i) # 0 THEN Big64 ELSE BE32(s, o + 4)

\* The argument of a header at offset o with additional information i: in the
\* long argument (a simple value's byte included), or i itself.
ArgumentAt(s, o, i) ==
  IF i = Info8 THEN At(s, o + 1)
  ELSE IF i = Info16 THEN BE16(s, o + 1)
  ELSE IF i = Info32 THEN BE32(s, o + 1)
  ELSE IF i = Info64 THEN BE64(s, o + 1)
  ELSE i

\* read_header: major type, raw size and argument of the header at offset o.
ReadHeader(s, o) ==
  LET i == AdditionalInfo(s, o)
  IN  [type |-> MajorType(s, o), size |-> RawSize(i), arg |-> ArgumentAt(s, o, i)]

Header == [type : 0 .. 7, size : 0 .. 4, arg : Argument]

IsString(h) == h.type \in {ByteString, TextString}

-----------------------------------------------------------------------------
\* validate_header's check of the initial byte: no long argument but the
\* one-byte one for simple values, and no unassigned additional information.
InitialByteOk(s, o) ==
  /\ MajorType(s, o) = SimpleValue => AdditionalInfo(s, o) <= Info8
  /\ AdditionalInfo(s, o) < InfoUnassigned

\* validate_header: whether there is a header at offset o, and where *poffset
\* is left, on failure too.
ValidateHeader(s, o) ==
  LET fits(p, k) == Size(Len(s) - p) >= k
      next == Size(o + 1)
      k == LongArgumentLen(AdditionalInfo(s, o))
      simple == k = 1 /\ MajorType(s, o) = SimpleValue
  IN  IF ~fits(o, 1) THEN [ok |-> FALSE, off |-> o]
      ELSE IF ~InitialByteOk(s, o) \/ ~fits(next, k) THEN [ok |-> FALSE, off |-> next]
      ELSE [ok |-> simple => At(s, next) >= MinLongSimple, off |-> Size(next + k)]

\* jump_header: the same offset, without a check.
JumpHeader(s, o) == Size(o + 1 + LongArgumentLen(AdditionalInfo(s, o)))

\* The end of a string's payload, or of the header of any other item
\* (in jump_raw_data_item and in the two passes of cbor_validate_det).
JumpLeaf(s, o) ==
  LET h == ReadHeader(s, o)
  IN  IF IsString(h) THEN Size(JumpHeader(s, o) + Size(h.arg)) ELSE JumpHeader(s, o)

-----------------------------------------------------------------------------
\* impl_remaining_data_items_header: the items nested directly in an item, as
\* the jumper counts them: narrowed to a usize, doubled for a map, unchecked.
RemainingDataItems(h) ==
  CASE h.type = ArrayType -> Size(h.arg)
    [] h.type = MapType -> Size(Size(h.arg) + Size(h.arg))
    [] h.type = Tagged -> 1
    [] OTHER -> 0

\* Fault: the doubled number of pairs is not checked again.
StepCountNoDoubling(h, bound) ==
  [ok |-> h.type \in {ArrayType, MapType} => h.arg <= bound,
   count |-> RemainingDataItems(h)]

\* validate_recursive_step_count_leaf: the same count, checked: ok when at most
\* bound items are announced, both for the narrowing and for the doubling.
StepCount(h, bound) ==
  [ok |-> /\ h.type \in {ArrayType, MapType} => h.arg <= bound
          /\ h.type = MapType => Size(bound - Size(h.arg)) >= Size(h.arg),
   count |-> RemainingDataItems(h)]

\* impl_raw_uint64_optimal and cbor_raw_ints_optimal: the argument would not
\* have fitted a shorter form.
RawOptimal(size, value) ==
  /\ (value <= MaxInline) <=> (size = 0)
  /\ size = 2 => value >= 256
  /\ size = 3 => value >= 65536
  /\ size = 4 => value >= Big64

IntsOptimal(h) == h.type = SimpleValue \/ RawOptimal(h.size, h.arg)

-----------------------------------------------------------------------------
Within(b, lo, hi) == lo <= b /\ b <= hi
Continuation(b) == Within(b, 128, 191)

\* The two-, three- and four-byte characters, given enough bytes from offset i.
TwoBytes(s, i) == Within(At(s, i), 194, 223) /\ Continuation(At(s, i + 1))

ThreeBytes(s, i) ==
  LET b1 == At(s, i)
      b2 == At(s, i + 1)
  IN  /\ Continuation(At(s, i + 2))
      /\ \/ b1 = 224 /\ Within(b2, 160, 191)
         \/ b1 = 237 /\ Within(b2, 128, 159)
         \/ b1 \notin {224, 237} /\ Within(b1, 225, 239) /\ Continuation(b2)

\* Fault: code points above 10FFFF pass.
FourBytesAnyPlane(s, i) ==
  /\ Continuation(At(s, i + 2)) /\ Continuation(At(s, i + 3))
  /\ \/ At(s, i) = 240 /\ Within(At(s, i + 1), 144, 191)
     \/ Within(At(s, i), 241, 244) /\ Continuation(At(s, i + 1))

FourBytes(s, i) ==
  LET b1 == At(s, i)
      b2 == At(s, i + 1)
  IN  /\ Continuation(At(s, i + 2)) /\ Continuation(At(s, i + 3))
      /\ \/ b1 = 240 /\ Within(b2, 144, 191)
         \/ Within(b1, 241, 243) /\ Continuation(b2)
         \/ b1 = 244 /\ Within(b2, 128, 143)

\* The index after the character at offset i < Len(s), or i itself when the
\* code sets the result to false (it then leaves the index alone).  The code
\* reads a byte only after it has seen that the index is not the length.
Utf8Next(s, i) ==
  LET left == Len(s) - i
  IN  IF At(s, i) <= 127 THEN i + 1
      ELSE IF left >= 2 /\ TwoBytes(s, i) THEN i + 2
      ELSE IF left >= 3 /\ ThreeBytes(s, i) THEN i + 3
      ELSE IF left >= 4 /\ FourBytes(s, i) THEN i + 4
      ELSE i

Utf8Correct(s) ==
  LET from[i \in 0 .. Len(s)] ==
        i = Len(s) \/ (Utf8Next(s, i) # i /\ from[Utf8Next(s, i)])
  IN  from[0]

-----------------------------------------------------------------------------

\* The part of the body of validate_raw_data_item's loop that looks at one
\* header at offset o and, for a string, at its payload: the payload fits and
\* text is UTF-8.  off is what *poffset holds afterwards, on failure too.
ValidateLeaf(s, o) ==
  LET v == ValidateHeader(s, o)
      h == ReadHeader(s, o)
      end == Size(v.off + Size(h.arg))
  IN  IF ~v.ok \/ ~IsString(h) THEN v
      ELSE IF h.arg > Size(Len(s) - v.off) THEN [ok |-> FALSE, off |-> v.off]
      ELSE [ok |-> h.type = TextString => Utf8Correct(Slice(s, v.off, end)),
            off |-> end]

\* jump_raw_data_item: the offset after the item at offset o.  The loop keeps
\* c = <<offset, items left>>; next is c one item on.  The code checks nothing
\* here: s must hold a valid item at o, and then the loop ends because no item
\* is left.  Only to have a value for every s, it also ends before it leaves s.
JumpNext(s, c) ==
  <<JumpLeaf(s, c[1]), Size(c[2] - 1 + RemainingDataItems(ReadHeader(s, c[1])))>>

JumpOn(s, c, next, loop) ==
  IF c[2] = 0 \/ next \notin (c[1] + 1 .. Len(s)) \X Nat THEN c[1] ELSE loop[next]

Jump(s, o) ==
  LET loop[c \in (0 .. Len(s)) \X Nat] == JumpOn(s, c, JumpNext(s, c), loop)
  IN  loop[<<o, 1>>]

\* lex_compare_bytes, as -1, 0 or 1: the first byte that differs decides, and
\* a proper prefix is smaller.  ByteLoops has the loop that computes it.
LexLess(a, b) ==
  \E i \in 1 .. Len(b) :
    /\ i <= Len(a) + 1
    /\ \A j \in 1 .. i - 1 : a[j] = b[j]
    /\ i <= Len(a) => a[i] < b[i]

LexCompare(a, b) == IF LexLess(a, b) THEN -1 ELSE IF LexLess(b, a) THEN 1 ELSE 0

\* impl_deterministically_encoded_cbor_map_key_order
KeyOrder(a, b) == LexCompare(a, b) < 0
=============================================================================
