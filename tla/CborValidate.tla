---------------------------- MODULE CborValidate ----------------------------
(***************************************************************************)
(* cbor_validate_det of cbordetveraux.rs: the function behind               *)
(* cbor_det_parse.  It makes three passes over the input, each a while      *)
(* loop with a counter n of the items still expected:                      *)
(*   "raw"    validate_raw_data_item: headers, payloads, counts;           *)
(*   "ints"   every argument is in its shortest form;                      *)
(*   "sorted" the keys of every map ascend, with the loop of               *)
(*            cbor_raw_sorted over the pairs of one map as "keys".          *)
(* Only the first pass checks offsets and counts.  The other two jump, and  *)
(* rely on what the first one accepted.                                     *)
(*                                                                         *)
(* input is the caller's slice, off is *poffset in the first pass and the   *)
(* start of the slice *ppi afterwards; key, tail and pairs are the cells of *)
(* cbor_raw_sorted, a slice being the pair of its offsets.                  *)
(***************************************************************************)
EXTENDS CborGrammar

CONSTANT Inputs

ASSUME InputsAssumption == \A s \in Inputs : s \in Seq(Byte) /\ Len(s) <= SizeMax

VARIABLES input, pc, off, n, res, len, key, tail, pairs, ret
loopVars == <<off, n, res>>
keyVars == <<key, tail, pairs>>
vars == <<input, pc, loopVars, len, keyVars, ret>>

Init ==
  /\ input \in Inputs
  /\ pc = "raw"
  /\ off = 0 /\ n = 1 /\ res = TRUE
  /\ len = 0
  /\ key = <<0, 0>> /\ tail = 0 /\ pairs = 0
  /\ ret = 0

Looping(pass) == pc = pass /\ res /\ n > 0
LoopEnds(pass) == pc = pass /\ ~(res /\ n > 0)

\* The cells as every pass finds them: one item expected, at the beginning.
StartPass(pass) == pc' = pass /\ off' = 0 /\ n' = 1 /\ res' = TRUE

-----------------------------------------------------------------------------
\* First pass.  bound is what is left of the input when every item already
\* announced, the present one included, has got one byte.
Remaining == Size(Len(input) - off)
\* Fault: the items already announced are not set aside.
BoundForgetsAnnounced == Remaining

Bound == Size(Remaining - n)
Leaf == ValidateLeaf(input, off)
Count == StepCount(ReadHeader(input, off), Bound)
CountOk == Count.ok /\ Count.count <= Bound

RawTooMany ==
  /\ Looping("raw") /\ n > Remaining
  /\ res' = FALSE
  /\ UNCHANGED <<input, pc, off, n, len, keyVars, ret>>

RawBadLeaf ==
  /\ Looping("raw") /\ n <= Remaining /\ ~Leaf.ok
  /\ off' = Leaf.off /\ res' = FALSE
  /\ UNCHANGED <<input, pc, n, len, keyVars, ret>>

RawBadCount ==
  /\ Looping("raw") /\ n <= Remaining /\ Leaf.ok /\ ~CountOk
  /\ off' = Leaf.off /\ res' = FALSE
  /\ n' = IF Count.ok THEN Count.count ELSE n
  /\ UNCHANGED <<input, pc, len, keyVars, ret>>

RawItem ==
  /\ Looping("raw") /\ n <= Remaining /\ Leaf.ok /\ CountOk
  /\ off' = Leaf.off
  /\ n' = Size(Size(n - 1) + Count.count)
  /\ UNCHANGED <<input, pc, res, len, keyVars, ret>>

\* cbor_validate returns the offset or 0, and cbor_validate_det stops on 0.
RawEnd ==
  /\ LoopEnds("raw")
  /\ len' = IF res THEN off ELSE 0
  /\ IF len' = 0
     THEN pc' = "done" /\ ret' = 0 /\ UNCHANGED loopVars
     ELSE StartPass("ints") /\ UNCHANGED ret
  /\ UNCHANGED <<input, keyVars>>

-----------------------------------------------------------------------------
\* What the second and third pass do with an item that passed their test.
\* Fault: a string's payload is not skipped.
AdvanceHeaderOnly ==
  /\ off' = JumpHeader(input, off)
  /\ n' = Size(Size(n - 1) + RemainingDataItems(ReadHeader(input, off)))

Advance ==
  /\ off' = JumpLeaf(input, off)
  /\ n' = Size(Size(n - 1) + RemainingDataItems(ReadHeader(input, off)))

\* Fault: the failure is not recorded.
IntsBadIgnored ==
  /\ Looping("ints") /\ ~IntsOptimal(ReadHeader(input, off))
  /\ UNCHANGED vars

IntsBad ==
  /\ Looping("ints") /\ ~IntsOptimal(ReadHeader(input, off))
  /\ res' = FALSE
  /\ UNCHANGED <<input, pc, off, n, len, keyVars, ret>>

IntsItem ==
  /\ Looping("ints") /\ IntsOptimal(ReadHeader(input, off))
  /\ Advance
  /\ UNCHANGED <<input, pc, res, len, keyVars, ret>>

IntsEnd ==
  /\ LoopEnds("ints")
  /\ IF res
     THEN StartPass("sorted") /\ UNCHANGED ret
     ELSE pc' = "done" /\ ret' = 0 /\ UNCHANGED loopVars
  /\ UNCHANGED <<input, len, keyVars>>

-----------------------------------------------------------------------------
\* Fault: the two keys of a map of two pairs are not compared.
HasMoreKeysToCompare ==
  LET h == ReadHeader(input, off) IN h.type = MapType /\ h.arg > 2

\* cbor_raw_sorted has work on maps of two pairs or more.
HasKeysToCompare ==
  LET h == ReadHeader(input, off) IN h.type = MapType /\ h.arg >= 2

SortedLeaf ==
  /\ Looping("sorted") /\ ~HasKeysToCompare
  /\ Advance
  /\ UNCHANGED <<input, pc, res, len, keyVars, ret>>

SortedMap ==
  /\ Looping("sorted") /\ HasKeysToCompare
  /\ key' = <<JumpHeader(input, off), Jump(input, JumpHeader(input, off))>>
  /\ tail' = Jump(input, key'[2])
  /\ pairs' = ReadHeader(input, off).arg - 1
  /\ pc' = "keys"
  /\ UNCHANGED <<input, loopVars, len, ret>>

KeyAt(k) == Slice(input, k[1], k[2])
NextKey == <<tail, Jump(input, tail)>>

\* Fault: the pairs left are not counted down.
KeyAscendsUncounted ==
  /\ pc = "keys" /\ pairs > 0 /\ KeyOrder(KeyAt(key), KeyAt(NextKey))
  /\ key' = NextKey
  /\ tail' = Jump(input, NextKey[2])
  /\ UNCHANGED <<input, pc, pairs, loopVars, len, ret>>

KeyAscends ==
  /\ pc = "keys" /\ pairs > 0 /\ KeyOrder(KeyAt(key), KeyAt(NextKey))
  /\ key' = NextKey
  /\ tail' = Jump(input, NextKey[2])
  /\ pairs' = pairs - 1
  /\ UNCHANGED <<input, pc, loopVars, len, ret>>

KeyBad ==
  /\ pc = "keys" /\ pairs > 0 /\ ~KeyOrder(KeyAt(key), KeyAt(NextKey))
  /\ res' = FALSE
  /\ pc' = "sorted"
  /\ UNCHANGED <<input, off, n, len, keyVars, ret>>

\* cbor_raw_sorted returned true for a map: the pass goes on inside the map.
KeysEnd ==
  /\ pc = "keys" /\ pairs = 0
  /\ Advance
  /\ pc' = "sorted"
  /\ UNCHANGED <<input, res, len, keyVars, ret>>

\* Fault: the length of the buffer is returned, not that of the item.
SortedEndWholeBuffer ==
  /\ LoopEnds("sorted")
  /\ ret' = IF res THEN Len(input) ELSE 0
  /\ pc' = "done"
  /\ UNCHANGED <<input, loopVars, len, keyVars>>

SortedEnd ==
  /\ LoopEnds("sorted")
  /\ ret' = IF res THEN len ELSE 0
  /\ pc' = "done"
  /\ UNCHANGED <<input, loopVars, len, keyVars>>

-----------------------------------------------------------------------------
RawPass == RawTooMany \/ RawBadLeaf \/ RawBadCount \/ RawItem \/ RawEnd
IntsPass == IntsBad \/ IntsItem \/ IntsEnd
SortedPass ==
  SortedLeaf \/ SortedMap \/ KeyAscends \/ KeyBad \/ KeysEnd \/ SortedEnd

Next == RawPass \/ IntsPass \/ SortedPass

\* The function runs to its return: nothing interrupts the thread in it.
Spec == Init /\ [][Next]_vars /\ WF_vars(Next)

-----------------------------------------------------------------------------
TypeOK ==
  /\ input \in Seq(Byte) /\ Len(input) <= SizeMax
  /\ pc \in {"raw", "ints", "sorted", "keys", "done"}
  /\ off \in 0 .. SizeMax /\ n \in 0 .. SizeMax /\ res \in BOOLEAN
  /\ len \in 0 .. Len(input) /\ ret \in {0, len}
  /\ key \in (0 .. Len(input)) \X (0 .. Len(input))
  /\ tail \in 0 .. Len(input) /\ pairs \in 0 .. Big64

\* No count wraps around and no slice is cut outside of the buffer.  In the
\* first pass the items still expected are at most one more than the bytes
\* left.  In the other two passes, which check nothing, the item at off is
\* whole and every item still expected has a byte of its own.
CountsStayInBuffer ==
  /\ off <= Len(input) /\ len <= Len(input)
  /\ pc = "raw" => n <= Len(input) + 1
  /\ pc \in {"ints", "sorted", "keys"} =>
       off + n <= len /\ (n > 0 => off < JumpLeaf(input, off) /\ JumpLeaf(input, off) <= len)

\* The second and the third pass end where the first one did: they see the
\* same items although each counts them on its own.
PassesEndTogether == pc \in {"ints", "sorted", "keys"} /\ n = 0 => off = len

\* cbor_raw_sorted stays inside of the item too: the two keys it compares are
\* not empty and every pair still to come has two bytes left.
KeysStayInBuffer ==
  pc = "keys" => key[1] < key[2] /\ key[2] < tail /\ tail + 2 * pairs <= len

\* The first pass alone decides validity, whatever the form of the encoding: its
\* flat count accepts what the recursive grammar does, and ends where it does.
RawPassDecidesValidity == pc \in {"ints", "done"} => len = ValidLength(input)

\* cbor_det_parse accepts exactly the deterministic encodings: the three flat
\* passes return the length of the item the recursive grammar finds at the
\* start of the buffer, and 0 when there is none.
ReturnsDetLength == pc = "done" => ret = DetLength(input)

\* Every call returns.
Returns == <>(pc = "done")
=============================================================================
