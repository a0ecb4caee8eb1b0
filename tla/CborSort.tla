------------------------------ MODULE CborSort ------------------------------
(***************************************************************************)
(* cbor_raw_sort_aux: the in-place merge sort behind cbor_det_mk_map.  It   *)
(* puts the entries in key order, and returns false when it meets two equal *)
(* keys.  A frame of the recursion is the part lo .. hi - 1 of the slice it *)
(* was given and, while it merges, the cells i1 and i2, counted here from   *)
(* the start of the whole slice.                                            *)
(*                                                                         *)
(* An entry is its key and the place the caller put it at: comparing is     *)
(* cbor_raw_compare on the keys, of which the model keeps the order only.   *)
(***************************************************************************)
EXTENDS Slices

CONSTANT Inputs   \* the sequences of keys to be sorted

InputsAssumption == Inputs \subseteq Seq(Int)
ASSUME InputsAssumption

VARIABLES pc, a, a0, stack, ret
vars == <<pc, a, a0, stack, ret>>

Frame(lo, hi) == [lo |-> lo, hi |-> hi, i1 |-> lo, i2 |-> lo]

Init ==
  /\ \E keys \in Inputs : a0 = [i \in DOMAIN keys |-> [key |-> keys[i], from |-> i]]
  /\ a = a0
  /\ stack = <<Frame(0, Len(a0))>>
  /\ pc = "call"
  /\ ret = TRUE

-----------------------------------------------------------------------------
top == stack[Len(stack)]
callers == SubSeq(stack, 1, Len(stack) - 1)
\* Fault: the first half is a single entry, whatever the length.
miFirstEntry == top.lo + 1

mi == top.lo + (top.hi - top.lo) \div 2

x1 == a[top.i1 + 1]
x2 == a[top.i2 + 1]
Compare(x, y) == IF x.key = y.key THEN 0 ELSE IF x.key < y.key THEN -1 ELSE 1

\* The frame on top returns; the caller goes on after the call.
Return(res) ==
  /\ ret' = res
  /\ stack' = callers
  /\ pc' = IF Len(stack) = 1 THEN "done"
           ELSE IF stack[Len(stack) - 1].hi = top.hi THEN "second returned"
           ELSE "first returned"

\* Recursive calls on the two halves.
SortShort ==
  /\ pc = "call" /\ top.hi - top.lo < 2
  /\ Return(TRUE)
  /\ UNCHANGED <<a, a0>>

SortFirstHalf ==
  /\ pc = "call" /\ top.hi - top.lo >= 2
  /\ stack' = Append(stack, Frame(top.lo, mi))
  /\ UNCHANGED <<pc, a, a0, ret>>

SortSecondHalf ==
  /\ pc = "first returned" /\ ret
  /\ stack' = Append(stack, Frame(mi, top.hi))
  /\ pc' = "call"
  /\ UNCHANGED <<a, a0, ret>>

\* Fault: the failure of a half is not passed on.
HalfFailedForgotten ==
  /\ pc \in {"first returned", "second returned"} /\ ~ret
  /\ Return(TRUE)
  /\ UNCHANGED <<a, a0>>

HalfFailed ==
  /\ pc \in {"first returned", "second returned"} /\ ~ret
  /\ Return(FALSE)
  /\ UNCHANGED <<a, a0>>

StartMerge ==
  /\ pc = "second returned" /\ ret
  /\ stack' = Append(callers, [top EXCEPT !.i2 = mi])
  /\ pc' = "merge"
  /\ UNCHANGED <<a, a0, ret>>

\* The merge loop: [lo, i1) is merged, [i1, i2) is what is left of the first
\* half and [i2, hi) of the second.
Merging == top.i1 # top.i2 /\ top.i2 # top.hi

TakeFirst ==
  /\ pc = "merge" /\ Merging /\ Compare(x1, x2) < 0
  /\ stack' = Append(callers, [top EXCEPT !.i1 = @ + 1])
  /\ UNCHANGED <<pc, a, a0, ret>>

\* Fault: the entry is copied to the front, not moved there.
TakeSecondCopies ==
  /\ pc = "merge" /\ Merging /\ Compare(x1, x2) > 0
  /\ a' = [a EXCEPT ![top.i1 + 1] = x2]
  /\ stack' = Append(callers, [top EXCEPT !.i1 = @ + 1, !.i2 = @ + 1])
  /\ UNCHANGED <<pc, a0, ret>>

\* Fault: the rotation leaves the last entry out.
TakeSecondShort ==
  /\ pc = "merge" /\ Merging /\ Compare(x1, x2) > 0
  /\ a' = RotatedPart(a, top.i1, top.i2, top.i2 - top.i1)
  /\ stack' = Append(callers, [top EXCEPT !.i1 = @ + 1, !.i2 = @ + 1])
  /\ UNCHANGED <<pc, a0, ret>>

\* The entry of the second half moves in front of what is left of the first:
\* [i1, i2 + 1) is rotated left by i2 - i1.
TakeSecond ==
  /\ pc = "merge" /\ Merging /\ Compare(x1, x2) > 0
  /\ a' = RotatedPart(a, top.i1, top.i2 + 1, top.i2 - top.i1)
  /\ stack' = Append(callers, [top EXCEPT !.i1 = @ + 1, !.i2 = @ + 1])
  /\ UNCHANGED <<pc, a0, ret>>

Duplicate ==
  /\ pc = "merge" /\ Merging /\ Compare(x1, x2) = 0
  /\ Return(FALSE)
  /\ UNCHANGED <<a, a0>>

MergeEnd ==
  /\ pc = "merge" /\ ~Merging
  /\ Return(TRUE)
  /\ UNCHANGED <<a, a0>>

Next ==
  \/ SortShort \/ SortFirstHalf \/ SortSecondHalf \/ HalfFailed
  \/ StartMerge \/ TakeFirst \/ TakeSecond \/ Duplicate \/ MergeEnd

Spec == Init /\ [][Next]_vars /\ WF_vars(Next)

-----------------------------------------------------------------------------
\* The entries lo .. hi - 1 are in order and of different keys.
Ascending(lo, hi) == \A i, j \in lo + 1 .. hi : i < j => a[i].key < a[j].key

Half(fr) == fr.lo + (fr.hi - fr.lo) \div 2

\* A call works on one half of its caller's part, and while it works on the
\* second, at any depth, the first stays sorted.
FirstHalvesStaySorted ==
  \A f \in 1 .. Len(stack) - 1 :
    \/ /\ stack[f + 1].lo = stack[f].lo
       /\ stack[f + 1].hi = Half(stack[f])
    \/ /\ stack[f + 1].lo = Half(stack[f])
       /\ stack[f + 1].hi = stack[f].hi
       /\ Ascending(stack[f].lo, Half(stack[f]))

\* What a merge has taken is in order and below everything it has not, and
\* what is left of each half is in order.
MergedIsBelowRest ==
  pc = "merge" =>
    /\ Ascending(top.lo, top.i2)
    /\ Ascending(top.i2, top.hi)
    /\ \A i \in top.lo + 1 .. top.i1, j \in top.i1 + 1 .. top.hi : a[i].key < a[j].key

\* What every call of the recursion relies on, at every depth: the halves it has
\* sorted stay so, and a merge keeps its two cursors at the borders of three
\* ordered parts.
SortedParts == FirstHalvesStaySorted /\ MergedIsBelowRest

\* No step loses or repeats an entry: the caller's slice holds its own entries
\* also when the sort gives up half-way.
NothingLost == {a[i] : i \in DOMAIN a} = {a0[i] : i \in DOMAIN a0}

\* The sort returns; it fails exactly when two entries have one key, wherever
\* they were, and the slice is in key order otherwise.
SortDecidesDuplicates ==
  <>/\ pc = "done"
    /\ ret <=> \A i, j \in DOMAIN a0 : a0[i].key = a0[j].key => i = j
    /\ ret => Ascending(0, Len(a))

\* The recursion is logarithmic: n nested calls need a slice longer than
\* 2^(n-2).
StackIsLogarithmic == Len(stack) > 1 => 2 ^ (Len(stack) - 2) < Len(a)
=============================================================================
