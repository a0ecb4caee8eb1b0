--------------------------- MODULE NondetValidate ---------------------------
(***************************************************************************)
(* cbor_validate_nondet of cbornondetveraux.rs, behind cbor_nondet_parse:   *)
(* after the raw pass over the input, which is that of CborValidate, the    *)
(* pass of impl_check_valid_basic accepts no map with two equivalent keys.  *)
(* It compares every key with every later one, by the equivalence of        *)
(* NondetEquiv, whose stack is empty between two comparisons.               *)
(*                                                                         *)
(* item is the rest of the input from *ppi on, and left the n of that loop. *)
(* The two loops over the pairs of a map have their cells in outer and      *)
(* inner: keys to compare from l on, n pairs of them.                       *)
(***************************************************************************)
EXTENDS NondetEquiv

G == INSTANCE CborGrammar

CONSTANTS
  Inputs,
  Strictness   \* what the caller may ask for in strict_check

VARIABLES input, strict_check, len, item, left, outer, inner, consumed
validateVars == <<input, strict_check, len, item, left, outer, inner, consumed>>
allVars == <<vars, validateVars>>
equivVars == <<stack, ret>>

PairsFrom(l, n) == [l |-> l, n |-> n]

ValidateInit ==
  /\ input \in Inputs /\ map_bound \in Bounds /\ strict_check \in Strictness
  /\ call = [n1 |-> 0, l1 |-> <<>>, n2 |-> 0, l2 |-> <<>>]
  /\ stack = <<>> /\ ret = Some(FALSE)
  /\ len = G!ValidLength(input) /\ consumed = 0   \* the raw pass, on *poffset
  /\ item = <<>> /\ left = 0
  /\ outer = PairsFrom(<<>>, 0) /\ inner = PairsFrom(<<>>, 0)
  /\ pc = "raw"

-----------------------------------------------------------------------------
\* impl_check_map_depth_aux: whether maps are nested at most b deep in the
\* first n items at offset o of l.  Recursive for the contents of a map, with
\* the position shared by caller and callee: here the offset it leaves behind.
TooDeep == -1
AfterItems(l, bound, items) ==
  LET walk[b \in 0 .. bound, o \in 0 .. Len(l), n \in 0 .. Len(l) + 1] ==
        LET h == ReadHeader(l, o)
            inside == JumpLeaf(l, o)
            end == IF b = 0 THEN TooDeep ELSE walk[b - 1, inside, RemainingDataItems(h)]
        IN  IF n = 0 THEN o
            ELSE IF h.type # MapType THEN walk[b, inside, RemainingDataItems(h) + n - 1]
            ELSE IF end = TooDeep THEN TooDeep
            ELSE walk[b, end, n - 1]
  IN  walk[bound, 0, items]

\* impl_check_map_depth_opt on the first key of l; in strict mode only.
WithinBound(l) ==
  strict_check /\ map_bound # None => AfterItems(l, map_bound[1], 1) # TooDeep

-----------------------------------------------------------------------------
Reject == pc' = "done" /\ consumed' = 0

RawFails ==
  /\ pc = "raw" /\ len = 0
  /\ Reject
  /\ UNCHANGED <<args, equivVars, input, strict_check, len, item, left, outer, inner>>

RawEnds ==
  /\ pc = "raw" /\ len # 0
  /\ item' = Slice(input, 0, len) /\ left' = 1
  /\ pc' = "valid"
  /\ UNCHANGED <<args, equivVars, input, strict_check, len, outer, inner, consumed>>

AtItem == pc = "valid" /\ left > 0

\* The pass moves into the item: one header, and the string behind it.
StepIn ==
  /\ item' = Inside(item)
  /\ left' = Size(left - 1 + RemainingDataItems(ReadHeader(item, 0)))

NoMap ==
  /\ AtItem /\ MajorType(item, 0) # MapType
  /\ StepIn
  /\ UNCHANGED <<args, pc, equivVars, input, strict_check, len, outer, inner, consumed>>

AtMap ==
  /\ AtItem /\ MajorType(item, 0) = MapType
  /\ outer' = PairsFrom(Content(item), PairCount(item))
  /\ pc' = "keys"
  /\ UNCHANGED <<args, equivVars, input, strict_check, len, item, left, inner, consumed>>

\* The pairs behind the present one are those whose keys it is compared with.
TakeKey ==
  /\ pc = "keys" /\ outer.n > 0
  /\ inner' = PairsFrom(RestOfPair(outer.l), outer.n - 1)
  /\ pc' = "later"
  /\ UNCHANGED <<args, equivVars, input, strict_check, len, item, left, outer, consumed>>

CompareWithLater ==
  /\ pc = "later" /\ inner.n > 0
  /\ call' = [n1 |-> 1, l1 |-> First(outer.l), n2 |-> 1, l2 |-> First(inner.l)]
  /\ stack' = << ListFrame(map_bound, 1, call'.l1, call'.l2) >>
  /\ pc' = "items"
  /\ UNCHANGED <<map_bound, ret, validateVars>>

\* The comparison has returned.
Compared == pc = "return" /\ stack = <<>>

\* Fault: a comparison that gave up counts as one that found no repeat.
DifferentOrUnknown ==
  /\ Compared /\ ret # Some(TRUE)
  /\ inner' = PairsFrom(RestOfPair(inner.l), inner.n - 1)
  /\ pc' = "later"
  /\ UNCHANGED <<args, equivVars, input, strict_check, len, item, left, outer, consumed>>

Different ==
  /\ Compared /\ ret = Some(FALSE)
  /\ inner' = PairsFrom(RestOfPair(inner.l), inner.n - 1)
  /\ pc' = "later"
  /\ UNCHANGED <<args, equivVars, input, strict_check, len, item, left, outer, consumed>>

\* An equivalent key, or one that cannot be told.
Repeated ==
  /\ Compared /\ ret # Some(FALSE)
  /\ Reject
  /\ UNCHANGED <<args, equivVars, input, strict_check, len, item, left, outer, inner>>

KeyDistinct ==
  /\ pc = "later" /\ inner.n = 0 /\ WithinBound(outer.l)
  /\ outer' = PairsFrom(RestOfPair(outer.l), outer.n - 1)
  /\ pc' = "keys"
  /\ UNCHANGED <<args, equivVars, input, strict_check, len, item, left, inner, consumed>>

KeyTooDeep ==
  /\ pc = "later" /\ inner.n = 0 /\ ~WithinBound(outer.l)
  /\ Reject
  /\ UNCHANGED <<args, equivVars, input, strict_check, len, item, left, outer, inner>>

\* Fault: maps inside of a map are not looked at.
MapDistinctSkipped ==
  /\ pc = "keys" /\ outer.n = 0
  /\ item' = Rest(item) /\ left' = left - 1
  /\ pc' = "valid"
  /\ UNCHANGED <<args, equivVars, input, strict_check, len, outer, inner, consumed>>

MapDistinct ==
  /\ pc = "keys" /\ outer.n = 0
  /\ StepIn
  /\ pc' = "valid"
  /\ UNCHANGED <<args, equivVars, input, strict_check, len, outer, inner, consumed>>

Accept ==
  /\ pc = "valid" /\ left = 0
  /\ consumed' = len /\ pc' = "done"
  /\ UNCHANGED <<args, equivVars, input, strict_check, len, item, left, outer, inner>>

Pass ==
  \/ RawFails \/ RawEnds \/ NoMap \/ AtMap \/ TakeKey \/ CompareWithLater
  \/ Different \/ Repeated \/ KeyDistinct \/ KeyTooDeep \/ MapDistinct \/ Accept

ValidateNext == Pass \/ ((Items \/ Entries) /\ UNCHANGED validateVars)

ValidateSpec == ValidateInit /\ [][ValidateNext]_allVars /\ WF_allVars(ValidateNext)
=============================================================================
