----------------------------- MODULE NondetEquiv -----------------------------
(***************************************************************************)
(* The equivalence of two encodings in the nondeterministic library         *)
(* (cbornondetveraux.rs): impl_check_equiv_list_basic compares two runs of  *)
(* items and impl_check_equiv_map_hd_basic two maps, entry by entry in any  *)
(* order.  Each calls the other, which the code has inlined four times.     *)
(* The answer is an option: None says that maps are nested deeper than      *)
(* map_bound allows.                                                        *)
(*                                                                         *)
(* The stack alternates between the two.  A list frame has the cells of     *)
(* impl_check_equiv_list_basic: n items to compare, at the starts of l1 and *)
(* l2.  A map frame has the bound for what is inside of the maps, their     *)
(* contents c with their numbers of pairs nv, and the cells of the two      *)
(* nested loops: n pairs from l on are still to be looked up, the first of  *)
(* them among the pn1 pairs from pll on.  In turn 1 the pairs of the first  *)
(* map are looked up in the second, in turn 2 the other way round.          *)
(*                                                                         *)
(* Equal arguments mean equal numbers below 2^30 only (see CborItem).       *)
(***************************************************************************)
EXTENDS CborItem

\* option__size_t and option__bool
None == <<>>
Some(x) == <<x>>

CONSTANTS
  Calls,     \* the arguments of impl_check_equiv_list_basic
  Bounds     \* its map_bound: None or Some(b)

ASSUME BoundsAssumption == \A b \in Bounds : b = None \/ (b = Some(b[1]) /\ b[1] \in Nat)

VARIABLES map_bound, call, pc, stack, ret
args == <<map_bound, call>>
vars == <<args, pc, stack, ret>>

ListFrame(b, n, l1, l2) == [bound |-> b, n |-> n, l1 |-> l1, l2 |-> l2]

Init ==
  /\ call \in Calls /\ map_bound \in Bounds
  /\ ret = Some(FALSE)
  /\ IF call.n1 # call.n2
     THEN pc = "return" /\ stack = <<>>
     ELSE pc = "items" /\ stack = << ListFrame(map_bound, call.n1, call.l1, call.l2) >>

-----------------------------------------------------------------------------
\* The first item of a run and what follows it, the second item and what
\* follows both, and what follows the first header and its payload, if it is a
\* string: for an array or a tag, what it holds.
First(l) == Slice(l, 0, Jump(l, 0))
Rest(l) == Slice(l, Jump(l, 0), Len(l))
Second(l) == Slice(l, Jump(l, 0), Jump(l, Jump(l, 0)))
RestOfPair(l) == Slice(l, Jump(l, Jump(l, 0)), Len(l))
Inside(l) == Slice(l, JumpLeaf(l, 0), Len(l))
Payload(l) == Slice(l, JumpHeader(l, 0), JumpLeaf(l, 0))

\* Two headers with their strings, neither of them a map's, mean the same,
\* whatever the width of their arguments.
EqualHeads(l1, l2) ==
  LET h1 == ReadHeader(l1, 0)
      h2 == ReadHeader(l2, 0)
  IN  /\ h1.type = h2.type /\ h1.arg = h2.arg
      /\ IsString(h1) => LexCompare(Payload(l1), Payload(l2)) = 0
      /\ h1.type # MapType

-----------------------------------------------------------------------------
top == stack[Len(stack)]
callers == SubSeq(stack, 1, Len(stack) - 1)

\* The running loop goes on with other cells, ends with result r, or calls.
Continue(frame, at) == stack' = Append(callers, frame) /\ pc' = at
Answer(r, at) == stack' = callers /\ ret' = r /\ pc' = at

BothMaps == MajorType(top.l1, 0) = MapType /\ MajorType(top.l2, 0) = MapType
AtItems == pc = "items" /\ top.n > 0

ItemsEnd ==
  /\ pc = "items" /\ top.n = 0
  /\ Answer(Some(TRUE), "return")
  /\ UNCHANGED args

NotMaps ==
  /\ AtItems /\ ~BothMaps
  /\ ret' = Some(FALSE) /\ pc' = "answer"
  /\ UNCHANGED <<args, stack>>

BoundReached ==
  /\ AtItems /\ BothMaps /\ top.bound = Some(0)
  /\ ret' = None /\ pc' = "answer"
  /\ UNCHANGED <<args, stack>>

\* map_bound for what is inside of a map.
Lower(b) == IF b = None THEN None ELSE Some(b[1] - 1)

MapFrame(b, c1, nv1, c2, nv2) ==
  [bound |-> b, turn |-> 1, c |-> <<c1, c2>>, nv |-> <<nv1, nv2>>,
   l |-> c1, n |-> nv1, pll |-> <<>>, pn1 |-> 0, part |-> "key"]

\* What the map at the start of l holds.
Content(l) == Slice(l, JumpHeader(l, 0), Jump(l, 0))
PairCount(l) == Size(ReadHeader(l, 0).arg)

\* Fault: the bound of the whole is used inside of a map.
EnterMapSameBound ==
  /\ AtItems /\ BothMaps /\ top.bound # Some(0)
  /\ stack' = Append(stack, MapFrame(top.bound,
                Content(top.l1), PairCount(top.l1), Content(top.l2), PairCount(top.l2)))
  /\ pc' = "entries"
  /\ UNCHANGED <<args, ret>>

EnterMap ==
  /\ AtItems /\ BothMaps /\ top.bound # Some(0)
  /\ stack' = Append(stack, MapFrame(Lower(top.bound),
                Content(top.l1), PairCount(top.l1), Content(top.l2), PairCount(top.l2)))
  /\ pc' = "entries"
  /\ UNCHANGED <<args, ret>>

\* What impl_check_equiv_map_hd_basic answered decides about the first items.
Unknown ==
  /\ pc = "answer" /\ ret = None
  /\ Answer(None, "return")
  /\ UNCHANGED args

SameItem ==
  /\ pc = "answer" /\ ret = Some(TRUE)
  /\ Continue([top EXCEPT !.n = @ - 1, !.l1 = Rest(@), !.l2 = Rest(@)], "items")
  /\ UNCHANGED <<args, ret>>

SameHead ==
  /\ pc = "answer" /\ ret = Some(FALSE) /\ EqualHeads(top.l1, top.l2)
  /\ Continue([top EXCEPT !.n = Size(RemainingDataItems(ReadHeader(top.l1, 0)) + (@ - 1)),
                          !.l1 = Inside(@), !.l2 = Inside(@)], "items")
  /\ UNCHANGED <<args, ret>>

OtherHead ==
  /\ pc = "answer" /\ ret = Some(FALSE) /\ ~EqualHeads(top.l1, top.l2)
  /\ Answer(Some(FALSE), "return")
  /\ UNCHANGED args

-----------------------------------------------------------------------------
\* The loop over the pairs of one map.
TakeEntry ==
  /\ pc = "entries" /\ top.n > 0
  /\ Continue([top EXCEPT !.pll = top.c[3 - top.turn], !.pn1 = top.nv[3 - top.turn]],
              "search")
  /\ UNCHANGED <<args, ret>>

\* Fault: the second map may have entries that the first one has not.
TurnOverForgotten ==
  /\ pc = "entries" /\ top.n = 0 /\ top.turn = 1
  /\ Answer(Some(TRUE), "answer")
  /\ UNCHANGED args

TurnOver ==
  /\ pc = "entries" /\ top.n = 0 /\ top.turn = 1
  /\ Continue([top EXCEPT !.turn = 2, !.l = top.c[2], !.n = top.nv[2]], "entries")
  /\ UNCHANGED <<args, ret>>

SameMaps ==
  /\ pc = "entries" /\ top.n = 0 /\ top.turn = 2
  /\ Answer(Some(TRUE), "answer")
  /\ UNCHANGED args

\* The loop over the pairs of the other map, for the first of these entries.
NoSuchKey ==
  /\ pc = "search" /\ top.pn1 = 0
  /\ Answer(Some(FALSE), "answer")
  /\ UNCHANGED args

CallList(part, l1, l2) ==
  /\ stack' = Append(Append(callers, [top EXCEPT !.part = part]),
                     ListFrame(top.bound, 1, l1, l2))
  /\ pc' = "items"
  /\ UNCHANGED <<args, ret>>

CompareKeys ==
  /\ pc = "search" /\ top.pn1 > 0
  /\ CallList("key", First(top.l), First(top.pll))

-----------------------------------------------------------------------------
\* A comparison of keys or values is back in the loop over the other map.
Returned(part, r) == pc = "return" /\ stack # <<>> /\ top.part = part /\ ret = r

GiveUp ==
  /\ pc = "return" /\ stack # <<>> /\ ret = None
  /\ Answer(None, "answer")
  /\ UNCHANGED args

OtherKey ==
  /\ Returned("key", Some(FALSE))
  /\ Continue([top EXCEPT !.pll = RestOfPair(@), !.pn1 = @ - 1], "search")
  /\ UNCHANGED <<args, ret>>

CompareValues ==
  /\ Returned("key", Some(TRUE))
  /\ CallList("value", Second(top.l), Second(top.pll))

SameEntry ==
  /\ Returned("value", Some(TRUE))
  /\ Continue([top EXCEPT !.l = RestOfPair(@), !.n = @ - 1], "entries")
  /\ UNCHANGED <<args, ret>>

\* No other pair is tried: the key was there.
OtherValue ==
  /\ Returned("value", Some(FALSE))
  /\ Answer(Some(FALSE), "answer")
  /\ UNCHANGED args

-----------------------------------------------------------------------------
Items == ItemsEnd \/ NotMaps \/ BoundReached \/ EnterMap
           \/ Unknown \/ SameItem \/ SameHead \/ OtherHead
Entries == TakeEntry \/ TurnOver \/ SameMaps \/ NoSuchKey \/ CompareKeys
             \/ GiveUp \/ OtherKey \/ CompareValues \/ SameEntry \/ OtherValue

Done ==
  /\ pc = "return" /\ stack = <<>>
  /\ pc' = "done"
  /\ UNCHANGED <<args, stack, ret>>

Next == Items \/ Entries \/ Done

Spec == Init /\ [][Next]_vars /\ WF_vars(Next)

-----------------------------------------------------------------------------
\* However the items are nested, the bound the caller gave limits the recursion: two
\* calls, one on the items and one on the maps, for every level of maps.
RecursionIsBounded ==
  map_bound # None => Len(stack) <= 2 * map_bound[1] + 1
=============================================================================
