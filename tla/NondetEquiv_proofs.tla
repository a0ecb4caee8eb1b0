------------------------- MODULE NondetEquiv_proofs -------------------------
(***************************************************************************)
(* The bound on maps nested in each other bounds the recursion of the       *)
(* comparison of NondetEquiv, for every two runs of items and every bound.  *)
(*                                                                         *)
(* RecursionIsBounded is not inductive: that a map can only be entered      *)
(* while the bound is not used up is in the frames.  The frame at depth i   *)
(* has what i \div 2 maps have left of the bound, and the place in the code *)
(* tells list frames, at odd depths, from map frames, at even ones.         *)
(***************************************************************************)
EXTENDS NondetEquiv, SequenceTheorems, TLAPS

Level(b, f, i) ==
  /\ "bound" \in DOMAIN f
  /\ b # None => f.bound = Some(b[1] - i \div 2) /\ i \div 2 <= b[1]

Frames(b, s) ==
  /\ \E S : s \in Seq(S)
  /\ \A i \in 1 .. Len(s) : Level(b, s[i], i)

Depths ==
  /\ pc \in {"items", "answer"} => Len(stack) % 2 = 1
  /\ pc \in {"entries", "search"} => Len(stack) % 2 = 0 /\ Len(stack) > 0
  /\ pc \in {"return", "done"} => Len(stack) % 2 = 0

IInv ==
  /\ map_bound = None \/ (map_bound = Some(map_bound[1]) /\ map_bound[1] \in Nat)
  /\ pc \in {"items", "answer", "entries", "search", "return", "done"}
  /\ Frames(map_bound, stack)
  /\ Depths

-----------------------------------------------------------------------------
\* The frames below the last one are frames.
LEMMA PopFrames ==
  ASSUME NEW b, NEW s, Frames(b, s), s # <<>>
  PROVE  /\ Len(s) \in Nat \ {0}
         /\ Len(SubSeq(s, 1, Len(s) - 1)) = Len(s) - 1
         /\ Frames(b, SubSeq(s, 1, Len(s) - 1))
         /\ Level(b, s[Len(s)], Len(s))
<1> DEFINE t == SubSeq(s, 1, Len(s) - 1)
<1>1. PICK S : s \in Seq(S)
  BY DEF Frames
<1>2. Len(s) \in Nat \ {0}
  BY <1>1, EmptySeq
<1>3. /\ t \in Seq(S) /\ Len(t) = Len(s) - 1
      /\ \A i \in 1 .. Len(t) : t[i] = s[i]
  <2>1. 1 \in Int /\ Len(s) - 1 \in Int /\ \A i \in 1 .. Len(s) - 1 : s[i] \in S
    BY <1>1, <1>2, ElementOfSeq
  <2>2. /\ t \in Seq(S) /\ Len(t) = IF 1 <= Len(s) - 1 THEN Len(s) - 1 - 1 + 1 ELSE 0
        /\ \A i \in 1 .. Len(s) - 1 - 1 + 1 : t[i] = s[1 + i - 1]
    BY <2>1, SubSeqProperties
  <2> HIDE DEF t
  <2>3. Len(t) = Len(s) - 1
    <3>1. CASE Len(s) = 1
      BY <2>2, <3>1
    <3>2. CASE Len(s) # 1
      <4>1. 1 <= Len(s) - 1 /\ Len(s) - 1 - 1 + 1 = Len(s) - 1
        BY <1>2, <3>2
      <4> QED
        BY <2>2, <4>1
    <3> QED
      BY <3>1, <3>2
  <2>4. ASSUME NEW i \in 1 .. Len(t) PROVE t[i] = s[i]
    <3>1. i \in 1 .. Len(s) - 1 - 1 + 1 /\ 1 + i - 1 = i
      BY <1>2, <2>3
    <3> QED
      BY <2>2, <3>1
  <2> QED
    BY <2>2, <2>3, <2>4
<1>4. \A i \in 1 .. Len(t) : Level(b, t[i], i)
  BY <1>2, <1>3 DEF Frames
<1>5. Level(b, s[Len(s)], Len(s))
  BY <1>2 DEF Frames
<1> QED
  BY <1>2, <1>3, <1>4, <1>5 DEF Frames

\* One more frame of the level it comes to is a frame.
LEMMA PushFrames ==
  ASSUME NEW b, NEW s, NEW f, Frames(b, s), Level(b, f, Len(s) + 1)
  PROVE  Frames(b, Append(s, f)) /\ Len(Append(s, f)) = Len(s) + 1 /\ Len(s) \in Nat
<1> DEFINE t == Append(s, f)
<1>1. PICK S : s \in Seq(S)
  BY DEF Frames
<1>2. s \in Seq(S \cup {f}) /\ Len(s) \in Nat
  BY <1>1
<1>3. /\ t \in Seq(S \cup {f}) /\ Len(t) = Len(s) + 1
      /\ \A i \in 1 .. Len(t) : t[i] = IF i = Len(s) + 1 THEN f ELSE s[i]
  BY <1>2
<1>4. \A i \in 1 .. Len(t) : Level(b, t[i], i)
  BY <1>2, <1>3 DEF Frames
<1> QED
  BY <1>2, <1>3, <1>4 DEF Frames
-----------------------------------------------------------------------------
\* A loop that goes on, one that ends and one that calls keep the frames.
LEMMA Continued ==
  ASSUME Frames(map_bound, stack), stack # <<>>, NEW f, NEW at, Continue(f, at),
         "bound" \in DOMAIN f, f.bound = top.bound
  PROVE  Frames(map_bound, stack') /\ Len(stack') = Len(stack) /\ Len(stack) \in Nat
<1>1. /\ Len(stack) \in Nat \ {0} /\ Len(callers) = Len(stack) - 1
      /\ Frames(map_bound, callers) /\ Level(map_bound, top, Len(stack))
  BY PopFrames DEF callers, top
<1>2. Level(map_bound, f, Len(callers) + 1)
  BY <1>1 DEF Level
<1> QED
  BY <1>1, <1>2, PushFrames DEF Continue

\* A return takes the frame on top away.
LEMMA Answered ==
  ASSUME Frames(map_bound, stack), stack # <<>>, NEW r, NEW at, Answer(r, at)
  PROVE  Frames(map_bound, stack') /\ Len(stack') = Len(stack) - 1 /\ Len(stack) \in Nat \ {0}
BY PopFrames DEF Answer, callers

\* A call from a frame of a map keeps the bound of that frame.
LEMMA Called ==
  ASSUME Frames(map_bound, stack), stack # <<>>, Len(stack) % 2 = 0,
         "bound" \in DOMAIN top, NEW part, NEW l1, NEW l2, CallList(part, l1, l2)
  PROVE  Frames(map_bound, stack') /\ Len(stack') = Len(stack) + 1 /\ Len(stack) \in Nat
<1> DEFINE f == [top EXCEPT !.part = part]
           g == ListFrame(top.bound, 1, l1, l2)
<1>1. /\ Len(stack) \in Nat \ {0} /\ Len(callers) = Len(stack) - 1
      /\ Frames(map_bound, callers) /\ Level(map_bound, top, Len(stack))
  BY PopFrames DEF callers, top
<1>2. "bound" \in DOMAIN f /\ f.bound = top.bound
  OBVIOUS
<1>3. Level(map_bound, f, Len(callers) + 1)
  BY <1>1, <1>2 DEF Level
<1>4. Frames(map_bound, Append(callers, f)) /\ Len(Append(callers, f)) = Len(stack)
  BY <1>1, <1>3, PushFrames
<1>5. "bound" \in DOMAIN g /\ g.bound = top.bound
  BY DEF ListFrame
<1>6. (Len(stack) + 1) \div 2 = Len(stack) \div 2
  BY <1>1
<1>7. Level(map_bound, g, Len(Append(callers, f)) + 1)
  BY <1>1, <1>4, <1>5, <1>6 DEF Level
<1> QED
  BY <1>1, <1>4, <1>7, PushFrames DEF CallList

\* To enter a map takes one from what is left of the bound.
LEMMA Entered ==
  ASSUME IInv, EnterMap
  PROVE  Frames(map_bound, stack') /\ Len(stack') = Len(stack) + 1 /\ Len(stack) \in Nat
<1> DEFINE b == map_bound
           n == Len(stack)
           f == MapFrame(Lower(top.bound), Content(top.l1), PairCount(top.l1),
                         Content(top.l2), PairCount(top.l2))
<1>1. Frames(b, stack) /\ n % 2 = 1 /\ stack # <<>>
  BY DEF IInv, Depths, EnterMap, AtItems
<1>2. n \in Nat \ {0} /\ Level(b, top, n)
  BY <1>1, PopFrames DEF top
<1>3. "bound" \in DOMAIN f /\ f.bound = Lower(top.bound)
  BY DEF MapFrame
<1>4. Level(b, f, n + 1)
  <2>1. CASE b = None
    BY <1>3, <2>1 DEF Level
  <2>2. CASE b # None
    <3>1. b[1] \in Nat /\ top.bound = Some(b[1] - n \div 2) /\ n \div 2 <= b[1]
      BY <1>2, <2>2 DEF IInv, Level
    <3>2. b[1] - n \div 2 # 0
      BY <3>1 DEF EnterMap
    <3>3. (n + 1) \div 2 = n \div 2 + 1 /\ n \div 2 \in Nat
      BY <1>1, <1>2
    <3>4. Lower(top.bound) = Some(b[1] - (n + 1) \div 2)
      BY <3>1, <3>3 DEF Lower, Some, None
    <3>5. (n + 1) \div 2 <= b[1]
      BY <3>1, <3>2, <3>3
    <3> QED
      BY <1>3, <3>4, <3>5 DEF Level
  <2> QED
    BY <2>1, <2>2
<1> QED
  BY <1>1, <1>2, <1>4, PushFrames DEF EnterMap
-----------------------------------------------------------------------------
\* What an action has to establish: where the program is, and how deep.
LEMMA FramesToIInv ==
  ASSUME IInv, map_bound' = map_bound, Frames(map_bound, stack'), Depths',
         pc' \in {"items", "answer", "entries", "search", "return", "done"}
  PROVE  IInv'
BY DEF IInv

\* The steps of list frames.
LEMMA ItemsPreserve == IInv /\ Items => IInv'
<1> SUFFICES ASSUME IInv, Items PROVE IInv'
  OBVIOUS
<1> USE FramesToIInv DEF args
<1>0. Frames(map_bound, stack) /\ Depths
  BY DEF IInv
<1>1. pc \in {"items", "answer"} => Len(stack) % 2 = 1 /\ stack # <<>>
  BY <1>0 DEF Depths
<1>2. pc \in {"items", "answer"} => "bound" \in DOMAIN top
  BY <1>0, <1>1, PopFrames DEF top, Level
<1>3. CASE ItemsEnd
  <2>1. Frames(map_bound, stack') /\ Len(stack') = Len(stack) - 1 /\ Len(stack) \in Nat \ {0}
    BY <1>0, <1>1, <1>3, Answered DEF ItemsEnd
  <2>2. Depths'
    BY <1>1, <1>3, <2>1 DEF Depths, ItemsEnd, Answer
  <2> QED
    BY <1>3, <2>1, <2>2 DEF ItemsEnd, Answer
<1>4. CASE NotMaps
  <2>1. Depths'
    BY <1>1, <1>4 DEF Depths, NotMaps, AtItems
  <2> QED
    BY <1>0, <1>4, <2>1 DEF NotMaps
<1>5. CASE BoundReached
  <2>1. Depths'
    BY <1>1, <1>5 DEF Depths, BoundReached, AtItems
  <2> QED
    BY <1>0, <1>5, <2>1 DEF BoundReached
<1>6. CASE EnterMap
  <2>1. Frames(map_bound, stack') /\ Len(stack') = Len(stack) + 1 /\ Len(stack) \in Nat
    BY <1>6, Entered
  <2>2. Depths'
    BY <1>1, <1>6, <2>1 DEF Depths, EnterMap, AtItems
  <2> QED
    BY <1>6, <2>1, <2>2 DEF EnterMap
<1>7. CASE Unknown
  <2>1. Frames(map_bound, stack') /\ Len(stack') = Len(stack) - 1 /\ Len(stack) \in Nat \ {0}
    BY <1>0, <1>1, <1>7, Answered DEF Unknown
  <2>2. Depths'
    BY <1>1, <1>7, <2>1 DEF Depths, Unknown, Answer
  <2> QED
    BY <1>7, <2>1, <2>2 DEF Unknown, Answer
<1>8. CASE SameItem
  <2> DEFINE f == [top EXCEPT !.n = @ - 1, !.l1 = Rest(@), !.l2 = Rest(@)]
  <2>1. "bound" \in DOMAIN f /\ f.bound = top.bound
    BY <1>2, <1>8 DEF SameItem
  <2>2. Continue(f, "items")
    BY <1>8 DEF SameItem
  <2> HIDE DEF f
  <2>3. Frames(map_bound, stack') /\ Len(stack') = Len(stack)
    BY <1>0, <1>1, <1>8, <2>1, <2>2, Continued DEF SameItem
  <2>4. Depths'
    BY <1>1, <1>8, <2>2, <2>3 DEF Depths, SameItem, Continue
  <2> QED
    BY <1>8, <2>2, <2>3, <2>4 DEF SameItem, Continue
<1>9. CASE SameHead
  <2> DEFINE f == [top EXCEPT !.n = Size(RemainingDataItems(ReadHeader(top.l1, 0)) + (@ - 1)),
                              !.l1 = Inside(@), !.l2 = Inside(@)]
  <2>1. "bound" \in DOMAIN f /\ f.bound = top.bound
    BY <1>2, <1>9 DEF SameHead
  <2>2. Continue(f, "items")
    BY <1>9 DEF SameHead
  <2> HIDE DEF f
  <2>3. Frames(map_bound, stack') /\ Len(stack') = Len(stack)
    BY <1>0, <1>1, <1>9, <2>1, <2>2, Continued DEF SameHead
  <2>4. Depths'
    BY <1>1, <1>9, <2>2, <2>3 DEF Depths, SameHead, Continue
  <2> QED
    BY <1>9, <2>2, <2>3, <2>4 DEF SameHead, Continue
<1>10. CASE OtherHead
  <2>1. Frames(map_bound, stack') /\ Len(stack') = Len(stack) - 1 /\ Len(stack) \in Nat \ {0}
    BY <1>0, <1>1, <1>10, Answered DEF OtherHead
  <2>2. Depths'
    BY <1>1, <1>10, <2>1 DEF Depths, OtherHead, Answer
  <2> QED
    BY <1>10, <2>1, <2>2 DEF OtherHead, Answer
<1> QED
  BY <1>3, <1>4, <1>5, <1>6, <1>7, <1>8, <1>9, <1>10 DEF Items

\* The steps of map frames.
LEMMA EntriesPreserve == IInv /\ Entries => IInv'
<1> SUFFICES ASSUME IInv, Entries PROVE IInv'
  OBVIOUS
<1> USE FramesToIInv DEF args
<1>0. Frames(map_bound, stack) /\ Depths
  BY DEF IInv
<1>1. Len(stack) % 2 = 0 /\ stack # <<>>
  <2>1. (pc \in {"entries", "search"}) \/ (pc = "return" /\ stack # <<>>)
    BY DEF Entries, TakeEntry, TurnOver, SameMaps, NoSuchKey, CompareKeys, GiveUp,
           OtherKey, CompareValues, SameEntry, OtherValue, Returned
  <2> QED
    BY <1>0, <2>1 DEF Depths
<1>2. "bound" \in DOMAIN top
  BY <1>0, <1>1, PopFrames DEF top, Level
<1>3. CASE TakeEntry
  <2> DEFINE f == [top EXCEPT !.pll = top.c[3 - top.turn], !.pn1 = top.nv[3 - top.turn]]
  <2>1. "bound" \in DOMAIN f /\ f.bound = top.bound
    BY <1>2, <1>3 DEF TakeEntry
  <2>2. Continue(f, "search")
    BY <1>3 DEF TakeEntry
  <2> HIDE DEF f
  <2>3. Frames(map_bound, stack') /\ Len(stack') = Len(stack)
    BY <1>0, <1>1, <1>3, <2>1, <2>2, Continued DEF TakeEntry
  <2>4. Depths'
    BY <1>1, <1>3, <2>2, <2>3 DEF Depths, TakeEntry, Continue
  <2> QED
    BY <1>3, <2>2, <2>3, <2>4 DEF TakeEntry, Continue
<1>4. CASE TurnOver
  <2> DEFINE f == [top EXCEPT !.turn = 2, !.l = top.c[2], !.n = top.nv[2]]
  <2>1. "bound" \in DOMAIN f /\ f.bound = top.bound
    BY <1>2, <1>4 DEF TurnOver
  <2>2. Continue(f, "entries")
    BY <1>4 DEF TurnOver
  <2> HIDE DEF f
  <2>3. Frames(map_bound, stack') /\ Len(stack') = Len(stack)
    BY <1>0, <1>1, <1>4, <2>1, <2>2, Continued DEF TurnOver
  <2>4. Depths'
    BY <1>1, <1>4, <2>2, <2>3 DEF Depths, TurnOver, Continue
  <2> QED
    BY <1>4, <2>2, <2>3, <2>4 DEF TurnOver, Continue
<1>5. CASE SameMaps
  <2>1. Frames(map_bound, stack') /\ Len(stack') = Len(stack) - 1 /\ Len(stack) \in Nat \ {0}
    BY <1>0, <1>1, <1>5, Answered DEF SameMaps
  <2>2. Depths'
    BY <1>1, <1>5, <2>1 DEF Depths, SameMaps, Answer
  <2> QED
    BY <1>5, <2>1, <2>2 DEF SameMaps, Answer
<1>6. CASE NoSuchKey
  <2>1. Frames(map_bound, stack') /\ Len(stack') = Len(stack) - 1 /\ Len(stack) \in Nat \ {0}
    BY <1>0, <1>1, <1>6, Answered DEF NoSuchKey
  <2>2. Depths'
    BY <1>1, <1>6, <2>1 DEF Depths, NoSuchKey, Answer
  <2> QED
    BY <1>6, <2>1, <2>2 DEF NoSuchKey, Answer
<1>7. CASE CompareKeys
  <2>1. CallList("key", First(top.l), First(top.pll))
    BY <1>7 DEF CompareKeys
  <2>2. Frames(map_bound, stack') /\ Len(stack') = Len(stack) + 1 /\ Len(stack) \in Nat
    BY <1>0, <1>1, <1>2, <1>7, <2>1, Called DEF CompareKeys
  <2>3. Depths'
    BY <1>1, <1>7, <2>1, <2>2 DEF Depths, CompareKeys, CallList
  <2> QED
    BY <2>1, <2>2, <2>3 DEF CallList
<1>8. CASE GiveUp
  <2>1. Frames(map_bound, stack') /\ Len(stack') = Len(stack) - 1 /\ Len(stack) \in Nat \ {0}
    BY <1>0, <1>1, <1>8, Answered DEF GiveUp
  <2>2. Depths'
    BY <1>1, <1>8, <2>1 DEF Depths, GiveUp, Answer
  <2> QED
    BY <1>8, <2>1, <2>2 DEF GiveUp, Answer
<1>9. CASE OtherKey
  <2> DEFINE f == [top EXCEPT !.pll = RestOfPair(@), !.pn1 = @ - 1]
  <2>1. "bound" \in DOMAIN f /\ f.bound = top.bound
    BY <1>2, <1>9 DEF OtherKey
  <2>2. Continue(f, "search")
    BY <1>9 DEF OtherKey
  <2> HIDE DEF f
  <2>3. Frames(map_bound, stack') /\ Len(stack') = Len(stack)
    BY <1>0, <1>1, <1>9, <2>1, <2>2, Continued DEF OtherKey
  <2>4. Depths'
    BY <1>1, <1>9, <2>2, <2>3 DEF Depths, OtherKey, Continue
  <2> QED
    BY <1>9, <2>2, <2>3, <2>4 DEF OtherKey, Continue
<1>10. CASE CompareValues
  <2>1. CallList("value", Second(top.l), Second(top.pll))
    BY <1>10 DEF CompareValues
  <2>2. Frames(map_bound, stack') /\ Len(stack') = Len(stack) + 1 /\ Len(stack) \in Nat
    BY <1>0, <1>1, <1>2, <1>10, <2>1, Called DEF CompareValues
  <2>3. Depths'
    BY <1>1, <1>10, <2>1, <2>2 DEF Depths, CompareValues, CallList
  <2> QED
    BY <2>1, <2>2, <2>3 DEF CallList
<1>11. CASE SameEntry
  <2> DEFINE f == [top EXCEPT !.l = RestOfPair(@), !.n = @ - 1]
  <2>1. "bound" \in DOMAIN f /\ f.bound = top.bound
    BY <1>2, <1>11 DEF SameEntry
  <2>2. Continue(f, "entries")
    BY <1>11 DEF SameEntry
  <2> HIDE DEF f
  <2>3. Frames(map_bound, stack') /\ Len(stack') = Len(stack)
    BY <1>0, <1>1, <1>11, <2>1, <2>2, Continued DEF SameEntry
  <2>4. Depths'
    BY <1>1, <1>11, <2>2, <2>3 DEF Depths, SameEntry, Continue
  <2> QED
    BY <1>11, <2>2, <2>3, <2>4 DEF SameEntry, Continue
<1>12. CASE OtherValue
  <2>1. Frames(map_bound, stack') /\ Len(stack') = Len(stack) - 1 /\ Len(stack) \in Nat \ {0}
    BY <1>0, <1>1, <1>12, Answered DEF OtherValue
  <2>2. Depths'
    BY <1>1, <1>12, <2>1 DEF Depths, OtherValue, Answer
  <2> QED
    BY <1>12, <2>1, <2>2 DEF OtherValue, Answer
<1> QED
  BY <1>3, <1>4, <1>5, <1>6, <1>7, <1>8, <1>9, <1>10, <1>11, <1>12 DEF Entries

-----------------------------------------------------------------------------
\* The comparison starts with one frame, or none.
LEMMA InitIInv == Init => IInv
<1> SUFFICES ASSUME Init PROVE IInv
  OBVIOUS
<1>1. map_bound = None \/ (map_bound = Some(map_bound[1]) /\ map_bound[1] \in Nat)
  BY BoundsAssumption DEF Init
<1>2. CASE call.n1 # call.n2
  <2>1. pc = "return" /\ stack = <<>> /\ <<>> \in Seq({}) /\ Len(<<>>) = 0
    BY <1>2 DEF Init
  <2> QED
    BY <1>1, <2>1 DEF IInv, Frames, Depths
<1>3. CASE call.n1 = call.n2
  <2> DEFINE f == ListFrame(map_bound, call.n1, call.l1, call.l2)
  <2>1. pc = "items" /\ stack = <<f>>
    BY <1>3 DEF Init
  <2>2. "bound" \in DOMAIN f /\ f.bound = map_bound
    BY DEF ListFrame
  <2>3. map_bound # None => map_bound = Some(map_bound[1] - 1 \div 2)
                            /\ 1 \div 2 <= map_bound[1]
    BY <1>1 DEF Some, None
  <2>4. Level(map_bound, f, 1)
    BY <2>2, <2>3 DEF Level
  <2> HIDE DEF f
  <2>5. stack \in Seq({f}) /\ Len(stack) = 1 /\ stack[1] = f
    BY <2>1
  <2>6. Frames(map_bound, stack)
    BY <2>4, <2>5 DEF Frames
  <2>7. Depths
    BY <2>1, <2>5 DEF Depths
  <2> QED
    BY <1>1, <2>1, <2>6, <2>7 DEF IInv
<1> QED
  BY <1>2, <1>3

\* The invariant is inductive.
LEMMA NextIInv == IInv /\ [Next]_vars => IInv'
<1> SUFFICES ASSUME IInv, [Next]_vars PROVE IInv'
  OBVIOUS
<1>1. CASE Done
  BY <1>1 DEF Done, IInv, Depths, args
<1>2. CASE UNCHANGED vars
  BY <1>2 DEF vars, args, IInv, Depths
<1> QED
  BY <1>1, <1>2, ItemsPreserve, EntriesPreserve DEF Next

\* A bound that is not negative allows for two frames per level.
LEMMA IInvBounds == IInv => RecursionIsBounded
<1> SUFFICES ASSUME IInv, map_bound # None PROVE Len(stack) <= 2 * map_bound[1] + 1
  BY DEF RecursionIsBounded
<1>1. map_bound[1] \in Nat
  BY DEF IInv
<1>2. CASE stack = <<>>
  BY <1>1, <1>2
<1>3. CASE stack # <<>>
  <2>1. Len(stack) \in Nat \ {0} /\ Level(map_bound, stack[Len(stack)], Len(stack))
    BY <1>3, PopFrames DEF IInv
  <2>2. Len(stack) \div 2 <= map_bound[1]
    BY <2>1 DEF Level
  <2> QED
    BY <1>1, <2>1, <2>2
<1> QED
  BY <1>2, <1>3

\* The recursion of the comparison is bounded by the caller's map_bound, whatever the
\* items are: impl_check_equiv_list_basic and impl_check_equiv_map_hd_basic pass on
\* one less for what is inside of a map, and give up at zero.
THEOREM RecursionBounded == Spec => []RecursionIsBounded
<1>1. Init => IInv
  BY InitIInv
<1>2. IInv /\ [Next]_vars => IInv'
  BY NextIInv
<1>3. IInv => RecursionIsBounded
  BY IInvBounds
<1> QED
  BY <1>1, <1>2, <1>3, PTL DEF Spec
=============================================================================
