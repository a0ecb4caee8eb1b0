--------------------------- MODULE CborSort_proofs ---------------------------
(***************************************************************************)
(* Proofs about CborSort: for every input, what is sorted stays sorted, no  *)
(* entry is lost, and a sort that returns has sorted or found a duplicate.  *)
(*                                                                         *)
(* The facts about sequences that the steps need come first: how a stack is *)
(* pushed, popped and changed at its top, and where a rotation takes what.  *)
(***************************************************************************)
EXTENDS CborSort, SequenceTheorems, FiniteSetTheorems, FunctionTheorems,
        WellFoundedInduction, TLAPS

Entries == [key : Int, from : Nat]
Frames == [lo : Nat, hi : Nat, i1 : Nat, i2 : Nat]
IsStack(s) == s \in Seq(Frames)

\* A stack with one more frame.
LEMMA Pushed ==
  ASSUME NEW s, IsStack(s), NEW x \in Frames
  PROVE  /\ IsStack(Append(s, x))
         /\ Len(s) \in Nat
         /\ Len(Append(s, x)) = Len(s) + 1
         /\ \A k \in 1 .. Len(s) : Append(s, x)[k] = s[k] /\ s[k] \in Frames
         /\ Append(s, x)[Len(s) + 1] = x
BY AppendProperties, LenProperties, ElementOfSeq DEF IsStack

\* A stack without its top frame.
LEMMA Popped ==
  ASSUME NEW s, IsStack(s), Len(s) # 0
  PROVE  /\ IsStack(SubSeq(s, 1, Len(s) - 1))
         /\ Len(s) \in Nat \ {0}
         /\ Len(SubSeq(s, 1, Len(s) - 1)) = Len(s) - 1
         /\ \A k \in 1 .. Len(s) - 1 : SubSeq(s, 1, Len(s) - 1)[k] = s[k]
         /\ \A k \in 1 .. Len(s) : s[k] \in Frames
<1> DEFINE t == SubSeq(s, 1, Len(s) - 1)
<1>0. Len(s) \in Nat \ {0}
  BY LenProperties DEF IsStack
<1>1. \A k \in 1 .. Len(s) : s[k] \in Frames
  BY ElementOfSeq DEF IsStack
<1>2. /\ t \in Seq(Frames) /\ Len(t) = IF 1 <= Len(s) - 1 THEN Len(s) - 1 - 1 + 1 ELSE 0
      /\ \A i \in 1 .. Len(s) - 1 - 1 + 1 : t[i] = s[1 + i - 1]
  <2>1. 1 \in Int /\ Len(s) - 1 \in Int /\ \A i \in 1 .. Len(s) - 1 : s[i] \in Frames
    BY <1>0, <1>1
  <2> QED
    BY <2>1, SubSeqProperties
<1> HIDE DEF t
<1>3. Len(t) = Len(s) - 1
  <2>1. CASE Len(s) = 1
    BY <1>2, <2>1
  <2>2. CASE Len(s) # 1
    <3>1. \A n \in Nat \ {0, 1} : 1 <= n - 1 /\ n - 1 - 1 + 1 = n - 1
      OBVIOUS
    <3>2. 1 <= Len(s) - 1 /\ Len(s) - 1 - 1 + 1 = Len(s) - 1
      BY <1>0, <2>2, <3>1
    <3> QED
      BY <1>2, <3>2
  <2> QED
    BY <2>1, <2>2
<1>4. ASSUME NEW k \in 1 .. Len(s) - 1 PROVE t[k] = s[k]
  <2>1. k \in 1 .. Len(s) - 1 - 1 + 1 /\ 1 + k - 1 = k
    BY <1>0, SMT
  <2> QED
    BY <1>2, <2>1
<1> QED
  BY <1>0, <1>1, <1>2, <1>3, <1>4 DEF t, IsStack

\* A stack with another top frame.
LEMMA Replaced ==
  ASSUME NEW s, IsStack(s), Len(s) # 0, NEW x \in Frames
  PROVE  LET t == Append(SubSeq(s, 1, Len(s) - 1), x)
         IN  /\ IsStack(t)
             /\ Len(t) = Len(s)
             /\ \A k \in 1 .. Len(s) - 1 : t[k] = s[k]
             /\ t[Len(s)] = x
<1> DEFINE c == SubSeq(s, 1, Len(s) - 1)
<1> DEFINE t == Append(c, x)
<1>1. /\ IsStack(c) /\ Len(s) \in Nat \ {0} /\ Len(c) = Len(s) - 1
      /\ \A k \in 1 .. Len(s) - 1 : c[k] = s[k]
  BY Popped
<1>2. t = Append(c, x) /\ IsStack(c)
  BY <1>1
<1> HIDE DEF c, t
<1>3. /\ IsStack(t) /\ Len(t) = Len(c) + 1
      /\ \A k \in 1 .. Len(c) : t[k] = c[k]
      /\ t[Len(c) + 1] = x
  <2>1. /\ IsStack(Append(c, x)) /\ Len(Append(c, x)) = Len(c) + 1
        /\ \A k \in 1 .. Len(c) : Append(c, x)[k] = c[k] /\ c[k] \in Frames
        /\ Append(c, x)[Len(c) + 1] = x
    BY <1>2, Pushed
  <2> QED
    BY <1>2, <2>1
<1>4. Len(t) = Len(s) /\ t[Len(s)] = x
  <2>1. Len(c) + 1 = Len(s)
    BY <1>1
  <2> QED
    BY <1>3, <2>1
<1>5. IsStack(t) /\ Len(t) = Len(s) /\ (\A k \in 1 .. Len(s) - 1 : t[k] = s[k]) /\ t[Len(s)] = x
  BY <1>1, <1>3, <1>4
<1> QED
  BY <1>5 DEF t, c

-----------------------------------------------------------------------------
\* The part lo .. hi - 1 of s is in order, its keys different.
Asc(s, lo, hi) == \A i, j \in lo + 1 .. hi : i < j => s[i].key < s[j].key

\* Two entries of the caller's slice have one key.
HasDuplicate(s) == \E i, j \in DOMAIN s : i # j /\ s[i].key = s[j].key

\* What a rotation of one entry, at offset q, to the front of a part that
\* begins at p does to the part.
MovedToFront(t, s, p, q, n) ==
  /\ t \in [1 .. n -> Entries]
  /\ t[p + 1] = s[q + 1]
  /\ \A i \in p + 2 .. q + 1 : t[i] = s[i - 1]
  /\ \A i \in 1 .. n : i <= p \/ i > q + 1 => t[i] = s[i]

\* A rotation by all but the last entry moves this one to the front.
LEMMA RotatedByOne ==
  ASSUME NEW n \in Nat, NEW s \in [1 .. n -> Entries],
         NEW p \in Nat, NEW q \in Nat, p < q, q < n
  PROVE  MovedToFront(RotatedPart(s, p, q + 1, q - p), s, p, q, n)
<1> DEFINE t == RotatedPart(s, p, q + 1, q - p)
<1>1. DOMAIN s = 1 .. n
  OBVIOUS
<1>2. t \in [1 .. n -> Entries]
  BY <1>1 DEF RotatedPart
<1>3. t[p + 1] = s[q + 1]
  BY <1>1 DEF RotatedPart
<1>4. \A i \in p + 2 .. q + 1 : t[i] = s[i - 1]
  BY <1>1 DEF RotatedPart
<1>5. \A i \in 1 .. n : i <= p \/ i > q + 1 => t[i] = s[i]
  BY <1>1 DEF RotatedPart
<1> QED
  BY <1>2, <1>3, <1>4, <1>5 DEF MovedToFront

-----------------------------------------------------------------------------
\* The length of the slice.
N == Len(a0)

\* An entry of the caller's slice has its own place for a name.
TypeInv ==
  /\ N \in Nat
  /\ DOMAIN a0 = 1 .. N
  /\ \A i \in 1 .. N : a0[i].from = i
  /\ a \in [1 .. N -> Entries]
  /\ IsStack(stack)
  /\ ret \in BOOLEAN
  /\ pc \in {"call", "first returned", "second returned", "merge", "done"}

\* Each frame is a part of the one below it; all but one that has just been
\* called have two entries or more, so the halves differ from each other; and
\* none but one that merges has moved its first cursor.
Nested(st, p, n) ==
  /\ p = "done" <=> Len(st) = 0
  /\ Len(st) # 0 => st[1].lo = 0 /\ st[1].hi = n
  /\ \A f \in 1 .. Len(st) : st[f].lo <= st[f].hi
  /\ \A f, g \in 1 .. Len(st) : f <= g => st[f].lo <= st[g].lo /\ st[g].hi <= st[f].hi
  /\ \A f \in 1 .. Len(st) : f < Len(st) \/ p # "call" => st[f].lo + 2 <= st[f].hi
  /\ \A f \in 1 .. Len(st) : f < Len(st) \/ p # "merge" => st[f].i1 = st[f].lo

\* FirstHalvesStaySorted, of a stack and a slice.
Halves(st, s) ==
  \A f \in 1 .. Len(st) - 1 :
    \/ /\ st[f + 1].lo = st[f].lo
       /\ st[f + 1].hi = Half(st[f])
    \/ /\ st[f + 1].lo = Half(st[f])
       /\ st[f + 1].hi = st[f].hi
       /\ Asc(s, st[f].lo, Half(st[f]))

\* What a call that has returned has done for the frame fr that made it.
Returned(p, fr, s) ==
  /\ p = "first returned" => Asc(s, fr.lo, Half(fr))
  /\ p = "second returned" => Asc(s, fr.lo, Half(fr)) /\ Asc(s, Half(fr), fr.hi)

\* The cursors of a merge, and MergedIsBelowRest.
Merge(fr, s) ==
  /\ fr.lo <= fr.i1 /\ fr.i1 <= fr.i2 /\ fr.i2 <= fr.hi
  /\ Asc(s, fr.lo, fr.i2)
  /\ Asc(s, fr.i2, fr.hi)
  /\ \A i \in fr.lo + 1 .. fr.i1, j \in fr.i1 + 1 .. fr.hi : s[i].key < s[j].key

\* The slice has the entries it had, each at one place.
Same(s, s0, n) ==
  /\ {s[i] : i \in 1 .. n} = {s0[i] : i \in 1 .. n}
  /\ \A i, j \in 1 .. n : s[i].from = s[j].from => i = j

\* Two slices differ in the part lo .. hi - 1 only.
Outside(s, s0, lo, hi, n) == \A i \in 1 .. n : i <= lo \/ i > hi => s[i] = s0[i]

\* The inductive invariant.
IInv ==
  /\ TypeInv
  /\ Nested(stack, pc, N)
  /\ Halves(stack, a)
  /\ ret /\ Len(stack) # 0 => Returned(pc, stack[Len(stack)], a)
  /\ pc = "merge" => Merge(stack[Len(stack)], a)
  /\ ret /\ pc = "done" => Asc(a, 0, N)
  /\ ~ret => HasDuplicate(a0)
  /\ Same(a, a0, N)

-----------------------------------------------------------------------------
\* The sort starts with the whole slice as it was given.
LEMMA IInvInit == Init => IInv
<1> SUFFICES ASSUME Init PROVE IInv
  OBVIOUS
<1>1. PICK keys \in Inputs : a0 = [i \in DOMAIN keys |-> [key |-> keys[i], from |-> i]]
  BY DEF Init
<1>2. keys \in Seq(Int)
  BY InputsAssumption DEF InputsAssumption
<1>3. Len(keys) \in Nat /\ DOMAIN keys = 1 .. Len(keys)
  BY <1>2, LenProperties
<1>4. a0 \in [1 .. Len(keys) -> Entries]
  <2>1. \A i \in 1 .. Len(keys) : keys[i] \in Int
    BY <1>2, ElementOfSeq
  <2> QED
    BY <1>1, <1>3, <2>1 DEF Entries
<1>5. N \in Nat /\ DOMAIN a0 = 1 .. N /\ a0 \in [1 .. N -> Entries]
  <2>1. a0 \in Seq(Entries) /\ Len(a0) = Len(keys)
    BY <1>3, <1>4, IsASeq, LenProperties
  <2> QED
    BY <1>3, <1>4, <2>1 DEF N
<1>6. /\ stack = <<Frame(0, N)>> /\ Frame(0, N) \in Frames
      /\ IsStack(stack) /\ Len(stack) = 1 /\ stack[1] = Frame(0, N)
  <2>1. stack = <<Frame(0, N)>> /\ Frame(0, N) \in Frames
    BY <1>5 DEF Init, N, Frame, Frames
  <2> QED
    BY <2>1 DEF IsStack
<1>7. TypeInv
  <2>1. \A i \in 1 .. N : a0[i].from = i
    BY <1>1, <1>5
  <2> QED
    BY <1>5, <1>6, <2>1 DEF TypeInv, Init
<1>8. Nested(stack, pc, N)
  BY <1>5, <1>6 DEF Nested, Init, Frame
<1>9. Halves(stack, a)
  BY <1>6 DEF Halves
<1>10. Same(a, a0, N)
  BY <1>1, <1>3, <1>5 DEF Same, Init
<1> QED
  BY <1>6, <1>7, <1>8, <1>9, <1>10 DEF IInv, Init, Returned

-----------------------------------------------------------------------------
\* A call that returns leaves its part sorted or has found a duplicate; the one
\* that made it goes on with that.
LEMMA ReturnKeepsIInv ==
  ASSUME IInv, pc # "done", NEW res \in BOOLEAN, Return(res), UNCHANGED <<a, a0>>,
         res => Asc(a, stack[Len(stack)].lo, stack[Len(stack)].hi),
         ~res => HasDuplicate(a0)
  PROVE  IInv'
<1> DEFINE n == Len(stack)
<1> DEFINE fr == stack[n]
<1>0. n \in Nat /\ n >= 1
  <2>1. IsStack(stack) /\ Len(stack) # 0
    BY DEF IInv, TypeInv, Nested
  <2>2. Len(stack) \in Nat \ {0}
    BY <2>1, Popped
  <2> QED
    BY <2>2
<1>1. \A k \in 1 .. n : stack[k] \in Frames
  <2>1. IsStack(stack) /\ Len(stack) # 0
    BY DEF IInv, TypeInv, Nested
  <2> QED
    BY <2>1, Popped
<1>2. IsStack(stack') /\ Len(stack') = n - 1 /\ \A k \in 1 .. n - 1 : stack'[k] = stack[k]
  <2>1. stack' = SubSeq(stack, 1, n - 1)
    BY DEF Return, callers
  <2>2. IsStack(stack) /\ Len(stack) # 0
    BY DEF IInv, TypeInv, Nested
  <2> QED
    BY <2>1, <2>2, Popped
<1>3. /\ ret' = res
      /\ pc' = IF n = 1 THEN "done"
               ELSE IF stack[n - 1].hi = fr.hi THEN "second returned" ELSE "first returned"
  BY DEF Return, top
<1>4. a' = a /\ a0' = a0 /\ N' = N
  BY DEF N
<1>5. TypeInv'
  BY <1>2, <1>3, <1>4 DEF IInv, TypeInv
<1>6. Nested(stack, pc, N)
  BY DEF IInv
<1> HIDE DEF n
<1>7. Nested(stack', pc', N')
  <2>1. pc' = "done" <=> Len(stack') = 0
    <3>1. CASE n = 1
      BY <1>2, <1>3, <3>1
    <3>2. CASE n # 1
      <4>1. pc' # "done"
        BY <1>3, <3>2
      <4>2. Len(stack') # 0
        BY <1>0, <1>2, <3>2
      <4> QED BY <4>1, <4>2
    <3> QED BY <3>1, <3>2
  <2>2. \A f \in 1 .. Len(stack') : f \in 1 .. n /\ f < n /\ stack'[f] = stack[f]
    BY <1>0, <1>2
  <2>3. Len(stack') # 0 => stack'[1].lo = 0 /\ stack'[1].hi = N'
    <3>1. ASSUME Len(stack') # 0 PROVE 1 \in 1 .. Len(stack')
      BY <1>0, <1>2, <3>1
    <3> QED
      BY <1>0, <1>4, <1>6, <2>2, <3>1 DEF Nested, n
  <2>4. \A f \in 1 .. Len(stack') : stack'[f].lo <= stack'[f].hi
    BY <1>6, <2>2 DEF Nested, n
  <2>6. \A f \in 1 .. Len(stack') : stack'[f].lo + 2 <= stack'[f].hi
    BY <1>6, <2>2 DEF Nested, n
  <2>7. \A f \in 1 .. Len(stack') : stack'[f].i1 = stack'[f].lo
    BY <1>6, <2>2 DEF Nested, n
  <2>5. \A f, g \in 1 .. Len(stack') :
          f <= g => stack'[f].lo <= stack'[g].lo /\ stack'[g].hi <= stack'[f].hi
    BY <1>6, <2>2 DEF Nested, n
  <2> QED
    BY <2>1, <2>3, <2>4, <2>5, <2>6, <2>7 DEF Nested
<1>8. Halves(stack', a')
  BY <1>0, <1>2, <1>4 DEF IInv, Halves, n
<1>9. ASSUME res, n # 1 PROVE Returned(pc', stack'[n - 1], a')
  <2> DEFINE p == stack[n - 1]
  <2>1. stack'[n - 1] = p /\ n - 1 \in 1 .. n - 1 /\ n \in 1 .. n
    BY <1>0, <1>2, <1>9
  <2>2. p.lo + 2 <= p.hi /\ p \in Frames /\ fr \in Frames
    BY <1>0, <1>1, <1>6, <2>1 DEF Nested, n
  <2>3. \/ fr.lo = p.lo /\ fr.hi = Half(p)
        \/ fr.lo = Half(p) /\ fr.hi = p.hi /\ Asc(a, p.lo, Half(p))
    <3>1. n - 1 \in 1 .. n - 1 /\ n - 1 + 1 = n
      BY <1>0, <1>9
    <3>2. Halves(stack, a)
      BY DEF IInv
    <3> QED
      BY <3>1, <3>2 DEF Halves, n
  <2>4. Half(p) # p.hi
    BY <2>2, SMTT(40) DEF Half, Frames
  <2>5. Asc(a, fr.lo, fr.hi)
    BY <1>9 DEF n
  <2>6. CASE fr.hi = p.hi
    <3>1. pc' = "second returned"
      BY <1>3, <1>9, <2>6
    <3>2. fr.lo = Half(p) /\ Asc(a, p.lo, Half(p))
      BY <2>3, <2>4, <2>6, Zenon
    <3> QED
      BY <1>4, <2>1, <2>5, <2>6, <3>1, <3>2 DEF Returned
  <2>7. CASE fr.hi # p.hi
    <3>1. pc' = "first returned"
      BY <1>3, <1>9, <2>7
    <3> QED
      BY <1>4, <2>1, <2>3, <2>5, <2>7, <3>1 DEF Returned
  <2> QED
    BY <2>6, <2>7
<1>10. ASSUME res, n = 1 PROVE Asc(a', 0, N')
  BY <1>0, <1>4, <1>6, <1>10 DEF Nested, n
<1>11. Same(a', a0', N') /\ (~ret' => HasDuplicate(a0'))
  <2>1. Same(a, a0, N)
    BY DEF IInv
  <2>2. ~res => HasDuplicate(a0')
    BY <1>4
  <2> QED
    BY <1>3, <1>4, <2>1, <2>2
<1>12. pc' # "merge"
  BY <1>3
<1> QED
  <2>1. ret' /\ Len(stack') # 0 => Returned(pc', stack'[Len(stack')], a')
    <3>1. n = 1 <=> Len(stack') = 0
      BY <1>0, <1>2
    <3>2. Len(stack') = n - 1
      BY <1>2
    <3> QED
      BY <1>3, <1>9, <3>1, <3>2
  <2>2. ret' /\ pc' = "done" => Asc(a', 0, N')
    BY <1>3, <1>4, <1>10
  <2> QED
    BY <1>5, <1>7, <1>8, <1>11, <1>12, <2>1, <2>2 DEF IInv

-----------------------------------------------------------------------------
\* The frame on top, while there is one.
LEMMA TopFrame ==
  ASSUME IInv, pc # "done"
  PROVE  /\ Len(stack) \in Nat /\ Len(stack) >= 1 /\ Len(stack) # 0
         /\ 1 \in 1 .. Len(stack) /\ Len(stack) \in 1 .. Len(stack)
         /\ \A f \in 1 .. Len(stack) : stack[f] \in Frames
         /\ top \in Frames
         /\ 0 <= top.lo /\ top.lo <= top.hi /\ top.hi <= N /\ N \in Nat
<1>1. IsStack(stack) /\ Len(stack) # 0 /\ N \in Nat /\ Nested(stack, pc, N)
  BY DEF IInv, TypeInv, Nested
<1>2. Len(stack) \in Nat \ {0} /\ \A k \in 1 .. Len(stack) : stack[k] \in Frames
  BY <1>1, Popped
<1>3. Len(stack) \in Nat /\ Len(stack) >= 1 /\ 1 \in 1 .. Len(stack) /\ Len(stack) \in 1 .. Len(stack)
  BY <1>2
<1>4. top \in Frames
  BY <1>2, <1>3 DEF top
<1>5. top.lo <= top.hi
  BY <1>1, <1>3 DEF Nested, top
<1>6. top.hi <= N
  BY <1>1, <1>3 DEF Nested, top
<1> QED
  BY <1>1, <1>2, <1>3, <1>4, <1>5, <1>6 DEF Frames

\* A part of no or one entry is sorted.
LEMMA ShortKeepsIInv == IInv /\ SortShort => IInv'
<1> SUFFICES ASSUME IInv, SortShort PROVE IInv'
  OBVIOUS
<1>1. pc # "done" /\ Return(TRUE) /\ UNCHANGED <<a, a0>> /\ top.hi - top.lo < 2
  BY DEF SortShort
<1>2. Asc(a, top.lo, top.hi)
  BY <1>1, TopFrame DEF Asc, Frames
<1> QED
  BY <1>1, <1>2, ReturnKeepsIInv DEF top

\* A call whose half has failed fails for the same duplicate.
LEMMA FailedKeepsIInv == IInv /\ HalfFailed => IInv'
<1> SUFFICES ASSUME IInv, HalfFailed PROVE IInv'
  OBVIOUS
<1>1. pc # "done" /\ Return(FALSE) /\ UNCHANGED <<a, a0>> /\ ~ret
  BY DEF HalfFailed
<1>2. HasDuplicate(a0)
  BY <1>1 DEF IInv
<1> QED
  BY <1>1, <1>2, ReturnKeepsIInv

\* The halves have been merged when one of them is used up.
LEMMA MergeEndKeepsIInv == IInv /\ MergeEnd => IInv'
<1> SUFFICES ASSUME IInv, MergeEnd PROVE IInv'
  OBVIOUS
<1>1. pc = "merge" /\ ~Merging /\ Return(TRUE) /\ UNCHANGED <<a, a0>>
  BY DEF MergeEnd
<1>2. Merge(top, a) /\ top \in Frames /\ (top.i1 = top.i2 \/ top.i2 = top.hi)
  BY <1>1, TopFrame DEF IInv, top, Merging
<1>3. Asc(a, top.lo, top.hi)
  BY <1>2 DEF Merge, Asc, Frames
<1> QED
  BY <1>1, <1>3, ReturnKeepsIInv DEF top

\* Two equal keys at different places of the slice were at different places of
\* the caller's.
LEMMA DuplicateKeepsIInv == IInv /\ Duplicate => IInv'
<1> SUFFICES ASSUME IInv, Duplicate PROVE IInv'
  OBVIOUS
<1>1. pc = "merge" /\ Merging /\ Compare(x1, x2) = 0 /\ Return(FALSE) /\ UNCHANGED <<a, a0>>
  BY DEF Duplicate
<1>2. Merge(top, a) /\ top \in Frames /\ top.hi <= N /\ N \in Nat
  BY <1>1, TopFrame DEF IInv, top
<1>3. top.i1 + 1 \in 1 .. N /\ top.i2 + 1 \in 1 .. N /\ top.i1 + 1 # top.i2 + 1
  BY <1>1, <1>2 DEF Merge, Merging, Frames
<1>4. x1.key = x2.key
  BY <1>1 DEF Compare
<1>5. PICK p \in 1 .. N, q \in 1 .. N : p # q /\ x1 = a[p] /\ x2 = a[q]
  BY <1>3 DEF x1, x2
<1>6. /\ x1.from # x2.from
      /\ x1 \in {a0[i] : i \in 1 .. N} /\ x2 \in {a0[i] : i \in 1 .. N}
  <2>1. Same(a, a0, N)
    BY DEF IInv
  <2> QED
    BY <1>5, <2>1 DEF Same
<1>7. PICK i \in 1 .. N, j \in 1 .. N : x1 = a0[i] /\ x2 = a0[j]
  BY <1>6
<1>8. HasDuplicate(a0)
  BY <1>4, <1>6, <1>7 DEF HasDuplicate, IInv, TypeInv
<1> QED
  BY <1>1, <1>8, ReturnKeepsIInv

-----------------------------------------------------------------------------
\* A call for the first half of the part on top, or for the second when the first
\* is sorted.
LEMMA PushKeepsIInv ==
  ASSUME IInv, pc # "done", pc # "merge", NEW l, NEW h,
         stack' = Append(stack, Frame(l, h)), pc' = "call", UNCHANGED <<a, a0, ret>>,
         top.lo + 2 <= top.hi,
         \/ l = top.lo /\ h = Half(top)
         \/ l = Half(top) /\ h = top.hi /\ Asc(a, top.lo, Half(top))
  PROVE  IInv'
<1> DEFINE n == Len(stack)
<1> DEFINE fr == Frame(l, h)
<1>1. /\ n \in Nat /\ n >= 1 /\ top \in Frames /\ top = stack[n]
      /\ top.lo <= top.hi /\ N \in Nat
  BY TopFrame DEF top
<1>2. /\ l \in Nat /\ h \in Nat /\ Half(top) \in Nat
      /\ top.lo <= l /\ l <= h /\ h <= top.hi
  BY <1>1, SMTT(40) DEF Half, Frames
<1>3. fr \in Frames /\ fr.lo = l /\ fr.hi = h /\ fr.i1 = l
  BY <1>2 DEF Frame, Frames
<1>4. IsStack(stack) /\ Nested(stack, pc, N) /\ Halves(stack, a)
  BY DEF IInv, TypeInv
<1>5. /\ IsStack(stack') /\ Len(stack') = n + 1 /\ stack'[n + 1] = fr
      /\ \A f \in 1 .. n : stack'[f] = stack[f]
  BY <1>3, <1>4, Pushed
<1>6. a' = a /\ a0' = a0 /\ ret' = ret /\ N' = N
  BY DEF N
<1>7. TypeInv'
  BY <1>5, <1>6 DEF IInv, TypeInv
<1>8. \A f \in 1 .. n : stack[f] \in Frames
  BY TopFrame
<1> HIDE DEF n, fr
<1>9. Nested(stack', pc', N')
  <2>1. ~(pc' = "done") /\ Len(stack') # 0
    BY <1>1, <1>5
  <2>2. stack'[1].lo = 0 /\ stack'[1].hi = N'
    <3>1. 1 \in 1 .. n
      BY <1>1
    <3> QED
      BY <1>1, <1>4, <1>5, <1>6, <3>1 DEF Nested, n
  <2>3. ASSUME NEW f \in 1 .. Len(stack')
        PROVE  /\ stack'[f].lo <= stack'[f].hi
               /\ f < Len(stack') => stack'[f].lo + 2 <= stack'[f].hi
               /\ stack'[f].i1 = stack'[f].lo
    <3>1. CASE f = n + 1
      BY <1>1, <1>2, <1>3, <1>5, <3>1
    <3>2. CASE f # n + 1
      <4>1. f \in 1 .. n /\ stack'[f] = stack[f]
        BY <1>1, <1>5, <3>2
      <4>2. f = n \/ f < n
        BY <1>1, <4>1
      <4>3. stack[f].lo <= stack[f].hi /\ stack[f].i1 = stack[f].lo
        BY <1>4, <4>1 DEF Nested, n
      <4>4. stack[f].lo + 2 <= stack[f].hi
        BY <1>1, <1>4, <4>1, <4>2 DEF Nested, n
      <4> QED
        BY <4>1, <4>3, <4>4
    <3> QED
      BY <3>1, <3>2
  <2>4. ASSUME NEW f \in 1 .. Len(stack'), NEW g \in 1 .. Len(stack'), f <= g
        PROVE  stack'[f].lo <= stack'[g].lo /\ stack'[g].hi <= stack'[f].hi
    <3>1. CASE g = n + 1 /\ f = n + 1
      BY <1>2, <1>3, <1>5, <3>1
    <3>2. CASE g = n + 1 /\ f # n + 1
      <4>1. f \in 1 .. n /\ n \in 1 .. n /\ f <= n /\ stack'[f] = stack[f]
        BY <1>1, <1>5, <3>2
      <4>2. stack[f].lo <= top.lo /\ top.hi <= stack[f].hi /\ stack[f] \in Frames
        BY <1>1, <1>4, <1>8, <4>1 DEF Nested, n
      <4>3. stack'[g].lo = l /\ stack'[g].hi = h
        BY <1>3, <1>5, <3>2
      <4>4. top.lo \in Nat /\ top.hi \in Nat /\ stack[f].lo \in Nat /\ stack[f].hi \in Nat
        BY <1>1, <4>2 DEF Frames
      <4>5. \A u, v, w \in Nat : u <= v /\ v <= w => u <= w
        OBVIOUS
      <4>6. stack[f].lo <= l /\ h <= stack[f].hi
        BY <1>2, <4>2, <4>4, <4>5, Zenon
      <4> QED
        BY <4>1, <4>3, <4>6
    <3>3. CASE g # n + 1
      <4>1. f \in 1 .. n /\ g \in 1 .. n /\ stack'[f] = stack[f] /\ stack'[g] = stack[g]
        BY <1>1, <1>5, <2>4, <3>3
      <4> QED
        BY <1>4, <2>4, <4>1 DEF Nested, n
    <3> QED
      BY <3>1, <3>2, <3>3
  <2> QED
    BY <2>1, <2>2, <2>3, <2>4 DEF Nested
<1>10. Halves(stack', a')
  <2>1. SUFFICES ASSUME NEW f \in 1 .. Len(stack') - 1
        PROVE  \/ /\ stack'[f + 1].lo = stack'[f].lo
                  /\ stack'[f + 1].hi = Half(stack'[f])
               \/ /\ stack'[f + 1].lo = Half(stack'[f])
                  /\ stack'[f + 1].hi = stack'[f].hi
                  /\ Asc(a', stack'[f].lo, Half(stack'[f]))
    BY DEF Halves
  <2>2. f \in 1 .. n /\ stack'[f] = stack[f]
    BY <1>1, <1>5
  <2>3. CASE f = n
    BY <1>1, <1>3, <1>5, <1>6, <2>2, <2>3
  <2>4. CASE f # n
    <3>1. f \in 1 .. n - 1 /\ f + 1 \in 1 .. n /\ stack'[f + 1] = stack[f + 1]
      BY <1>1, <1>5, <2>2, <2>4
    <3> QED
      BY <1>4, <1>6, <2>2, <3>1 DEF Halves, n
  <2> QED
    BY <2>3, <2>4
<1>11. Returned("call", stack'[Len(stack')], a')
  BY DEF Returned
<1>12. Same(a', a0', N') /\ (~ret' => HasDuplicate(a0'))
  BY <1>6 DEF IInv
<1> QED
  BY <1>7, <1>9, <1>10, <1>11, <1>12 DEF IInv

\* The two recursive calls.
LEMMA CallsKeepIInv == IInv /\ (SortFirstHalf \/ SortSecondHalf) => IInv'
<1>1. ASSUME IInv, SortFirstHalf PROVE IInv'
  <2>1. /\ pc = "call" /\ pc' = "call" /\ UNCHANGED <<a, a0, ret>>
        /\ stack' = Append(stack, Frame(top.lo, Half(top)))
    BY <1>1 DEF SortFirstHalf, mi, Half
  <2>2. top.lo + 2 <= top.hi
    BY <1>1, <2>1, TopFrame DEF SortFirstHalf, Frames
  <2> QED
    BY <1>1, <2>1, <2>2, PushKeepsIInv
<1>2. ASSUME IInv, SortSecondHalf PROVE IInv'
  <2>1. /\ pc = "first returned" /\ pc' = "call" /\ UNCHANGED <<a, a0, ret>> /\ ret
        /\ stack' = Append(stack, Frame(Half(top), top.hi))
    BY <1>2 DEF SortSecondHalf, mi, Half
  <2>6. pc # "done"
    BY <2>1
  <2>2. Len(stack) \in 1 .. Len(stack) /\ Len(stack) # 0
    BY <1>2, <2>6, TopFrame
  <2>4. Nested(stack, pc, N)
    BY <1>2 DEF IInv
  <2>5. Returned(pc, top, a)
    BY <1>2, <2>1, <2>2 DEF IInv, top
  <2>3. top.lo + 2 <= top.hi /\ Asc(a, top.lo, Half(top))
    BY <2>1, <2>2, <2>4, <2>5 DEF Nested, Returned, top
  <2> QED
    BY <1>2, <2>1, <2>3, PushKeepsIInv
<1> QED
  BY <1>1, <1>2
-----------------------------------------------------------------------------
\* A merge that starts or goes on changes the top frame and, inside its part
\* only, the slice.
LEMMA ReplaceKeepsIInv ==
  ASSUME IInv, pc # "done", pc # "call", NEW fr \in Frames,
         stack' = Append(callers, fr), fr.lo = top.lo, fr.hi = top.hi,
         pc' = "merge", UNCHANGED <<a0, ret>>,
         a' \in [1 .. N -> Entries], Same(a', a0, N), Merge(fr, a'),
         Outside(a', a, top.lo, top.hi, N)
  PROVE  IInv'
<1> DEFINE n == Len(stack)
<1>1. /\ n \in Nat /\ n >= 1 /\ 1 \in 1 .. n /\ n \in 1 .. n /\ n # 0
      /\ top \in Frames /\ top = stack[n] /\ top.hi <= N /\ N \in Nat
      /\ \A f \in 1 .. n : stack[f] \in Frames
  BY TopFrame DEF top
<1>2. IsStack(stack) /\ Nested(stack, pc, N) /\ Halves(stack, a)
  BY DEF IInv, TypeInv
<1>3. /\ IsStack(stack') /\ Len(stack') = n /\ stack'[n] = fr
      /\ \A k \in 1 .. n - 1 : stack'[k] = stack[k]
  <2>1. stack' = Append(SubSeq(stack, 1, Len(stack) - 1), fr)
    BY DEF callers
  <2>2. IsStack(stack) /\ Len(stack) # 0
    BY <1>1, <1>2
  <2>3. /\ IsStack(stack') /\ Len(stack') = Len(stack) /\ stack'[Len(stack)] = fr
        /\ \A k \in 1 .. Len(stack) - 1 : stack'[k] = stack[k]
    BY <2>1, <2>2, Replaced
  <2> QED
    BY <2>3
<1>4. a0' = a0 /\ ret' = ret /\ N' = N
  BY DEF N
<1>5. TypeInv'
  BY <1>3, <1>4 DEF IInv, TypeInv
<1> HIDE DEF n
<1>6. \A f \in 1 .. n : /\ stack'[f].lo = stack[f].lo /\ stack'[f].hi = stack[f].hi
                        /\ f < n => f \in 1 .. n - 1 /\ stack'[f] = stack[f]
  <2>1. ASSUME NEW f \in 1 .. n, f # n PROVE f \in 1 .. n - 1 /\ stack'[f] = stack[f]
    <3>1. f \in 1 .. n - 1
      BY <1>1, <2>1
    <3> QED
      BY <1>3, <3>1
  <2>2. stack'[n].lo = stack[n].lo /\ stack'[n].hi = stack[n].hi
    BY <1>1, <1>3
  <2> QED
    <3> SUFFICES ASSUME NEW f \in 1 .. n
                 PROVE  /\ stack'[f].lo = stack[f].lo /\ stack'[f].hi = stack[f].hi
                        /\ f < n => f \in 1 .. n - 1 /\ stack'[f] = stack[f]
      OBVIOUS
    <3>1. CASE f = n
      <4>1. ~(f < n)
        BY <1>1, <3>1
      <4> QED
        BY <2>2, <3>1, <4>1
    <3>2. CASE f # n
      BY <2>1, <3>2
    <3> QED
      BY <3>1, <3>2
<1>7. Nested(stack', pc', N')
  <2>1. ~(pc' = "done") /\ Len(stack') # 0
    BY <1>1, <1>3
  <2>2. stack'[1].lo = 0 /\ stack'[1].hi = N'
    <3> QED
      BY <1>1, <1>2, <1>4, <1>6 DEF Nested, n
  <2>3. \A f \in 1 .. n : stack'[f].lo <= stack'[f].hi
    BY <1>2, <1>6 DEF Nested, n
  <2>4. \A f, g \in 1 .. n :
          f <= g => stack'[f].lo <= stack'[g].lo /\ stack'[g].hi <= stack'[f].hi
    BY <1>2, <1>6 DEF Nested, n
  <2>5. \A f \in 1 .. n : stack'[f].lo + 2 <= stack'[f].hi
    BY <1>2, <1>6 DEF Nested, n
  <2>6. \A f \in 1 .. n : f < n => stack'[f].i1 = stack'[f].lo
    BY <1>2, <1>6 DEF Nested, n
  <2> QED
    BY <1>3, <2>1, <2>2, <2>3, <2>4, <2>5, <2>6 DEF Nested
<1>8. Halves(stack', a')
  <2>1. SUFFICES ASSUME NEW f \in 1 .. n - 1
        PROVE  \/ /\ stack'[f + 1].lo = stack'[f].lo
                  /\ stack'[f + 1].hi = Half(stack'[f])
               \/ /\ stack'[f + 1].lo = Half(stack'[f])
                  /\ stack'[f + 1].hi = stack'[f].hi
                  /\ Asc(a', stack'[f].lo, Half(stack'[f]))
    BY <1>3 DEF Halves
  <2>2. f \in 1 .. n /\ f + 1 \in 1 .. n /\ f + 1 <= n
    BY <1>1
  <2>3. /\ stack'[f] = stack[f]
        /\ stack'[f + 1].lo = stack[f + 1].lo /\ stack'[f + 1].hi = stack[f + 1].hi
    BY <1>3, <1>6, <2>2
  <2>4. CASE stack[f + 1].lo = stack[f].lo /\ stack[f + 1].hi = Half(stack[f])
    BY <2>3, <2>4
  <2>5. CASE /\ stack[f + 1].lo = Half(stack[f]) /\ stack[f + 1].hi = stack[f].hi
             /\ Asc(a, stack[f].lo, Half(stack[f]))
    <3>1. stack[f + 1].lo <= top.lo
      BY <1>1, <1>2, <2>2 DEF Nested, n
    <3>2. /\ stack[f].lo \in Nat /\ stack[f + 1].lo \in Nat /\ top.lo \in Nat /\ top.hi \in Nat
          /\ top.lo <= top.hi
      BY <1>1, <2>2, TopFrame DEF Frames
    <3>3. ASSUME NEW i \in stack[f].lo + 1 .. Half(stack[f]) PROVE a'[i] = a[i]
      <4>2. i \in stack[f].lo + 1 .. stack[f + 1].lo
        BY <2>5
      <4>4. top.hi <= N /\ N \in Nat
        BY <1>1
      <4>5. /\ stack[f].lo \in Nat /\ stack[f + 1].lo \in Nat /\ top.lo \in Nat /\ N \in Nat
            /\ stack[f + 1].lo <= top.lo /\ top.lo <= N
        BY <3>1, <3>2, <4>4
      <4>1. i \in 1 .. N /\ i <= top.lo
        BY <4>2, <4>5, SMTT(40)
      <4> QED
        BY <4>1 DEF Outside
    <3>4. Asc(a', stack[f].lo, Half(stack[f]))
      BY <2>5, <3>3 DEF Asc
    <3> QED
      BY <2>3, <2>5, <3>4
  <2> QED
    BY <1>2, <2>4, <2>5 DEF Halves, n
<1>9. Returned("merge", stack'[Len(stack')], a')
  BY DEF Returned
<1>10. Merge(stack'[Len(stack')], a')
  BY <1>3
<1>11. Same(a', a0', N') /\ (~ret' => HasDuplicate(a0'))
  BY <1>4 DEF IInv
<1> QED
  BY <1>5, <1>7, <1>8, <1>9, <1>10, <1>11 DEF IInv

\* The merge starts with both halves in order and nothing taken.
LEMMA StartKeepsIInv == IInv /\ StartMerge => IInv'
<1> SUFFICES ASSUME IInv, StartMerge PROVE IInv'
  OBVIOUS
<1> DEFINE fr == [top EXCEPT !.i2 = Half(top)]
<1>1. /\ pc = "second returned" /\ ret /\ pc' = "merge" /\ UNCHANGED <<a, a0, ret>>
      /\ stack' = Append(callers, fr)
  BY DEF StartMerge, mi, Half
<1>10. pc # "done"
  BY <1>1
<1>2. top \in Frames /\ Len(stack) # 0 /\ Len(stack) \in 1 .. Len(stack)
  BY <1>10, TopFrame
<1>3. top.lo + 2 <= top.hi /\ top.i1 = top.lo
  BY <1>1, <1>2 DEF IInv, Nested, top
<1>4. Asc(a, top.lo, Half(top)) /\ Asc(a, Half(top), top.hi)
  BY <1>1, <1>2 DEF IInv, Returned, top
<1>5. Half(top) \in Nat /\ top.lo <= Half(top) /\ Half(top) <= top.hi
  BY <1>2, <1>3 DEF Half, Frames
<1>6. /\ fr \in Frames /\ fr.lo = top.lo /\ fr.hi = top.hi
      /\ fr.i1 = top.lo /\ fr.i2 = Half(top)
  BY <1>2, <1>3, <1>5 DEF Frames
<1> HIDE DEF fr
<1>7. Merge(fr, a)
  <2>1. top.lo \in Nat /\ top.lo + 1 .. top.lo = {}
    BY <1>2 DEF Frames
  <2> QED
    BY <1>4, <1>5, <1>6, <2>1 DEF Merge
<1>8. a' = a /\ a \in [1 .. N -> Entries] /\ Same(a, a0, N)
  BY <1>1 DEF IInv, TypeInv
<1>9. pc # "done" /\ pc # "call" /\ Outside(a', a, top.lo, top.hi, N)
  BY <1>1, <1>8 DEF Outside
<1> QED
  BY <1>1, <1>6, <1>7, <1>8, <1>9, ReplaceKeepsIInv

\* The merge takes the smaller entry where it is.
LEMMA TakeFirstKeepsIInv == IInv /\ TakeFirst => IInv'
<1> SUFFICES ASSUME IInv, TakeFirst PROVE IInv'
  OBVIOUS
<1> DEFINE fr == [top EXCEPT !.i1 = @ + 1]
<1>1. /\ pc = "merge" /\ pc' = "merge" /\ UNCHANGED <<a, a0, ret>> /\ Merging
      /\ stack' = Append(callers, fr)
  BY DEF TakeFirst
<1>2. top \in Frames /\ Merge(top, a) /\ top.hi <= N /\ N \in Nat
  BY <1>1, TopFrame DEF IInv, top
<1>3. a' = a /\ a \in [1 .. N -> Entries] /\ Same(a, a0, N)
  BY <1>1 DEF IInv, TypeInv
<1>4. top.lo <= top.i1 /\ top.i1 < top.i2 /\ top.i2 < top.hi
  BY <1>1, <1>2 DEF Merge, Merging, Frames
<1>5. \A i \in 1 .. N : a[i].key \in Int
  BY <1>3 DEF Entries
<1>6. a[top.i1 + 1].key < a[top.i2 + 1].key
  <2>1. x1.key # x2.key /\ x1.key < x2.key
    BY DEF TakeFirst, Compare
  <2> QED
    BY <2>1 DEF x1, x2
<1>7. /\ fr \in Frames /\ fr.lo = top.lo /\ fr.hi = top.hi
      /\ fr.i1 = top.i1 + 1 /\ fr.i2 = top.i2
  BY <1>2 DEF Frames
<1> HIDE DEF fr
<1>8. Merge(fr, a)
  <2>1. top.lo \in Nat /\ top.i1 \in Nat /\ top.i2 \in Nat /\ top.hi \in Nat
    BY <1>2 DEF Frames
  <2>2. Asc(a, top.lo, top.i2) /\ Asc(a, top.i2, top.hi)
    BY <1>2 DEF Merge
  <2>3. ASSUME NEW i \in top.lo + 1 .. top.i1 + 1, NEW j \in top.i1 + 1 + 1 .. top.hi
        PROVE  a[i].key < a[j].key
    <3>1. CASE i # top.i1 + 1
      <4>1. i \in top.lo + 1 .. top.i1 /\ j \in top.i1 + 1 .. top.hi
        BY <1>4, <2>1, <3>1
      <4> QED
        BY <1>2, <4>1 DEF Merge
    <3>2. CASE i = top.i1 + 1 /\ j <= top.i2
      <4>1. i \in top.lo + 1 .. top.i2 /\ j \in top.lo + 1 .. top.i2 /\ i < j
        BY <1>4, <2>1, <3>2
      <4> QED
        BY <2>2, <4>1 DEF Asc
    <3>3. CASE i = top.i1 + 1 /\ j = top.i2 + 1
      BY <1>6, <3>3
    <3>4. CASE i = top.i1 + 1 /\ j > top.i2 + 1
      <4>1. top.i2 + 1 \in top.i2 + 1 .. top.hi /\ j \in top.i2 + 1 .. top.hi /\ top.i2 + 1 < j
        BY <1>4, <2>1, <3>4
      <4>2. a[top.i2 + 1].key < a[j].key
        BY <2>2, <4>1 DEF Asc
      <4>3. i \in 1 .. N /\ j \in 1 .. N /\ top.i2 + 1 \in 1 .. N
        BY <1>2, <1>4, <2>1, <3>4
      <4> QED
        BY <1>5, <1>6, <3>4, <4>2, <4>3
    <3> QED
      BY <2>1, <3>1, <3>2, <3>3, <3>4
  <2>4. top.lo <= top.i1 + 1 /\ top.i1 + 1 <= top.i2 /\ top.i2 <= top.hi
    BY <1>4, <2>1
  <2> QED
    BY <1>7, <2>2, <2>3, <2>4 DEF Merge
<1>9. pc # "done" /\ pc # "call" /\ Outside(a', a, top.lo, top.hi, N)
  BY <1>1, <1>3 DEF Outside
<1> QED
  BY <1>1, <1>3, <1>7, <1>8, <1>9, ReplaceKeepsIInv
\* A rotation keeps the entries, each at one place.
LEMMA RotationKeepsEntries ==
  ASSUME NEW n \in Nat, NEW s \in [1 .. n -> Entries], NEW s0, Same(s, s0, n),
         NEW p \in Nat, NEW q \in Nat, p < q, q < n,
         NEW t, t[p + 1] = s[q + 1],
         \A i \in p + 2 .. q + 1 : t[i] = s[i - 1],
         \A i \in 1 .. n : i <= p \/ i > q + 1 => t[i] = s[i]
  PROVE  Same(t, s0, n)
<1> DEFINE r(i) == IF i = p + 1 THEN q + 1 ELSE IF p + 2 <= i /\ i <= q + 1 THEN i - 1 ELSE i
<1> DEFINE b(i) == IF i = q + 1 THEN p + 1 ELSE IF p + 1 <= i /\ i <= q THEN i + 1 ELSE i
<1>1. \A i \in 1 .. n : r(i) \in 1 .. n /\ b(i) \in 1 .. n /\ r(b(i)) = i /\ b(r(i)) = i
  OBVIOUS
<1>2. ASSUME NEW i \in 1 .. n PROVE t[i] = s[r(i)]
  <2>1. CASE i = p + 1
    BY <2>1
  <2>2. CASE i # p + 1 /\ p + 2 <= i /\ i <= q + 1
    BY <2>2
  <2>3. CASE i # p + 1 /\ ~(p + 2 <= i /\ i <= q + 1)
    BY <2>3
  <2> QED
    BY <2>1, <2>2, <2>3
<1> HIDE DEF r, b
<1>3. {t[i] : i \in 1 .. n} = {s[i] : i \in 1 .. n}
  <2>1. \A i \in 1 .. n : t[i] \in {s[j] : j \in 1 .. n}
    BY <1>1, <1>2
  <2>2. \A i \in 1 .. n : s[i] = t[b(i)] /\ b(i) \in 1 .. n
    BY <1>1, <1>2
  <2> QED
    BY <2>1, <2>2, ZenonT(60)
<1>4. \A i, j \in 1 .. n : t[i].from = t[j].from => i = j
  <2>1. SUFFICES ASSUME NEW i \in 1 .. n, NEW j \in 1 .. n, t[i].from = t[j].from
                 PROVE  i = j
    OBVIOUS
  <2>2. s[r(i)].from = s[r(j)].from /\ r(i) \in 1 .. n /\ r(j) \in 1 .. n
    BY <1>1, <1>2, <2>1
  <2>3. r(i) = r(j)
    BY <2>2 DEF Same
  <2> QED
    BY <1>1, <2>3
<1> QED
  BY <1>3, <1>4 DEF Same

\* The merge takes the first entry left of the second half when that is the
\* smaller one: the three parts of the frame stay in order.
LEMMA RotationKeepsOrder ==
  ASSUME NEW n \in Nat, NEW s \in [1 .. n -> Entries], NEW t,
         NEW lo \in Nat, NEW p \in Nat, NEW q \in Nat, NEW hi \in Nat,
         lo <= p, p < q, q < hi, hi <= n,
         Asc(s, lo, q), Asc(s, q, hi),
         \A i \in lo + 1 .. p, j \in p + 1 .. hi : s[i].key < s[j].key,
         s[q + 1].key < s[p + 1].key,
         t[p + 1] = s[q + 1],
         \A i \in p + 2 .. q + 1 : t[i] = s[i - 1],
         \A i \in 1 .. n : i <= p \/ i > q + 1 => t[i] = s[i]
  PROVE  /\ Asc(t, lo, q + 1)
         /\ Asc(t, q + 1, hi)
         /\ \A i \in lo + 1 .. p + 1, j \in p + 2 .. hi : t[i].key < t[j].key
<1>1. \A i \in 1 .. n : s[i].key \in Int
  BY DEF Entries
<1>2. \A i \in lo + 1 .. p : t[i] = s[i]
  BY SMTT(40)
<1>3. \A i \in q + 2 .. hi : t[i] = s[i]
  OBVIOUS
<1>4. \A j \in p + 1 .. q : s[q + 1].key < s[j].key
  <2>1. SUFFICES ASSUME NEW j \in p + 1 .. q, j # p + 1 PROVE s[q + 1].key < s[j].key
    OBVIOUS
  <2>2. p + 1 \in lo + 1 .. q /\ j \in lo + 1 .. q /\ p + 1 < j
    BY <2>1
  <2>3. s[p + 1].key < s[j].key
    BY <2>2 DEF Asc
  <2>4. s[p + 1].key \in Int /\ s[j].key \in Int /\ s[q + 1].key \in Int
    <3>1. p + 1 \in 1 .. n /\ j \in 1 .. n /\ q + 1 \in 1 .. n
      BY <2>2
    <3> QED
      BY <1>1, <3>1
  <2> QED
    BY <2>3, <2>4
<1>5. ASSUME NEW i \in lo + 1 .. p + 1, NEW j \in p + 2 .. hi
      PROVE  t[i].key < t[j].key
  <2>1. CASE i # p + 1 /\ j <= q + 1
    <3>1. i \in lo + 1 .. p /\ j - 1 \in p + 1 .. hi /\ j \in p + 2 .. q + 1
      BY <2>1
    <3>2. t[i] = s[i] /\ t[j] = s[j - 1] /\ s[i].key < s[j - 1].key
      BY <1>2, <3>1
    <3> QED
      BY <3>2
  <2>2. CASE i # p + 1 /\ j > q + 1
    <3>1. i \in lo + 1 .. p /\ j \in p + 1 .. hi /\ j \in q + 2 .. hi
      BY <2>2
    <3>2. t[i] = s[i] /\ t[j] = s[j] /\ s[i].key < s[j].key
      BY <1>2, <1>3, <3>1
    <3> QED
      BY <3>2
  <2>3. CASE i = p + 1 /\ j <= q + 1
    <3>1. j \in p + 2 .. q + 1 /\ j - 1 \in p + 1 .. q
      BY <2>3
    <3>2. t[i] = s[q + 1] /\ t[j] = s[j - 1] /\ s[q + 1].key < s[j - 1].key
      BY <1>4, <2>3, <3>1
    <3> QED
      BY <3>2
  <2>4. CASE i = p + 1 /\ j > q + 1
    <3>1. q + 1 \in q + 1 .. hi /\ j \in q + 1 .. hi /\ q + 1 < j /\ j \in q + 2 .. hi
      BY <2>4
    <3>2. t[i] = s[q + 1] /\ t[j] = s[j] /\ s[q + 1].key < s[j].key
      BY <1>3, <2>4, <3>1 DEF Asc
    <3> QED
      BY <3>2
  <2> QED
    BY <2>1, <2>2, <2>3, <2>4
<1>6. Asc(t, lo, q + 1)
  <2>1. SUFFICES ASSUME NEW i \in lo + 1 .. q + 1, NEW j \in lo + 1 .. q + 1, i < j
                 PROVE  t[i].key < t[j].key
    BY DEF Asc
  <2>2. CASE j <= p
    <3>1. i \in lo + 1 .. p /\ j \in lo + 1 .. p /\ i \in lo + 1 .. q /\ j \in lo + 1 .. q
      BY <2>1, <2>2
    <3>2. t[i] = s[i] /\ t[j] = s[j] /\ s[i].key < s[j].key
      BY <1>2, <2>1, <3>1 DEF Asc
    <3> QED
      BY <3>2
  <2>3. CASE j = p + 1
    <3>1. i \in lo + 1 .. p /\ q + 1 \in p + 1 .. hi
      BY <2>1, <2>3
    <3>2. t[i] = s[i] /\ t[j] = s[q + 1] /\ s[i].key < s[q + 1].key
      BY <1>2, <2>3, <3>1
    <3> QED
      BY <3>2
  <2>4. CASE i <= p + 1 /\ j > p + 1
    <3>1. i \in lo + 1 .. p + 1 /\ j \in p + 2 .. hi
      BY <2>1, <2>4
    <3> QED
      BY <1>5, <3>1
  <2>5. CASE i > p + 1
    <3>1. /\ i \in p + 2 .. q + 1 /\ j \in p + 2 .. q + 1
          /\ i - 1 \in lo + 1 .. q /\ j - 1 \in lo + 1 .. q /\ i - 1 < j - 1
      BY <2>1, <2>5
    <3>2. t[i] = s[i - 1] /\ t[j] = s[j - 1] /\ s[i - 1].key < s[j - 1].key
      BY <3>1 DEF Asc
    <3> QED
      BY <3>2
  <2> QED
    BY <2>1, <2>2, <2>3, <2>4, <2>5
<1>7. Asc(t, q + 1, hi)
  <2>1. SUFFICES ASSUME NEW i \in q + 2 .. hi, NEW j \in q + 2 .. hi, i < j
                 PROVE  t[i].key < t[j].key
    BY DEF Asc
  <2>2. i \in q + 1 .. hi /\ j \in q + 1 .. hi
    BY <2>1
  <2>3. t[i] = s[i] /\ t[j] = s[j] /\ s[i].key < s[j].key
    BY <1>3, <2>1, <2>2 DEF Asc
  <2> QED
    BY <2>3
<1> QED
  BY <1>5, <1>6, <1>7

\* Both cursors of a frame move on.
LEMMA BothMoved ==
  ASSUME NEW x \in Frames
  PROVE  LET y == [x EXCEPT !.i1 = @ + 1, !.i2 = @ + 1]
         IN  /\ y \in Frames /\ y.lo = x.lo /\ y.hi = x.hi
             /\ y.i1 = x.i1 + 1 /\ y.i2 = x.i2 + 1
<1> DEFINE z == [x EXCEPT !.i1 = x.i1 + 1]
<1>1. /\ z \in Frames /\ z.lo = x.lo /\ z.hi = x.hi
      /\ z.i1 = x.i1 + 1 /\ z.i2 = x.i2
  BY DEF Frames
<1> DEFINE y == [z EXCEPT !.i2 = x.i2 + 1]
<1>2. y = [x EXCEPT !.i1 = @ + 1, !.i2 = @ + 1]
  OBVIOUS
<1>3. x.i2 + 1 \in Nat
  BY DEF Frames
<1> HIDE DEF z
<1>4. /\ y \in Frames /\ y.lo = x.lo /\ y.hi = x.hi
      /\ y.i1 = x.i1 + 1 /\ y.i2 = x.i2 + 1
  BY <1>1, <1>3 DEF Frames
<1> HIDE DEF y
<1> QED
  BY <1>2, <1>4

\* The merge takes an entry of the second half by a rotation.
LEMMA TakeSecondKeepsIInv == IInv /\ TakeSecond => IInv'
<1> SUFFICES ASSUME IInv, TakeSecond PROVE IInv'
  OBVIOUS
<1> DEFINE fr == [top EXCEPT !.i1 = @ + 1, !.i2 = @ + 1]
<1>1. /\ pc = "merge" /\ pc' = "merge" /\ UNCHANGED <<a0, ret>> /\ Merging
      /\ stack' = Append(callers, fr)
      /\ a' = RotatedPart(a, top.i1, top.i2 + 1, top.i2 - top.i1)
  BY DEF TakeSecond
<1>2. top \in Frames /\ Merge(top, a) /\ top.hi <= N /\ N \in Nat
  BY <1>1, TopFrame DEF IInv, top
<1>3. a \in [1 .. N -> Entries] /\ Same(a, a0, N)
  BY DEF IInv, TypeInv
<1>4. top.lo <= top.i1 /\ top.i1 < top.i2 /\ top.i2 < top.hi
  BY <1>1, <1>2 DEF Merge, Merging, Frames
<1>5. top.lo \in Nat /\ top.i1 \in Nat /\ top.i2 \in Nat /\ top.hi \in Nat
  BY <1>2 DEF Frames
<1>6. a[top.i2 + 1].key < a[top.i1 + 1].key
  <2>1. top.i1 + 1 \in 1 .. N /\ top.i2 + 1 \in 1 .. N
    BY <1>2, <1>4, <1>5
  <2>2. a[top.i1 + 1].key \in Int /\ a[top.i2 + 1].key \in Int
    BY <1>3, <2>1 DEF Entries
  <2>3. ~(x1.key < x2.key) /\ x1.key # x2.key
    BY DEF TakeSecond, Compare
  <2> QED
    BY <2>2, <2>3 DEF x1, x2
<1>7. /\ fr \in Frames /\ fr.lo = top.lo /\ fr.hi = top.hi
      /\ fr.i1 = top.i1 + 1 /\ fr.i2 = top.i2 + 1
  BY <1>2, BothMoved
<1> HIDE DEF fr
<1>8. /\ a' \in [1 .. N -> Entries]
      /\ a'[top.i1 + 1] = a[top.i2 + 1]
      /\ \A i \in top.i1 + 2 .. top.i2 + 1 : a'[i] = a[i - 1]
      /\ \A i \in 1 .. N : i <= top.i1 \/ i > top.i2 + 1 => a'[i] = a[i]
  <2>1. top.i2 < N
    BY <1>2, <1>4, <1>5
  <2>2. PICK p \in Nat, q \in Nat : p = top.i1 /\ q = top.i2
    BY <1>5
  <2>3. p < q /\ q < N /\ a' = RotatedPart(a, p, q + 1, q - p)
    BY <1>1, <1>4, <2>1, <2>2
  <2>4. /\ a' \in [1 .. N -> Entries]
        /\ a'[p + 1] = a[q + 1]
        /\ \A i \in p + 2 .. q + 1 : a'[i] = a[i - 1]
        /\ \A i \in 1 .. N : i <= p \/ i > q + 1 => a'[i] = a[i]
    <3>1. MovedToFront(RotatedPart(a, p, q + 1, q - p), a, p, q, N)
      BY <1>2, <1>3, <2>2, <2>3, RotatedByOne
    <3> QED
      BY <2>3, <3>1 DEF MovedToFront
  <2> QED
    BY <2>2, <2>4
<1>9. Same(a', a0, N)
  <2>1. top.i2 < N
    BY <1>2, <1>4, <1>5
  <2> QED
    BY <1>2, <1>3, <1>4, <1>5, <1>8, <2>1, RotationKeepsEntries
<1>10. Merge(fr, a')
  <2>1. /\ Asc(a, top.lo, top.i2) /\ Asc(a, top.i2, top.hi)
        /\ \A i \in top.lo + 1 .. top.i1, j \in top.i1 + 1 .. top.hi : a[i].key < a[j].key
    BY <1>2 DEF Merge
  <2>2. /\ Asc(a', top.lo, top.i2 + 1) /\ Asc(a', top.i2 + 1, top.hi)
        /\ \A i \in top.lo + 1 .. top.i1 + 1, j \in top.i1 + 2 .. top.hi : a'[i].key < a'[j].key
    BY <1>2, <1>3, <1>4, <1>5, <1>6, <1>8, <2>1, RotationKeepsOrder, ZenonT(60)
  <2>3. top.i1 + 1 + 1 = top.i1 + 2
    BY <1>5
  <2>4. top.lo <= top.i1 + 1 /\ top.i1 + 1 <= top.i2 + 1 /\ top.i2 + 1 <= top.hi
    BY <1>4, <1>5
  <2> QED
    BY <1>7, <2>2, <2>3, <2>4 DEF Merge
<1>11. Outside(a', a, top.lo, top.hi, N)
  <2>1. SUFFICES ASSUME NEW i \in 1 .. N, i <= top.lo \/ i > top.hi PROVE a'[i] = a[i]
    BY DEF Outside
  <2>2. i <= top.i1 \/ i > top.i2 + 1
    BY <1>4, <1>5, <2>1
  <2> QED
    BY <1>8, <2>2
<1>12. pc # "done" /\ pc # "call"
  BY <1>1
<1> QED
  BY <1>1, <1>7, <1>8, <1>9, <1>10, <1>11, <1>12, ReplaceKeepsIInv

-----------------------------------------------------------------------------
\* Every step of the sort keeps the invariant.
LEMMA NextKeepsIInv == IInv /\ [Next]_vars => IInv'
<1>1. ASSUME IInv, UNCHANGED vars PROVE IInv'
  <2>1. UNCHANGED <<pc, a, a0, stack, ret>> /\ N' = N
    BY <1>1 DEF vars, N
  <2>2. TypeInv'
    BY <1>1, <2>1 DEF IInv, TypeInv
  <2> QED
    BY <1>1, <2>1, <2>2 DEF IInv
<1> QED
  BY <1>1, ShortKeepsIInv, FailedKeepsIInv, MergeEndKeepsIInv, DuplicateKeepsIInv,
     CallsKeepIInv, StartKeepsIInv, TakeFirstKeepsIInv, TakeSecondKeepsIInv DEF Next

\* What the invariant says of the parts is what SortedParts says.
LEMMA IInvSorted == IInv => SortedParts
<1> SUFFICES ASSUME IInv PROVE FirstHalvesStaySorted /\ MergedIsBelowRest
  BY DEF SortedParts
<1>1. FirstHalvesStaySorted
  BY DEF IInv, Halves, FirstHalvesStaySorted, Asc, Ascending
<1>2. MergedIsBelowRest
  BY DEF IInv, Merge, MergedIsBelowRest, Asc, Ascending, top
<1> QED
  BY <1>1, <1>2

\* The slice and the caller's have the same places.
LEMMA IInvNothingLost == IInv => NothingLost
<1> SUFFICES ASSUME IInv PROVE NothingLost
  OBVIOUS
<1>1. DOMAIN a = 1 .. N /\ DOMAIN a0 = 1 .. N
  BY DEF IInv, TypeInv
<1> QED
  BY <1>1 DEF IInv, Same, NothingLost

\* What a sort that has returned tells its caller.
ReturnedResult ==
  pc = "done" => /\ ret => \A i, j \in DOMAIN a : i < j => a[i].key < a[j].key
                 /\ ret <=> ~HasDuplicate(a0)

\* A slice in order has no key twice, and it has the keys of the caller's.
LEMMA IInvResult == IInv => ReturnedResult
<1> SUFFICES ASSUME IInv, pc = "done" PROVE /\ ret => \A i, j \in DOMAIN a : i < j => a[i].key < a[j].key
                                            /\ ret <=> ~HasDuplicate(a0)
  BY DEF ReturnedResult
<1>1. /\ N \in Nat /\ DOMAIN a = 1 .. N /\ DOMAIN a0 = 1 .. N
      /\ a \in [1 .. N -> Entries] /\ ret \in BOOLEAN
  BY DEF IInv, TypeInv
<1>2. ~ret => HasDuplicate(a0)
  BY DEF IInv
<1>3. ASSUME ret PROVE \A i, j \in DOMAIN a : i < j => a[i].key < a[j].key
  <2>1. 0 + 1 .. N = 1 .. N
    BY <1>1
  <2> QED
    BY <1>1, <1>3, <2>1 DEF IInv, Asc
<1>4. ASSUME ret, HasDuplicate(a0) PROVE FALSE
  <2>1. PICK i \in 1 .. N, j \in 1 .. N : i # j /\ a0[i].key = a0[j].key
    BY <1>1, <1>4 DEF HasDuplicate
  <2>2. a0[i].from # a0[j].from
    BY <2>1 DEF IInv, TypeInv
  <2>8. ASSUME NEW l \in 1 .. N PROVE \E k \in 1 .. N : a[k] = a0[l]
    <3>1. {a[k] : k \in 1 .. N} = {a0[k] : k \in 1 .. N}
      BY DEF IInv, Same
    <3>2. a0[l] \in {a0[k] : k \in 1 .. N}
      OBVIOUS
    <3>3. a0[l] \in {a[k] : k \in 1 .. N}
      BY <3>1, <3>2
    <3> QED
      BY <3>3
  <2>3. PICK k \in 1 .. N : a[k] = a0[i]
    BY <2>8
  <2>4. PICK m \in 1 .. N : a[m] = a0[j]
    BY <2>8
  <2>5. k # m /\ a[k].key = a[m].key
    BY <2>1, <2>2, <2>3, <2>4
  <2>6. a[k].key \in Int
    BY <1>1 DEF Entries
  <2>7. a[k].key < a[m].key \/ a[m].key < a[k].key
    <3>1. k < m \/ m < k
      BY <1>1, <2>5
    <3> QED
      BY <1>1, <1>3, <1>4, <3>1
  <2> QED
    BY <2>5, <2>6, <2>7
<1>5. ret <=> ~HasDuplicate(a0)
  BY <1>1, <1>2, <1>4
<1> QED
  BY <1>3, <1>5

\* A set of natural numbers has a least element.
LEMMA Least ==
  ASSUME NEW T, T \subseteq Nat, T # {}
  PROVE  \E x \in T : \A y \in T : x <= y
<1> DEFINE R == OpToRel(<, Nat)
<1>1. IsWellFoundedOn(R, Nat)
  BY NatLessThanWellFounded
<1>2. \A x, y \in Nat : y < x => <<y, x>> \in R
  BY DEF OpToRel
<1> HIDE DEF R
<1>3. \E x \in T : \A y \in T : ~ (<<y, x>> \in R)
  BY <1>1, WFMin
<1>4. PICK x \in T : \A y \in T : ~ (<<y, x>> \in R)
  BY <1>3
<1>5. \A y \in T : x <= y
  <2>1. SUFFICES ASSUME NEW y \in T PROVE x <= y
    OBVIOUS
  <2>2. x \in Nat /\ y \in Nat /\ ~(y < x)
    BY <1>2, <1>4
  <2> QED
    BY <2>2
<1> QED
  BY <1>5

\* One more bit doubles a power of two: the subsets of a set with one element
\* more are those without it and as many with it.
LEMMA PowerOfTwo ==
  /\ 2 ^ 0 = 1
  /\ \A n \in Nat : 2 ^ n \in Nat /\ 2 ^ (n + 1) = 2 * 2 ^ n
<1>1. 2 ^ 0 = 1
  <2>1. IsFiniteSet({}) /\ Cardinality({}) = 0
    BY FS_EmptySet
  <2>2. Cardinality(SUBSET {}) = 2 ^ Cardinality({})
    BY <2>1, FS_SUBSET
  <2>3. SUBSET {} = {{}}
    OBVIOUS
  <2>4. Cardinality({{}}) = 1
    BY FS_Singleton
  <2> QED BY <2>1, <2>2, <2>3, <2>4
<1>2. ASSUME NEW n \in Nat
      PROVE  2 ^ n \in Nat /\ 2 ^ (n + 1) = 2 * 2 ^ n
  <2> DEFINE S == 1 .. n
             x == n + 1
             A == SUBSET S
             B == {X \cup {x} : X \in A}
  <2>1. IsFiniteSet(S) /\ Cardinality(S) = n
    BY FS_Interval
  <2>2. x \notin S
    OBVIOUS
  <2>3. IsFiniteSet(S \cup {x}) /\ Cardinality(S \cup {x}) = n + 1
    BY <2>1, <2>2, FS_AddElement
  <2> HIDE DEF S, x
  <2>4. IsFiniteSet(A) /\ Cardinality(A) = 2 ^ n
    BY <2>1, FS_SUBSET
  <2>5. IsFiniteSet(SUBSET (S \cup {x})) /\ Cardinality(SUBSET (S \cup {x})) = 2 ^ (n + 1)
    BY <2>3, FS_SUBSET
  <2>6. SUBSET (S \cup {x}) = A \cup B
    <3>1. ASSUME NEW X \in SUBSET (S \cup {x}), x \in X PROVE X \in B
      <4>1. PICK Y : Y = X \ {x}
        OBVIOUS
      <4>2. Y \in A /\ X = Y \cup {x}
        BY <3>1, <4>1
      <4> QED BY <4>2
    <3>2. ASSUME NEW X \in SUBSET (S \cup {x}), x \notin X PROVE X \in A
      BY <3>2
    <3>3. ASSUME NEW X \in B PROVE X \in SUBSET (S \cup {x})
      OBVIOUS
    <3>4. A \subseteq SUBSET (S \cup {x})
      OBVIOUS
    <3> HIDE DEF A, B
    <3> QED BY <3>1, <3>2, <3>3, <3>4
  <2>7. A \cap B = {}
    BY <2>2
  <2>8. ExistsBijection(A, B)
    <3> DEFINE f == [X \in A |-> X \cup {x}]
    <3>1. f \in [A -> B]
      OBVIOUS
    <3>2. ASSUME NEW X \in A, NEW Y \in A, f[X] = f[Y] PROVE X = Y
      <4>1. X \cup {x} = Y \cup {x}
        BY <3>2
      <4>2. x \notin X /\ x \notin Y
        BY <2>2
      <4> QED BY <4>1, <4>2
    <3>3. ASSUME NEW Y \in B PROVE \E X \in A : f[X] = Y
      OBVIOUS
    <3> HIDE DEF f, A, B
    <3>4. f \in Bijection(A, B)
      BY <3>1, <3>2, <3>3, Zenon DEF Bijection, Injection, Surjection, IsInjective
    <3> QED BY <3>4, Zenon DEF ExistsBijection
  <2>9. IsFiniteSet(B) /\ Cardinality(B) = 2 ^ n
    <3> HIDE DEF A, B
    <3> QED BY <2>4, <2>8, FS_Bijection
  <2> HIDE DEF A, B
  <2>10. Cardinality(A \cup B) = Cardinality(A) + Cardinality(B) - Cardinality(A \cap B)
    BY <2>4, <2>9, FS_Union
  <2>11. Cardinality(A \cap B) = 0
    BY <2>7, FS_EmptySet
  <2>12. Cardinality(A) \in Nat
    BY <2>4, FS_CardinalityType
  <2>13. PICK p, q : p = 2 ^ n /\ q = 2 ^ (n + 1)
    OBVIOUS
  <2>14. p \in Nat /\ q = p + p - 0
    <3>1. p = Cardinality(A) /\ p = Cardinality(B) /\ q = Cardinality(A \cup B)
      BY <2>4, <2>5, <2>6, <2>9, <2>13, Zenon
    <3> QED BY <2>10, <2>11, <2>12, <3>1
  <2>15. p \in Nat /\ q = 2 * p
    BY <2>14
  <2> QED BY <2>13, <2>15, Zenon
<1> QED BY <1>1, <1>2

\* A frame that has called has two entries or more, and the one it called has
\* half of them, rounded up, at the most.
LEMMA FrameHalves ==
  ASSUME IInv, NEW f \in 1 .. Len(stack) - 1, NEW x, x = stack[f].hi - stack[f].lo
  PROVE  /\ x \in Nat /\ x >= 2
         /\ 2 * (stack[f + 1].hi - stack[f + 1].lo - 1) <= x - 1
<1>1. IsStack(stack) /\ Nested(stack, pc, N) /\ Halves(stack, a) /\ Len(stack) \in Nat
  BY LenProperties DEF IInv, TypeInv, IsStack
<1>2. \A g \in 1 .. Len(stack) : stack[g] \in Frames
  BY <1>1, ElementOfSeq DEF IsStack
<1>3. f \in 1 .. Len(stack) /\ f < Len(stack) /\ f + 1 \in 1 .. Len(stack)
  BY <1>1
<1>4. PICK lo \in Nat, hi \in Nat, l2 \in Nat, h2 \in Nat :
        /\ lo = stack[f].lo /\ hi = stack[f].hi /\ l2 = stack[f + 1].lo /\ h2 = stack[f + 1].hi
  BY <1>2, <1>3 DEF Frames
<1>5. lo + 2 <= hi /\ l2 <= h2
  BY <1>1, <1>3, <1>4 DEF Nested
<1>6. (l2 = lo /\ h2 = lo + (hi - lo) \div 2) \/ (l2 = lo + (hi - lo) \div 2 /\ h2 = hi)
  BY <1>1, <1>4 DEF Halves, Half
<1>7. /\ hi - lo \in Nat /\ hi - lo >= 2
      /\ 2 * (h2 - l2 - 1) <= hi - lo - 1
  <2>1. PICK d \in Nat : d = hi - lo /\ hi = lo + d /\ d >= 2
    BY <1>5
  <2>2. PICK q \in Nat : q = d \div 2 /\ 2 * q <= d /\ d <= 2 * q + 1
    OBVIOUS
  <2>3. CASE l2 = lo /\ h2 = lo + q
    BY <2>1, <2>2, <2>3
  <2>4. CASE l2 = lo + q /\ h2 = hi
    BY <2>1, <2>2, <2>4
  <2> QED BY <1>6, <2>1, <2>2, <2>3, <2>4
<1> QED BY <1>4, <1>7

\* The frame j below the last one that has called has more than 2^j entries.
LEMMA FramesDouble ==
  ASSUME IInv, NEW k, k = Len(stack) - 1, NEW j \in Nat, j < k
  PROVE  2 ^ j + 1 <= stack[k - j].hi - stack[k - j].lo
<1> DEFINE Size(i) == stack[k - i].hi - stack[k - i].lo
           T == {i \in Nat : i < k /\ ~(2 ^ i + 1 <= Size(i))}
<1>1. Len(stack) \in Nat /\ k \in Nat
  <2>1. Len(stack) \in Nat
    BY LenProperties DEF IInv, TypeInv, IsStack
  <2> QED BY <2>1
<1>2. ASSUME NEW i \in Nat, i < k PROVE Size(i) \in Nat /\ Size(i) >= 2
  <2>1. k - i \in 1 .. Len(stack) - 1
    BY <1>1, <1>2
  <2> QED BY <2>1, FrameHalves
<1>3. ASSUME NEW i \in Nat, i + 1 < k PROVE 2 * (Size(i) - 1) <= Size(i + 1) - 1
  <2>1. PICK f : f = k - (i + 1) /\ f + 1 = k - i /\ f \in 1 .. Len(stack) - 1
    BY <1>1, <1>3
  <2>2. 2 * (stack[f + 1].hi - stack[f + 1].lo - 1) <= stack[f].hi - stack[f].lo - 1
    BY <2>1, FrameHalves
  <2> QED BY <2>1, <2>2
<1> HIDE DEF Size
<1>4. ASSUME T # {} PROVE FALSE
  <2>1. PICK i \in T : \A y \in T : i <= y
    <3>1. T \subseteq Nat
      OBVIOUS
    <3> QED BY <1>4, <3>1, Least
  <2>2. i \in Nat /\ i < k /\ ~(2 ^ i + 1 <= Size(i))
    OBVIOUS
  <2>3. i # 0
    <3>1. PICK z \in Nat : z = 0 /\ (0 < k => Size(z) \in Nat /\ Size(z) >= 2)
      BY <1>2
    <3>2. 2 ^ z = 1
      BY <3>1, PowerOfTwo, Zenon
    <3>3. ASSUME i = 0 PROVE FALSE
      <4>1. i = z /\ 2 ^ z + 1 = 2 /\ 0 < k
        BY <2>2, <3>1, <3>2, <3>3
      <4> QED BY <2>2, <3>1, <4>1
    <3> QED BY <3>3
  <2>4. PICK h \in Nat : i = h + 1 /\ h < k /\ ~(i <= h) /\ h + 1 < k
    <3>1. i - 1 \in Nat /\ i = (i - 1) + 1 /\ i - 1 < k /\ ~(i <= i - 1)
      BY <1>1, <2>2, <2>3
    <3> QED BY <2>2, <3>1
  <2>5. 2 ^ h + 1 <= Size(h)
    BY <2>1, <2>4
  <2>6. PICK p, q, x, y : p = 2 ^ h /\ q = 2 ^ i /\ x = Size(i) /\ y = Size(h)
    OBVIOUS
  <2>7. p \in Nat /\ q = 2 * p /\ p + 1 <= y /\ y \in Nat /\ x \in Nat /\ 2 * (y - 1) <= x - 1
    <3>1. p \in Nat /\ q = 2 * p
      BY <2>4, <2>6, PowerOfTwo
    <3>2. y \in Nat /\ x \in Nat
      BY <1>2, <2>2, <2>4, <2>6
    <3>3. 2 * (y - 1) <= x - 1
      BY <1>3, <2>4, <2>6
    <3> QED BY <2>5, <2>6, <3>1, <3>2, <3>3
  <2>8. q + 1 <= x
    BY <2>7
  <2> QED BY <2>2, <2>6, <2>8
<1>5. 2 ^ j + 1 <= Size(j)
  BY <1>4
<1> QED BY <1>5 DEF Size

\* The lowest frame is the whole slice.
LEMMA IInvLogarithmic == IInv => StackIsLogarithmic
<1> SUFFICES ASSUME IInv, Len(stack) > 1 PROVE 2 ^ (Len(stack) - 2) < Len(a)
  BY DEF StackIsLogarithmic
<1>1. Len(stack) \in Nat
  BY LenProperties DEF IInv, TypeInv, IsStack
<1>2. PICK k, j \in Nat : k = Len(stack) - 1 /\ j = Len(stack) - 2 /\ j < k /\ k - j = 1
  <2>1. PICK l \in Nat : l = Len(stack) /\ l > 1
    BY <1>1
  <2>2. l - 2 \in Nat /\ l - 2 < l - 1 /\ (l - 1) - (l - 2) = 1
    BY <2>1
  <2> QED BY <2>1, <2>2
<1>3. 2 ^ j + 1 <= stack[1].hi - stack[1].lo
  BY <1>2, FramesDouble
<1>4. stack[1].lo = 0 /\ stack[1].hi = N /\ N \in Nat
  <2>1. Nested(stack, pc, N) /\ N \in Nat
    BY DEF IInv, TypeInv
  <2> QED BY <1>1, <2>1 DEF Nested
<1>5. Len(a) = N
  <2>1. N \in Nat /\ a \in [1 .. N -> Entries]
    BY DEF IInv, TypeInv
  <2>2. a \in Seq(Entries)
    BY <2>1, SeqDef
  <2>3. Len(a) \in Nat /\ 1 .. Len(a) = 1 .. N
    BY <2>1, <2>2, LenProperties
  <2> QED BY <2>1, <2>3
<1>6. PICK p \in Nat : p = 2 ^ j
  BY PowerOfTwo
<1>7. p < N
  BY <1>3, <1>4, <1>6
<1> QED BY <1>2, <1>5, <1>6, <1>7

\* The invariant holds in every reachable state.
LEMMA Invariance == Spec => []IInv
<1> QED
  BY IInvInit, NextKeepsIInv, PTL DEF Spec

\* For every input: the halves that have been sorted stay sorted at every depth
\* of the recursion, and a merge keeps its two cursors between ordered parts.
THEOREM SortKeepsParts == Spec => []SortedParts
<1> QED
  BY Invariance, IInvSorted, PTL

\* For every input and at every step, also when the sort gives up, the slice
\* holds the entries it was given.
THEOREM SortLosesNothing == Spec => []NothingLost
<1> QED
  BY Invariance, IInvNothingLost, PTL

\* For every input: a sort that has returned TRUE has put the slice in key order,
\* and it has returned FALSE only because two entries have one key.
THEOREM SortResult == Spec => []ReturnedResult
<1> QED
  BY Invariance, IInvResult, PTL

\* For every input and at every step: the recursion is no deeper than the
\* halvings of a slice of that length.
THEOREM SortIsLogarithmic == Spec => []StackIsLogarithmic
<1> QED
  BY Invariance, IInvLogarithmic, PTL
=============================================================================
