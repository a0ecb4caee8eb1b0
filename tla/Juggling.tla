------------------------------ MODULE Juggling ------------------------------
(***************************************************************************)
(* The in-place rotation itself: Euclid's algorithm gives the number d of   *)
(* cycles, and each cycle saves one element, moves q - 1 elements along it  *)
(* and puts the saved one at its end.  The variables are the code's cells;  *)
(* a0 remembers the slice the call was given.                               *)
(***************************************************************************)
EXTENDS Integers, Sequences

CONSTANT MaxLen   \* a bound on the length of the slice

VARIABLES pc, a, a0, l, pn, pl, pi, pj, pidx, save
vars == <<pc, a, a0, l, pn, pl, pi, pj, pidx, save>>

\* A slice of the first len numbers, to be shifted by l.
Init ==
  /\ \E len \in 0 .. MaxLen : a = [i \in 1 .. len |-> i]
  /\ a0 = a
  /\ l \in 0 .. Len(a)
  /\ pc = "start"
  /\ pn = Len(a) /\ pl = l
  /\ pi = 0 /\ pj = 0 /\ pidx = 0 /\ save = 0

\* if !(l == 0 || l == len): otherwise the slice is left as it is.
Start ==
  /\ pc = "start"
  /\ pc' = IF l = 0 \/ l = Len(a) THEN "done" ELSE "gcd"
  /\ UNCHANGED <<a, a0, l, pn, pl, pi, pj, pidx, save>>

\* while pl > 0: (pn, pl) := (pl, pn % pl)
Euclid ==
  /\ pc = "gcd" /\ pl > 0
  /\ pn' = pl /\ pl' = pn % pl
  /\ UNCHANGED <<pc, a, a0, l, pi, pj, pidx, save>>

d == pn
q == Len(a) \div d

EuclidEnd ==
  /\ pc = "gcd" /\ pl = 0
  /\ pc' = "cycle"
  /\ UNCHANGED <<a, a0, l, pn, pl, pi, pj, pidx, save>>

StartCycle ==
  /\ pc = "cycle" /\ pi < d
  /\ save' = a[pi + 1] /\ pj' = 0 /\ pidx' = pi
  /\ pc' = "move"
  /\ UNCHANGED <<a, a0, l, pn, pl, pi>>

\* The place the next element of the cycle comes from.
From(idx) == IF idx >= Len(a) - l THEN idx - (Len(a) - l) ELSE idx + l

Move ==
  /\ pc = "move" /\ pj < q - 1
  /\ a' = [a EXCEPT ![pidx + 1] = a[From(pidx) + 1]]
  /\ pj' = pj + 1 /\ pidx' = From(pidx)
  /\ UNCHANGED <<pc, a0, l, pn, pl, pi, save>>

\* Fault: the saved element goes back to where it came from.
EndCycleInPlace ==
  /\ pc = "move" /\ pj = q - 1
  /\ a' = [a EXCEPT ![pi + 1] = save]
  /\ pi' = pi + 1
  /\ pc' = "cycle"
  /\ UNCHANGED <<a0, l, pn, pl, pj, pidx, save>>

EndCycle ==
  /\ pc = "move" /\ pj = q - 1
  /\ a' = [a EXCEPT ![pidx + 1] = save]
  /\ pi' = pi + 1
  /\ pc' = "cycle"
  /\ UNCHANGED <<a0, l, pn, pl, pj, pidx, save>>

Finish ==
  /\ pc = "cycle" /\ pi = d
  /\ pc' = "done"
  /\ UNCHANGED <<a, a0, l, pn, pl, pi, pj, pidx, save>>

Next == Start \/ Euclid \/ EuclidEnd \/ StartCycle \/ Move \/ EndCycle \/ Finish
Spec == Init /\ [][Next]_vars /\ WF_vars(Next)

-----------------------------------------------------------------------------
\* The loops implement the one-step rotation: seen from outside, where the
\* slice is borrowed until they end, it keeps its old content and then has the
\* rotated one; and they end.
R == INSTANCE Rotation WITH
       slice <- IF pc = "done" THEN a ELSE a0,
       shift <- l,
       rotated <- pc = "done"
ImplementsRotation == R!Spec
=============================================================================
