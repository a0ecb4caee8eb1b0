------------------------------- MODULE Slices -------------------------------
(***************************************************************************)
(* Operators on slices: sequences addressed, like the code's, by offsets    *)
(* from 0, a part being the offsets lo up to, not including, hi.            *)
(***************************************************************************)
EXTENDS Integers, Sequences

\* The part lo .. hi - 1 of a rotated left by l: its element l comes first.
RotatedPart(a, lo, hi, l) ==
  [i \in DOMAIN a |->
     IF i <= lo \/ i > hi THEN a[i]
     ELSE IF i + l <= hi THEN a[i + l]
     ELSE a[i + l - (hi - lo)]]

\* The part lo .. lo + Len(s) - 1 of a overwritten with s.
Written(a, lo, s) ==
  [i \in DOMAIN a |-> IF lo < i /\ i <= lo + Len(s) THEN s[i - lo] ELSE a[i]]
=============================================================================
