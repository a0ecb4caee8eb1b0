------------------------------ MODULE Rotation ------------------------------
(***************************************************************************)
(* What the in-place rotation of cbordetveraux.rs promises: one step that   *)
(* turns a slice into the slice shifted left.  The code has the rotation    *)
(* in five functions: cbor_raw_sort_aux, cbor_raw_map_insert,               *)
(* and the writers of the headers of strings, arrays and maps; their models *)
(* take it as the one step RotatedPart, and Juggling shows that the loops   *)
(* implement it.                                                            *)
(***************************************************************************)
EXTENDS Slices

VARIABLES slice, shift, rotated

\* The elements of the slice are told apart by the place they start from.
Init ==
  /\ slice = [i \in DOMAIN slice |-> i]
  /\ shift \in 0 .. Len(slice)
  /\ rotated = FALSE

Rotate ==
  /\ ~rotated
  /\ slice' = RotatedPart(slice, 0, Len(slice), shift)
  /\ rotated' = TRUE
  /\ UNCHANGED shift

Next == Rotate
Spec == Init /\ [][Next]_<<slice, shift, rotated>> /\ <>rotated
=============================================================================
