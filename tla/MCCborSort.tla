----------------------------- MODULE MCCborSort -----------------------------
(***************************************************************************)
(* A rotation and then a sort, one of the two of an empty slice.  The sort  *)
(* takes the rotation as one step; that its loops implement this step is    *)
(* checked on the slices of up to MaxLen elements.                          *)
(***************************************************************************)
EXTENDS CborSort

CONSTANTS MaxEntries, MaxLen

\* The sort sees of the keys only their order: the keys of an input are the
\* numbers from 1 to some k, each there at least once.
MCInputs ==
  UNION {{s \in [1 .. n -> 1 .. n] :
            \A k \in {s[i] : i \in 1 .. n} : k > 1 => \E i \in 1 .. n : s[i] = k - 1}
           : n \in 0 .. MaxEntries}

VARIABLES jpc, slice, slice0, l, pn, pl, pi, pj, pidx, save
rotation == <<jpc, slice, slice0, l, pn, pl, pi, pj, pidx, save>>
J == INSTANCE Juggling WITH pc <- jpc, a <- slice, a0 <- slice0

MCInit ==
  /\ Init /\ J!Init
  /\ a0 = <<>> \/ slice0 = <<>>

MCNext ==
  \/ J!Next /\ UNCHANGED vars
  \/ jpc = "done" /\ Next /\ UNCHANGED rotation

MCSpec == MCInit /\ [][MCNext]_<<vars, rotation>> /\ WF_<<vars, rotation>>(MCNext)

\* The loops of the rotation end, and seen from outside they have turned the
\* slice in one step.
ImplementsRotation == J!ImplementsRotation
=============================================================================
