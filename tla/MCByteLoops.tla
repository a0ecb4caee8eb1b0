---------------------------- MODULE MCByteLoops ----------------------------
(***************************************************************************)
(* The two loops over bytes that everything else calls, one at a time: the  *)
(* comparison of two strings and the scan of one string for UTF-8.  The one *)
(* that is not looked at has empty strings, and so has ended.               *)
(***************************************************************************)
EXTENDS ByteLoops

\* Three byte values make every outcome of a comparison; strings of up to four
\* bytes make every pair of common prefix, difference and end.
MCStrings == UNION {[1 .. k -> {0, 128, 255}] : k \in 0 .. 4}

\* The first and last byte of every range the scan compares with.
Edges == {0, 127, 128, 143, 144, 159, 160, 191, 192, 193, 194, 223, 224, 225,
          236, 237, 238, 239, 240, 241, 243, 244, 245, 255}
Trail == {127, 128, 143, 144, 159, 160, 191, 192}

MCTexts ==
  UNION {[1 .. n -> Edges] : n \in 0 .. 2}
    \cup {<<a>> \o t : a \in Edges, t \in [1 .. 2 -> Trail]}
    \cup {<<a>> \o t : a \in {239, 240, 241, 243, 244, 245}, t \in [1 .. 3 -> Trail]}
    \cup {<<a>> \o t \o <<c>> : a \in {194, 225, 237}, t \in [1 .. 2 -> Trail], c \in Trail}

MCInit ==
  \/ text = <<>> /\ ScanInit /\ CompareInit
  \/ s1 = <<>> /\ s2 = <<>> /\ CompareInit /\ ScanInit

MCNext ==
  \/ CompareNext /\ UNCHANGED scan
  \/ ScanNext /\ UNCHANGED comparison

MCSpec == MCInit /\ [][MCNext]_<<comparison, scan>> /\ WF_<<comparison, scan>>(MCNext)
=============================================================================
