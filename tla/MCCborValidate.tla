--------------------------- MODULE MCCborValidate ---------------------------
(***************************************************************************)
(* The validator on a machine with a usize of eight bits, which only counts *)
(* of 2^30 and more exceed, and on one with a usize of three bits, W, where *)
(* counts of a few items wrap around as large ones do on a real machine.    *)
(***************************************************************************)
EXTENDS CborValidate, SequencesExt

-----------------------------------------------------------------------------
TokensUpTo(T, k) == UNION {{FlattenSeq(ts) : ts \in [1 .. j -> T]} : j \in 0 .. k}

\* Heads and short items of every major type, in shortest form and not.
Tokens == {
  <<0>>, <<1>>, <<24, 5>>, <<24, 24>>, <<25, 0, 9>>, <<25, 1, 0>>, <<26, 0, 0, 1, 0>>,
  <<26, 0, 1, 0, 0>>, <<27, 0, 0, 0, 0, 255, 0, 0, 0>>, <<27, 0, 0, 0, 1, 0, 0, 0, 0>>,
  <<28>>, <<32>>, <<64>>, <<65>>, <<88, 1>>, <<97>>, <<98>>, <<195, 169>>, <<128>>,
  <<129>>, <<130>>, <<152, 1>>, <<155, 255, 0, 0, 0, 0, 0, 0, 0>>, <<160>>, <<161>>,
  <<162>>, <<186, 0, 0, 0, 1>>, <<192>>, <<216, 32>>, <<244>>, <<248, 31>>, <<248, 32>>, <<249>>}
KeyTokens == {<<0>>, <<1>>, <<24, 24>>, <<96>>, <<97, 1>>, <<129, 0>>, <<162, 0, 1, 1, 0>>,
              <<162, 1, 0, 0, 1>>, <<192, 0>>}
Values == {<<0>>, <<161, 1, 0>>, <<24, 5>>}

TwoPairMaps == {<<162>> \o k1 \o v1 \o k2 \o v2 :
                  k1 \in KeyTokens, k2 \in KeyTokens, v1 \in Values, v2 \in Values}
ThreePairMaps == {<<163>> \o k1 \o <<0>> \o k2 \o <<1>> \o k3 \o <<2>> :
                  k1 \in KeyTokens, k2 \in KeyTokens, k3 \in KeyTokens}

MCInputs == TokensUpTo(Tokens, 3) \cup TwoPairMaps \cup ThreePairMaps

\* Buffers of at most seven bytes for a usize of three bits: announced counts
\* and lengths of 8 and more do not fit it, and four pairs are eight items.
SmallBytes == {0, 1, 66, 71, 72, 95, 98, 130, 131, 132, 133, 134, 135, 136, 151, 161, 162, 163, 164, 165, 168, 172, 192}
MCSmallInputs ==
  UNION {[1 .. j -> SmallBytes] : j \in 0 .. 3}
    \cup {<<a, b>> \o t : a \in SmallBytes, b \in SmallBytes, t \in [1 .. 5 -> {0, 1}]}

-----------------------------------------------------------------------------
VARIABLE usize
W == INSTANCE CborValidate WITH SizeMax <- 7, Inputs <- MCSmallInputs

MCInit == (usize = "wide" /\ Init) \/ (usize = "three bits" /\ W!Init)

MCNext ==
  \/ usize = "wide" /\ Next /\ UNCHANGED usize
  \/ usize = "three bits" /\ W!Next /\ UNCHANGED usize

MCSpec == MCInit /\ [][MCNext]_<<vars, usize>> /\ WF_<<vars, usize>>(MCNext)
=============================================================================
