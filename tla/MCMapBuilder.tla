---------------------------- MODULE MCMapBuilder ----------------------------
EXTENDS MapBuilder

\* An insertion comes to its end.
InsertionReturns == pres = "progress" ~> pres \in {"success", "failure"}

-----------------------------------------------------------------------------
\* Keys of one byte and of several, one a prefix of another's payload, and an
\* array and a map as keys; values that look like keys.
MCKeys == {<<0>>, <<24, 24>>, <<65, 0>>, <<97, 97>>, <<129, 0>>, <<161, 0, 0>>}
MCValues == {<<0>>, <<129, 24, 24>>}
MCExcluded == {<< <<0>>, <<0>> >>}
=============================================================================
