----------------------------- MODULE ByteLoops -----------------------------
(***************************************************************************)
(* The two loops over bytes that everything else calls, as state machines:  *)
(* lex_compare_bytes, the comparison of two strings, and impl_correct, the  *)
(* scan of a string for UTF-8.  The variables are the code's mutable cells  *)
(* and the slices the calls were given; ok is the cell pres of the scan.    *)
(***************************************************************************)
EXTENDS CborItem

CONSTANTS
  Strings,   \* what is compared
  Texts      \* what is scanned

ASSUME StringsAssumption == Strings \subseteq Seq(Byte)
ASSUME TextsAssumption == Texts \subseteq Seq(Byte)

VARIABLES s1, s2, pi1, pi2, pres
comparison == <<s1, s2, pi1, pi2, pres>>

VARIABLES text, pi, ok
scan == <<text, pi, ok>>

-----------------------------------------------------------------------------
\* impl_uint8_compare
ByteCompare(x, y) == IF x < y THEN -1 ELSE IF x > y THEN 1 ELSE 0

\* The result before the first byte is read: an empty string is decided here.
CompareInit ==
  /\ s1 \in Strings /\ s2 \in Strings
  /\ pi1 = 0 /\ pi2 = 0
  /\ pres = IF 0 < Len(s1) THEN IF 0 < Len(s2) THEN 0 ELSE 1
            ELSE IF 0 < Len(s2) THEN -1 ELSE 0

Comparing == pres = 0 /\ pi1 < Len(s1)
Compared == ByteCompare(At(s1, pi1), At(s2, pi2))

Differ ==
  /\ Comparing /\ Compared # 0
  /\ pres' = Compared
  /\ UNCHANGED <<s1, s2, pi1, pi2>>

\* Fault: the longer string counts as the smaller one.
OneEndsSwapped ==
  /\ Comparing /\ Compared = 0
  /\ (pi1 + 1 < Len(s1)) # (pi2 + 1 < Len(s2))
  /\ pres' = IF pi2 + 1 < Len(s2) THEN 1 ELSE -1
  /\ UNCHANGED <<s1, s2, pi1, pi2>>

\* One string ends after these equal bytes, the other does not.
OneEnds ==
  /\ Comparing /\ Compared = 0
  /\ (pi1 + 1 < Len(s1)) # (pi2 + 1 < Len(s2))
  /\ pres' = IF pi2 + 1 < Len(s2) THEN -1 ELSE 1
  /\ UNCHANGED <<s1, s2, pi1, pi2>>

\* Fault: the end of the second string is not looked at.
NextByteUnchecked ==
  /\ Comparing /\ Compared = 0
  /\ pi1' = pi1 + 1 /\ pi2' = pi2 + 1
  /\ UNCHANGED <<s1, s2, pres>>

NextByte ==
  /\ Comparing /\ Compared = 0
  /\ (pi1 + 1 < Len(s1)) = (pi2 + 1 < Len(s2))
  /\ pi1' = pi1 + 1 /\ pi2' = pi2 + 1
  /\ UNCHANGED <<s1, s2, pres>>

CompareNext == Differ \/ OneEnds \/ NextByte
CompareSpec == CompareInit /\ [][CompareNext]_comparison /\ WF_comparison(CompareNext)

-----------------------------------------------------------------------------
ComparisonTypeOK ==
  /\ s1 \in Strings /\ s2 \in Strings
  /\ pi1 \in 0 .. Len(s1) /\ pi2 \in 0 .. Len(s2)
  /\ pres \in {-1, 0, 1}

\* Both slices are read inside of their bounds, although the loop's condition
\* only looks at the first one.
ReadsInBounds == Comparing => pi1 < Len(s1) /\ pi2 < Len(s2)

\* When the loop ends its result is the lexicographic order of the two strings,
\* the order of the keys of a deterministic map.
ResultIsLexOrder == ~Comparing => pres = LexCompare(s1, s2)

\* The inductive invariant: the indices move together over equal bytes, either
\* both strings have a byte left or both have ended, and a result that has been
\* set is final.
ComparisonInv ==
  /\ ComparisonTypeOK
  /\ pi1 = pi2
  /\ \A j \in 1 .. pi1 : s1[j] = s2[j]
  /\ pres = 0 => (pi1 < Len(s1) <=> pi2 < Len(s2))
  /\ pres = -1 => LexLess(s1, s2)
  /\ pres = 1 => LexLess(s2, s1)

-----------------------------------------------------------------------------
ScanInit == text \in Texts /\ pi = 0 /\ ok = TRUE

Scanning == ok /\ pi < Len(text)

Accept ==
  /\ Scanning
  /\ Utf8Next(text, pi) # pi
  /\ pi' = Utf8Next(text, pi)
  /\ UNCHANGED <<text, ok>>

Reject ==
  /\ Scanning
  /\ Utf8Next(text, pi) = pi
  /\ ok' = FALSE
  /\ UNCHANGED <<text, pi>>

ScanNext == Accept \/ Reject
ScanSpec == ScanInit /\ [][ScanNext]_scan /\ WF_scan(ScanNext)

-----------------------------------------------------------------------------
\* RFC 3629 from the other direction: a sequence of one to four bytes is a
\* character when the scalar value its bits spell needs that many bytes, is at
\* most 10FFFF and is no surrogate.
Scalar(b) ==
  LET low(k) == b[k] - 128
  IN  CASE Len(b) = 1 -> b[1]
        [] Len(b) = 2 -> 64 * (b[1] - 192) + low(2)
        [] Len(b) = 3 -> 4096 * (b[1] - 224) + 64 * low(2) + low(3)
        [] Len(b) = 4 -> 262144 * (b[1] - 240) + 4096 * low(2) + 64 * low(3) + low(4)

IsCharacter(b) ==
  LET k == Len(b)
      lead == <<0 .. 127, 192 .. 223, 224 .. 239, 240 .. 247>>
      first == <<0, 128, 2048, 65536>>
  IN  /\ b[1] \in lead[k]
      /\ \A j \in 2 .. k : b[j] \in 128 .. 191
      /\ Scalar(b) >= first[k] /\ Scalar(b) <= 1114111
      /\ Scalar(b) \notin 55296 .. 57343

WellFormed(b) ==
  LET from[i \in 0 .. Len(b)] ==
        \/ i = Len(b)
        \/ \E k \in 1 .. 4 :
             i + k <= Len(b) /\ IsCharacter(Slice(b, i, i + k)) /\ from[i + k]
  IN  from[0]

\* The loop ends, and its result is true exactly for well-formed UTF-8; so is that of
\* Utf8Correct, which the validator's model uses in its place.
DecidesUtf8 == <>(~Scanning /\ (ok <=> WellFormed(text)) /\ (ok <=> Utf8Correct(text)))
=============================================================================
