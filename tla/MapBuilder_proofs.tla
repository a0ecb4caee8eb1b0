-------------------------- MODULE MapBuilder_proofs --------------------------
(***************************************************************************)
(* That the incremental map serializer keeps its entries in order, that its *)
(* cursor is where the new key belongs, that it gives up for a reason, and  *)
(* that what it builds is one item in deterministic encoding: proved for    *)
(* every set of keys and values, every buffer and every limit of the count. *)
(*                                                                         *)
(* The entries are in the buffer as a function at from the entries to their *)
(* offsets says (Laid).  An insertion looks for the offset where the new    *)
(* key belongs, splitting the entries (Splits), and moves those behind it   *)
(* by the width of the new one (MovedBehind, LaidAdd).  In the end all are  *)
(* moved by the width of the header (LaidBehind), and are the pairs that    *)
(* the grammar reads behind it (RowOfEntries, HeaderReads).                 *)
(***************************************************************************)
EXTENDS MapBuilder, CborGrammar_proofs, FiniteSetTheorems

-----------------------------------------------------------------------------
(* Parts of the buffer *)

\* The part of s that is t.
LEMMA SliceIsOccurs ==
  ASSUME NEW s \in Seq(Byte), NEW t \in Seq(Byte), NEW o \in Nat, o + Len(t) <= Len(s)
  PROVE  Slice(s, o, o + Len(t)) = t <=> Occurs(t, s, o)
<1>1. Len(s) \in Nat /\ Len(t) \in Nat
  BY LenProperties
<1>2. PICK n, x : n \in Nat /\ n = Len(t) /\ x = Slice(s, o, o + n)
  BY <1>1
<1>3. /\ x \in Seq(Byte) /\ Len(x) = n
      /\ \A i \in Nat : i < n => At(x, i) = At(s, o + i)
  <2>1. PICK b \in Nat : b = o + n /\ o <= b /\ b <= Len(s) /\ b - o = n
    BY <1>1, <1>2
  <2>2. x = Slice(s, o, b)
    BY <1>2, <2>1
  <2>3. /\ Slice(s, o, b) \in Seq(Byte) /\ Len(Slice(s, o, b)) = b - o
        /\ \A i \in Nat : i < b - o => At(Slice(s, o, b), i) = At(s, o + i)
    BY <2>1, SliceFacts
  <2> QED BY <2>1, <2>2, <2>3
<1>4. ASSUME x = t PROVE Occurs(t, s, o)
  <2>1. \A i \in Nat : i < n => At(s, o + i) = At(t, i)
    BY <1>3, <1>4
  <2> QED BY <1>2, <2>1 DEF Occurs
<1>5. ASSUME Occurs(t, s, o) PROVE x = t
  <2>1. \A i \in 1 .. n : x[i] = t[i]
    <3> SUFFICES ASSUME NEW i \in 1 .. n PROVE x[i] = t[i]
      OBVIOUS
    <3>1. PICK j \in Nat : j = i - 1 /\ j < n /\ j + 1 = i
      BY <1>2
    <3>2. At(x, j) = At(t, j)
      BY <1>2, <1>3, <1>5, <3>1 DEF Occurs
    <3> QED BY <3>1, <3>2 DEF At
  <2> QED BY <1>2, <1>3, <2>1, SeqEqual
<1> QED BY <1>2, <1>4, <1>5

\* One byte string behind another one.
LEMMA OccursBoth ==
  ASSUME NEW s \in Seq(Byte), NEW t \in Seq(Byte), NEW u \in Seq(Byte), NEW d
  PROVE  /\ t \o u \in Seq(Byte) /\ Len(t \o u) = Len(t) + Len(u)
         /\ Occurs(t \o u, s, d) <=> Occurs(t, s, d) /\ Occurs(u, s, d + Len(t))
<1>1. Len(s) \in Nat /\ Len(t) \in Nat /\ Len(u) \in Nat
  BY LenProperties
<1>2. PICK x, m, n : x = t \o u /\ m = Len(t) /\ n = Len(u)
  OBVIOUS
<1>3. /\ x \in Seq(Byte) /\ Len(x) = m + n
      /\ \A i \in 1 .. m + n : x[i] = IF i <= m THEN t[i] ELSE u[i - m]
  BY <1>2, ConcatProperties
<1>4. ASSUME NEW o \in Nat, o < m PROVE At(x, o) = At(t, o)
  <2>1. o + 1 \in 1 .. m + n /\ o + 1 <= m
    BY <1>1, <1>2, <1>4
  <2> QED BY <1>3, <2>1 DEF At
<1>5. ASSUME NEW o \in Nat, o < n PROVE At(x, m + o) = At(u, o)
  <2>1. m \in Nat /\ n \in Nat /\ o < n
    BY <1>1, <1>2, <1>5
  <2>3. PICK k, j : k = m + o + 1 /\ j = o + 1
    OBVIOUS
  <2>4. k \in 1 .. m + n /\ ~(k <= m) /\ k - m = j
    BY <2>1, <2>3
  <2>5. x[k] = IF k <= m THEN t[k] ELSE u[k - m]
    BY <1>3, <2>4
  <2>6. x[k] = u[j]
    BY <2>4, <2>5
  <2> QED BY <2>3, <2>6 DEF At
<1>6. ASSUME Occurs(x, s, d) PROVE Occurs(t, s, d) /\ Occurs(u, s, d + m)
  <2>1. d \in Nat /\ d + (m + n) <= Len(s) /\ \A o \in Nat : o < m + n => At(s, d + o) = At(x, o)
    BY <1>3, <1>6 DEF Occurs
  <2>2. ASSUME NEW o \in Nat, o < m PROVE At(s, d + o) = At(t, o)
    <3>1. o < m + n
      BY <1>1, <1>2, <2>2
    <3> QED BY <1>4, <2>1, <2>2, <3>1
  <2>3. ASSUME NEW o \in Nat, o < n PROVE At(s, d + m + o) = At(u, o)
    <3>1. m + o \in Nat /\ m + o < m + n /\ d + (m + o) = d + m + o
      BY <1>1, <1>2, <2>1, <2>3
    <3>2. At(s, d + (m + o)) = At(x, m + o)
      BY <2>1, <3>1
    <3> QED BY <1>5, <2>3, <3>1, <3>2
  <2>4. d + m <= Len(s) /\ d + m + n <= Len(s) /\ d + m \in Nat
    BY <1>1, <1>2, <2>1
  <2> QED BY <1>2, <2>1, <2>2, <2>3, <2>4 DEF Occurs
<1>7. ASSUME Occurs(t, s, d), Occurs(u, s, d + m) PROVE Occurs(x, s, d)
  <2>1. /\ d \in Nat /\ \A o \in Nat : o < m => At(s, d + o) = At(t, o)
        /\ d + m + n <= Len(s) /\ \A o \in Nat : o < n => At(s, d + m + o) = At(u, o)
    BY <1>2, <1>7 DEF Occurs
  <2>2. ASSUME NEW o \in Nat, o < m + n PROVE At(s, d + o) = At(x, o)
    <3>1. CASE o < m
      BY <1>4, <2>1, <3>1
    <3>2. CASE ~(o < m)
      <4>1. PICK j \in Nat : j = o - m /\ j < n /\ m + j = o /\ d + m + j = d + o
        <5>1. d \in Nat /\ m \in Nat /\ n \in Nat /\ ~(o < m) /\ o < m + n
          BY <1>1, <1>2, <2>1, <2>2, <3>2
        <5> QED BY <5>1
      <4>2. At(s, d + m + j) = At(u, j) /\ At(x, m + j) = At(u, j)
        BY <1>5, <2>1, <4>1
      <4> QED BY <4>1, <4>2
    <3> QED BY <3>1, <3>2
  <2>3. d + (m + n) <= Len(s)
    BY <1>1, <1>2, <2>1
  <2> QED BY <1>3, <2>1, <2>2, <2>3 DEF Occurs
<1> QED BY <1>2, <1>3, <1>6, <1>7

\* What is written is where it has been written, and nothing else has changed.
LEMMA WrittenFacts ==
  ASSUME NEW s \in Seq(Byte), NEW t \in Seq(Byte), NEW lo \in Nat, lo + Len(t) <= Len(s)
  PROVE  /\ Written(s, lo, t) \in Seq(Byte) /\ Len(Written(s, lo, t)) = Len(s)
         /\ Occurs(t, Written(s, lo, t), lo)
         /\ \A o \in Nat : o < lo => At(Written(s, lo, t), o) = At(s, o)
<1>1. Len(s) \in Nat /\ Len(t) \in Nat /\ DOMAIN s = 1 .. Len(s)
  BY LenProperties
<1>2. PICK x, n : x = Written(s, lo, t) /\ n = Len(s)
  OBVIOUS
<1>3. x = [i \in 1 .. n |-> IF lo < i /\ i <= lo + Len(t) THEN t[i - lo] ELSE s[i]]
  BY <1>1, <1>2 DEF Written
<1>4. ASSUME NEW i \in 1 .. n
      PROVE (IF lo < i /\ i <= lo + Len(t) THEN t[i - lo] ELSE s[i]) \in Byte
  <2>1. CASE lo < i /\ i <= lo + Len(t)
    <3>1. i - lo \in 1 .. Len(t)
      BY <1>1, <2>1
    <3> QED BY <2>1, <3>1, ElementOfSeq
  <2>2. CASE ~(lo < i /\ i <= lo + Len(t))
    BY <1>2, <2>2, ElementOfSeq
  <2> QED BY <2>1, <2>2
<1>5. x \in [1 .. n -> Byte] /\ n \in Nat
  BY <1>1, <1>2, <1>3, <1>4
<1>6. x \in Seq(Byte) /\ Len(x) = n
  <2>1. x \in Seq(Byte)
    BY <1>5, SeqDef
  <2>2. DOMAIN x = 1 .. n
    BY <1>3
  <2>3. DOMAIN x = 1 .. Len(x) /\ Len(x) \in Nat
    BY <2>1, LenProperties
  <2> QED BY <1>5, <2>1, <2>2, <2>3
<1>7. ASSUME NEW o \in Nat, o < Len(t) PROVE At(x, lo + o) = At(t, o)
  <2>1. lo + o + 1 \in 1 .. n /\ lo < lo + o + 1 /\ lo + o + 1 <= lo + Len(t) /\ lo + o + 1 - lo = o + 1
    BY <1>1, <1>2, <1>7
  <2> QED BY <1>3, <2>1 DEF At
<1>8. ASSUME NEW o \in Nat, o < lo PROVE At(x, o) = At(s, o)
  <2>1. o + 1 \in 1 .. n /\ ~(lo < o + 1)
    BY <1>1, <1>2, <1>8
  <2> QED BY <1>3, <2>1 DEF At
<1> QED BY <1>2, <1>6, <1>7, <1>8 DEF Occurs

\* The bytes of s from p up to size are in s2 further behind, by w bytes.
MovedBehind(s, s2, p, size, w) ==
  /\ \A o \in Nat : o < p => At(s2, o) = At(s, o)
  /\ \A o \in Nat : p <= o /\ o < size => At(s2, o + w) = At(s, o)

\* The w bytes of s at size are in s2 at p.
MovedAhead(s, s2, p, size, w) ==
  \A o \in Nat : o < w => At(s2, p + o) = At(s, size + o)

\* A part rotated: its first bytes, up to mid, are behind the others.
LEMMA RotatedFacts ==
  ASSUME NEW s \in Seq(Byte), NEW lo \in Nat, NEW hi \in Nat, NEW l \in Nat,
         NEW mid \in Nat, NEW w \in Nat, mid = lo + l, hi = mid + w, hi <= Len(s)
  PROVE  /\ RotatedPart(s, lo, hi, l) \in Seq(Byte) /\ Len(RotatedPart(s, lo, hi, l)) = Len(s)
         /\ MovedBehind(s, RotatedPart(s, lo, hi, l), lo, mid, w)
         /\ MovedAhead(s, RotatedPart(s, lo, hi, l), lo, mid, w)
<1>1. Len(s) \in Nat /\ DOMAIN s = 1 .. Len(s)
  BY LenProperties
<1>2. PICK x, n : x = RotatedPart(s, lo, hi, l) /\ n = Len(s)
  OBVIOUS
<1>3. x = [i \in 1 .. n |->
             IF i <= lo \/ i > hi THEN s[i]
             ELSE IF i + l <= hi THEN s[i + l]
             ELSE s[i + l - (hi - lo)]]
  BY <1>1, <1>2 DEF RotatedPart
<1>4. ASSUME NEW i \in 1 .. n PROVE x[i] \in Byte
  <2>1. CASE i <= lo \/ i > hi
    BY <1>2, <1>3, <2>1, ElementOfSeq
  <2>2. CASE ~(i <= lo \/ i > hi) /\ i + l <= hi
    <3>1. i + l \in 1 .. n
      BY <1>1, <1>2, <2>2
    <3> QED BY <1>2, <1>3, <2>2, <3>1, ElementOfSeq
  <2>3. CASE ~(i <= lo \/ i > hi) /\ ~(i + l <= hi)
    <3>1. i + l - (hi - lo) \in 1 .. n
      BY <1>1, <1>2, <2>3
    <3> QED BY <1>2, <1>3, <2>3, <3>1, ElementOfSeq
  <2> QED BY <2>1, <2>2, <2>3
<1>5. x \in [1 .. n -> Byte] /\ n \in Nat
  <2>1. x = [i \in 1 .. n |-> x[i]]
    BY <1>3
  <2> QED BY <1>1, <1>2, <1>4, <2>1
<1>6. x \in Seq(Byte) /\ Len(x) = n
  <2>1. x \in Seq(Byte)
    BY <1>5, SeqDef
  <2>2. DOMAIN x = 1 .. n
    BY <1>3
  <2>3. DOMAIN x = 1 .. Len(x) /\ Len(x) \in Nat
    BY <2>1, LenProperties
  <2> QED BY <1>5, <2>1, <2>2, <2>3
<1>7. ASSUME NEW o \in Nat, o < lo PROVE At(x, o) = At(s, o)
  <2>1. o + 1 \in 1 .. n /\ o + 1 <= lo
    BY <1>1, <1>2, <1>7
  <2> QED BY <1>3, <2>1 DEF At
<1>8. ASSUME NEW o \in Nat, o < w PROVE At(x, lo + o) = At(s, mid + o)
  <2>1. PICK i \in 1 .. n : i = lo + o + 1 /\ i + l = mid + o + 1 /\ ~(i <= lo \/ i > hi) /\ i + l <= hi
    BY <1>1, <1>2, <1>8
  <2> QED BY <1>3, <2>1 DEF At
<1>9. ASSUME NEW o \in Nat, lo <= o, o < mid PROVE At(x, o + w) = At(s, o)
  <2>1. PICK i \in 1 .. n : /\ i = o + w + 1 /\ i + l - (hi - lo) = o + 1
                            /\ ~(i <= lo \/ i > hi) /\ ~(i + l <= hi)
    BY <1>1, <1>2, <1>9
  <2> QED BY <1>3, <2>1 DEF At
<1> QED BY <1>2, <1>6, <1>7, <1>8, <1>9 DEF MovedBehind, MovedAhead

-----------------------------------------------------------------------------
(* The entries in the buffer *)

Entry == [key : Keys, value : Values]

\* One of two entries has a lesser key, and is in front of the other.
Apart(e, f, at) ==
  \/ e = f
  \/ LexLess(e.key, f.key) /\ at[e] + Width(e) <= at[f]
  \/ LexLess(f.key, e.key) /\ at[f] + Width(f) <= at[e]

\* The entry e is at its offset, in front of offset hi.
InPlace(s, e, at, hi) == Occurs(e.key \o e.value, s, at[e]) /\ at[e] + Width(e) <= hi

\* The bytes lo .. hi - 1 of s are the entries es, each at its offset.
Laid(s, es, lo, hi, at) ==
  /\ at \in [es -> Nat]
  /\ \A e \in es : lo <= at[e] /\ InPlace(s, e, at, hi)
  /\ \A e, f \in es : Apart(e, f, at)
  /\ \A o \in Nat : lo <= o /\ o < hi => \E e \in es : at[e] <= o /\ o < at[e] + Width(e)

\* The keys of the entries before offset p are less than k, those behind it not.
Splits(es, at, p, k) ==
  \A e \in es :
    \/ at[e] + Width(e) <= p /\ LexLess(e.key, k)
    \/ p <= at[e]

\* An entry is a key and a value, each of them an item.
LEMMA EntryFacts ==
  ASSUME NEW e \in Entry
  PROVE  /\ e.key \in Keys /\ e.value \in Values
         /\ e.key \in Seq(Byte) /\ e.value \in Seq(Byte)
         /\ Len(e.key) \in Nat \ {0} /\ Len(e.value) \in Nat \ {0}
         /\ Width(e) \in Nat \ {0}
         /\ e.key \o e.value \in Seq(Byte) /\ Len(e.key \o e.value) = Width(e)
<1>1. e.key \in Keys /\ e.value \in Values
  BY DEF Entry
<1>2. /\ e.key \in Seq(Byte) /\ e.value \in Seq(Byte) /\ e.key # <<>> /\ e.value # <<>>
  BY <1>1, BuilderAssumption
<1>3. /\ Len(e.key) \in Nat \ {0} /\ Len(e.value) \in Nat \ {0}
  <2>1. \A s \in Seq(Byte) : s # <<>> => Len(s) \in Nat \ {0}
    BY LenProperties, EmptySeq
  <2> QED BY <1>2, <2>1
<1>4. Width(e) \in Nat \ {0}
  <2>1. \A a, b \in Nat \ {0} : a + b \in Nat \ {0}
    OBVIOUS
  <2> QED BY <1>3, <2>1, Zenon DEF Width
<1>5. /\ e.key \o e.value \in Seq(Byte) /\ Len(e.key \o e.value) = Len(e.key) + Len(e.value)
  BY <1>2, ConcatProperties
<1> QED BY <1>1, <1>2, <1>3, <1>4, <1>5 DEF Width

\* What is laid out in the buffer is arranged there.
LEMMA LaidIsArranged ==
  ASSUME NEW s \in Seq(Byte), NEW es, es \subseteq Entry, NEW lo \in Nat, NEW hi \in Nat,
         hi <= Len(s), NEW at, Laid(s, es, lo, hi, at)
  PROVE  at \in [es -> Starts(s, es, lo, hi)] /\ Arranged(s, es, lo, hi, at)
<1>0. Len(s) \in Nat
  BY LenProperties
<1>1. ASSUME NEW e \in es PROVE EntryAt(s, e, at[e], hi) /\ at[e] \in lo .. hi
  <2>1. PICK t, o : t = e.key \o e.value /\ o = at[e]
    OBVIOUS
  <2>2. e \in Entry
    OBVIOUS
  <2>3. Width(e) \in Nat \ {0} /\ t \in Seq(Byte) /\ Len(t) = Width(e)
    BY <2>1, <2>2, EntryFacts
  <2>4. o \in Nat /\ lo <= o /\ Occurs(t, s, o) /\ o + Width(e) <= hi
    BY <2>1 DEF Laid, InPlace
  <2>5. o + Len(t) <= Len(s)
    BY <1>0, <2>3, <2>4
  <2>6. Slice(s, o, o + Len(t)) = t
    BY <2>3, <2>4, <2>5, SliceIsOccurs
  <2>7. EntryAt(s, e, o, hi)
    BY <2>1, <2>3, <2>4, <2>6 DEF EntryAt
  <2>8. o \in lo .. hi
    BY <2>3, <2>4
  <2> QED BY <2>1, <2>7, <2>8
<1>2. at \in [es -> Starts(s, es, lo, hi)]
  <2>1. \A e \in es : at[e] \in Starts(s, es, lo, hi)
    BY <1>1 DEF Starts
  <2>2. at \in [es -> Nat]
    BY DEF Laid
  <2> QED BY <2>1, <2>2
<1>3. \A o \in lo .. hi - 1 : \E e \in es : at[e] <= o /\ o < at[e] + Width(e)
  <2>1. \A o \in lo .. hi - 1 : o \in Nat /\ lo <= o /\ o < hi
    OBVIOUS
  <2> QED BY <2>1 DEF Laid
<1>4. \A e, f \in es : Apart(e, f, at)
  BY DEF Laid
<1>5. Arranged(s, es, lo, hi, at)
  BY <1>1, <1>3, <1>4 DEF Arranged, Apart
<1> QED BY <1>2, <1>5

\* Only the bytes of the entries matter.
LEMMA LaidSame ==
  ASSUME NEW s \in Seq(Byte), NEW s2 \in Seq(Byte), NEW es, es \subseteq Entry,
         NEW lo \in Nat, NEW hi \in Nat, hi <= Len(s2),
         \A o \in Nat : o < hi => At(s2, o) = At(s, o),
         NEW at, Laid(s, es, lo, hi, at)
  PROVE  Laid(s2, es, lo, hi, at)
<1>0. Len(s2) \in Nat
  BY LenProperties
<1>1. ASSUME NEW e \in es PROVE InPlace(s2, e, at, hi)
  <2>1. PICK t, o : t = e.key \o e.value /\ o = at[e]
    OBVIOUS
  <2>2. e \in Entry
    OBVIOUS
  <2>3. Width(e) \in Nat \ {0} /\ t \in Seq(Byte) /\ Len(t) = Width(e)
    BY <2>1, <2>2, EntryFacts
  <2>4. o \in Nat /\ Occurs(t, s, o) /\ o + Width(e) <= hi
    BY <2>1 DEF Laid, InPlace
  <2>5. ASSUME NEW i \in Nat, i < Len(t) PROVE At(s2, o + i) = At(t, i)
    <3>1. o + i \in Nat /\ o + i < hi
      BY <2>3, <2>4, <2>5
    <3>2. At(s2, o + i) = At(s, o + i)
      BY <3>1
    <3> QED BY <2>4, <2>5, <3>2 DEF Occurs
  <2>6. o + Len(t) <= Len(s2)
    BY <1>0, <2>3, <2>4
  <2>7. Occurs(t, s2, o)
    BY <2>4, <2>5, <2>6 DEF Occurs
  <2> QED BY <2>1, <2>4, <2>7 DEF InPlace
<1> QED BY <1>1 DEF Laid

\* The entries are w further on.
MovedAt(es, at, w, at2) == \A e \in es : at2[e] = at[e] + w

\* Moved as a whole, the entries are where they were in it.
LEMMA LaidBehind ==
  ASSUME NEW s \in Seq(Byte), NEW s2 \in Seq(Byte), NEW es, es \subseteq Entry,
         NEW size \in Nat, NEW w \in Nat, NEW hi, hi = w + size, hi <= Len(s2),
         MovedBehind(s, s2, 0, size, w), NEW at, Laid(s, es, 0, size, at),
         NEW at2, at2 \in [es -> Nat], MovedAt(es, at, w, at2)
  PROVE  Laid(s2, es, w, hi, at2)
<1>0. Len(s2) \in Nat /\ hi \in Nat
  BY LenProperties
<1>1. \A e \in es : at2[e] = at[e] + w
  BY DEF MovedAt
<1>2. ASSUME NEW e \in es
      PROVE  /\ at[e] \in Nat /\ Width(e) \in Nat \ {0} /\ at2[e] = at[e] + w
             /\ at2[e] \in Nat /\ w <= at2[e] /\ InPlace(s2, e, at2, hi)
  <2>1. PICK t, o : t = e.key \o e.value /\ o = at[e]
    OBVIOUS
  <2>2. e \in Entry
    OBVIOUS
  <2>3. Width(e) \in Nat \ {0} /\ t \in Seq(Byte) /\ Len(t) = Width(e)
    BY <2>1, <2>2, EntryFacts
  <2>4. o \in Nat /\ Occurs(t, s, o) /\ o + Width(e) <= size
    BY <2>1 DEF Laid, InPlace
  <2>5. PICK p \in Nat : p = o + w /\ p = at2[e] /\ w <= p
    BY <1>1, <2>1, <2>4
  <2>6. ASSUME NEW i \in Nat, i < Len(t) PROVE At(s2, p + i) = At(t, i)
    <3>1. PICK j \in Nat : j = o + i /\ 0 <= j /\ j < size /\ j + w = p + i
      BY <2>3, <2>4, <2>5, <2>6
    <3>2. At(s2, j + w) = At(s, j)
      BY <3>1 DEF MovedBehind
    <3>3. At(s, j) = At(t, i)
      BY <2>4, <2>6, <3>1 DEF Occurs
    <3> QED BY <3>1, <3>2, <3>3
  <2>7. p + Len(t) <= Len(s2) /\ p + Width(e) <= hi
    BY <1>0, <2>3, <2>4, <2>5
  <2>8. Occurs(t, s2, p)
    BY <2>5, <2>6, <2>7 DEF Occurs
  <2> QED BY <2>1, <2>3, <2>4, <2>5, <2>7, <2>8 DEF InPlace
<1>3. at2 \in [es -> Nat]
  OBVIOUS
<1>4. ASSUME NEW e \in es, NEW f \in es PROVE Apart(e, f, at2)
  <2>1. Apart(e, f, at)
    BY DEF Laid
  <2>2. /\ at[e] \in Nat /\ Width(e) \in Nat /\ at2[e] = at[e] + w
        /\ at[f] \in Nat /\ Width(f) \in Nat /\ at2[f] = at[f] + w
    BY <1>2
  <2>3. PICK x, y, k, l, p, q : /\ x = at[e] /\ k = Width(e) /\ p = at2[e]
                               /\ y = at[f] /\ l = Width(f) /\ q = at2[f]
    OBVIOUS
  <2>4. x \in Nat /\ k \in Nat /\ p = x + w /\ y \in Nat /\ l \in Nat /\ q = y + w
    BY <2>2, <2>3, Zenon
  <2>5. (x + k <= y => p + k <= q) /\ (y + l <= x => q + l <= p)
    BY <2>4
  <2> QED BY <2>1, <2>3, <2>5, Zenon DEF Apart
<1>5. ASSUME NEW o \in Nat, w <= o, o < hi
      PROVE  \E e \in es : at2[e] <= o /\ o < at2[e] + Width(e)
  <2>1. PICK i \in Nat : o = i + w /\ 0 <= i /\ i < size
    <3>1. o - w \in Nat /\ o = o - w + w /\ o - w < size
      BY <1>5
    <3> QED BY <3>1
  <2>2. PICK e \in es : at[e] <= i /\ i < at[e] + Width(e)
    BY <2>1 DEF Laid
  <2>3. PICK a, v, x : a = at[e] /\ v = Width(e) /\ x = at2[e]
    OBVIOUS
  <2>4. a \in Nat /\ v \in Nat /\ a <= i /\ i < a + v /\ x = a + w
    BY <1>2, <2>2, <2>3
  <2>5. x <= o /\ o < x + v
    BY <2>1, <2>4
  <2> QED BY <2>3, <2>5
<1> QED BY <1>1, <1>2, <1>3, <1>4, <1>5 DEF Laid

\* Offset p is where the key k belongs.
Parts(es, at, p, k) ==
  \A e \in es :
    \/ at[e] + Width(e) <= p /\ LexLess(e.key, k)
    \/ p <= at[e] /\ LexLess(k, e.key)

\* Where the entries are when n is put at p.
With(es, at, n, p) ==
  [e \in es \cup {n} |-> IF e = n THEN p ELSE IF at[e] < p THEN at[e] ELSE at[e] + Width(n)]

\* An entry that is put where its key belongs extends the map.
LEMMA LaidAdd ==
  ASSUME NEW s \in Seq(Byte), NEW s2 \in Seq(Byte), Len(s2) = Len(s), NEW es, es \subseteq Entry,
         NEW n \in Entry, NEW size \in Nat, NEW p \in Nat, p <= size,
         size + Width(n) <= Len(s), NEW at, Laid(s, es, 0, size, at), Parts(es, at, p, n.key),
         Occurs(n.key \o n.value, s2, p), MovedBehind(s, s2, p, size, Width(n))
  PROVE  n \notin es /\ Laid(s2, es \cup {n}, 0, size + Width(n), With(es, at, n, p))
<1>0. PICK w, at2 : w = Width(n) /\ at2 = With(es, at, n, p)
  OBVIOUS
<1>1. w \in Nat \ {0} /\ n.key \in Seq(Byte) /\ n.value \in Seq(Byte) /\ Len(s) \in Nat
      /\ Len(n.key \o n.value) = w
  BY <1>0, EntryFacts, LenProperties
<1>2. n \notin es
  <2> SUFFICES ASSUME n \in es PROVE FALSE
    OBVIOUS
  <2>1. LexLess(n.key, n.key)
    BY DEF Parts
  <2> QED BY <1>1, <2>1, LexIrreflexive
<1>3. ASSUME NEW e \in es
      PROVE  /\ e.key \in Seq(Byte) /\ e.value \in Seq(Byte) /\ Width(e) \in Nat \ {0}
             /\ at[e] \in Nat /\ at[e] + Width(e) <= size
             /\ \/ at[e] + Width(e) <= p /\ at[e] < p /\ at2[e] = at[e] /\ LexLess(e.key, n.key)
                \/ p <= at[e] /\ ~(at[e] < p) /\ at2[e] = at[e] + w /\ LexLess(n.key, e.key)
  <2>1. e \in Entry
    OBVIOUS
  <2>2. e.key \in Seq(Byte) /\ e.value \in Seq(Byte) /\ Width(e) \in Nat \ {0}
    BY <2>1, EntryFacts
  <2>3. at[e] \in Nat /\ at[e] + Width(e) <= size
    BY DEF Laid, InPlace
  <2>4. at2[e] = IF at[e] < p THEN at[e] ELSE at[e] + w
    <3>1. e \in es \cup {n} /\ e # n
      BY <1>2
    <3> QED BY <1>0, <3>1 DEF With
  <2>5. \/ at[e] + Width(e) <= p /\ LexLess(e.key, n.key)
        \/ p <= at[e] /\ LexLess(n.key, e.key)
    BY DEF Parts
  <2>6. \A a, b \in Nat : a + b <= p /\ b # 0 => a < p
    OBVIOUS
  <2>7. p <= at[e] => ~(at[e] < p)
    BY <2>3
  <2> QED BY <2>2, <2>3, <2>4, <2>5, <2>6, <2>7
<1>4. at2[n] = p /\ at2 \in [es \cup {n} -> Nat]
  <2>1. \A e \in es : at2[e] \in Nat
    <3> SUFFICES ASSUME NEW e \in es PROVE at2[e] \in Nat
      OBVIOUS
    <3>1. at[e] + w \in Nat
      BY <1>1, <1>3
    <3> QED BY <1>3, <3>1
  <2>2. at2[n] = p
    BY <1>0 DEF With
  <2>3. at2 = [e \in es \cup {n} |-> at2[e]]
    BY <1>0 DEF With
  <2>4. \A e \in es \cup {n} : at2[e] \in Nat
    BY <2>1, <2>2
  <2> QED BY <2>2, <2>3, <2>4
<1>5. ASSUME NEW e \in es PROVE InPlace(s2, e, at2, size + w)
  <2>1. PICK t, o, v : t = e.key \o e.value /\ o = at[e] /\ v = Width(e)
    OBVIOUS
  <2>2. e \in Entry
    OBVIOUS
  <2>3. v \in Nat \ {0} /\ t \in Seq(Byte) /\ Len(t) = v
    BY <2>1, <2>2, EntryFacts
  <2>4. o \in Nat /\ Occurs(t, s, o) /\ o + v <= size
    BY <2>1 DEF Laid, InPlace
  <2>5. \A i \in Nat : i < v => At(s, o + i) = At(t, i)
    BY <2>3, <2>4 DEF Occurs
  <2>6. CASE o + v <= p /\ at2[e] = o
    <3>1. ASSUME NEW i \in Nat, i < v PROVE At(s2, o + i) = At(t, i)
      <4>1. o + i \in Nat /\ o + i < p
        BY <2>3, <2>4, <2>6, <3>1
      <4> QED BY <2>5, <3>1, <4>1 DEF MovedBehind
    <3>2. o + v <= Len(s2) /\ o + v <= size + w
      BY <1>0, <1>1, <2>3, <2>4
    <3> QED BY <2>1, <2>3, <2>4, <2>6, <3>1, <3>2 DEF Occurs, InPlace
  <2>7. CASE p <= o /\ at2[e] = o + w
    <3>1. ASSUME NEW i \in Nat, i < v PROVE At(s2, o + w + i) = At(t, i)
      <4>1. o + i \in Nat /\ p <= o + i /\ o + i < size /\ o + i + w = o + w + i
        BY <1>1, <2>3, <2>4, <2>7, <3>1
      <4>2. At(s2, o + i + w) = At(s, o + i)
        BY <1>0, <4>1 DEF MovedBehind
      <4> QED BY <2>5, <3>1, <4>1, <4>2
    <3>2. o + w \in Nat /\ o + w + v <= Len(s2) /\ o + w + v <= size + w
      BY <1>0, <1>1, <2>3, <2>4
    <3> QED BY <2>1, <2>3, <2>4, <2>7, <3>1, <3>2 DEF Occurs, InPlace
  <2> QED BY <1>3, <2>1, <2>6, <2>7
<1>6. InPlace(s2, n, at2, size + w)
  <2>1. p + w <= size + w
    BY <1>1
  <2> QED BY <1>0, <1>4, <2>1 DEF InPlace
<1>7. ASSUME NEW e \in es PROVE Apart(e, n, at2) /\ Apart(n, e, at2)
  <2>1. CASE at[e] + Width(e) <= p /\ at2[e] = at[e] /\ LexLess(e.key, n.key)
    BY <1>4, <2>1 DEF Apart
  <2>2. CASE p <= at[e] /\ at2[e] = at[e] + w /\ LexLess(n.key, e.key)
    <3>1. p + Width(n) <= at2[e]
      BY <1>0, <1>1, <1>3, <2>2
    <3> QED BY <1>4, <2>2, <3>1 DEF Apart
  <2> QED BY <1>3, <2>1, <2>2
<1>8. ASSUME NEW e \in es, NEW f \in es, LexLess(e.key, f.key), at[e] + Width(e) <= at[f]
      PROVE  at2[e] + Width(e) <= at2[f]
  <2>1. PICK a, b, c, x, y : a = at[e] /\ b = at[f] /\ c = Width(e) /\ x = at2[e] /\ y = at2[f]
    OBVIOUS
  <2>2. a \in Nat /\ c \in Nat \ {0} /\ ((a + c <= p /\ x = a) \/ (p <= a /\ x = a + w))
    <3>1. /\ at[e] \in Nat /\ Width(e) \in Nat \ {0}
          /\ (at[e] + Width(e) <= p /\ at2[e] = at[e]) \/ (p <= at[e] /\ at2[e] = at[e] + w)
      BY <1>3, Zenon
    <3> QED BY <2>1, <3>1, Zenon
  <2>3. b \in Nat /\ ((b < p /\ y = b) \/ (p <= b /\ y = b + w))
    <3>1. at[f] \in Nat /\ ((at[f] < p /\ at2[f] = at[f]) \/ (p <= at[f] /\ at2[f] = at[f] + w))
      BY <1>3, Zenon
    <3> QED BY <2>1, <3>1, Zenon
  <2>4. a + c <= b
    BY <1>8, <2>1
  <2>5. x + c <= y
    BY <1>1, <2>2, <2>3, <2>4
  <2> QED BY <2>1, <2>5
<1>9. ASSUME NEW e \in es, NEW f \in es PROVE Apart(e, f, at2)
  <2>1. Apart(e, f, at)
    BY DEF Laid
  <2> QED BY <1>8, <2>1 DEF Apart
<1>10. \A e, f \in es \cup {n} : Apart(e, f, at2)
  BY <1>7, <1>9 DEF Apart
<1>11. ASSUME NEW o \in Nat, o < size + w
       PROVE  \E e \in es \cup {n} : at2[e] <= o /\ o < at2[e] + Width(e)
  <2>1. CASE o < p
    <3>1. PICK e \in es : at[e] <= o /\ o < at[e] + Width(e)
      BY <2>1 DEF Laid
    <3>2. at2[e] = at[e]
      BY <1>3, <2>1, <3>1
    <3> QED BY <3>1, <3>2
  <2>2. CASE p <= o /\ o < p + w
    BY <1>0, <1>4, <2>2
  <2>3. CASE p + w <= o
    <3>1. PICK i \in Nat : o = i + w /\ i < size /\ p <= i
      <4>1. o - w \in Nat /\ o = o - w + w /\ o - w < size /\ p <= o - w
        BY <1>1, <1>11, <2>3
      <4> QED BY <4>1
    <3>2. PICK e \in es : at[e] <= i /\ i < at[e] + Width(e)
      BY <3>1 DEF Laid
    <3>3. PICK a, v, x : a = at[e] /\ v = Width(e) /\ x = at2[e]
      OBVIOUS
    <3>4. a \in Nat /\ v \in Nat /\ a <= i /\ i < a + v /\ (a + v <= p \/ x = a + w)
      BY <1>3, <3>2, <3>3
    <3>5. x <= o /\ o < x + v
      BY <1>1, <3>1, <3>4
    <3> QED BY <3>3, <3>5
  <2> QED BY <1>1, <2>1, <2>2, <2>3
<1>12. Laid(s2, es \cup {n}, 0, size + w, at2)
  BY <1>4, <1>5, <1>6, <1>10, <1>11 DEF Laid
<1> QED BY <1>0, <1>2, <1>12

\* What is in a part of the buffer is in the slice of that part.
LEMMA OccursInSlice ==
  ASSUME NEW s \in Seq(Byte), NEW t \in Seq(Byte), NEW a \in Nat, NEW b \in Nat, NEW d \in Nat,
         NEW c, c = a + d, Occurs(t, s, c), c + Len(t) <= b, b <= Len(s)
  PROVE  Slice(s, a, b) \in Seq(Byte) /\ Len(Slice(s, a, b)) = b - a /\ Occurs(t, Slice(s, a, b), d)
<1>1. Len(s) \in Nat /\ Len(t) \in Nat
  BY LenProperties
<1>2. a <= b
  BY <1>1
<1>3. PICK x : x = Slice(s, a, b)
  OBVIOUS
<1>4. /\ x \in Seq(Byte) /\ Len(x) = b - a
      /\ \A o \in Nat : o < b - a => At(x, o) = At(s, a + o)
  BY <1>2, <1>3, SliceFacts, ZenonT(60)
<1>5. ASSUME NEW i \in Nat, i < Len(t) PROVE At(x, d + i) = At(t, i)
  <2>1. d + i \in Nat /\ d + i < b - a /\ a + (d + i) = c + i
    BY <1>1, <1>5
  <2>2. At(x, d + i) = At(s, c + i)
    BY <1>4, <2>1
  <2>3. At(s, c + i) = At(t, i)
    BY <1>5 DEF Occurs
  <2> QED BY <2>2, <2>3
<1>6. d + Len(t) <= Len(x)
  BY <1>1, <1>4
<1> QED BY <1>3, <1>4, <1>5, <1>6 DEF Occurs

\* What cbor_raw_map_insert reads of the entry the cursor is at.
LEMMA FirstEntry ==
  ASSUME NEW s \in Seq(Byte), Len(s) <= SizeMax, NEW e \in Entry, Occurs(e.key \o e.value, s, 0)
  PROVE  /\ Jump(s, 0) = Len(e.key) /\ Slice(s, 0, Jump(s, 0)) = e.key
         /\ Jump(Slice(s, Jump(s, 0), Len(s)), 0) = Len(e.value)
<1>1. /\ e.key \in Keys /\ e.value \in Values
      /\ e.key \in Seq(Byte) /\ e.value \in Seq(Byte)
      /\ Len(e.key) \in Nat \ {0} /\ Len(e.value) \in Nat \ {0}
  BY EntryFacts
<1>2. /\ e.key # <<>> /\ DetLength(e.key) = Len(e.key)
      /\ e.value # <<>> /\ DetLength(e.value) = Len(e.value)
  BY <1>1, BuilderAssumption
<1>3. Occurs(e.key, s, 0) /\ Occurs(e.value, s, 0 + Len(e.key))
  BY <1>1, OccursBoth
<1>4. PICK k \in Nat, v \in Nat, n \in Nat : k = Len(e.key) /\ v = Len(e.value) /\ n = Len(s)
  BY <1>1, LenProperties
<1>5. Jump(s, 0) = k
  BY <1>1, <1>2, <1>3, <1>4, JumpOverItem
<1>6. 0 + k = k /\ k + 0 = k
  BY <1>4
<1>7. k <= n /\ k + v <= n
  BY <1>3, <1>4, <1>6 DEF Occurs
<1>8. Slice(s, 0, k) = e.key
  <2>1. Slice(s, 0, 0 + Len(e.key)) = e.key
    BY <1>1, <1>3, <1>4, <1>6, <1>7, SliceIsOccurs
  <2> QED BY <1>4, <1>6, <2>1
<1>9. /\ Slice(s, k, n) \in Seq(Byte) /\ Len(Slice(s, k, n)) = n - k
      /\ Occurs(e.value, Slice(s, k, n), 0)
  <2>1. Occurs(e.value, s, k)
    BY <1>3, <1>4, <1>6
  <2>2. 0 \in Nat /\ k = k + 0 /\ n <= Len(s)
    BY <1>4
  <2>3. k + Len(e.value) <= n
    BY <1>4, <1>7, Zenon
  <2> QED BY <1>1, <2>1, <2>2, <2>3, OccursInSlice
<1>10. Len(Slice(s, k, n)) <= SizeMax
  BY <1>4, <1>7, <1>9, SizeAssumption
<1>11. Jump(Slice(s, k, n), 0) = v
  BY <1>1, <1>2, <1>4, <1>9, <1>10, JumpOverItem
<1> QED BY <1>4, <1>5, <1>8, <1>11

\* The cursor is at an entry, or behind the last one.
LEMMA AtCursor ==
  ASSUME out \in Seq(Byte), Len(out) <= SizeMax, NEW es, es \subseteq Entry,
         off2 \in Nat, off2 <= Len(out), poff \in Nat, poff < off2,
         NEW at, Laid(out, es, 0, off2, at), NEW k, Splits(es, at, poff, k)
  PROVE  \E e \in es : /\ at[e] = poff /\ offk = Len(e.key) /\ Slice(entries, 0, offk) = e.key
                       /\ offq = Len(e.value) /\ poff + Width(e) <= off2
<1>1. PICK e \in es : at[e] <= poff /\ poff < at[e] + Width(e)
  BY DEF Laid
<1>2. e \in Entry
  OBVIOUS
<1>3. Width(e) \in Nat \ {0} /\ e.key \o e.value \in Seq(Byte) /\ Len(e.key \o e.value) = Width(e)
  BY <1>2, EntryFacts
<1>4. at[e] \in Nat /\ Occurs(e.key \o e.value, out, at[e]) /\ at[e] + Width(e) <= off2
  BY DEF Laid, InPlace
<1>5. at[e] = poff
  <2>1. at[e] + Width(e) <= poff \/ poff <= at[e]
    BY DEF Splits
  <2> QED BY <1>1, <1>3, <1>4, <2>1
<1>6. PICK s : s = Slice(out, poff, off2)
  OBVIOUS
<1>7. s \in Seq(Byte) /\ Len(s) = off2 - poff /\ Occurs(e.key \o e.value, s, 0)
  <2>1. PICK t : t = e.key \o e.value
    OBVIOUS
  <2>2. t \in Seq(Byte) /\ Occurs(t, out, poff) /\ poff + Len(t) <= off2
    BY <1>3, <1>4, <1>5, <2>1
  <2>3. PICK o \in Seq(Byte), a \in Nat, b \in Nat, z \in Nat :
          o = out /\ a = poff /\ b = off2 /\ z = 0
    OBVIOUS
  <2>4. a = a + z /\ Occurs(t, o, a) /\ a + Len(t) <= b /\ b <= Len(o)
    BY <2>2, <2>3
  <2>5. Slice(o, a, b) \in Seq(Byte) /\ Len(Slice(o, a, b)) = b - a /\ Occurs(t, Slice(o, a, b), z)
    BY <2>2, <2>4, OccursInSlice
  <2> QED BY <1>6, <2>1, <2>3, <2>5
<1>8. Len(s) <= SizeMax
  <2>1. Len(out) \in Nat
    BY LenProperties
  <2> QED BY <1>7, <2>1, SizeAssumption
<1>9. /\ Jump(s, 0) = Len(e.key) /\ Slice(s, 0, Jump(s, 0)) = e.key
      /\ Jump(Slice(s, Jump(s, 0), Len(s)), 0) = Len(e.value)
  BY <1>2, <1>7, <1>8, FirstEntry
<1> QED BY <1>4, <1>5, <1>6, <1>9 DEF offk, offq, entries

-----------------------------------------------------------------------------
(* The inductive invariant *)

New == [key |-> key, value |-> value]

TypeInv ==
  /\ pc \in {"entries", "value", "insert", "done", "failed"}
  /\ pres \in {"idle", "progress", "success", "failure"}
  /\ inserted \subseteq Entry /\ IsFiniteSet(inserted)
  /\ pcount \in Nat /\ pcount = Cardinality(inserted) /\ pcount <= CountMax
  /\ pc \in {"value", "insert"} => pcount < CountMax
  /\ psize \in Nat

BufferInv ==
  pc # "done" => out \in Seq(Byte) /\ Len(out) <= SizeMax /\ psize <= Len(out)

\* What has been written behind the entries is there until it is rotated.
KeyWritten ==
  /\ key \in Keys /\ size1 = psize + Len(key) /\ size1 <= Len(out)
  /\ pres # "success" => Occurs(key, out, psize)

ValueWritten ==
  /\ value \in Values /\ size2 = size1 + Len(value) /\ size2 <= Len(out)
  /\ pres # "success" => Occurs(value, out, size1)

WorkInv ==
  /\ pc \in {"value", "insert"} => KeyWritten
  /\ pc = "insert" => ValueWritten

CallInv ==
  pres # "idle" =>
    /\ pc = "insert" /\ off2 = psize /\ off3 = size1 /\ kvend = size2
    /\ poff \in Nat /\ poff <= psize

\* The map so far is laid out, and split by the cursor.
LaidInv ==
  pc # "done" /\ pres # "success" =>
    \E at : /\ Laid(out, inserted, 0, psize, at)
            /\ pres = "progress" => Splits(inserted, at, poff, key)

\* After a successful insertion the map with the new entry is.
SuccessInv ==
  pres = "success" =>
    New \notin inserted /\ \E at : Laid(out, inserted \cup {New}, 0, size2, at)

FailureInv == pres = "failure" => \E e \in inserted : e.key = key

IInv ==
  /\ TypeInv /\ BufferInv /\ WorkInv /\ CallInv
  /\ LaidInv /\ SuccessInv /\ FailureInv /\ GivesUpForAReason

-----------------------------------------------------------------------------
\* What the comparison of two keys says.
LEMMA OrderFacts ==
  ASSUME NEW a \in Seq(Byte), NEW b \in Seq(Byte)
  PROVE  /\ LexCompare(a, b) < 0 => LexLess(a, b)
         /\ LexCompare(a, b) > 0 => LexLess(b, a)
         /\ LexCompare(a, b) = 0 => a = b
BY LexTotal DEF LexCompare

\* A part of the buffer where nothing changes is as it was.
LEMMA OccursSame ==
  ASSUME NEW s, NEW s2, Len(s2) = Len(s), NEW t \in Seq(Byte), NEW d \in Nat, NEW m \in Nat,
         Occurs(t, s, d), d + Len(t) <= m, \A o \in Nat : o < m => At(s2, o) = At(s, o)
  PROVE  Occurs(t, s2, d)
<1>1. Len(t) \in Nat
  BY LenProperties
<1>2. ASSUME NEW o \in Nat, o < Len(t) PROVE At(s2, d + o) = At(t, o)
  <2>1. d + o \in Nat /\ d + o < m
    BY <1>1, <1>2
  <2>2. At(s2, d + o) = At(s, d + o)
    BY <2>1
  <2> QED BY <1>2, <2>2 DEF Occurs
<1> QED BY <1>2 DEF Occurs

\* A key is not empty.
LEMMA KeyFacts ==
  ASSUME NEW k \in Keys
  PROVE  k \in Seq(Byte) /\ Len(k) \in Nat \ {0}
<1>1. k \in Seq(Byte) /\ k # <<>>
  BY BuilderAssumption
<1> QED BY <1>1, LenProperties, EmptySeq

\* A value is not empty.
LEMMA ValueFacts ==
  ASSUME NEW v \in Values
  PROVE  v \in Seq(Byte) /\ Len(v) \in Nat \ {0}
<1>1. v \in Seq(Byte) /\ v # <<>>
  BY BuilderAssumption
<1> QED BY <1>1, LenProperties, EmptySeq

-----------------------------------------------------------------------------
\* An empty map is laid out in an empty buffer.
LEMMA InitInv ==
  ASSUME Init
  PROVE  IInv
<1>1. PICK n \in Capacities : out = [i \in 1 .. n |-> 0]
  BY DEF Init
<1>2. n \in Nat /\ n <= SizeMax
  BY BuilderAssumption, SizeAssumption
<1>3. out \in Seq(Byte) /\ Len(out) = n
  <2>1. 0 \in Byte
    BY DEF Byte
  <2>2. out \in [1 .. n -> Byte]
    BY <1>1, <2>1
  <2>3. out \in Seq(Byte)
    BY <1>2, <2>2, SeqDef
  <2>4. DOMAIN out = 1 .. n /\ DOMAIN out = 1 .. Len(out) /\ Len(out) \in Nat
    BY <1>1, <2>3, LenProperties
  <2> QED BY <1>2, <2>3, <2>4
<1>4. TypeInv
  BY BuilderAssumption, FS_EmptySet DEF Init, TypeInv
<1>5. BufferInv
  <2>1. 0 <= Len(out) /\ Len(out) <= SizeMax
    BY <1>2, <1>3
  <2> QED BY <1>3, <2>1 DEF Init, BufferInv
<1>6. WorkInv /\ CallInv /\ SuccessInv /\ FailureInv /\ GivesUpForAReason
  BY DEF Init, WorkInv, CallInv, SuccessInv, FailureInv, GivesUpForAReason
<1>7. LaidInv
  <2> DEFINE at == [e \in {} |-> 0]
  <2>1. at \in [{} -> Nat]
    OBVIOUS
  <2> HIDE DEF at
  <2>2. ~(\E o \in Nat : o < 0)
    OBVIOUS
  <2>3. Laid(out, {}, 0, 0, at)
    BY <2>1, <2>2 DEF Laid
  <2> QED BY <2>3 DEF Init, LaidInv
<1> QED BY <1>4, <1>5, <1>6, <1>7 DEF IInv

\* Nothing is written when the count is at its limit.
LEMMA CountFullInv ==
  ASSUME IInv, CountFull
  PROVE  IInv'
<1>1. /\ pc = "entries" /\ pc' = "failed" /\ ~(pcount < CountMax)
      /\ UNCHANGED <<out, off2, off3, kvend, poff, pres>>
      /\ UNCHANGED <<pcount, psize, size1, size2, key, value, ret, inserted>>
  BY DEF CountFull, insertVars, cells, work
<1>2. pcount = CountMax
  BY <1>1, BuilderAssumption DEF IInv, TypeInv
<1>3. pres = "idle"
  BY <1>1 DEF IInv, CallInv, TypeInv
<1>4. TypeInv'
  BY <1>1 DEF IInv, TypeInv
<1>5. BufferInv' /\ WorkInv' /\ CallInv' /\ SuccessInv' /\ FailureInv'
  BY <1>1, <1>3 DEF IInv, BufferInv, WorkInv, CallInv, SuccessInv, FailureInv
<1>6. LaidInv'
  BY <1>1, <1>3 DEF IInv, LaidInv
<1>7. GivesUpForAReason'
  BY <1>1, <1>2 DEF GivesUpForAReason
<1> QED BY <1>4, <1>5, <1>6, <1>7 DEF IInv

\* A key is written behind the entries.
LEMMA WriteKeyInv ==
  ASSUME IInv, NEW k \in Keys, WriteKey(k)
  PROVE  IInv'
<1>1. /\ pc = "entries" /\ key' = k /\ pcount < CountMax
      /\ UNCHANGED <<off2, off3, kvend, poff, pres>>
      /\ UNCHANGED <<pcount, psize, size2, value, ret, inserted>>
  BY DEF WriteKey, arguments, cells
<1>2. pres = "idle" /\ out \in Seq(Byte) /\ Len(out) <= SizeMax /\ psize <= Len(out)
  BY <1>1 DEF IInv, CallInv, TypeInv, BufferInv
<1>3. k \in Seq(Byte) /\ Len(k) \in Nat \ {0} /\ Len(out) \in Nat /\ psize \in Nat
  BY <1>2, KeyFacts, LenProperties DEF IInv, TypeInv
<1>4. PICK at : Laid(out, inserted, 0, psize, at)
  BY <1>1, <1>2 DEF IInv, LaidInv
<1>5. inserted \subseteq Entry
  BY DEF IInv, TypeInv
<1>6. CASE Fits(k, psize)
  <2>1. out' = Written(out, psize, k) /\ size1' = Size(psize + Len(k)) /\ pc' = "value"
    BY <1>6 DEF WriteKey
  <2>2. psize + Len(k) <= Len(out)
    BY <1>3, <1>6 DEF Fits
  <2>3. size1' = psize + Len(k)
    <3>1. PICK x : x = psize + Len(k)
      OBVIOUS
    <3>2. x \in 0 .. SizeMax
      BY <1>2, <1>3, <2>2, <3>1, SizeAssumption
    <3> QED BY <2>1, <3>1, <3>2, SizeId
  <2>4. /\ out' \in Seq(Byte) /\ Len(out') = Len(out) /\ Occurs(k, out', psize)
        /\ \A o \in Nat : o < psize => At(out', o) = At(out, o)
    BY <1>2, <1>3, <2>1, <2>2, WrittenFacts
  <2>5. Laid(out', inserted, 0, psize, at)
    <3>1. PICK s, s2 : s = out /\ s2 = out'
      OBVIOUS
    <3>2. s \in Seq(Byte) /\ s2 \in Seq(Byte) /\ psize <= Len(s2) /\ Laid(s, inserted, 0, psize, at)
          /\ \A o \in Nat : o < psize => At(s2, o) = At(s, o)
      BY <1>2, <1>4, <2>4, <3>1
    <3>3. Laid(s2, inserted, 0, psize, at)
      BY <1>3, <1>5, <3>2, 0 \in Nat, LaidSame
    <3> QED BY <3>1, <3>3
  <2>6. TypeInv'
    BY <1>1, <2>1 DEF IInv, TypeInv
  <2>7. BufferInv'
    BY <1>1, <1>2, <2>1, <2>4 DEF BufferInv
  <2>8. WorkInv'
    BY <1>1, <2>1, <2>2, <2>3, <2>4 DEF WorkInv, KeyWritten
  <2>9. LaidInv'
    BY <1>1, <1>2, <2>5 DEF LaidInv
  <2>10. CallInv' /\ SuccessInv' /\ FailureInv' /\ GivesUpForAReason'
    BY <1>1, <1>2, <2>1 DEF CallInv, SuccessInv, FailureInv, GivesUpForAReason
  <2> QED BY <2>6, <2>7, <2>8, <2>9, <2>10 DEF IInv
<1>7. CASE ~Fits(k, psize)
  <2>1. out' = out /\ size1' = size1 /\ pc' = "failed"
    BY <1>7 DEF WriteKey
  <2>2. psize + Len(k) > Len(out)
    BY <1>3, <1>7 DEF Fits
  <2>3. TypeInv' /\ BufferInv'
    BY <1>1, <1>2, <2>1 DEF IInv, TypeInv, BufferInv
  <2>4. LaidInv'
    BY <1>1, <1>2, <1>4, <2>1 DEF LaidInv
  <2>5. WorkInv' /\ CallInv' /\ SuccessInv' /\ FailureInv'
    BY <1>1, <1>2, <2>1 DEF WorkInv, CallInv, SuccessInv, FailureInv
  <2>6. GivesUpForAReason'
    BY <1>1, <2>1, <2>2 DEF GivesUpForAReason
  <2> QED BY <2>3, <2>4, <2>5, <2>6 DEF IInv
<1> QED BY <1>6, <1>7

\* A value is written behind its key.
LEMMA WriteValueInv ==
  ASSUME IInv, NEW v \in Values, WriteValue(v)
  PROVE  IInv'
<1>1. /\ pc = "value" /\ value' = v
      /\ UNCHANGED <<off2, off3, kvend, poff, pres>>
      /\ UNCHANGED <<pcount, psize, size1, key, ret, inserted>>
  BY DEF WriteValue, arguments, cells
<1>2. pres = "idle" /\ out \in Seq(Byte) /\ Len(out) <= SizeMax /\ psize <= Len(out)
  BY <1>1 DEF IInv, CallInv, TypeInv, BufferInv
<1>3. key \in Keys /\ size1 = psize + Len(key) /\ size1 <= Len(out) /\ Occurs(key, out, psize)
  BY <1>1, <1>2 DEF IInv, WorkInv, KeyWritten
<1>4. /\ v \in Seq(Byte) /\ Len(v) \in Nat \ {0} /\ Len(out) \in Nat /\ psize \in Nat
      /\ key \in Seq(Byte) /\ Len(key) \in Nat \ {0}
  BY <1>2, <1>3, KeyFacts, ValueFacts, LenProperties DEF IInv, TypeInv
<1>5. size1 \in Nat /\ psize <= size1
  BY <1>3, <1>4
<1>6. PICK at : Laid(out, inserted, 0, psize, at)
  BY <1>1, <1>2 DEF IInv, LaidInv
<1>7. inserted \subseteq Entry
  BY DEF IInv, TypeInv
<1>8. CASE Fits(v, size1)
  <2>1. out' = Written(out, size1, v) /\ size2' = Size(size1 + Len(v)) /\ pc' = "insert"
    BY <1>8 DEF WriteValue
  <2>2. size1 + Len(v) <= Len(out)
    BY <1>4, <1>5, <1>8 DEF Fits
  <2>3. size2' = size1 + Len(v)
    <3>1. PICK x : x = size1 + Len(v)
      OBVIOUS
    <3>2. x \in 0 .. SizeMax
      BY <1>2, <1>4, <1>5, <2>2, <3>1, SizeAssumption
    <3> QED BY <2>1, <3>1, <3>2, SizeId
  <2>4. /\ out' \in Seq(Byte) /\ Len(out') = Len(out) /\ Occurs(v, out', size1)
        /\ \A o \in Nat : o < size1 => At(out', o) = At(out, o)
    BY <1>2, <1>4, <1>5, <2>1, <2>2, WrittenFacts
  <2>5. PICK s, s2 : s = out /\ s2 = out'
    OBVIOUS
  <2>6. Laid(out', inserted, 0, psize, at)
    <3>1. /\ s \in Seq(Byte) /\ s2 \in Seq(Byte) /\ psize <= Len(s2) /\ Laid(s, inserted, 0, psize, at)
          /\ \A o \in Nat : o < psize => At(s2, o) = At(s, o)
      BY <1>2, <1>4, <1>5, <1>6, <2>4, <2>5
    <3>2. Laid(s2, inserted, 0, psize, at)
      BY <1>4, <1>7, <3>1, 0 \in Nat, LaidSame
    <3> QED BY <2>5, <3>2
  <2>7. Occurs(key, out', psize)
    <3>1. Len(s2) = Len(s) /\ Occurs(key, s, psize) /\ psize + Len(key) <= size1
          /\ \A o \in Nat : o < size1 => At(s2, o) = At(s, o)
      BY <1>3, <1>4, <1>5, <2>4, <2>5
    <3>2. Occurs(key, s2, psize)
      BY <1>4, <1>5, <3>1, OccursSame
    <3> QED BY <2>5, <3>2
  <2>8. TypeInv'
    BY <1>1, <2>1 DEF IInv, TypeInv
  <2>9. BufferInv'
    BY <1>1, <1>2, <2>1, <2>4 DEF BufferInv
  <2>10. WorkInv'
    BY <1>1, <1>3, <2>1, <2>2, <2>3, <2>4, <2>7 DEF WorkInv, KeyWritten, ValueWritten
  <2>11. LaidInv'
    BY <1>1, <1>2, <2>6 DEF LaidInv
  <2>12. CallInv' /\ SuccessInv' /\ FailureInv' /\ GivesUpForAReason'
    BY <1>1, <1>2, <2>1 DEF CallInv, SuccessInv, FailureInv, GivesUpForAReason
  <2> QED BY <2>8, <2>9, <2>10, <2>11, <2>12 DEF IInv
<1>9. CASE ~Fits(v, size1)
  <2>1. out' = out /\ size2' = size2 /\ pc' = "failed"
    BY <1>9 DEF WriteValue
  <2>2. size1 + Len(v) > Len(out)
    BY <1>4, <1>5, <1>9 DEF Fits
  <2>3. TypeInv' /\ BufferInv'
    BY <1>1, <1>2, <2>1 DEF IInv, TypeInv, BufferInv
  <2>4. LaidInv'
    BY <1>1, <1>2, <1>6, <2>1 DEF LaidInv
  <2>5. WorkInv' /\ CallInv' /\ SuccessInv' /\ FailureInv'
    BY <1>1, <1>2, <2>1 DEF WorkInv, CallInv, SuccessInv, FailureInv
  <2>6. GivesUpForAReason'
    BY <1>1, <2>1, <2>2 DEF GivesUpForAReason
  <2> QED BY <2>3, <2>4, <2>5, <2>6 DEF IInv
<1> QED BY <1>8, <1>9

\* An excluded entry is given up.
LEMMA TableExcludesInv ==
  ASSUME IInv, TableExcludes
  PROVE  IInv'
<1>1. /\ pc = "insert" /\ pres = "idle" /\ <<key, value>> \in Excluded /\ pc' = "failed"
      /\ UNCHANGED <<out, off2, off3, kvend, poff, pres>>
      /\ UNCHANGED <<pcount, psize, size1, size2, key, value, ret, inserted>>
  BY DEF TableExcludes, insertVars, cells, work
<1>2. TypeInv'
  BY <1>1 DEF IInv, TypeInv
<1>3. BufferInv' /\ WorkInv' /\ CallInv' /\ SuccessInv' /\ FailureInv'
  BY <1>1 DEF IInv, BufferInv, WorkInv, CallInv, SuccessInv, FailureInv
<1>4. LaidInv'
  BY <1>1 DEF IInv, LaidInv
<1>5. GivesUpForAReason'
  BY <1>1 DEF GivesUpForAReason
<1> QED BY <1>2, <1>3, <1>4, <1>5 DEF IInv

\* An insertion starts in front of all entries.
LEMMA CallInsertInv ==
  ASSUME IInv, CallInsert
  PROVE  IInv'
<1>1. /\ pc = "insert" /\ pc' = "insert" /\ pres = "idle" /\ pres' = "progress"
      /\ off2' = psize /\ off3' = size1 /\ kvend' = size2 /\ poff' = 0
      /\ UNCHANGED <<out, pcount, psize, size1, size2, key, value, ret, inserted>>
  BY DEF CallInsert, InsertCall, cells, work
<1>2. TypeInv' /\ BufferInv'
  BY <1>1 DEF IInv, TypeInv, BufferInv
<1>3. WorkInv'
  BY <1>1 DEF IInv, WorkInv, KeyWritten, ValueWritten
<1>4. CallInv'
  BY <1>1 DEF IInv, TypeInv, CallInv
<1>5. LaidInv'
  <2>1. PICK at : Laid(out, inserted, 0, psize, at)
    BY <1>1 DEF IInv, LaidInv
  <2>2. \A e \in inserted : 0 <= at[e]
    BY <2>1 DEF Laid
  <2>3. Splits(inserted, at, 0, key)
    BY <2>2 DEF Splits
  <2> QED BY <1>1, <2>1, <2>3 DEF LaidInv
<1>6. SuccessInv' /\ FailureInv' /\ GivesUpForAReason'
  BY <1>1 DEF IInv, SuccessInv, FailureInv, GivesUpForAReason
<1> QED BY <1>2, <1>3, <1>4, <1>5, <1>6 DEF IInv

-----------------------------------------------------------------------------
\* What is known while an insertion looks for the place of its key.
LEMMA Progress ==
  ASSUME IInv, pres = "progress"
  PROVE  /\ pc = "insert" /\ off2 = psize /\ off3 = size1 /\ kvend = size2
         /\ poff \in Nat /\ psize \in Nat /\ size1 \in Nat /\ size2 \in Nat /\ poff <= psize
         /\ out \in Seq(Byte) /\ Len(out) \in Nat /\ Len(out) <= SizeMax /\ size2 <= Len(out)
         /\ psize <= size1 /\ size1 <= size2 /\ size2 = psize + Width(New)
         /\ inserted \subseteq Entry /\ New \in Entry /\ New.key = key /\ key \in Seq(Byte)
         /\ Slice(out, off2, off3) = key /\ Occurs(New.key \o New.value, out, psize)
         /\ \E at : Laid(out, inserted, 0, psize, at) /\ Splits(inserted, at, poff, key)
<1>1. /\ pc = "insert" /\ off2 = psize /\ off3 = size1 /\ kvend = size2
      /\ poff \in Nat /\ poff <= psize
  BY DEF IInv, CallInv
<1>2. /\ out \in Seq(Byte) /\ Len(out) <= SizeMax /\ psize \in Nat /\ inserted \subseteq Entry
      /\ Len(out) \in Nat
  BY <1>1, LenProperties DEF IInv, BufferInv, TypeInv
<1>3. /\ key \in Keys /\ size1 = psize + Len(key) /\ size1 <= Len(out) /\ Occurs(key, out, psize)
      /\ value \in Values /\ size2 = size1 + Len(value) /\ size2 <= Len(out)
      /\ Occurs(value, out, size1)
  BY <1>1 DEF IInv, WorkInv, KeyWritten, ValueWritten
<1>4. /\ key \in Seq(Byte) /\ Len(key) \in Nat \ {0}
      /\ value \in Seq(Byte) /\ Len(value) \in Nat \ {0}
  BY <1>3, KeyFacts, ValueFacts
<1>5. New \in Entry /\ New.key = key /\ New.value = value
  BY <1>3 DEF New, Entry
<1>6. /\ size1 \in Nat /\ size2 \in Nat /\ psize <= size1 /\ size1 <= size2
      /\ size2 = psize + (Len(key) + Len(value))
  BY <1>2, <1>3, <1>4
<1>7. Slice(out, psize, psize + Len(key)) = key
  BY <1>2, <1>3, <1>4, SliceIsOccurs
<1>8. Occurs(key \o value, out, psize)
  BY <1>2, <1>3, <1>4, OccursBoth
<1>9. \E at : Laid(out, inserted, 0, psize, at) /\ Splits(inserted, at, poff, key)
  BY <1>1 DEF IInv, LaidInv
<1> QED BY <1>1, <1>2, <1>3, <1>4, <1>5, <1>6, <1>7, <1>8, <1>9 DEF Width

\* The cursor goes on to the next entry.
LEMMA SkipEntryInv ==
  ASSUME IInv, SkipEntry, UNCHANGED <<pc, cells, work, ret, inserted>>
  PROVE  IInv'
<1>1. /\ pres = "progress" /\ pres' = "progress" /\ poff < off2 /\ order < 0
      /\ poff' = Size(poff + offk + offq)
      /\ UNCHANGED <<out, off2, off3, kvend>>
      /\ UNCHANGED <<pc, pcount, psize, size1, size2, key, value, ret, inserted>>
  BY DEF SkipEntry, Looking, arguments, cells, work
<1>2. /\ pc = "insert" /\ off2 = psize /\ poff \in Nat /\ psize \in Nat
      /\ size2 \in Nat /\ psize <= size2 /\ size2 <= Len(out) /\ Len(out) \in Nat
      /\ out \in Seq(Byte) /\ Len(out) <= SizeMax /\ inserted \subseteq Entry
      /\ key \in Seq(Byte) /\ Slice(out, off2, off3) = key
  BY <1>1, Progress
<1>3. PICK at : Laid(out, inserted, 0, psize, at) /\ Splits(inserted, at, poff, key)
  BY <1>1, Progress
<1>4. PICK e \in inserted :
        /\ at[e] = poff /\ offk = Len(e.key) /\ Slice(entries, 0, offk) = e.key
        /\ offq = Len(e.value) /\ poff + Width(e) <= off2
  <2>1. off2 <= Len(out)
    BY <1>2
  <2> QED BY <1>1, <1>2, <1>3, <2>1, AtCursor
<1>5. /\ e.key \in Seq(Byte) /\ Width(e) \in Nat \ {0} /\ Width(e) = Len(e.key) + Len(e.value)
      /\ Len(e.key) \in Nat /\ Len(e.value) \in Nat
  BY <1>2, EntryFacts DEF Width
<1>6. PICK k \in Nat, v \in Nat, w \in Nat, n \in Nat :
         k = Len(e.key) /\ v = Len(e.value) /\ w = Width(e) /\ n = Len(out)
  BY <1>2, <1>5
<1>7. offk = k /\ offq = v /\ w = k + v /\ w # 0 /\ poff + w <= psize /\ at[e] = poff
  BY <1>2, <1>4, <1>5, <1>6, Zenon
<1>8. psize <= n /\ n <= SizeMax
  <2>1. psize <= size2 /\ size2 <= n /\ n <= SizeMax
    BY <1>2, <1>6, Zenon
  <2> QED BY <1>2, <2>1
<1>9. poff' = poff + w
  <2>1. poff + k + v \in 0 .. SizeMax /\ poff + k + v = poff + w
    BY <1>2, <1>7, <1>8, SizeAssumption
  <2>2. poff' = Size(poff + k + v)
    BY <1>1, <1>7
  <2> QED BY <2>1, <2>2, SizeId
<1>10. LexLess(e.key, key)
  <2>1. e.key \in Seq(Byte) /\ key \in Seq(Byte)
    BY <1>2, <1>5
  <2>2. LexCompare(e.key, key) < 0
    <3>1. order = LexCompare(Slice(entries, 0, offk), Slice(out, off2, off3))
      BY DEF order
    <3>2. Slice(entries, 0, offk) = e.key
      BY <1>4
    <3>3. Slice(out, off2, off3) = key
      BY <1>2
    <3>4. order < 0
      BY <1>1
    <3> QED BY <3>1, <3>2, <3>3, <3>4
  <2>3. \A a, b \in Seq(Byte) : LexCompare(a, b) < 0 => LexLess(a, b)
    BY OrderFacts
  <2> QED BY <2>1, <2>2, <2>3
<1>11. Splits(inserted, at, poff', key)
  <2> SUFFICES ASSUME NEW f \in inserted
               PROVE  \/ at[f] + Width(f) <= poff' /\ LexLess(f.key, key)
                      \/ poff' <= at[f]
    BY DEF Splits
  <2>1. f \in Entry
    BY <1>2
  <2>2. f.key \in Seq(Byte) /\ Width(f) \in Nat \ {0} /\ at[f] \in Nat
    BY <1>3, <2>1, EntryFacts DEF Laid
  <2>3. Apart(e, f, at)
    BY <1>3 DEF Laid
  <2>4. CASE e = f
    <3>1. at[f] = poff /\ Width(f) = w
      BY <1>6, <1>7, <2>4
    <3>2. at[f] + Width(f) <= poff'
      BY <1>2, <1>9, <3>1
    <3> QED BY <1>10, <2>4, <3>2
  <2>5. CASE at[e] + Width(e) <= at[f]
    BY <1>9, <1>6, <1>7, <2>5
  <2>6. CASE LexLess(f.key, e.key) /\ at[f] + Width(f) <= at[e]
    <3>1. LexLess(f.key, key)
      BY <1>2, <1>5, <1>10, <2>2, <2>6, LexTransitive
    <3>2. at[f] + Width(f) <= poff'
      <4>1. PICK x \in Nat : x = at[f] + Width(f) /\ x <= poff
        BY <1>7, <2>2, <2>6
      <4> QED BY <1>2, <1>9, <4>1
    <3> QED BY <3>1, <3>2
  <2> QED BY <2>3, <2>4, <2>5, <2>6 DEF Apart
<1>12. poff' \in Nat /\ poff' <= psize
  BY <1>2, <1>9, <1>7
<1>13. TypeInv' /\ BufferInv'
  BY <1>1 DEF IInv, TypeInv, BufferInv
<1>14. WorkInv'
  BY <1>1 DEF IInv, WorkInv, KeyWritten, ValueWritten
<1>15. CallInv'
  BY <1>1, <1>12 DEF IInv, CallInv
<1>16. LaidInv'
  BY <1>1, <1>3, <1>11 DEF LaidInv
<1>17. SuccessInv' /\ FailureInv' /\ GivesUpForAReason'
  BY <1>1, <1>2 DEF SuccessInv, FailureInv, GivesUpForAReason
<1> QED BY <1>13, <1>14, <1>15, <1>16, <1>17 DEF IInv

\* The new entry is rotated in front of the entry at the cursor.
LEMMA InsertBeforeInv ==
  ASSUME IInv, InsertBefore, UNCHANGED <<pc, cells, work, ret, inserted>>
  PROVE  IInv'
<1>1. /\ pres = "progress" /\ pres' = "success" /\ poff < off2 /\ order > 0
      /\ out' = RotatedPart(out, poff, kvend, off2 - poff)
      /\ UNCHANGED <<off2, off3, kvend, poff>>
      /\ UNCHANGED <<pc, pcount, psize, size1, size2, key, value, ret, inserted>>
  BY DEF InsertBefore, Looking, arguments, cells, work
<1>2. /\ pc = "insert" /\ off2 = psize /\ kvend = size2 /\ poff \in Nat /\ psize \in Nat
      /\ size2 \in Nat /\ psize <= size2 /\ size2 <= Len(out) /\ Len(out) \in Nat
      /\ out \in Seq(Byte) /\ Len(out) <= SizeMax /\ inserted \subseteq Entry
      /\ key \in Seq(Byte) /\ Slice(out, off2, off3) = key /\ poff <= psize
      /\ New \in Entry /\ New.key = key /\ size2 = psize + Width(New)
      /\ Occurs(New.key \o New.value, out, psize)
  BY <1>1, Progress
<1>3. PICK at : Laid(out, inserted, 0, psize, at) /\ Splits(inserted, at, poff, key)
  BY <1>1, Progress
<1>4. PICK e \in inserted :
        /\ at[e] = poff /\ offk = Len(e.key) /\ Slice(entries, 0, offk) = e.key
        /\ offq = Len(e.value) /\ poff + Width(e) <= off2
  <2>1. off2 <= Len(out)
    BY <1>2
  <2> QED BY <1>1, <1>2, <1>3, <2>1, AtCursor
<1>5. e.key \in Seq(Byte) /\ Width(e) \in Nat \ {0}
  BY <1>2, EntryFacts
<1>6. LexLess(key, e.key)
  <2>1. e.key \in Seq(Byte) /\ key \in Seq(Byte)
    BY <1>2, <1>5
  <2>2. LexCompare(e.key, key) > 0
    <3>1. order = LexCompare(Slice(entries, 0, offk), Slice(out, off2, off3))
      BY DEF order
    <3>2. Slice(entries, 0, offk) = e.key
      BY <1>4
    <3>3. Slice(out, off2, off3) = key
      BY <1>2
    <3>4. order > 0
      BY <1>1
    <3> QED BY <3>1, <3>2, <3>3, <3>4
  <2>3. \A a, b \in Seq(Byte) : LexCompare(a, b) > 0 => LexLess(b, a)
    BY OrderFacts
  <2> QED BY <2>1, <2>2, <2>3
<1>7. Parts(inserted, at, poff, key)
  <2> SUFFICES ASSUME NEW f \in inserted
               PROVE  \/ at[f] + Width(f) <= poff /\ LexLess(f.key, key)
                      \/ poff <= at[f] /\ LexLess(key, f.key)
    BY DEF Parts
  <2>1. f \in Entry
    BY <1>2
  <2>2. f.key \in Seq(Byte) /\ Width(f) \in Nat \ {0} /\ at[f] \in Nat
    BY <1>3, <2>1, EntryFacts DEF Laid
  <2>3. Apart(e, f, at)
    BY <1>3 DEF Laid
  <2>4. (at[f] + Width(f) <= poff /\ LexLess(f.key, key)) \/ poff <= at[f]
    BY <1>3 DEF Splits
  <2>5. ASSUME poff <= at[f] PROVE LexLess(key, f.key)
    <3>1. CASE e = f
      BY <1>6, <3>1
    <3>2. CASE LexLess(e.key, f.key)
      BY <1>2, <1>5, <1>6, <2>2, <3>2, LexTransitive
    <3>3. CASE at[f] + Width(f) <= at[e]
      BY <1>2, <1>4, <2>2, <2>5, <3>3
    <3> QED BY <2>3, <3>1, <3>2, <3>3 DEF Apart
  <2> QED BY <2>4, <2>5
<1>8. PICK s, s2, w, l :
        s = out /\ s2 = out' /\ w = Width(New) /\ l = off2 - poff
  OBVIOUS
<1>9. /\ s \in Seq(Byte) /\ w \in Nat \ {0} /\ l \in Nat /\ psize = poff + l
      /\ size2 = psize + w /\ size2 <= Len(s) /\ Len(s) \in Nat
  <2>1. w \in Nat \ {0}
    BY <1>2, <1>8, EntryFacts
  <2> QED BY <1>1, <1>2, <1>8, <2>1
<1>10. /\ s2 \in Seq(Byte) /\ Len(s2) = Len(s)
       /\ MovedBehind(s, s2, poff, psize, w) /\ MovedAhead(s, s2, poff, psize, w)
  <2>1. s2 = RotatedPart(s, poff, size2, l)
    BY <1>1, <1>2, <1>8
  <2> QED BY <1>2, <1>9, <2>1, RotatedFacts
<1>12. Occurs(New.key \o New.value, s2, poff)
  <2>1. PICK t : t = New.key \o New.value
    OBVIOUS
  <2>2. t \in Seq(Byte) /\ Len(t) = w /\ Occurs(t, s, psize)
    BY <1>2, <1>8, <2>1, EntryFacts
  <2>3. ASSUME NEW o \in Nat, o < w PROVE At(s2, poff + o) = At(t, o)
    BY <1>10, <2>2, <2>3 DEF Occurs, MovedAhead
  <2>4. poff + w <= Len(s2)
    BY <1>2, <1>9, <1>10
  <2> QED BY <1>2, <2>1, <2>2, <2>3, <2>4 DEF Occurs
<1>13. New \notin inserted /\ \E at2 : Laid(out', inserted \cup {New}, 0, size2, at2)
  <2>1. Laid(s, inserted, 0, psize, at) /\ Parts(inserted, at, poff, New.key)
    BY <1>2, <1>3, <1>7, <1>8
  <2>2. psize + Width(New) <= Len(s) /\ MovedBehind(s, s2, poff, psize, Width(New))
    BY <1>8, <1>9, <1>10
  <2>3. New \notin inserted
        /\ Laid(s2, inserted \cup {New}, 0, psize + Width(New), With(inserted, at, New, poff))
    BY <1>2, <1>9, <1>10, <1>12, <2>1, <2>2, LaidAdd
  <2> QED BY <1>2, <1>8, <2>3
<1>14. TypeInv'
  BY <1>1 DEF IInv, TypeInv
<1>15. BufferInv'
  BY <1>1, <1>2, <1>8, <1>10 DEF BufferInv
<1>16. WorkInv'
  BY <1>1, <1>2, <1>8, <1>10 DEF IInv, WorkInv, KeyWritten, ValueWritten
<1>17. CallInv'
  BY <1>1 DEF IInv, CallInv
<1>18. SuccessInv'
  BY <1>1, <1>13 DEF SuccessInv, New
<1>19. LaidInv' /\ FailureInv' /\ GivesUpForAReason'
  BY <1>1, <1>2 DEF LaidInv, FailureInv, GivesUpForAReason
<1> QED BY <1>14, <1>15, <1>16, <1>17, <1>18, <1>19 DEF IInv

\* A key that is in the map is refused.
LEMMA SameKeyInv ==
  ASSUME IInv, SameKey, UNCHANGED <<pc, cells, work, ret, inserted>>
  PROVE  IInv'
<1>1. /\ pres = "progress" /\ pres' = "failure" /\ poff < off2 /\ order = 0
      /\ UNCHANGED <<out, off2, off3, kvend, poff>>
      /\ UNCHANGED <<pc, pcount, psize, size1, size2, key, value, ret, inserted>>
  BY DEF SameKey, Looking, arguments, cells, work
<1>2. /\ pc = "insert" /\ off2 = psize /\ poff \in Nat /\ psize \in Nat
      /\ size2 \in Nat /\ psize <= size2 /\ size2 <= Len(out) /\ Len(out) \in Nat
      /\ out \in Seq(Byte) /\ Len(out) <= SizeMax /\ inserted \subseteq Entry
      /\ key \in Seq(Byte) /\ Slice(out, off2, off3) = key
  BY <1>1, Progress
<1>3. PICK at : Laid(out, inserted, 0, psize, at) /\ Splits(inserted, at, poff, key)
  BY <1>1, Progress
<1>4. PICK e \in inserted :
        /\ at[e] = poff /\ offk = Len(e.key) /\ Slice(entries, 0, offk) = e.key
        /\ offq = Len(e.value) /\ poff + Width(e) <= off2
  <2>1. off2 <= Len(out)
    BY <1>2
  <2> QED BY <1>1, <1>2, <1>3, <2>1, AtCursor
<1>5. e.key = key
  <2>1. e.key \in Seq(Byte)
    BY <1>2, EntryFacts
  <2>2. e.key \in Seq(Byte) /\ key \in Seq(Byte)
    BY <1>2, <2>1
  <2>3. LexCompare(e.key, key) = 0
    <3>1. order = LexCompare(Slice(entries, 0, offk), Slice(out, off2, off3))
      BY DEF order
    <3>2. Slice(entries, 0, offk) = e.key
      BY <1>4
    <3>3. Slice(out, off2, off3) = key
      BY <1>2
    <3>4. order = 0
      BY <1>1
    <3> QED BY <3>1, <3>2, <3>3, <3>4
  <2>4. \A a, b \in Seq(Byte) : LexCompare(a, b) = 0 => a = b
    BY OrderFacts
  <2> QED BY <2>2, <2>3, <2>4
<1>6. TypeInv' /\ BufferInv'
  BY <1>1 DEF IInv, TypeInv, BufferInv
<1>7. WorkInv'
  BY <1>1 DEF IInv, WorkInv, KeyWritten, ValueWritten
<1>8. CallInv'
  BY <1>1 DEF IInv, CallInv
<1>9. LaidInv'
  BY <1>1, <1>3 DEF LaidInv
<1>10. FailureInv'
  BY <1>1, <1>5 DEF FailureInv
<1>11. SuccessInv' /\ GivesUpForAReason'
  BY <1>1, <1>2 DEF SuccessInv, GivesUpForAReason
<1> QED BY <1>6, <1>7, <1>8, <1>9, <1>10, <1>11 DEF IInv

\* The new entry stays behind the others.
LEMMA InsertLastInv ==
  ASSUME IInv, InsertLast, UNCHANGED <<pc, cells, work, ret, inserted>>
  PROVE  IInv'
<1>1. /\ pres = "progress" /\ pres' = "success" /\ ~(poff < off2)
      /\ UNCHANGED <<out, off2, off3, kvend, poff>>
      /\ UNCHANGED <<pc, pcount, psize, size1, size2, key, value, ret, inserted>>
  BY DEF InsertLast, arguments, cells, work
<1>2. /\ pc = "insert" /\ off2 = psize /\ poff \in Nat /\ psize \in Nat /\ poff <= psize
      /\ size2 \in Nat /\ psize <= size2 /\ size2 <= Len(out) /\ Len(out) \in Nat
      /\ out \in Seq(Byte) /\ inserted \subseteq Entry
      /\ New \in Entry /\ New.key = key /\ size2 = psize + Width(New)
      /\ Occurs(New.key \o New.value, out, psize)
  BY <1>1, Progress
<1>3. PICK at : Laid(out, inserted, 0, psize, at) /\ Splits(inserted, at, poff, key)
  BY <1>1, Progress
<1>4. poff = psize
  BY <1>1, <1>2
<1>5. Parts(inserted, at, psize, key)
  <2> SUFFICES ASSUME NEW f \in inserted
               PROVE  at[f] + Width(f) <= psize /\ LexLess(f.key, key)
    BY DEF Parts
  <2>1. f \in Entry
    BY <1>2
  <2>2. Width(f) \in Nat \ {0} /\ at[f] \in Nat /\ at[f] + Width(f) <= psize
    BY <1>3, <2>1, EntryFacts DEF Laid, InPlace
  <2>3. ~(psize <= at[f])
    BY <1>2, <2>2
  <2> QED BY <1>3, <1>4, <2>3 DEF Splits
<1>6. New \notin inserted /\ \E at2 : Laid(out, inserted \cup {New}, 0, size2, at2)
  <2>1. PICK s, w : s = out /\ w = Width(New)
    OBVIOUS
  <2>2. MovedBehind(s, s, psize, psize, w)
    <3>1. ~ \E o \in Nat : psize <= o /\ o < psize
      BY <1>2
    <3> QED BY <3>1 DEF MovedBehind
  <2>3. /\ s \in Seq(Byte) /\ psize + Width(New) <= Len(s) /\ psize <= psize
        /\ Laid(s, inserted, 0, psize, at) /\ Parts(inserted, at, psize, New.key)
        /\ MovedBehind(s, s, psize, psize, Width(New)) /\ Occurs(New.key \o New.value, s, psize)
    BY <1>2, <1>3, <1>5, <2>1, <2>2
  <2>4. New \notin inserted
        /\ Laid(s, inserted \cup {New}, 0, psize + Width(New), With(inserted, at, New, psize))
    BY <1>2, <2>3, LaidAdd
  <2> QED BY <1>2, <2>1, <2>4
<1>7. TypeInv' /\ BufferInv'
  BY <1>1 DEF IInv, TypeInv, BufferInv
<1>8. WorkInv'
  BY <1>1 DEF IInv, WorkInv, KeyWritten, ValueWritten
<1>9. CallInv'
  BY <1>1 DEF IInv, CallInv
<1>10. SuccessInv'
  BY <1>1, <1>6 DEF SuccessInv, New
<1>11. LaidInv' /\ FailureInv' /\ GivesUpForAReason'
  BY <1>1, <1>2 DEF LaidInv, FailureInv, GivesUpForAReason
<1> QED BY <1>7, <1>8, <1>9, <1>10, <1>11 DEF IInv

-----------------------------------------------------------------------------
\* The map with the new entry is the map.
LEMMA InsertedInv ==
  ASSUME IInv, Inserted
  PROVE  IInv'
<1>1. /\ pc = "insert" /\ pres = "success" /\ pcount' = pcount + 1 /\ psize' = size2
      /\ inserted' = inserted \cup {New} /\ pres' = "idle" /\ pc' = "entries"
      /\ UNCHANGED <<out, off2, off3, kvend, poff>>
      /\ UNCHANGED <<size1, size2, key, value, ret>>
  BY DEF Inserted, New, arguments, work
<1>2. New \notin inserted /\ \E at : Laid(out, inserted \cup {New}, 0, size2, at)
  BY <1>1 DEF IInv, SuccessInv
<1>3. /\ key \in Keys /\ size1 = psize + Len(key)
      /\ value \in Values /\ size2 = size1 + Len(value) /\ size2 <= Len(out)
  BY <1>1 DEF IInv, WorkInv, KeyWritten, ValueWritten
<1>4. New \in Entry
  BY <1>3 DEF New, Entry
<1>5. size2 \in Nat
  <2>1. Len(key) \in Nat /\ Len(value) \in Nat /\ psize \in Nat
    BY <1>3, KeyFacts, ValueFacts DEF IInv, TypeInv
  <2> QED BY <1>3, <2>1
<1>6. /\ IsFiniteSet(inserted') /\ Cardinality(inserted') = pcount + 1
      /\ inserted' \subseteq Entry
  <2>1. IsFiniteSet(inserted) /\ pcount = Cardinality(inserted) /\ inserted \subseteq Entry
    BY DEF IInv, TypeInv
  <2>2. IsFiniteSet(inserted \cup {New}) /\ Cardinality(inserted \cup {New}) = pcount + 1
    BY <1>2, <2>1, FS_AddElement
  <2> QED BY <1>1, <1>4, <2>1, <2>2
<1>7. pcount \in Nat /\ pcount < CountMax /\ CountMax \in Nat
  BY <1>1, BuilderAssumption DEF IInv, TypeInv
<1>8. pcount' \in Nat /\ pcount' <= CountMax
  BY <1>1, <1>7
<1>9. TypeInv'
  BY <1>1, <1>5, <1>6, <1>8 DEF TypeInv
<1>10. BufferInv'
  BY <1>1, <1>3 DEF IInv, BufferInv
<1>11. LaidInv'
  BY <1>1, <1>2 DEF LaidInv
<1>12. WorkInv' /\ CallInv' /\ SuccessInv' /\ FailureInv' /\ GivesUpForAReason'
  BY <1>1 DEF WorkInv, CallInv, SuccessInv, FailureInv, GivesUpForAReason
<1> QED BY <1>9, <1>10, <1>11, <1>12 DEF IInv

\* The map is given up when its key is refused.
LEMMA RefusedInv ==
  ASSUME IInv, Refused
  PROVE  IInv'
<1>1. /\ pc = "insert" /\ pres = "failure" /\ pres' = "idle" /\ pc' = "failed"
      /\ UNCHANGED <<out, off2, off3, kvend, poff>>
      /\ UNCHANGED <<pcount, psize, size1, size2, key, value, ret, inserted>>
  BY DEF Refused, arguments, cells, work
<1>2. \E e \in inserted : e.key = key
  BY <1>1 DEF IInv, FailureInv
<1>3. TypeInv' /\ BufferInv'
  BY <1>1 DEF IInv, TypeInv, BufferInv
<1>4. LaidInv'
  BY <1>1 DEF IInv, LaidInv
<1>5. WorkInv' /\ CallInv' /\ SuccessInv' /\ FailureInv'
  BY <1>1 DEF WorkInv, CallInv, SuccessInv, FailureInv
<1>6. GivesUpForAReason'
  BY <1>1, <1>2 DEF GivesUpForAReason
<1> QED BY <1>3, <1>4, <1>5, <1>6 DEF IInv

\* How long a header is.
LEMMA HeaderLength ==
  ASSUME NEW h
  PROVE  /\ ArgumentWidth(h.size) \in Nat
         /\ Len(HeaderBytes(h)) = 1 + ArgumentWidth(h.size)
<1>1. ArgumentWidth(h.size) \in Nat
  BY DEF ArgumentWidth
<1>2. PICK w \in Nat : w = ArgumentWidth(h.size)
  BY <1>1
<1> DEFINE first == 32 * h.type + InfoOf(h)
           rest == [i \in 1 .. w |-> ByteOf(h.arg, w - i)]
           S == {first} \cup {rest[i] : i \in 1 .. w}
<1>3. HeaderBytes(h) = <<first>> \o rest
  BY <1>2 DEF HeaderBytes
<1>4. rest \in [1 .. w -> S]
  OBVIOUS
<1>5. DOMAIN rest = 1 .. w
  OBVIOUS
<1>6. first \in S
  OBVIOUS
<1> HIDE DEF first, rest, S
<1>7. rest \in Seq(S) /\ Len(rest) = w
  <2>1. rest \in Seq(S)
    BY <1>4, SeqDef
  <2>2. Len(rest) \in Nat /\ DOMAIN rest = 1 .. Len(rest)
    BY <2>1, LenProperties
  <2> QED BY <1>5, <2>1, <2>2
<1>8. <<first>> \in Seq(S) /\ Len(<<first>>) = 1
  BY <1>6
<1>9. Len(<<first>> \o rest) = Len(<<first>>) + Len(rest)
  BY <1>7, <1>8, ConcatProperties
<1> QED BY <1>1, <1>2, <1>3, <1>7, <1>8, <1>9

\* The sizer, which has the widths by the additional information, agrees with the
\* writer.
LEMMA SizerWidth ==
  ASSUME NEW n \in Nat, NEW h, h = MkHeader(MapType, n)
  PROVE  SizeWidth(InfoOf(h)) = ArgumentWidth(h.size)
<1>1. h.size = MkRawSize(n) /\ h.arg = n
  BY DEF MkHeader
<1>2. CASE n <= 23
  <2>1. h.size = 0
    BY <1>1, <1>2 DEF MkRawSize, MaxInline
  <2> QED BY <1>1, <1>2, <2>1
         DEF InfoOf, ArgumentWidth, SizeWidth, MaxInline, Info8, Info16, Info32, Info64
<1>3. CASE n > 23
  <2>1. h.size \in {1, 2, 3, 4}
    BY <1>1, <1>3 DEF MkRawSize, MaxInline
  <2> QED BY <2>1
         DEF InfoOf, ArgumentWidth, SizeWidth, MaxInline, Info8, Info16, Info32, Info64
<1> QED BY <1>2, <1>3

\* The header is put in front, unless there is no room for it.
LEMMA FinishInv ==
  ASSUME IInv, Finish
  PROVE  IInv'
<1>1. PICK h, m : /\ h = MkHeader(MapType, pcount) /\ m = PrependHeader(h, out, psize)
                  /\ ret' = m.ret /\ out' = m.out
  BY DEF Finish, SerializeMap
<1>2. /\ pc = "entries" /\ pc' = "done"
      /\ UNCHANGED <<off2, off3, kvend, poff, pres>>
      /\ UNCHANGED <<pcount, psize, size1, size2, key, value, inserted>>
  BY DEF Finish, arguments, cells, work
<1>3. /\ out \in Seq(Byte) /\ Len(out) <= SizeMax /\ psize <= Len(out) /\ Len(out) \in Nat
      /\ psize \in Nat /\ pcount = Cardinality(inserted) /\ pres = "idle"
  BY <1>2, LenProperties DEF IInv, BufferInv, TypeInv, CallInv
<1>4. PICK w \in Nat, c \in Nat, b \in Nat :
        w = ArgumentWidth(h.size) /\ c = Len(out) - psize /\ b = Len(HeaderBytes(h))
  <2>1. Len(out) - psize \in Nat
    BY <1>3
  <2>2. ArgumentWidth(h.size) \in Nat /\ Len(HeaderBytes(h)) = 1 + ArgumentWidth(h.size)
    BY HeaderLength
  <2>3. Len(HeaderBytes(h)) \in Nat
    BY <2>2
  <2> QED BY <2>1, <2>2, <2>3
<1>5. b = 1 + w
  BY <1>4, HeaderLength
<1>6. Size(Len(out) - psize) = c
  <2>1. c \in 0 .. SizeMax
    BY <1>3, <1>4, SizeAssumption
  <2> QED BY <1>4, <2>1, SizeId
<1>7. SizeHeader(h, c).ok <=> b <= c
  <2>1. pcount \in Nat
    BY DEF IInv, TypeInv
  <2>2. SizeWidth(InfoOf(h)) = w
    BY <1>1, <1>4, <2>1, SizerWidth
  <2> QED BY <1>5, <2>2 DEF SizeHeader
<1>8. b <= c => m.ret = psize + b
  BY <1>1, <1>4, <1>6, <1>7 DEF PrependHeader
<1>9. ~(b <= c) => m.out = out
  BY <1>1, <1>4, <1>6, <1>7 DEF PrependHeader
<1>10. ret' = 0 => out' = out /\ psize + b > Len(out)
  <2>1. b <= c => ret' # 0
    BY <1>1, <1>3, <1>5, <1>8
  <2>2. ~(b <= c) => psize + b > Len(out)
    BY <1>3, <1>4
  <2> QED BY <1>1, <1>9, <2>1, <2>2
<1>11. GivesUpForAReason'
  BY <1>1, <1>2, <1>3, <1>4, <1>10 DEF GivesUpForAReason
<1>12. TypeInv'
  BY <1>2 DEF IInv, TypeInv
<1>13. BufferInv' /\ WorkInv' /\ CallInv' /\ LaidInv' /\ SuccessInv' /\ FailureInv'
  BY <1>2, <1>3 DEF BufferInv, WorkInv, CallInv, LaidInv, SuccessInv, FailureInv
<1> QED BY <1>11, <1>12, <1>13 DEF IInv

\* Every step keeps the invariant.
LEMMA NextInv ==
  ASSUME IInv, [Next]_vars
  PROVE  IInv'
<1>1. CASE CountFull
  BY <1>1, CountFullInv
<1>2. ASSUME NEW k \in Keys, WriteKey(k) PROVE IInv'
  BY <1>2, WriteKeyInv
<1>3. ASSUME NEW v \in Values, WriteValue(v) PROVE IInv'
  BY <1>3, WriteValueInv
<1>4. CASE TableExcludes
  BY <1>4, TableExcludesInv
<1>5. CASE CallInsert
  BY <1>5, CallInsertInv
<1>6. CASE Inserting
  BY <1>6, SkipEntryInv, InsertBeforeInv, SameKeyInv, InsertLastInv DEF Inserting, InsertStep
<1>7. CASE Inserted
  BY <1>7, InsertedInv
<1>8. CASE Refused
  BY <1>8, RefusedInv
<1>9. CASE Finish
  BY <1>9, FinishInv
<1>10. CASE UNCHANGED vars
  <2>1. /\ UNCHANGED <<out, off2, off3, kvend, poff, pres>>
        /\ UNCHANGED <<pc, pcount, psize, size1, size2, key, value, ret, inserted>>
    BY <1>10 DEF vars, insertVars, cells, work
  <2>2. TypeInv' /\ BufferInv' /\ CallInv' /\ FailureInv' /\ GivesUpForAReason'
    BY <2>1 DEF IInv, TypeInv, BufferInv, CallInv, FailureInv, GivesUpForAReason
  <2>3. WorkInv' /\ LaidInv' /\ SuccessInv'
    BY <2>1 DEF IInv, WorkInv, KeyWritten, ValueWritten, LaidInv, SuccessInv, New
  <2> QED BY <2>2, <2>3 DEF IInv
<1> QED
  BY <1>1, <1>2, <1>3, <1>4, <1>5, <1>6, <1>7, <1>8, <1>9, <1>10 DEF Next

\* The invariant holds always.
LEMMA Invariance == Spec => []IInv
<1>1. Init => IInv
  BY InitInv
<1>2. IInv /\ [Next]_vars => IInv'
  BY NextInv
<1> QED BY <1>1, <1>2, PTL DEF Spec

\* Between two insertions, and after a failure wherever it occurs, the first
\* psize bytes of the buffer are the entries that were inserted, in the order
\* of their keys, and pcount is their number: what the generated serializers
\* rely on when they call cbor_det_serialize_map_insert again.
THEOREM StayInOrder == Spec => []EntriesStayInOrder
<1>1. IInv => EntriesStayInOrder
  <2> SUFFICES ASSUME IInv, pc # "done", pres # "success"
               PROVE  /\ pcount = Cardinality(inserted)
                      /\ \E at \in [inserted -> Starts(out, inserted, 0, psize)] :
                           Arranged(out, inserted, 0, psize, at)
    BY DEF EntriesStayInOrder
  <2>1. /\ out \in Seq(Byte) /\ psize \in Nat /\ psize <= Len(out) /\ inserted \subseteq Entry
        /\ pcount = Cardinality(inserted)
    BY DEF IInv, BufferInv, TypeInv
  <2>2. PICK at : Laid(out, inserted, 0, psize, at)
    BY DEF IInv, LaidInv
  <2>3. at \in [inserted -> Starts(out, inserted, 0, psize)] /\ Arranged(out, inserted, 0, psize, at)
    BY <2>1, <2>2, LaidIsArranged
  <2> QED BY <2>1, <2>3
<1> QED BY <1>1, Invariance, PTL

\* The cursor of cbor_raw_map_insert, which jumps over keys and values without
\* a check, is always at the start of an entry inside the map, behind all the
\* entries with smaller keys and no other.
THEOREM CursorPlace == Spec => []CursorIsBehindSmallerKeys
<1>1. IInv => CursorIsBehindSmallerKeys
  <2> SUFFICES ASSUME IInv, pres = "progress"
               PROVE  /\ poff <= psize
                      /\ \E at \in [inserted -> Starts(out, inserted, 0, psize)] :
                           /\ Arranged(out, inserted, 0, psize, at)
                           /\ \A e \in inserted :
                                \/ at[e] + Width(e) <= poff /\ LexLess(e.key, key)
                                \/ poff <= at[e]
    BY DEF CursorIsBehindSmallerKeys
  <2>1. /\ out \in Seq(Byte) /\ psize \in Nat /\ psize <= Len(out) /\ inserted \subseteq Entry
        /\ poff <= psize
    BY DEF IInv, BufferInv, TypeInv, CallInv
  <2>2. PICK at : Laid(out, inserted, 0, psize, at) /\ Splits(inserted, at, poff, key)
    BY Progress
  <2>3. at \in [inserted -> Starts(out, inserted, 0, psize)] /\ Arranged(out, inserted, 0, psize, at)
    BY <2>1, <2>2, LaidIsArranged
  <2> QED BY <2>1, <2>2, <2>3 DEF Splits
<1> QED BY <1>1, Invariance, PTL

\* A generated serializer gives up only for a key that is in the map already,
\* an entry that its table must not hold, lack of room, or the count's limit.
THEOREM GivesUp == Spec => []GivesUpForAReason
<1>1. IInv => GivesUpForAReason
  BY DEF IInv
<1> QED BY <1>1, Invariance, PTL

-----------------------------------------------------------------------------
(* The entries as the pairs of a map *)

\* Where items end under the rules of deterministic encoding.
Det(s) == Ends(s, TRUE, TRUE)

\* An item that is somewhere in a buffer is a row of one there.
LEMMA ItemRow ==
  ASSUME NEW s \in Seq(Byte), Len(s) <= SizeMax, NEW t \in Seq(Byte), NEW d \in Nat,
         Occurs(t, s, d), t # <<>>, DetLength(t) = Len(t)
  PROVE  Det(s)[<<d, 1>>] = d + Len(t)
<1>1. Len(s) \in Nat /\ Len(t) \in Nat /\ Len(t) # 0
  BY LenProperties, EmptySeq
<1>2. PICK yes \in BOOLEAN, k \in Nat, z \in Nat : yes = TRUE /\ k = 1 /\ z = 0
  OBVIOUS
<1>3. Ends(t, yes, yes)[<<z, k>>] = Len(t)
  BY <1>1, <1>2 DEF DetLength, ItemEnd
<1>4. z \in 0 .. Len(t) /\ Len(t) # Bad /\ d + z = d
  BY <1>1, <1>2 DEF Bad
<1>5. Ends(s, yes, yes)[<<d, k>>] = d + Len(t)
  <2>1. PICK e, q : e = Len(t) /\ q = d
    OBVIOUS
  <2>2. q = d + z /\ e = Ends(t, yes, yes)[<<z, k>>] /\ e # Bad
    BY <1>3, <1>4, <2>1
  <2>3. Ends(s, yes, yes)[<<q, k>>] = d + e
    BY <1>4, <2>2, RowOccurs
  <2> QED BY <2>1, <2>3, Zenon
<1> QED BY <1>2, <1>5, Zenon DEF Det

\* Two items, one behind the other, are a row of two.
LEMMA PairRow ==
  ASSUME NEW s \in Seq(Byte), Len(s) <= SizeMax, NEW d \in Nat,
         NEW t \in Seq(Byte), t # <<>>, DetLength(t) = Len(t),
         NEW u \in Seq(Byte), u # <<>>, DetLength(u) = Len(u),
         Occurs(t, s, d), Occurs(u, s, d + Len(t))
  PROVE  /\ Det(s)[<<d, 1>>] = d + Len(t) /\ Det(s)[<<d, 2>>] = d + (Len(t) + Len(u))
         /\ Slice(s, d, d + Len(t)) = t /\ d + (Len(t) + Len(u)) <= Len(s)
<1>1. PICK k \in Nat, v \in Nat, n \in Nat, m \in Nat :
        k = Len(t) /\ v = Len(u) /\ n = Len(s) /\ m = d + k
  <2>1. PICK k \in Nat, v \in Nat, n \in Nat : k = Len(t) /\ v = Len(u) /\ n = Len(s)
    BY LenProperties
  <2>2. PICK m \in Nat : m = d + k
    OBVIOUS
  <2> QED BY <2>1, <2>2
<1>2. Occurs(u, s, m) /\ Occurs(t, s, d)
  BY <1>1, Zenon
<1>3. Det(s)[<<d, 1>>] = m
  <2>1. Det(s)[<<d, 1>>] = d + Len(t)
    BY <1>2, ItemRow
  <2> QED BY <1>1, <2>1, Zenon
<1>4. Det(s)[<<m, 1>>] = m + v
  <2>1. Det(s)[<<m, 1>>] = m + Len(u)
    BY <1>2, ItemRow
  <2> QED BY <1>1, <2>1, Zenon
<1>5. m + v <= n /\ m = d + k
  BY <1>1, <1>2, Zenon DEF Occurs
<1>6. m <= n /\ d <= n /\ m + v = d + (k + v)
  BY <1>5
<1>7. Det(s)[<<d, 2>>] = m + v
  <2>1. PICK one \in Nat, two \in Nat : one = 1 /\ two = 2 /\ two = one + one
    OBVIOUS
  <2>2. PICK yes \in BOOLEAN : yes = TRUE
    OBVIOUS
  <2>3. d \in Bad .. Len(s)
    BY <1>1, <1>6 DEF Bad
  <2>4. Ends(s, yes, yes)[<<d, two>>] = Ends(s, yes, yes)[<<Ends(s, yes, yes)[<<d, one>>], one>>]
    <3>1. PICK p : p = Ends(s, yes, yes)[<<d, one>>]
      OBVIOUS
    <3>2. Ends(s, yes, yes)[<<d, two>>] = Ends(s, yes, yes)[<<p, one>>]
      BY <2>1, <2>3, <3>1, RowAdd
    <3> QED BY <3>1, <3>2, Zenon
  <2>5. Det(s)[<<d, two>>] = Det(s)[<<Det(s)[<<d, one>>], one>>]
    BY <2>1, <2>2, <2>4, Zenon DEF Det
  <2> QED BY <1>3, <1>4, <2>1, <2>5, Zenon
<1>8. Slice(s, d, d + Len(t)) = t
  BY <1>1, <1>2, <1>6, SliceIsOccurs
<1> QED BY <1>1, <1>3, <1>5, <1>6, <1>7, <1>8, Zenon

\* An entry is two items, its key and its value.
LEMMA EntryRow ==
  ASSUME NEW s \in Seq(Byte), Len(s) <= SizeMax, NEW e \in Entry, NEW d \in Nat,
         Occurs(e.key \o e.value, s, d)
  PROVE  /\ Det(s)[<<d, 1>>] = d + Len(e.key) /\ Det(s)[<<d, 2>>] = d + Width(e)
         /\ Slice(s, d, d + Len(e.key)) = e.key /\ d + Width(e) <= Len(s)
<1>1. PICK t \in Keys, u \in Values : t = e.key /\ u = e.value
  BY EntryFacts
<1>2. t \in Seq(Byte) /\ t # <<>> /\ DetLength(t) = Len(t)
  BY BuilderAssumption
<1>3. u \in Seq(Byte) /\ u # <<>> /\ DetLength(u) = Len(u)
  BY BuilderAssumption
<1>4. Occurs(t, s, d) /\ Occurs(u, s, d + Len(t))
  BY <1>1, <1>2, <1>3, OccursBoth
<1>5. /\ Det(s)[<<d, 1>>] = d + Len(t) /\ Det(s)[<<d, 2>>] = d + (Len(t) + Len(u))
      /\ Slice(s, d, d + Len(t)) = t /\ d + (Len(t) + Len(u)) <= Len(s)
  BY <1>2, <1>3, <1>4, PairRow
<1> QED BY <1>1, <1>5, Zenon DEF Width

\* The entries in front of an offset, and after some pairs of the row at lo.
Before(es, at, o) == {e \in es : at[e] < o}
Pairs(s, lo, i) == Det(s)[<<lo, 2 * i>>]

\* What is behind the entry e.
BehindEntry(es, at, hi, e) ==
  /\ Before(es, at, at[e] + Width(e)) = Before(es, at, at[e]) \cup {e}
  /\ e \notin Before(es, at, at[e])
  /\ at[e] + Width(e) < hi => \E f \in es : at[f] = at[e] + Width(e)

\* An entry starts where another one ends.
LEMMA NextEntry ==
  ASSUME NEW s, NEW es, es \subseteq Entry, NEW lo \in Nat, NEW hi \in Nat,
         NEW at, Laid(s, es, lo, hi, at), NEW e \in es
  PROVE  BehindEntry(es, at, hi, e)
<1>1. ASSUME NEW f \in es PROVE at[f] \in Nat /\ Width(f) \in Nat \ {0}
  <2>1. f \in Entry
    OBVIOUS
  <2> QED BY <2>1, EntryFacts DEF Laid
<1>2. PICK a \in Nat, w \in Nat, b \in Nat : a = at[e] /\ w = Width(e) /\ b = a + w /\ w # 0
  <2>1. at[e] \in Nat /\ Width(e) \in Nat \ {0}
    BY <1>1
  <2>2. at[e] + Width(e) \in Nat
    BY <2>1
  <2> QED BY <2>1, <2>2
<1>3. ASSUME NEW f \in es, f # e
      PROVE  b <= at[f] \/ at[f] + Width(f) <= a
  <2>1. Apart(e, f, at)
    BY DEF Laid
  <2> QED BY <1>2, <1>3, <2>1 DEF Apart
<1>4. ASSUME NEW f \in es PROVE at[f] < b <=> (at[f] < a \/ f = e)
  <2>1. CASE f = e
    BY <1>2, <2>1
  <2>2. CASE f # e
    <3>1. PICK x \in Nat, y \in Nat : x = at[f] /\ y = Width(f) /\ y # 0
      BY <1>1
    <3>2. b <= x \/ x + y <= a
      BY <1>3, <2>2, <3>1
    <3>3. x < b <=> x < a
      BY <1>2, <3>1, <3>2
    <3> QED BY <2>2, <3>1, <3>3
  <2> QED BY <2>1, <2>2
<1>5. Before(es, at, b) = Before(es, at, a) \cup {e}
  BY <1>4 DEF Before
<1>6. e \notin Before(es, at, a)
  BY <1>2 DEF Before
<1>7. ASSUME b < hi PROVE \E f \in es : at[f] = b
  <2>1. lo <= b
    <3>1. lo <= a
      BY <1>2 DEF Laid
    <3> QED BY <1>2, <3>1
  <2>2. PICK f \in es : at[f] <= b /\ b < at[f] + Width(f)
    BY <1>7, <2>1 DEF Laid
  <2>3. PICK x \in Nat, y \in Nat : x = at[f] /\ y = Width(f)
    BY <1>1
  <2>4. f # e
    BY <1>2, <2>2
  <2>5. b <= x \/ x + y <= a
    BY <1>3, <2>3, <2>4
  <2>6. x = b
    BY <1>2, <2>2, <2>3, <2>5
  <2> QED BY <2>3, <2>6
<1> QED BY <1>2, <1>5, <1>6, <1>7, Zenon DEF BehindEntry

-----------------------------------------------------------------------------
\* After i pairs of the row at lo there are i entries in front, and the next
\* one follows.
AtPair(s, es, lo, hi, at, i) ==
  LET p == Pairs(s, lo, i)
  IN  /\ p \in Nat /\ lo <= p /\ p <= hi
      /\ Cardinality(Before(es, at, p)) = i
      /\ p < hi => \E e \in es : at[e] = p

\* Two more items are a pair more.
LEMMA PairsAdd ==
  ASSUME NEW s \in Seq(Byte), Len(s) <= SizeMax, NEW lo \in Nat, lo <= Len(s), NEW i \in Nat
  PROVE  /\ Pairs(s, lo, 0) = lo
         /\ Pairs(s, lo, i + 1) = Det(s)[<<Pairs(s, lo, i), 2>>]
<1>1. PICK two \in Nat, i2 \in Nat, j2 \in Nat, z \in Nat :
        two = 2 /\ i2 = 2 * i /\ j2 = 2 * (i + 1) /\ z = 2 * 0
  OBVIOUS
<1>2. j2 = i2 + two /\ z = 0
  BY <1>1
<1>3. PICK yes \in BOOLEAN : yes = TRUE
  OBVIOUS
<1>4. Len(s) \in Nat
  BY LenProperties
<1>5. lo \in Bad .. Len(s)
  BY <1>4 DEF Bad
<1>6. Ends(s, yes, yes)[<<lo, j2>>] = Ends(s, yes, yes)[<<Ends(s, yes, yes)[<<lo, i2>>], two>>]
  <2>1. PICK p : p = Ends(s, yes, yes)[<<lo, i2>>]
    OBVIOUS
  <2>2. Ends(s, yes, yes)[<<lo, j2>>] = Ends(s, yes, yes)[<<p, two>>]
    BY <1>2, <1>5, <2>1, RowAdd
  <2> QED BY <2>1, <2>2, Zenon
<1>7. Ends(s, yes, yes)[<<lo, z>>] = lo
  BY <1>2, <1>5, EndsBound
<1> QED BY <1>1, <1>2, <1>3, <1>6, <1>7, Zenon DEF Pairs, Det

\* The pairs start where the entries start.
LEMMA PairFirst ==
  ASSUME NEW s \in Seq(Byte), Len(s) <= SizeMax, NEW es, es \subseteq Entry, NEW lo \in Nat,
         NEW hi, hi = Len(s), lo <= hi, NEW at, Laid(s, es, lo, hi, at)
  PROVE  AtPair(s, es, lo, hi, at, 0)
<1>1. Pairs(s, lo, 0) = lo
  BY 0 \in Nat, PairsAdd
<1>2. hi \in Nat
  BY LenProperties
<1>3. ASSUME NEW e \in es PROVE at[e] \in Nat /\ lo <= at[e] /\ ~(at[e] < lo)
  BY DEF Laid
<1>4. Before(es, at, lo) = {}
  BY <1>3 DEF Before
<1>5. lo < hi => \E e \in es : at[e] = lo
  <2> SUFFICES ASSUME lo < hi PROVE \E e \in es : at[e] = lo
    OBVIOUS
  <2>1. PICK e \in es : at[e] <= lo
    BY DEF Laid
  <2>2. at[e] = lo
    BY <1>3, <2>1
  <2> QED BY <2>2
<1>6. Cardinality(Before(es, at, lo)) = 0
  BY <1>4, FS_EmptySet
<1> QED BY <1>1, <1>5, <1>6 DEF AtPair

\* The i-th pair of the row at lo is an entry.
IsPair(s, es, lo, at, i) ==
  \E e \in es : /\ at[e] = Pairs(s, lo, i) /\ Pairs(s, lo, i + 1) = at[e] + Width(e)
               /\ Key(s, lo, i, Det(s)) = e.key

\* Every pair is an entry.
LEMMA PairStep ==
  ASSUME NEW s \in Seq(Byte), Len(s) <= SizeMax, NEW es, es \subseteq Entry, IsFiniteSet(es),
         NEW lo \in Nat, NEW hi, hi = Len(s), lo <= hi, NEW at, Laid(s, es, lo, hi, at),
         NEW i \in Nat, i < Cardinality(es), AtPair(s, es, lo, hi, at, i)
  PROVE  AtPair(s, es, lo, hi, at, i + 1) /\ IsPair(s, es, lo, at, i)
<1>1. hi \in Nat
  BY LenProperties
<1>2. PICK p \in Nat :
        /\ p = Pairs(s, lo, i) /\ lo <= p /\ p <= hi /\ Cardinality(Before(es, at, p)) = i
        /\ p < hi => \E e \in es : at[e] = p
  BY DEF AtPair
<1>3. ASSUME NEW e \in es
      PROVE  e \in Entry /\ at[e] \in Nat /\ Width(e) \in Nat \ {0} /\ at[e] + Width(e) <= hi
  <2>1. e \in Entry
    OBVIOUS
  <2> QED BY <2>1, EntryFacts DEF Laid, InPlace
<1>4. p < hi
  <2> SUFFICES ASSUME p = hi PROVE FALSE
    BY <1>1, <1>2
  <2>1. ASSUME NEW e \in es PROVE at[e] < p
    <3>1. PICK a \in Nat, w \in Nat : a = at[e] /\ w = Width(e) /\ w # 0 /\ a + w <= hi
      BY <1>3
    <3> QED BY <1>1, <3>1
  <2>2. Before(es, at, p) = es
    BY <2>1 DEF Before
  <2>3. Cardinality(es) \in Nat
    BY FS_CardinalityType
  <2> QED BY <1>2, <2>2, <2>3
<1>5. PICK e \in es : at[e] = p
  BY <1>2, <1>4
<1>6. e \in Entry /\ Occurs(e.key \o e.value, s, p)
  BY <1>5 DEF Laid, InPlace
<1>7. /\ Det(s)[<<p, 1>>] = p + Len(e.key) /\ Det(s)[<<p, 2>>] = p + Width(e)
      /\ Slice(s, p, p + Len(e.key)) = e.key
  BY <1>6, EntryRow
<1>8. Pairs(s, lo, i + 1) = p + Width(e)
  <2>1. Pairs(s, lo, i + 1) = Det(s)[<<Pairs(s, lo, i), 2>>]
    BY PairsAdd
  <2> QED BY <1>2, <1>7, <2>1, Zenon
<1>9. Key(s, lo, i, Det(s)) = e.key
  <2>1. Det(s)[<<lo, 2 * i>>] = p
    BY <1>2, Zenon DEF Pairs
  <2> QED BY <1>7, <2>1, Zenon DEF Key
<1>10. PICK q \in Nat : q = p + Width(e) /\ lo <= q /\ q <= hi
  <2>1. PICK w \in Nat : w = Width(e) /\ p + w <= hi
    BY <1>3, <1>5
  <2> QED BY <1>2, <2>1
<1>11. /\ Before(es, at, q) = Before(es, at, p) \cup {e} /\ e \notin Before(es, at, p)
       /\ q < hi => \E f \in es : at[f] = q
  <2>1. /\ Before(es, at, at[e] + Width(e)) = Before(es, at, at[e]) \cup {e}
        /\ e \notin Before(es, at, at[e])
        /\ at[e] + Width(e) < hi => \E f \in es : at[f] = at[e] + Width(e)
    <3>1. BehindEntry(es, at, hi, e)
      BY <1>1, NextEntry
    <3> QED BY <3>1, Zenon DEF BehindEntry
  <2>2. q = at[e] + Width(e)
    BY <1>5, <1>10, Zenon
  <2> QED BY <1>5, <2>1, <2>2, Zenon
<1>12. Cardinality(Before(es, at, q)) = i + 1
  <2>1. Before(es, at, p) \subseteq es
    BY DEF Before
  <2>2. IsFiniteSet(Before(es, at, p))
    BY <2>1, FS_Subset
  <2>3. PICK B : B = Before(es, at, p)
    OBVIOUS
  <2>4. Cardinality(B \cup {e}) = Cardinality(B) + 1
    BY <1>11, <2>2, <2>3, FS_AddElement
  <2> QED BY <1>2, <1>11, <2>3, <2>4, Zenon
<1>13. Pairs(s, lo, i + 1) = q
  BY <1>8, <1>10, Zenon
<1>14. AtPair(s, es, lo, hi, at, i + 1)
  BY <1>10, <1>11, <1>12, <1>13 DEF AtPair
<1>15. at[e] = Pairs(s, lo, i) /\ Pairs(s, lo, i + 1) = at[e] + Width(e)
  BY <1>2, <1>5, <1>8, Zenon
<1> QED BY <1>9, <1>14, <1>15 DEF IsPair

\* The entries are the pairs of a map, as many as there are, up to its end.
LEMMA RowOfEntries ==
  ASSUME NEW s \in Seq(Byte), Len(s) <= SizeMax, NEW es, es \subseteq Entry, IsFiniteSet(es),
         NEW lo \in Nat, NEW hi, hi = Len(s), lo <= hi, NEW at, Laid(s, es, lo, hi, at),
         NEW n \in Nat, n = Cardinality(es)
  PROVE  /\ Pairs(s, lo, n) = hi /\ KeysAscend(s, lo, n, Det(s)) /\ 2 * n <= hi
<1> DEFINE S == {i \in Nat : i <= n => AtPair(s, es, lo, hi, at, i)}
<1>1. hi \in Nat
  BY LenProperties
<1>2. S = Nat
  <2>1. S \subseteq Nat
    OBVIOUS
  <2>2. 0 \in S
    BY PairFirst
  <2>3. ASSUME NEW i \in S PROVE i + 1 \in S
    <3> SUFFICES ASSUME i + 1 <= n PROVE AtPair(s, es, lo, hi, at, i + 1)
      OBVIOUS
    <3>1. i \in Nat /\ i <= n /\ i < n
      OBVIOUS
    <3>2. AtPair(s, es, lo, hi, at, i) /\ i < Cardinality(es)
      BY <3>1
    <3> QED BY <3>1, <3>2, PairStep
  <2> HIDE DEF S
  <2> QED BY <2>1, <2>2, <2>3, Induction
<1>3. ASSUME NEW i \in Nat, i <= n PROVE AtPair(s, es, lo, hi, at, i)
  BY <1>2, <1>3
<1> HIDE DEF S
<1>4. Pairs(s, lo, n) = hi
  <2>1. PICK p \in Nat : /\ p = Pairs(s, lo, n) /\ p <= hi /\ Cardinality(Before(es, at, p)) = n
                         /\ p < hi => \E e \in es : at[e] = p
    <3>1. n <= n
      OBVIOUS
    <3>2. AtPair(s, es, lo, hi, at, n)
      BY <1>3, <3>1
    <3> QED BY <3>2 DEF AtPair
  <2>2. Before(es, at, p) \subseteq es
    BY DEF Before
  <2>3. Before(es, at, p) = es
    BY <2>1, <2>2, FS_Subset
  <2>4. ~(p < hi)
    <3> SUFFICES ASSUME NEW e \in es, at[e] = p PROVE FALSE
      BY <2>1
    <3>1. at[e] < p
      BY <2>3 DEF Before
    <3> QED BY <3>1
  <2> QED BY <1>1, <2>1, <2>4
<1>5. ASSUME NEW i \in 1 .. n - 1
      PROVE  KeyOrder(Key(s, lo, i - 1, Det(s)), Key(s, lo, i, Det(s)))
  <2>1. PICK j \in Nat : j = i - 1 /\ j + 1 = i /\ j < n /\ j <= n /\ i < n /\ i <= n /\ i \in Nat
    <3>1. i - 1 \in Nat
      OBVIOUS
    <3> QED BY <3>1
  <2>2. AtPair(s, es, lo, hi, at, j) /\ AtPair(s, es, lo, hi, at, i)
    BY <1>3, <2>1
  <2>3. PICK e \in es : /\ at[e] = Pairs(s, lo, j) /\ Pairs(s, lo, j + 1) = at[e] + Width(e)
                        /\ Key(s, lo, j, Det(s)) = e.key
    <3>1. j < Cardinality(es)
      BY <2>1
    <3>2. IsPair(s, es, lo, at, j)
      BY <2>2, <3>1, PairStep
    <3> QED BY <3>2, Zenon DEF IsPair
  <2>4. PICK f \in es : at[f] = Pairs(s, lo, i) /\ Key(s, lo, i, Det(s)) = f.key
    <3>1. i < Cardinality(es)
      BY <2>1
    <3>2. IsPair(s, es, lo, at, i)
      BY <2>1, <2>2, <3>1, PairStep
    <3> QED BY <3>2, Zenon DEF IsPair
  <2>5. at[f] = at[e] + Width(e)
    BY <2>1, <2>3, <2>4, Zenon
  <2>6. LexLess(e.key, f.key)
    <3>1. PICK a \in Nat, b \in Nat, w \in Nat, x \in Nat :
            a = at[e] /\ b = at[f] /\ w = Width(e) /\ x = Width(f) /\ w # 0
      <4>1. e \in Entry /\ f \in Entry
        OBVIOUS
      <4> QED BY <4>1, EntryFacts DEF Laid
    <3>2. b = a + w
      BY <2>5, <3>1, Zenon
    <3>3. a # b /\ ~(b + x <= a)
      <4>1. w # 0
        BY <3>1
      <4> QED BY <3>2, <4>1
    <3>4. Apart(e, f, at)
      BY DEF Laid
    <3>5. e # f
      BY <3>1, <3>3, Zenon
    <3>6. ~(at[f] + Width(f) <= at[e])
      BY <3>1, <3>3, Zenon
    <3> QED BY <3>4, <3>5, <3>6, Zenon DEF Apart
  <2>7. LexCompare(e.key, f.key) < 0
    BY <2>6 DEF LexCompare
  <2> QED BY <2>1, <2>3, <2>4, <2>7, Zenon DEF KeyOrder
<1>6. KeysAscend(s, lo, n, Det(s))
  BY <1>5 DEF KeysAscend
<1>7. 2 * n <= hi
  <2>1. PICK k \in Nat, yes \in BOOLEAN : k = 2 * n /\ yes = TRUE
    <3>1. 2 * n \in Nat
      OBVIOUS
    <3> QED BY <3>1
  <2>2. Ends(s, yes, yes)[<<lo, k>>] = hi
    BY <1>4, <2>1, Zenon DEF Pairs, Det
  <2>3. lo \in 0 .. Len(s) /\ hi # Bad
    BY <1>1 DEF Bad
  <2>4. lo + k <= hi
    BY <2>2, <2>3, RowBytes
  <2> QED BY <1>1, <2>1, <2>4
<1> QED BY <1>4, <1>6, <1>7

-----------------------------------------------------------------------------
\* The weights of the bytes of an argument.
LEMMA Places4 ==
  Place[1] = 1 /\ Place[2] = 256 /\ Place[3] = 65536 /\ Place[4] = 16777216
BY DEF Place

\* The k-th byte of an argument, the last one being the first.
Digit(n, k) == (n \div Place[k]) % 256

\* A byte of an argument that fits four bytes.
LEMMA ArgumentByte ==
  ASSUME NEW n \in Nat, n < Big32, NEW i \in Nat, i < 4
  PROVE  ByteOf(n, i) = Digit(n, i + 1) /\ ByteOf(n, i) \in Byte
<1>1. n # Big64
  BY DEF Big64, Big32
<1>2. ByteOf(n, i) = (n \div Place[i + 1]) % 256
  BY <1>1 DEF ByteOf
<1>3. PICK k \in Nat : k = Place[i + 1] /\ k > 0
  <2>1. i = 0 \/ i = 1 \/ i = 2 \/ i = 3
    OBVIOUS
  <2>2. i + 1 = 1 \/ i + 1 = 2 \/ i + 1 = 3 \/ i + 1 = 4
    BY <2>1
  <2> QED BY <2>2, Places4
<1>4. PICK q \in Nat : q = n \div k
  BY <1>3
<1>5. q % 256 \in Byte
  BY DEF Byte
<1> QED BY <1>2, <1>3, <1>4, <1>5, Zenon DEF Digit

\* The widths of an argument that fits four bytes.
LEMMA WidthCases ==
  ASSUME NEW n \in Nat, n < Big32, NEW h, h = MkHeader(MapType, n)
  PROVE  \/ n <= 23 /\ InfoOf(h) = n /\ ArgumentWidth(h.size) = 0
         \/ n > 23 /\ n < 256 /\ InfoOf(h) = 24 /\ ArgumentWidth(h.size) = 1
         \/ n >= 256 /\ n < 65536 /\ InfoOf(h) = 25 /\ ArgumentWidth(h.size) = 2
         \/ n >= 65536 /\ InfoOf(h) = 26 /\ ArgumentWidth(h.size) = 4
<1>1. h.size = MkRawSize(n) /\ h.arg = n
  BY DEF MkHeader
<1>2. CASE n <= 23
  <2>1. h.size = 0
    BY <1>1, <1>2 DEF MkRawSize, MaxInline
  <2> QED BY <1>1, <1>2, <2>1 DEF InfoOf, ArgumentWidth
<1>3. CASE n > 23 /\ n < 256
  <2>1. h.size = 1
    BY <1>1, <1>3 DEF MkRawSize, MaxInline
  <2> QED BY <1>3, <2>1 DEF InfoOf, ArgumentWidth, MaxInline
<1>4. CASE n >= 256 /\ n < 65536
  <2>1. h.size = 2
    BY <1>1, <1>4 DEF MkRawSize, MaxInline
  <2> QED BY <1>4, <2>1 DEF InfoOf, ArgumentWidth, MaxInline
<1>5. CASE n >= 65536
  <2>1. h.size = 3
    BY <1>1, <1>5 DEF MkRawSize, MaxInline, Big32, Big64
  <2> QED BY <1>5, <2>1 DEF InfoOf, ArgumentWidth, MaxInline
<1> QED BY <1>2, <1>3, <1>4, <1>5

\* The bytes of the header of a map.
LEMMA HeaderDigits ==
  ASSUME NEW n \in Nat, n < Big32, NEW h, h = MkHeader(MapType, n),
         NEW w, w = ArgumentWidth(h.size), NEW b, b = HeaderBytes(h)
  PROVE  /\ w \in Nat /\ w <= 4 /\ b \in Seq(Byte) /\ Len(b) = 1 + w
         /\ At(b, 0) = 160 + InfoOf(h)
         /\ \A j \in Nat : j < w => At(b, 1 + j) = Digit(n, w - j)
<1>1. w \in Nat /\ w <= 4 /\ InfoOf(h) \in Nat /\ InfoOf(h) <= 26
  BY WidthCases
<1>2. h.arg = n /\ h.type = 5
  BY DEF MkHeader, MapType
<1>3. PICK first \in Nat : first = 160 + InfoOf(h) /\ first \in Byte
  <2>1. 160 + InfoOf(h) \in Nat /\ 160 + InfoOf(h) <= 255
    BY <1>1
  <2> QED BY <2>1 DEF Byte
<1> DEFINE rest == [i \in 1 .. w |-> ByteOf(n, w - i)]
<1>4. b = <<first>> \o rest
  <2>1. 32 * h.type + InfoOf(h) = first
    BY <1>1, <1>2, <1>3
  <2> QED BY <1>2, <2>1 DEF HeaderBytes
<1>5. \A i \in 1 .. w : rest[i] = ByteOf(n, w - i)
  OBVIOUS
<1>6. rest \in [1 .. w -> Byte]
  <2>1. ASSUME NEW i \in 1 .. w PROVE ByteOf(n, w - i) \in Byte
    <3>1. PICK k \in Nat : k = w - i /\ k < 4
      BY <1>1
    <3>2. ByteOf(n, k) \in Byte
      BY <3>1, ArgumentByte
    <3> QED BY <3>1, <3>2, Zenon
  <2> QED BY <2>1
<1>7. DOMAIN rest = 1 .. w
  OBVIOUS
<1> HIDE DEF rest
<1>8. rest \in Seq(Byte) /\ Len(rest) = w
  <2>1. rest \in Seq(Byte)
    BY <1>1, <1>6, SeqDef
  <2>2. Len(rest) \in Nat /\ DOMAIN rest = 1 .. Len(rest)
    BY <2>1, LenProperties
  <2> QED BY <1>1, <1>7, <2>1, <2>2
<1>9. PICK one : one = <<first>>
  OBVIOUS
<1>10. one \in Seq(Byte) /\ Len(one) = 1 /\ one[1] = first
  BY <1>3, <1>9
<1>11. /\ b \in Seq(Byte) /\ Len(b) = 1 + w
       /\ \A i \in 1 .. 1 + w : b[i] = IF i <= 1 THEN one[i] ELSE rest[i - 1]
  <2>1. b = one \o rest
    BY <1>4, <1>9, Zenon
  <2>2. /\ one \o rest \in Seq(Byte) /\ Len(one \o rest) = Len(one) + Len(rest)
        /\ \A i \in 1 .. Len(one) + Len(rest) :
             (one \o rest)[i] = IF i <= Len(one) THEN one[i] ELSE rest[i - Len(one)]
    BY <1>8, <1>10, ConcatProperties
  <2> QED BY <1>8, <1>10, <2>1, <2>2
<1>12. At(b, 0) = first
  <2>1. 1 \in 1 .. 1 + w
    BY <1>1
  <2>2. b[1] = first
    BY <1>10, <1>11, <2>1
  <2> QED BY <2>2 DEF At
<1>13. ASSUME NEW j \in Nat, j < w PROVE At(b, 1 + j) = Digit(n, w - j)
  <2>1. PICK i \in Nat, k \in Nat, p \in Nat :
          /\ i = 1 + j /\ k = w - i /\ k < 4 /\ p = i + 1 /\ w - j = k + 1
          /\ p \in 1 .. 1 + w /\ ~(p <= 1) /\ p - 1 = i /\ i \in 1 .. w
    <3>1. 1 + j \in Nat /\ w - (1 + j) \in Nat /\ 1 + j + 1 \in Nat
      BY <1>1, <1>13
    <3> QED BY <1>1, <1>13, <3>1
  <2>2. b[p] = rest[i]
    BY <1>11, <2>1
  <2>3. rest[i] = ByteOf(n, k)
    BY <1>5, <2>1, Zenon
  <2>4. ByteOf(n, k) = Digit(n, k + 1)
    BY <2>1, ArgumentByte
  <2> QED BY <2>1, <2>2, <2>3, <2>4, Zenon DEF At
<1> QED BY <1>1, <1>3, <1>11, <1>12, <1>13

-----------------------------------------------------------------------------
\* An argument is what its bytes say.
LEMMA TwoDigits ==
  ASSUME NEW n \in Nat, n < 65536
  PROVE  256 * Digit(n, 2) + Digit(n, 1) = n
<1>1. PICK q \in Nat, r \in Nat : n = 256 * q + r /\ r < 256 /\ q = n \div 256 /\ r = n % 256
  OBVIOUS
<1>2. q < 256
  BY <1>1
<1>3. q % 256 = q /\ n \div 1 = n
  BY <1>2
<1>4. Digit(n, 2) = (n \div 256) % 256 /\ Digit(n, 1) = (n \div 1) % 256
  BY Places4 DEF Digit
<1> QED BY <1>1, <1>3, <1>4

\* The same of an argument that fits four bytes.
LEMMA FourDigits ==
  ASSUME NEW n \in Nat, n < Big32
  PROVE  /\ Digit(n, 4) \in Nat /\ Digit(n, 4) < 64
         /\ 65536 * (256 * Digit(n, 4) + Digit(n, 3)) + (256 * Digit(n, 2) + Digit(n, 1)) = n
<1>1. PICK b \in Nat, y \in Nat : n = 16777216 * b + y /\ y < 16777216
  <2>1. PICK b \in Nat, y \in Nat :
          n = 16777216 * b + y /\ y < 16777216 /\ b = n \div 16777216 /\ y = n % 16777216
    OBVIOUS
  <2> QED BY <2>1
<1>2. PICK c \in Nat, x \in Nat : y = 65536 * c + x /\ x < 65536
  <2>1. PICK c \in Nat, x \in Nat :
          y = 65536 * c + x /\ x < 65536 /\ c = y \div 65536 /\ x = y % 65536
    OBVIOUS
  <2> QED BY <2>1
<1>3. PICK d \in Nat, r \in Nat : x = 256 * d + r /\ r < 256
  <2>1. PICK d \in Nat, r \in Nat :
          x = 256 * d + r /\ r < 256 /\ d = x \div 256 /\ r = x % 256
    OBVIOUS
  <2> QED BY <2>1
<1>4. n < 1073741824
  BY DEF Big32
<1>5. b < 64
  BY <1>1, <1>2, <1>3, <1>4
<1>6. c < 256
  BY <1>1, <1>2, <1>3
<1>7. d < 256
  BY <1>1, <1>2, <1>3
<1>8. n \div 16777216 = b
  BY <1>1, <1>2, <1>3
<1>9. n \div 65536 = 256 * b + c
  <2>1. n = 65536 * (256 * b + c) + x
    BY <1>1, <1>2, <1>3
  <2> QED BY <1>1, <1>2, <1>3, <2>1
<1>10. n \div 256 = 256 * (256 * b + c) + d
  <2>1. n = 256 * (256 * (256 * b + c) + d) + r
    BY <1>1, <1>2, <1>3
  <2> QED BY <1>1, <1>2, <1>3, <2>1
<1>11. n \div 1 = 256 * (256 * (256 * b + c) + d) + r
  <2>1. n = 256 * (256 * (256 * b + c) + d) + r
    BY <1>1, <1>2, <1>3
  <2> QED BY <2>1
<1>12. b % 256 = b
  BY <1>5
<1>13. (256 * b + c) % 256 = c
  BY <1>6
<1>14. (256 * (256 * b + c) + d) % 256 = d
  <2>1. PICK k \in Nat : k = 256 * b + c
    OBVIOUS
  <2>2. (256 * k + d) % 256 = d
    BY <1>7
  <2> QED BY <2>1, <2>2
<1>15. (256 * (256 * (256 * b + c) + d) + r) % 256 = r
  <2>1. PICK k \in Nat : k = 256 * (256 * b + c) + d
    OBVIOUS
  <2>2. (256 * k + r) % 256 = r
    BY <1>1, <1>2, <1>3
  <2> QED BY <2>1, <2>2
<1>16. 65536 * (256 * b + c) + (256 * d + r) = n
  BY <1>1, <1>2, <1>3
<1>17. Digit(n, 4) = b /\ Digit(n, 3) = c
  BY <1>8, <1>9, <1>12, <1>13, Places4 DEF Digit
<1>18. Digit(n, 2) = d /\ Digit(n, 1) = r
  BY <1>10, <1>11, <1>14, <1>15, Places4 DEF Digit
<1>19. Digit(n, 4) \in Nat /\ Digit(n, 4) < 64
  BY <1>5, <1>17
<1>20. 256 * Digit(n, 4) + Digit(n, 3) = 256 * b + c
  BY <1>17
<1>21. 256 * Digit(n, 2) + Digit(n, 1) = 256 * d + r
  BY <1>18
<1>22. PICK k \in Nat, l \in Nat : k = 256 * b + c /\ l = 256 * d + r
  OBVIOUS
<1>23. 65536 * k + l = n
  BY <1>16, <1>22
<1>24. 256 * Digit(n, 4) + Digit(n, 3) = k /\ 256 * Digit(n, 2) + Digit(n, 1) = l
  BY <1>20, <1>21, <1>22
<1>25. 65536 * (256 * Digit(n, 4) + Digit(n, 3)) + (256 * Digit(n, 2) + Digit(n, 1)) = 65536 * k + l
  BY <1>24
<1> QED BY <1>19, <1>23, <1>25

\* A map's header, read back.
LEMMA HeaderReads ==
  ASSUME NEW s \in Seq(Byte), NEW n \in Nat, n < Big32, NEW h, h = MkHeader(MapType, n),
         Occurs(HeaderBytes(h), s, 0)
  PROVE  /\ HeadEnd(s, 0, TRUE) = Len(HeaderBytes(h))
         /\ ReadHeader(s, 0).type = MapType /\ ReadHeader(s, 0).arg = n
<1>1. PICK w, b : w = ArgumentWidth(h.size) /\ b = HeaderBytes(h)
  OBVIOUS
<1>2. /\ w \in Nat /\ w <= 4 /\ b \in Seq(Byte) /\ Len(b) = 1 + w
      /\ At(b, 0) = 160 + InfoOf(h)
      /\ \A j \in Nat : j < w => At(b, 1 + j) = Digit(n, w - j)
  BY <1>1, HeaderDigits
<1>3. PICK m \in Nat : m = Len(s) /\ 1 + w <= m
  <2>1. Len(s) \in Nat
    BY LenProperties
  <2>2. 0 + Len(b) <= Len(s)
    BY <1>1, Zenon DEF Occurs
  <2> QED BY <1>2, <2>1, <2>2
<1>4. ASSUME NEW o \in Nat, o < 1 + w PROVE At(s, o) = At(b, o)
  <2>1. At(s, 0 + o) = At(b, o)
    BY <1>1, <1>2, <1>4 DEF Occurs
  <2> QED BY <2>1
<1>5. PICK i \in Nat : i = InfoOf(h) /\ At(s, 0) = 160 + i /\ i <= 26
  <2>1. At(s, 0) = At(b, 0)
    BY <1>2, <1>4
  <2>2. InfoOf(h) \in Nat /\ InfoOf(h) <= 26
    BY WidthCases
  <2> QED BY <1>2, <2>1, <2>2
<1>6. MajorType(s, 0) = 5 /\ AdditionalInfo(s, 0) = i
  <2>1. (160 + i) \div 32 = 5 /\ (160 + i) % 32 = i
    BY <1>5
  <2> QED BY <1>5, <2>1 DEF MajorType, AdditionalInfo
<1>7. \/ n <= 23 /\ i = n /\ w = 0
      \/ n > 23 /\ n < 256 /\ i = 24 /\ w = 1
      \/ n >= 256 /\ n < 65536 /\ i = 25 /\ w = 2
      \/ n >= 65536 /\ i = 26 /\ w = 4
  BY <1>1, <1>5, WidthCases
<1>8. LongArgumentLen(i) = w
  BY <1>7 DEF LongArgumentLen, Info8, Info16, Info32, Info64
<1>9. ShortestLen(n) = 1 + w
  BY <1>7 DEF ShortestLen, Big32
<1>10. ArgumentAt(s, 0, i) = n
  <2>1. CASE n <= 23 /\ i = n /\ w = 0
    BY <2>1 DEF ArgumentAt, Info8, Info16, Info32, Info64
  <2>2. CASE n > 23 /\ n < 256 /\ i = 24 /\ w = 1
    <3>1. At(s, 1) = At(b, 1)
      BY <1>4, <2>2
    <3>2. At(b, 1 + 0) = Digit(n, w - 0)
      BY <1>2, <2>2
    <3>3. w - 0 = 1 /\ 1 + 0 = 1
      BY <2>2
    <3>4. At(s, 1) = Digit(n, 1)
      BY <3>1, <3>2, <3>3, Zenon
    <3>5. Digit(n, 1) = n
      BY <2>2, Places4 DEF Digit
    <3>6. ArgumentAt(s, 0, i) = At(s, 0 + 1)
      BY <2>2 DEF ArgumentAt, Info8
    <3> QED BY <3>4, <3>5, <3>6
  <2>3. CASE n >= 256 /\ n < 65536 /\ i = 25 /\ w = 2
    <3>1. At(s, 1) = At(b, 1) /\ At(s, 2) = At(b, 2)
      BY <1>4, <2>3
    <3>2. /\ At(b, 1 + 0) = Digit(n, w - 0)
          /\ At(b, 1 + 1) = Digit(n, w - 1)
      <4>1. \A j \in Nat : j < w => At(b, 1 + j) = Digit(n, w - j)
        BY <1>2
      <4>2. 0 \in Nat /\ 1 \in Nat /\ 0 < w /\ 1 < w
        BY <2>3
      <4> QED BY <4>1, <4>2, Zenon
    <3>3. w - 0 = 2 /\ w - 1 = 1 /\ 1 + 0 = 1 /\ 1 + 1 = 2
      BY <2>3
    <3>4. At(s, 1) = Digit(n, 2) /\ At(s, 2) = Digit(n, 1)
      BY <3>1, <3>2, <3>3, Zenon
    <3>5. ArgumentAt(s, 0, i) = 256 * At(s, 1) + At(s, 2)
      <4>1. ArgumentAt(s, 0, i) = BE16(s, 0 + 1)
        BY <2>3 DEF ArgumentAt, Info8, Info16
      <4>2. 0 + 1 = 1 /\ 1 + 1 = 2
        OBVIOUS
      <4> QED BY <4>1, <4>2 DEF BE16
    <3> QED BY <2>3, <3>4, <3>5, TwoDigits
  <2>4. CASE n >= 65536 /\ i = 26 /\ w = 4
    <3>1. /\ At(s, 1) = At(b, 1) /\ At(s, 2) = At(b, 2)
          /\ At(s, 3) = At(b, 3) /\ At(s, 4) = At(b, 4)
      BY <1>4, <2>4
    <3>2. /\ At(b, 1 + 0) = Digit(n, w - 0)
          /\ At(b, 1 + 1) = Digit(n, w - 1)
          /\ At(b, 1 + 2) = Digit(n, w - 2)
          /\ At(b, 1 + 3) = Digit(n, w - 3)
      <4>1. \A j \in Nat : j < w => At(b, 1 + j) = Digit(n, w - j)
        BY <1>2
      <4>2. 0 \in Nat /\ 1 \in Nat /\ 2 \in Nat /\ 3 \in Nat /\ 0 < w /\ 1 < w /\ 2 < w /\ 3 < w
        BY <2>4
      <4> QED BY <4>1, <4>2, Zenon
    <3>3. /\ w - 0 = 4 /\ w - 1 = 3 /\ w - 2 = 2 /\ w - 3 = 1
          /\ 1 + 0 = 1 /\ 1 + 1 = 2 /\ 1 + 2 = 3 /\ 1 + 3 = 4
      BY <2>4
    <3>4. /\ At(s, 1) = Digit(n, 4) /\ At(s, 2) = Digit(n, 3)
          /\ At(s, 3) = Digit(n, 2) /\ At(s, 4) = Digit(n, 1)
      BY <3>1, <3>2, <3>3, Zenon
    <3>5. ArgumentAt(s, 0, i) = IF At(s, 1) >= 64 THEN Big32
                                ELSE 65536 * (256 * At(s, 1) + At(s, 2)) + (256 * At(s, 3) + At(s, 4))
      <4>1. ArgumentAt(s, 0, i) = BE32(s, 0 + 1)
        BY <2>4 DEF ArgumentAt, Info8, Info16, Info32
      <4>2. 0 + 1 = 1 /\ 1 + 1 = 2 /\ 1 + 2 = 3 /\ 3 + 1 = 4
        OBVIOUS
      <4> QED BY <4>1, <4>2 DEF BE32, BE16
    <3>7. Digit(n, 4) \in Nat /\ Digit(n, 4) < 64
      BY FourDigits
    <3>8. ~(At(s, 1) >= 64)
      BY <3>4, <3>7
    <3>9. 65536 * (256 * Digit(n, 4) + Digit(n, 3)) + (256 * Digit(n, 2) + Digit(n, 1)) = n
      BY FourDigits
    <3> QED BY <3>4, <3>5, <3>8, <3>9
  <2> QED BY <1>7, <2>1, <2>2, <2>3, <2>4
<1>11. ReadHeader(s, 0).type = MapType /\ ReadHeader(s, 0).arg = n
  BY <1>6, <1>10 DEF ReadHeader, MapType
<1>12. HeadEnd(s, 0, TRUE) = 1 + w
  <2>1. MajorType(s, 0) # SimpleValue
    BY <1>6 DEF SimpleValue
  <2>2. 0 + 1 + LongArgumentLen(i) = 1 + w
    BY <1>2, <1>8
  <2>3. ~(0 >= Len(s)) /\ ~(i > 27 \/ 1 + w > Len(s)) /\ 1 + w - 0 = 1 + w
    BY <1>2, <1>3, <1>5
  <2>4. ShortestLen(ReadHeader(s, 0).arg) = 1 + w
    BY <1>9, <1>11
  <2>5. ~(0 < Len(s) /\ (i > 27 \/ 1 + w > Len(s)))
    BY <2>3
  <2>6. PICK yes \in BOOLEAN, simple \in BOOLEAN : yes = TRUE /\ simple = FALSE
    OBVIOUS
  <2>7. PICK o \in Nat, e \in Nat : o = 0 /\ e = 1 + w /\ e - o = 1 + w
    BY <1>2
  <2>8. HeadEnd(s, o, yes) =
          IF simple THEN IF i <= 23 \/ (i = 24 /\ At(s, o + 1) >= 32) THEN e ELSE Bad
          ELSE IF yes /\ ShortestLen(ReadHeader(s, o).arg) # e - o THEN Bad
          ELSE e
    BY <1>6, <2>1, <2>2, <2>3, <2>5, <2>6, <2>7 DEF HeadEnd
  <2>9. e - o = 1 + w /\ ShortestLen(ReadHeader(s, o).arg) = 1 + w
    BY <2>4, <2>7
  <2>10. HeadEnd(s, o, yes) = e
    BY <2>6, <2>8, <2>9
  <2> QED BY <2>6, <2>7, <2>10, Zenon
<1> QED BY <1>1, <1>2, <1>11, <1>12

-----------------------------------------------------------------------------
\* A header and behind it the entries are an item in deterministic encoding.
LEMMA MapIsItem ==
  ASSUME NEW s \in Seq(Byte), Len(s) <= SizeMax, NEW es, es \subseteq Entry, IsFiniteSet(es),
         NEW n, n = Cardinality(es), NEW b, b = HeaderBytes(MkHeader(MapType, n)),
         NEW lo \in Nat, lo = Len(b), lo <= Len(s),
         Occurs(b, s, 0), NEW at, Laid(s, es, lo, Len(s), at)
  PROVE  DetLength(s) = Len(s)
<1>1. PICK hi \in Nat : hi = Len(s)
  BY LenProperties
<1>2. n \in Nat
  BY FS_CardinalityType
<1>3. Pairs(s, lo, n) = hi /\ KeysAscend(s, lo, n, Det(s)) /\ 2 * n <= hi
  BY <1>1, <1>2, RowOfEntries
<1>4. n < Big32
  <2>1. hi < 1073741824
    BY <1>1, SizeAssumption
  <2> QED BY <1>2, <1>3, <2>1 DEF Big32
<1>5. PICK h : h = ReadHeader(s, 0)
  OBVIOUS
<1>6. HeadEnd(s, 0, TRUE) = lo /\ h.type = MapType /\ h.arg = n
  BY <1>2, <1>4, <1>5, HeaderReads
<1>7. hi # Bad /\ lo # Bad
  BY <1>1 DEF Bad
<1>8. PICK yes \in BOOLEAN, z \in Nat, one \in Nat : yes = TRUE /\ z = 0 /\ one = 1 /\ one > 0 /\ one - 1 = z
  <2>1. TRUE \in BOOLEAN /\ 0 \in Nat /\ 1 \in Nat /\ 1 > 0 /\ 1 - 1 = 0
    OBVIOUS
  <2> QED BY <2>1
<1>9. PICK E : E = Ends(s, yes, yes)
  OBVIOUS
<1>10. E = Det(s)
  BY <1>8, <1>9, Zenon DEF Det
<1>11. ItemEndBy(s, z, yes, yes, E) = hi
  <2>1. ItemEndBy(s, z, yes, yes, E) = ItemBehind(s, lo, h, yes, E)
    BY <1>5, <1>6, <1>8, Zenon DEF ItemEndBy
  <2>2. ItemBehind(s, lo, h, yes, E) = ItemEndFrom(s, lo, h, E[<<lo, 2 * n>>], yes, E)
    BY <1>6, <1>7 DEF ItemBehind
  <2>3. E[<<lo, 2 * n>>] = hi
    BY <1>3, <1>10, Zenon DEF Pairs
  <2>4. KeysAscend(s, lo, h.arg, E)
    BY <1>3, <1>6, <1>10, Zenon
  <2>5. PICK ascend \in BOOLEAN : ascend = KeysAscend(s, lo, h.arg, E)
    BY <2>4
  <2>6. ItemEndFrom(s, lo, h, hi, yes, E) = IF hi # Bad /\ (yes => ascend) THEN hi ELSE Bad
    BY <1>6, <2>5 DEF ItemEndFrom, UInt64, NegInt64, ByteString, TextString, ArrayType,
              MapType, Tagged, SimpleValue
  <2>7. ItemEndFrom(s, lo, h, hi, yes, E) = hi
    BY <1>7, <2>4, <2>5, <2>6
  <2> QED BY <2>1, <2>2, <2>3, <2>7, Zenon
<1>12. E[<<z, one>>] = E[<<hi, z>>]
  <2>1. z \in 0 .. Len(s)
    BY <1>1, <1>8
  <2>2. E[<<z, one>>] = E[<<ItemEndBy(s, z, yes, yes, E), one - 1>>]
    BY <1>8, <1>9, <2>1, EndsFirst, ZenonT(60)
  <2> QED BY <1>8, <1>11, <2>2, Zenon
<1>13. E[<<hi, z>>] = hi
  <2>1. hi \in Bad .. Len(s)
    BY <1>1 DEF Bad
  <2>2. z = 0
    BY <1>8
  <2>3. Ends(s, yes, yes)[<<hi, z>>] = hi
    BY <2>1, <2>2, EndsBound
  <2> QED BY <1>9, <2>3, Zenon
<1>14. ItemEnd(s, 0, TRUE) = hi
  BY <1>8, <1>9, <1>12, <1>13, Zenon DEF ItemEnd
<1> QED BY <1>1, <1>7, <1>14, Zenon DEF DetLength

\* The first bytes of a buffer.
LEMMA FrontFacts ==
  ASSUME NEW s \in Seq(Byte), NEW end \in Nat, end <= Len(s), NEW t, t = Slice(s, 0, end)
  PROVE  t \in Seq(Byte) /\ Len(t) = end /\ \A o \in Nat : o < end => At(t, o) = At(s, o)
<1>1. PICK z \in Nat : z = 0 /\ z <= end /\ end - z = end
  OBVIOUS
<1>2. \A o \in Nat : z + o = o
  BY <1>1
<1>3. /\ Slice(s, z, end) \in Seq(Byte) /\ Len(Slice(s, z, end)) = end - z
      /\ \A o \in Nat : o < end - z => At(Slice(s, z, end), o) = At(s, z + o)
  BY <1>1, SliceFacts
<1> QED BY <1>1, <1>2, <1>3

\* There are fewer entries than bytes.
LEMMA ManyEntries ==
  ASSUME NEW s \in Seq(Byte), Len(s) <= SizeMax, NEW es, es \subseteq Entry, IsFiniteSet(es),
         NEW size \in Nat, size <= Len(s), NEW at, Laid(s, es, 0, size, at)
  PROVE  Cardinality(es) < Big32
<1>1. PICK t, n : t = Slice(s, 0, size) /\ n = Cardinality(es)
  OBVIOUS
<1>2. n \in Nat /\ 0 \in Nat
  BY <1>1, FS_CardinalityType
<1>3. t \in Seq(Byte) /\ Len(t) = size /\ \A o \in Nat : o < size => At(t, o) = At(s, o)
  BY <1>1, FrontFacts
<1>4. Laid(t, es, 0, size, at)
  <2>1. size <= Len(t)
    BY <1>3
  <2> QED BY <1>2, <1>3, <2>1, LaidSame
<1>5. 2 * n <= size
  <2>1. Len(s) \in Nat
    BY LenProperties
  <2>2. Len(t) <= SizeMax
    BY <1>3, <2>1, SizeAssumption
  <2> QED BY <1>1, <1>2, <1>3, <1>4, <2>2, RowOfEntries
<1>6. size < 1073741824
  <2>1. Len(s) \in Nat
    BY LenProperties
  <2> QED BY <2>1, SizeAssumption
<1> QED BY <1>1, <1>2, <1>5, <1>6 DEF Big32

\* A map was built: the end bytes of s are a header and the entries in order.
BuiltMap(s, es, header, end) ==
  /\ DetLength(Slice(s, 0, end)) = end
  /\ Slice(s, 0, Len(header)) = header
  /\ \E at \in [es -> Starts(s, es, Len(header), end)] : Arranged(s, es, Len(header), end, at)

\* A header in front of entries in order is a map that was built.
LEMMA MapInFront ==
  ASSUME NEW s \in Seq(Byte), Len(s) <= SizeMax, NEW es, es \subseteq Entry, IsFiniteSet(es),
         NEW b \in Seq(Byte), b = HeaderBytes(MkHeader(MapType, Cardinality(es))),
         NEW w \in Nat, w = Len(b), NEW end \in Nat, w <= end, end <= Len(s),
         Occurs(b, s, 0), NEW at, Laid(s, es, w, end, at)
  PROVE  BuiltMap(s, es, b, end)
<1>1. Len(s) \in Nat
  BY LenProperties
<1>2. PICK t : t = Slice(s, 0, end)
  OBVIOUS
<1>3. t \in Seq(Byte) /\ Len(t) = end /\ \A o \in Nat : o < end => At(t, o) = At(s, o)
  BY <1>2, FrontFacts
<1>4. Laid(t, es, w, end, at)
  <2>1. end <= Len(t)
    BY <1>1, <1>3
  <2> QED BY <1>1, <1>3, <2>1, LaidSame
<1>5. Occurs(b, t, 0)
  <2>1. \A o \in Nat : o < end => At(t, o) = At(s, o)
    BY <1>3
  <2>2. ASSUME NEW o \in Nat, o < Len(b) PROVE At(t, 0 + o) = At(b, o)
    <3>1. o < end /\ 0 + o = o
      BY <1>1, <2>2
    <3>2. At(s, 0 + o) = At(b, o)
      BY <2>2 DEF Occurs
    <3> QED BY <2>1, <3>1, <3>2
  <2>3. 0 + Len(b) <= Len(t)
    BY <1>1, <1>3
  <2> QED BY <2>2, <2>3 DEF Occurs
<1>6. DetLength(t) = end
  <2>1. Len(t) <= SizeMax /\ w <= Len(t)
    BY <1>1, <1>3, SizeAssumption
  <2>2. Laid(t, es, w, Len(t), at)
    BY <1>3, <1>4, Zenon
  <2>3. DetLength(t) = Len(t)
    BY <1>3, <1>5, <2>1, <2>2, MapIsItem
  <2> QED BY <1>3, <2>3, Zenon
<1>7. Slice(s, 0, w) = b
  <2>1. PICK z \in Nat, c \in Nat : z = 0 /\ c = z + Len(b) /\ c = w /\ c <= Len(s)
    BY <1>1
  <2>2. Slice(s, z, z + Len(b)) = b
    BY <1>2, <1>1, <2>1, SliceIsOccurs
  <2> QED BY <2>1, <2>2, Zenon
<1>8. at \in [es -> Starts(s, es, w, end)] /\ Arranged(s, es, w, end, at)
  <2>1. end <= Len(s)
    BY <1>1
  <2> QED BY <1>1, <2>1, LaidIsArranged
<1> QED BY <1>2, <1>6, <1>7, <1>8, Zenon DEF BuiltMap

\* What cbor_det_serialize_map leaves in the buffer: the header, and behind it
\* the entries that were in front.
LEMMA FinishedMap ==
  ASSUME NEW s \in Seq(Byte), Len(s) <= SizeMax, NEW es, es \subseteq Entry, IsFiniteSet(es),
         NEW n, n = Cardinality(es), NEW b, b = HeaderBytes(MkHeader(MapType, n)),
         NEW size \in Nat, NEW w \in Nat, w = Len(b), NEW end, end = size + w, end <= Len(s),
         NEW at, Laid(s, es, 0, size, at),
         NEW s2, s2 = RotatedPart(Written(s, size, b), 0, end, size)
  PROVE  BuiltMap(s2, es, b, end)
<1>1. PICK len \in Nat : len = Len(s) /\ size + w <= len /\ end \in Nat
  <2>1. Len(s) \in Nat
    BY LenProperties
  <2> QED BY <2>1
<1>2. b \in Seq(Byte)
  <2>1. n \in Nat
    BY FS_CardinalityType
  <2>2. n < Big32
    BY <1>1, <2>1, ManyEntries
  <2>3. PICK h, a : h = MkHeader(MapType, n) /\ a = ArgumentWidth(h.size)
    OBVIOUS
  <2> QED BY <2>1, <2>2, <2>3, HeaderDigits
<1>3. PICK s1 : s1 = Written(s, size, b)
  OBVIOUS
<1>4. /\ s1 \in Seq(Byte) /\ Len(s1) = len /\ Occurs(b, s1, size)
      /\ \A o \in Nat : o < size => At(s1, o) = At(s, o)
  BY <1>1, <1>2, <1>3, WrittenFacts
<1>5. Laid(s1, es, 0, size, at)
  <2>1. size <= Len(s1) /\ 0 \in Nat
    BY <1>1, <1>4
  <2> QED BY <1>4, <2>1, LaidSame
<1>6. /\ s2 \in Seq(Byte) /\ Len(s2) = len
      /\ MovedBehind(s1, s2, 0, size, w) /\ MovedAhead(s1, s2, 0, size, w)
  <2>1. PICK z \in Nat : z = 0 /\ size = z + size
    OBVIOUS
  <2>2. s2 = RotatedPart(s1, z, end, size) /\ end <= Len(s1) /\ end \in Nat
    BY <1>1, <1>3, <1>4, <2>1
  <2>3. /\ RotatedPart(s1, z, end, size) \in Seq(Byte)
        /\ Len(RotatedPart(s1, z, end, size)) = Len(s1)
        /\ MovedBehind(s1, RotatedPart(s1, z, end, size), z, size, w)
        /\ MovedAhead(s1, RotatedPart(s1, z, end, size), z, size, w)
    BY <1>4, <2>1, <2>2, RotatedFacts
  <2> QED BY <1>4, <2>1, <2>2, <2>3, Zenon
<1>7. PICK at2 : Laid(s2, es, w, end, at2)
  <2>1. end = w + size /\ end <= Len(s2)
    BY <1>1, <1>6
  <2>2. at \in [es -> Nat]
    BY <1>5 DEF Laid
  <2>3. PICK at2 : at2 \in [es -> Nat] /\ MovedAt(es, at, w, at2)
    <3>1. PICK at2 : at2 = [e \in es |-> at[e] + w]
      OBVIOUS
    <3>2. at2 \in [es -> Nat] /\ \A e \in es : at2[e] = at[e] + w
      BY <2>2, <3>1
    <3> QED BY <3>2 DEF MovedAt
  <2>4. Laid(s2, es, w, end, at2)
    BY <1>4, <1>5, <1>6, <2>1, <2>3, LaidBehind, ZenonT(40)
  <2> QED BY <2>4
<1>8. Occurs(b, s2, 0)
  <2>1. ASSUME NEW o \in Nat, o < Len(b) PROVE At(s2, 0 + o) = At(b, o)
    <3>1. At(s2, 0 + o) = At(s1, size + o)
      BY <1>6, <2>1 DEF MovedAhead
    <3>2. At(s1, size + o) = At(b, o)
      BY <1>4, <2>1 DEF Occurs
    <3> QED BY <3>1, <3>2, Zenon
  <2>2. 0 + Len(b) <= Len(s2)
    BY <1>1, <1>6
  <2> QED BY <2>1, <2>2 DEF Occurs
<1> QED BY <1>1, <1>2, <1>6, <1>7, <1>8, MapInFront

-----------------------------------------------------------------------------
\* When the header fits, the map is built.
LEMMA FinishBuilds ==
  ASSUME IInv, Finish
  PROVE  BuiltMapIsDeterministic'
<1>1. PICK n, h, m : /\ n = Cardinality(inserted) /\ h = MkHeader(MapType, n)
                     /\ m = PrependHeader(h, out, psize) /\ ret' = m.ret /\ out' = m.out
                     /\ n = pcount
  <2>1. pcount = Cardinality(inserted)
    BY DEF IInv, TypeInv
  <2> QED BY <2>1 DEF Finish, SerializeMap
<1>2. pc = "entries" /\ pres = "idle" /\ inserted' = inserted
  BY DEF Finish, IInv, CallInv, TypeInv
<1>3. /\ out \in Seq(Byte) /\ Len(out) <= SizeMax /\ psize <= Len(out) /\ Len(out) \in Nat
      /\ psize \in Nat /\ inserted \subseteq Entry /\ IsFiniteSet(inserted)
  BY <1>2, LenProperties DEF IInv, BufferInv, TypeInv
<1>4. PICK b : b = HeaderBytes(h)
  OBVIOUS
<1>5. PICK w \in Nat, c \in Nat, len \in Nat :
        w = Len(b) /\ c = Len(out) - psize /\ len = Len(out)
  <2>1. Len(out) - psize \in Nat
    BY <1>3
  <2>2. Len(HeaderBytes(h)) \in Nat
    BY HeaderLength
  <2> QED BY <1>3, <1>4, <2>1, <2>2
<1>6. Size(Len(out) - psize) = c
  <2>1. c \in 0 .. SizeMax
    BY <1>3, <1>5, SizeAssumption
  <2> QED BY <1>5, <2>1, SizeId
<1>7. SizeHeader(h, c).ok <=> w <= c
  <2>1. PICK a \in Nat : a = ArgumentWidth(h.size) /\ w = 1 + a
    BY <1>5, <1>4, HeaderLength
  <2>2. pcount \in Nat
    BY DEF IInv, TypeInv
  <2>3. SizeWidth(InfoOf(h)) = a
    BY <1>1, <2>1, <2>2, SizerWidth
  <2> QED BY <2>1, <2>3 DEF SizeHeader
<1>8. SUFFICES ASSUME ret' > 0 PROVE BuiltMap(out', inserted, b, ret')
  BY <1>1, <1>2, <1>4 DEF BuiltMapIsDeterministic, BuiltMap
<1>9. w <= c
  <2>1. ~(w <= c) => m.ret = 0
    BY <1>1, <1>5, <1>6, <1>7 DEF PrependHeader
  <2> QED BY <1>1, <1>8, <2>1
<1>10. PICK end \in Nat : end = psize + w /\ end <= len
  <2>1. psize + w \in Nat /\ psize + w <= len
    BY <1>3, <1>5, <1>9
  <2> QED BY <2>1
<1>11. m.ret = end /\ m.out = RotatedPart(Written(out, psize, b), 0, end, psize)
  BY <1>1, <1>5, <1>6, <1>7, <1>9, <1>10, <1>4 DEF PrependHeader
<1>12. PICK at : Laid(out, inserted, 0, psize, at)
  BY <1>2 DEF IInv, LaidInv
<1>13. BuiltMap(m.out, inserted, b, end)
  <2>1. b = HeaderBytes(MkHeader(MapType, n)) /\ end <= Len(out)
    BY <1>1, <1>5, <1>10, <1>4
  <2> QED BY <1>1, <1>3, <1>5, <1>10, <1>11, <1>12, <2>1, FinishedMap
<1> QED BY <1>1, <1>11, <1>13, Zenon

\* A map that was built stays as it is.
LEMMA BuiltStays ==
  ASSUME IInv, BuiltMapIsDeterministic, [Next]_vars
  PROVE  BuiltMapIsDeterministic'
<1>1. CASE Finish
  BY <1>1, FinishBuilds
<1>2. CASE UNCHANGED vars
  BY <1>2 DEF vars, insertVars, BuiltMapIsDeterministic
<1>3. CASE Inserting
  <2>1. pc' = pc /\ pres = "progress"
    BY <1>3 DEF Inserting, InsertStep, SkipEntry, InsertBefore, SameKey, InsertLast, Looking
  <2>2. pc' = "insert"
    BY <2>1 DEF IInv, CallInv
  <2> QED BY <2>2 DEF BuiltMapIsDeterministic
<1>4. CASE CountFull \/ TableExcludes \/ CallInsert \/ Inserted \/ Refused
  <2>1. pc' # "done"
    BY <1>4 DEF CountFull, TableExcludes, CallInsert, Inserted, Refused
  <2> QED BY <2>1 DEF BuiltMapIsDeterministic
<1>5. ASSUME NEW k \in Keys, WriteKey(k) PROVE BuiltMapIsDeterministic'
  <2>1. pc' # "done"
    BY <1>5 DEF WriteKey
  <2> QED BY <2>1 DEF BuiltMapIsDeterministic
<1>6. ASSUME NEW v \in Values, WriteValue(v) PROVE BuiltMapIsDeterministic'
  <2>1. pc' # "done"
    BY <1>6 DEF WriteValue
  <2> QED BY <2>1 DEF BuiltMapIsDeterministic
<1> QED BY <1>1, <1>2, <1>3, <1>4, <1>5, <1>6 DEF Next

\* What cbor_det_serialize_map returns is the length of one item in
\* deterministic encoding, which is what cbor_det_parse accepts: a header with
\* the count of the entries, and behind it the entries in order.
THEOREM BuiltMaps == Spec => []BuiltMapIsDeterministic
<1>1. Init => BuiltMapIsDeterministic
  BY DEF Init, BuiltMapIsDeterministic
<1>2. IInv /\ BuiltMapIsDeterministic /\ [Next]_vars => BuiltMapIsDeterministic'
  BY BuiltStays
<1> QED BY <1>1, <1>2, Invariance, PTL DEF Spec
=============================================================================
