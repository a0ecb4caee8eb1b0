--------------------------- MODULE Juggling_proofs ---------------------------
(***************************************************************************)
(* The loops of the in-place rotation rotate, whatever the length and the   *)
(* shift.  Euclid's loop keeps what its two numbers combine to, so that it  *)
(* ends with a common divisor e of the length n and the shift s which is    *)
(* itself x * n + y * s.  Then the offsets fall into e cycles, one for each *)
(* rest modulo e: going round one, every offset has the rest of the first   *)
(* (OnRest), none comes back before n \div e of them (OnDiffers), the       *)
(* next one is the first again (OnCloses), and none with that rest is       *)
(* left out (OnCovers).                                                     *)
(***************************************************************************)
EXTENDS Juggling, SequenceTheorems, TLAPS

-----------------------------------------------------------------------------
(* Arithmetic *)

\* c is a sum of multiples of x and y.
Combines(c, x, y) == \E i, j \in Int : c = i * x + j * y

\* Each of the two numbers is such a sum.
LEMMA CombinesFirst ==
  ASSUME NEW x \in Int, NEW y \in Int
  PROVE  Combines(x, x, y) /\ Combines(y, x, y)
<1>1. x = 1 * x + 0 * y /\ y = 0 * x + 1 * y
  OBVIOUS
<1>2. 0 \in Int /\ 1 \in Int
  OBVIOUS
<1> QED BY <1>1, <1>2 DEF Combines

\* m is p without a multiple of r.
Rest(m, p, r) == \E k \in Int : p = k * r + m

\* A step of Euclid's algorithm makes such sums out of such sums.
LEMMA CombinesRest ==
  ASSUME NEW x \in Int, NEW y \in Int, NEW p \in Int, NEW r \in Int, NEW m \in Int,
         Combines(p, x, y), Combines(r, x, y), Rest(m, p, r)
  PROVE  Combines(m, x, y)
<1>1. PICK i, j \in Int : p = i * x + j * y
  BY DEF Combines
<1>2. PICK i2, j2 \in Int : r = i2 * x + j2 * y
  BY DEF Combines
<1>3. PICK k \in Int : p = k * r + m
  BY DEF Rest
<1>4. i - k * i2 \in Int /\ j - k * j2 \in Int
  OBVIOUS
<1>5. m = (i - k * i2) * x + (j - k * j2) * y
  BY <1>1, <1>2, <1>3
<1> QED BY <1>4, <1>5 DEF Combines

\* A step of Euclid's algorithm keeps what is combined of the two numbers.
LEMMA CombinesDivided ==
  ASSUME NEW c \in Int, NEW p \in Int, NEW r \in Int, NEW m \in Int,
         Combines(c, p, r), Rest(m, p, r)
  PROVE  Combines(c, r, m)
<1>1. PICK i, j \in Int : c = i * p + j * r
  BY DEF Combines
<1>2. PICK k \in Int : p = k * r + m
  BY DEF Rest
<1>3. i * k + j \in Int
  OBVIOUS
<1>4. c = (i * k + j) * r + i * m
  BY <1>1, <1>2
<1> QED BY <1>1, <1>3, <1>4 DEF Combines

\* A multiple of a positive number below that number is 0.
LEMMA SmallMultiple ==
  ASSUME NEW n \in Nat, NEW k \in Int, NEW x \in Int, x = k * n, -n < x, x < n
  PROVE  x = 0
<1>1. CASE k = 0
  BY <1>1
<1>2. CASE k >= 1
  <2>1. k * n >= n
    BY <1>2
  <2> QED BY <2>1
<1>3. CASE k <= -1
  <2>1. k * n <= -n
    BY <1>3
  <2> QED BY <2>1
<1> QED BY <1>1, <1>2, <1>3

\* Division with rest.
LEMMA DivMod ==
  ASSUME NEW n \in Nat, NEW e \in Nat, e > 0
  PROVE  /\ n \div e \in Nat /\ n % e \in Nat /\ n % e < e
         /\ n = (n \div e) * e + (n % e)
<1>1. PICK k \in Int, m \in Nat : k = n \div e /\ m = n % e /\ m < e
  OBVIOUS
<1>2. n = e * k + m
  BY <1>1
<1>3. k >= 0
  <2>1. CASE k <= -1
    <3>1. PICK z \in Int : z = e * k
      OBVIOUS
    <3>2. z <= -e
      BY <2>1, <3>1
    <3>3. n = z + m /\ m < e
      BY <1>1, <1>2, <3>1
    <3> QED BY <3>2, <3>3
  <2> QED BY <2>1
<1>4. e * k = k * e
  OBVIOUS
<1> QED BY <1>1, <1>2, <1>3, <1>4

\* Quotient and rest are the only ones.
LEMMA DivModUnique ==
  ASSUME NEW n \in Nat, NEW e \in Nat, e > 0, NEW r \in Nat, r < e, NEW k \in Int,
         n = k * e + r
  PROVE  n % e = r /\ n \div e = k
<1>1. PICK u \in Nat, m \in Nat : u = n \div e /\ m = n % e /\ m < e /\ n = u * e + m
  BY DivMod
<1>2. r - m = (u - k) * e
  BY <1>1
<1>3. r - m \in Int /\ u - k \in Int /\ -e < r - m /\ r - m < e
  BY <1>1
<1>4. r - m = 0
  BY <1>2, <1>3, SmallMultiple
<1>5. (u - k) * e = 0
  BY <1>2, <1>4
<1>6. u - k = 0
  BY <1>3, <1>5
<1> QED BY <1>1, <1>4, <1>6

-----------------------------------------------------------------------------
(* The cycles *)

\* A slice of n elements to be shifted by s; the greatest common divisor e of
\* the two, in which each of them is contained a number of times.
Shift(n, s, e) ==
  /\ n \in Nat /\ s \in Nat /\ s < n /\ e \in Nat /\ e > 0 /\ e <= n
  /\ Combines(e, n, s)
  /\ \E u \in Nat : n = u * e
  /\ \E v \in Nat : s = v * e

\* The offset p is the t-th of the cycle that begins at offset i.
On(n, s, i, t, p) == p \in Nat /\ p < n /\ \E k \in Int : p = i + t * s - k * n

\* The offset that the element at offset p comes from.
Source(n, s, p) == IF p >= n - s THEN p - (n - s) ELSE p + s

\* The source of an offset is an offset.
LEMMA SourceFits ==
  ASSUME NEW n \in Nat, NEW s \in Nat, s < n, NEW p \in Nat, p < n
  PROVE  Source(n, s, p) \in Nat /\ Source(n, s, p) < n
BY DEF Source

\* A cycle has one offset at each place.
LEMMA OnUnique ==
  ASSUME NEW n \in Nat, NEW s \in Nat, NEW i \in Nat, NEW t \in Int,
         NEW p, NEW p2, On(n, s, i, t, p), On(n, s, i, t, p2)
  PROVE  p = p2
<1>1. PICK k \in Int : p = i + t * s - k * n
  BY DEF On
<1>2. PICK k2 \in Int : p2 = i + t * s - k2 * n
  BY DEF On
<1>3. p - p2 = (k2 - k) * n
  BY <1>1, <1>2
<1>4. p \in Nat /\ p < n /\ p2 \in Nat /\ p2 < n
  BY DEF On
<1>5. p - p2 \in Int /\ k2 - k \in Int /\ -n < p - p2 /\ p - p2 < n
  BY <1>4
<1>6. p - p2 = 0
  BY <1>3, <1>5, SmallMultiple
<1> QED BY <1>4, <1>6

\* The next offset of a cycle is the source of the one before.
LEMMA OnNext ==
  ASSUME NEW n \in Nat, NEW s \in Nat, s < n, NEW i \in Nat, NEW t \in Nat,
         NEW p, On(n, s, i, t, p)
  PROVE  On(n, s, i, t + 1, Source(n, s, p))
<1>1. p \in Nat /\ p < n
  BY DEF On
<1>2. PICK k \in Int : p = i + t * s - k * n
  BY DEF On
<1>3. Source(n, s, p) \in Nat /\ Source(n, s, p) < n
  BY <1>1, SourceFits
<1>4. CASE p >= n - s
  <2>1. Source(n, s, p) = i + (t + 1) * s - (k + 1) * n
    BY <1>1, <1>2, <1>4 DEF Source
  <2>2. k + 1 \in Int
    OBVIOUS
  <2> QED BY <1>3, <2>1, <2>2 DEF On
<1>5. CASE ~(p >= n - s)
  <2>1. Source(n, s, p) = i + (t + 1) * s - k * n
    BY <1>1, <1>2, <1>5 DEF Source
  <2> QED BY <1>3, <2>1 DEF On
<1> QED BY <1>4, <1>5

\* All offsets of a cycle leave the same rest.
LEMMA OnRest ==
  ASSUME NEW n, NEW s, NEW e, Shift(n, s, e), NEW i \in Nat, i < e, NEW t \in Nat,
         NEW p, On(n, s, i, t, p)
  PROVE  p % e = i
<1>1. PICK k \in Int : p = i + t * s - k * n
  BY DEF On
<1>2. PICK u \in Nat : n = u * e
  BY DEF Shift
<1>3. PICK v \in Nat : s = v * e
  BY DEF Shift
<1>4. p \in Nat /\ e \in Nat /\ e > 0
  BY DEF On, Shift
<1>5. t * s = (t * v) * e /\ k * n = (k * u) * e
  BY <1>2, <1>3, <1>4
<1>6. t * v - k * u \in Int
  OBVIOUS
<1>7. p = (t * v - k * u) * e + i
  BY <1>1, <1>4, <1>5
<1> QED BY <1>4, <1>6, <1>7, DivModUnique

\* A cycle comes back to its first offset.
LEMMA OnCloses ==
  ASSUME NEW n, NEW s, NEW e, Shift(n, s, e), NEW i \in Nat, i < e,
         NEW u \in Nat, n = u * e, NEW p, On(n, s, i, u, p)
  PROVE  p = i
<1>1. PICK v \in Nat : s = v * e
  BY DEF Shift
<1>2. n \in Nat /\ s \in Nat /\ e \in Nat /\ e <= n
  BY DEF Shift
<1>3. u * s = v * n
  BY <1>1, <1>2
<1>4. i = i + u * s - v * n
  <2>1. PICK z \in Int : z = u * s /\ z = v * n
    BY <1>2, <1>3
  <2> QED BY <2>1
<1>5. On(n, s, i, u, i)
  <2>1. v \in Int /\ i < n
    BY <1>2
  <2> QED BY <1>4, <2>1 DEF On
<1> QED BY <1>2, <1>5, OnUnique

\* It does not before it has had n / e of them.
LEMMA OnDiffers ==
  ASSUME NEW n, NEW s, NEW e, Shift(n, s, e), NEW i \in Nat,
         NEW u \in Nat, n = u * e, NEW t \in Nat, NEW t2 \in Nat, t < t2, t2 < u,
         NEW p, On(n, s, i, t, p), On(n, s, i, t2, p)
  PROVE  FALSE
<1>1. n \in Nat /\ s \in Nat /\ e \in Nat /\ e > 0 /\ p \in Nat
  BY DEF Shift, On
<1>2. PICK k \in Int : p = i + t * s - k * n
  BY DEF On
<1>3. PICK k2 \in Int : p = i + t2 * s - k2 * n
  BY DEF On
<1>4. PICK x, y \in Int : e = x * n + y * s
  BY DEF Shift, Combines
<1>5. PICK g \in Int : g = t2 - t
  OBVIOUS
<1>6. g * s = (k2 - k) * n
  BY <1>1, <1>2, <1>3, <1>5
<1>7. g * e = (g * x + y * (k2 - k)) * n
  <2>1. g * e = (g * x) * n + y * (g * s)
    BY <1>1, <1>4
  <2>2. y * (g * s) = (y * (k2 - k)) * n
    BY <1>1, <1>6
  <2> QED BY <1>1, <2>1, <2>2
<1>8. g * e < n /\ g * e > 0
  <2>1. g >= 1 /\ g <= u - 1
    BY <1>5
  <2>2. g * e >= e /\ g * e <= (u - 1) * e
    BY <1>1, <2>1
  <2>3. (u - 1) * e = n - e
    BY <1>1
  <2> QED BY <1>1, <2>2, <2>3
<1>9. PICK z \in Int : z = g * e
  BY <1>1
<1>10. PICK w \in Int : w = g * x + y * (k2 - k)
  OBVIOUS
<1>11. z = w * n /\ -n < z /\ z < n
  BY <1>1, <1>7, <1>8, <1>9, <1>10
<1>12. z = 0
  BY <1>1, <1>11, SmallMultiple
<1> QED BY <1>8, <1>9, <1>12

\* A cycle has all the offsets with the rest of its first.
LEMMA OnCovers ==
  ASSUME NEW n, NEW s, NEW e, Shift(n, s, e), NEW u \in Nat, n = u * e,
         NEW p \in Nat, p < n
  PROVE  \E t \in Nat : t < u /\ On(n, s, p % e, t, p)
<1>1. n \in Nat /\ s \in Nat /\ e \in Nat /\ e > 0
  BY DEF Shift
<1>2. PICK m \in Nat, r \in Nat : r = p % e /\ p = m * e + r
  <2>1. p \div e \in Nat /\ p % e \in Nat /\ p = (p \div e) * e + (p % e)
    BY <1>1, DivMod
  <2> QED BY <2>1
<1>3. PICK x, y \in Int : e = x * n + y * s
  BY DEF Shift, Combines
<1>4. PICK v \in Nat : s = v * e
  BY DEF Shift
<1>5. u > 0
  BY <1>1
<1>6. PICK g \in Int : g = m * y
  OBVIOUS
\* The place, of which g may be off by a multiple of u.
<1>7. PICK t \in Nat, h \in Int : t < u /\ g = h * u + t
  <2>1. PICK w \in Nat : g + w >= 0
    <3>1. CASE g >= 0
      <4>1. g + 0 >= 0 /\ 0 \in Nat
        BY <3>1
      <4> QED BY <4>1
    <3>2. CASE g < 0
      <4>1. g + (-g) >= 0 /\ -g \in Nat
        BY <3>2
      <4> QED BY <4>1
    <3> QED BY <3>1, <3>2
  <2>2. w * u >= w
    BY <1>5
  <2>3. PICK z \in Nat : z = g + w * u
    BY <2>1, <2>2
  <2>4. PICK h \in Nat, t \in Nat : z = h * u + t /\ t < u
    BY <1>5, DivMod
  <2>5. g = (h - w) * u + t
    BY <2>3, <2>4
  <2> QED BY <2>4, <2>5
<1>8. t * s = g * s - (h * v) * n
  <2>1. t * s = g * s - (h * u) * s
    BY <1>1, <1>7
  <2>2. (h * u) * s = (h * v) * n
    BY <1>1, <1>4
  <2> QED BY <2>1, <2>2
<1>9. g * s = m * e - (m * x) * n
  <2>1. m * e = m * (x * n) + m * (y * s)
    BY <1>1, <1>3
  <2>2. m * (y * s) = g * s /\ m * (x * n) = (m * x) * n
    BY <1>1, <1>6
  <2> QED BY <1>1, <2>1, <2>2
<1>10. p = r + t * s - (- (m * x) - h * v) * n
  BY <1>1, <1>2, <1>8, <1>9
<1>11. - (m * x) - h * v \in Int
  OBVIOUS
<1> QED BY <1>2, <1>7, <1>10, <1>11 DEF On

-----------------------------------------------------------------------------
(* The inductive invariant *)

N == Len(a0)

\* What the slice holds when the offsets moved so far have the element that the
\* rotated slice has there, and the others still have their own: between two
\* cycles, and within the pi-th one when pj of its elements have been moved.
Turned(p) == Source(N, l, p) + 1

CyclesMoved ==
  \A p \in Nat : p < N => a[p + 1] = IF p % pn < pi THEN Turned(p) ELSE p + 1

InCycle(p) == \E t \in Nat : t < pj /\ On(N, l, pi, t, p)
PartMoved ==
  \A p \in Nat : p < N => a[p + 1] = IF p % pn < pi \/ InCycle(p) THEN Turned(p) ELSE p + 1

SliceInv ==
  /\ N \in Nat /\ a0 \in Seq(Nat) /\ \A i \in 1 .. N : a0[i] = i
  /\ a \in Seq(Nat) /\ Len(a) = N
  /\ l \in Nat /\ l <= N
  /\ pc \in {"start", "gcd", "cycle", "move", "done"}

StartInv ==
  /\ pc \in {"start", "gcd"} => a = a0 /\ pi = 0
  /\ pc = "start" => pn = N /\ pl = l

EuclidInv ==
  pc = "gcd" =>
    /\ l > 0 /\ l < N /\ pn \in Nat /\ pn > 0 /\ pl \in Nat
    /\ Combines(N, pn, pl) /\ Combines(l, pn, pl)
    /\ Combines(pn, N, l) /\ Combines(pl, N, l)

CycleInv ==
  /\ pc \in {"cycle", "move"} => Shift(N, l, pn) /\ pi \in Nat /\ pi <= pn
  /\ pc = "cycle" => CyclesMoved

MoveInv ==
  pc = "move" =>
    /\ pi < pn /\ save = pi + 1
    /\ pj \in Nat /\ pj < N \div pn /\ On(N, l, pi, pj, pidx)
    /\ PartMoved

DoneInv == pc = "done" => a = R!RotatedPart(a0, 0, N, l)

IInv == SliceInv /\ StartInv /\ EuclidInv /\ CycleInv /\ MoveInv /\ DoneInv

\* The invariant holds of a slice as it is given.
LEMMA InitIInv == Init => IInv
<1> SUFFICES ASSUME Init PROVE IInv
  OBVIOUS
<1>1. PICK len \in Nat : a = [i \in 1 .. len |-> i]
  BY DEF Init
<1>2. a \in Seq(Nat) /\ Len(a) = len /\ \A i \in 1 .. len : a[i] = i
  BY <1>1
<1>3. N = len /\ a0 = a /\ pi = 0 /\ l \in Nat /\ l <= N /\ pc = "start" /\ pn = N /\ pl = l
  BY <1>2 DEF Init, N
<1> QED
  BY <1>2, <1>3 DEF IInv, SliceInv, StartInv, EuclidInv, CycleInv, MoveInv, DoneInv

\* A slice that is rotated by 0, or by its whole length, is the same.
LEMMA TurnedByNothing ==
  ASSUME SliceInv, a = a0, l = 0 \/ l = N
  PROVE  a = R!RotatedPart(a0, 0, N, l)
<1>1. DOMAIN a0 = 1 .. N
  BY DEF SliceInv, N
<1>2. R!RotatedPart(a0, 0, N, l) = [i \in 1 .. N |-> IF i + l <= N THEN a0[i + l] ELSE a0[i + l - (N - 0)]]
  BY <1>1 DEF R!RotatedPart, SliceInv
<1>3. a0 = [i \in 1 .. N |-> a0[i]]
  BY <1>1 DEF SliceInv
<1>4. \A i \in 1 .. N : a0[i] = IF i + l <= N THEN a0[i + l] ELSE a0[i + l - (N - 0)]
  BY DEF SliceInv
<1> QED BY <1>2, <1>3, <1>4

\* It holds when the call returns at once, and when Euclid's loop begins.
LEMMA StartIInv == IInv /\ Start => IInv'
<1> SUFFICES ASSUME IInv, Start PROVE IInv'
  OBVIOUS
<1>1. /\ a = a0 /\ pi = 0 /\ pn = N /\ pl = l /\ pc = "start"
      /\ UNCHANGED <<a, a0, l, pn, pl, pi, pj, pidx, save>>
  BY DEF IInv, StartInv, Start
<1>2. N' = N
  BY <1>1 DEF N
<1>3. SliceInv
  BY DEF IInv
<1>4. CASE l = 0 \/ l = N
  <2>1. pc' = "done"
    BY <1>4 DEF Start, SliceInv, IInv, N
  <2>2. a = R!RotatedPart(a0, 0, N, l)
    BY <1>1, <1>3, <1>4, TurnedByNothing
  <2> QED
    BY <1>1, <1>2, <1>3, <2>1, <2>2 DEF IInv, SliceInv, StartInv, EuclidInv, CycleInv, MoveInv, DoneInv
<1>5. CASE ~(l = 0 \/ l = N)
  <2>1. pc' = "gcd"
    BY <1>3, <1>5 DEF Start, SliceInv
  <2>2. N \in Int /\ l \in Int /\ N > 0 /\ l > 0 /\ l < N
    BY <1>3, <1>5 DEF SliceInv
  <2>3. Combines(N, N, l) /\ Combines(l, N, l)
    BY <2>2, CombinesFirst
  <2> QED
    BY <1>1, <1>2, <1>3, <2>1, <2>2, <2>3
       DEF IInv, SliceInv, StartInv, EuclidInv, CycleInv, MoveInv, DoneInv
<1> QED BY <1>4, <1>5

\* A step of Euclid's loop keeps it.
LEMMA EuclidIInv == IInv /\ Euclid => IInv'
<1> SUFFICES ASSUME IInv, Euclid PROVE IInv'
  OBVIOUS
<1>1. /\ pc = "gcd" /\ pl > 0 /\ pn' = pl /\ pl' = pn % pl
      /\ UNCHANGED <<pc, a, a0, l, pi, pj, pidx, save>>
  BY DEF Euclid
<1>2. N' = N
  BY <1>1 DEF N
<1>3. /\ SliceInv /\ a = a0 /\ l > 0 /\ l < N /\ pn \in Nat /\ pl \in Nat /\ pi = 0
      /\ Combines(N, pn, pl) /\ Combines(l, pn, pl)
      /\ Combines(pn, N, l) /\ Combines(pl, N, l)
  BY <1>1 DEF IInv, StartInv, EuclidInv
<1>4. PICK m \in Nat : m = pn % pl /\ Rest(m, pn, pl)
  <2>1. pn \div pl \in Nat /\ pn % pl \in Nat /\ pn = (pn \div pl) * pl + (pn % pl)
    BY <1>1, <1>3, DivMod
  <2> QED BY <2>1 DEF Rest
<1>5. N \in Int /\ l \in Int
  BY <1>3 DEF SliceInv
<1>6. Combines(N, pl, m) /\ Combines(l, pl, m)
  BY <1>3, <1>4, <1>5, CombinesDivided
<1>7. Combines(m, N, l)
  BY <1>3, <1>4, <1>5, CombinesRest
<1> QED
  BY <1>1, <1>2, <1>3, <1>4, <1>6, <1>7
     DEF IInv, SliceInv, StartInv, EuclidInv, CycleInv, MoveInv, DoneInv

\* A number that combines another one and 0 is a multiple of it.
LEMMA CombinesZero ==
  ASSUME NEW c \in Nat, NEW p \in Nat, c > 0, p > 0, Combines(c, p, 0)
  PROVE  \E u \in Nat : c = u * p
<1>1. PICK i, j \in Int : c = i * p + j * 0
  BY DEF Combines
<1>2. c = i * p
  BY <1>1
<1>3. CASE i <= 0
  <2>1. i * p <= 0
    BY <1>3
  <2> QED BY <1>2, <2>1
<1>4. CASE i > 0
  BY <1>2, <1>4
<1> QED BY <1>3, <1>4

\* When Euclid's loop ends with e and 0, e divides the length and the shift;
\* no element has moved.
LEMMA EuclidEndIInv == IInv /\ EuclidEnd => IInv'
<1> SUFFICES ASSUME IInv, EuclidEnd PROVE IInv'
  OBVIOUS
<1>1. /\ pc = "gcd" /\ pl = 0 /\ pc' = "cycle"
      /\ UNCHANGED <<a, a0, l, pn, pl, pi, pj, pidx, save>>
  BY DEF EuclidEnd
<1>2. N' = N
  BY <1>1 DEF N
<1>3. /\ SliceInv /\ a = a0 /\ l > 0 /\ l < N /\ pn \in Nat /\ pn > 0 /\ pi = 0
      /\ Combines(N, pn, 0) /\ Combines(l, pn, 0) /\ Combines(pn, N, l)
  BY <1>1 DEF IInv, StartInv, EuclidInv
<1>4. N \in Nat /\ l \in Nat /\ N > 0
  BY <1>3 DEF SliceInv
<1>5. PICK u \in Nat : N = u * pn
  BY <1>3, <1>4, CombinesZero
<1>6. PICK v \in Nat : l = v * pn
  BY <1>3, <1>4, CombinesZero
<1>7. pn <= N
  <2>1. u >= 1
    BY <1>3, <1>4, <1>5
  <2> QED BY <1>3, <1>5, <2>1
<1>8. Shift(N, l, pn)
  BY <1>3, <1>4, <1>5, <1>6, <1>7 DEF Shift
<1>9. CyclesMoved
  <2> SUFFICES ASSUME NEW p \in Nat, p < N
               PROVE  a[p + 1] = IF p % pn < pi THEN Turned(p) ELSE p + 1
    BY DEF CyclesMoved
  <2>1. ~(p % pn < pi)
    BY <1>3, DivMod
  <2>2. p + 1 \in 1 .. N
    BY <1>4
  <2> QED BY <1>3, <2>1, <2>2 DEF SliceInv
<1>10. CyclesMoved'
  BY <1>1, <1>2, <1>9 DEF CyclesMoved, Turned
<1> QED
  BY <1>1, <1>2, <1>3, <1>4, <1>8, <1>10
     DEF IInv, SliceInv, StartInv, EuclidInv, CycleInv, MoveInv, DoneInv

\* A cycle begins at an offset that still has its own element, which is saved.
LEMMA StartCycleIInv == IInv /\ StartCycle => IInv'
<1> SUFFICES ASSUME IInv, StartCycle PROVE IInv'
  OBVIOUS
<1>1. /\ pc = "cycle" /\ pi < pn /\ save' = a[pi + 1] /\ pj' = 0 /\ pidx' = pi /\ pc' = "move"
      /\ UNCHANGED <<a, a0, l, pn, pl, pi>>
  BY DEF StartCycle, d
<1>2. N' = N
  BY <1>1 DEF N
<1>3. SliceInv /\ Shift(N, l, pn) /\ pi \in Nat /\ CyclesMoved
  BY <1>1 DEF IInv, CycleInv
<1>4. N \in Nat /\ l \in Nat /\ pn \in Nat /\ pn > 0 /\ pn <= N /\ pi < N
  BY <1>1, <1>3 DEF Shift
<1>5. On(N, l, pi, 0, pi)
  <2>1. pi = pi + 0 * l - 0 * N
    BY <1>3, <1>4
  <2>2. 0 \in Int
    OBVIOUS
  <2> QED BY <1>3, <1>4, <2>1, <2>2 DEF On
<1>6. a[pi + 1] = pi + 1
  <2>1. pi = 0 * pn + pi
    BY <1>3, <1>4
  <2>2. pi % pn = pi
    BY <1>1, <1>3, <1>4, <2>1, DivModUnique
  <2>3. ~(pi % pn < pi)
    BY <1>3, <2>2
  <2> QED BY <1>3, <1>4, <2>3 DEF CyclesMoved
<1>7. 0 < N \div pn
  <2>1. PICK k \in Nat, m \in Nat : k = N \div pn /\ m < pn /\ N = k * pn + m
    <3>1. N \div pn \in Nat /\ N % pn \in Nat /\ N % pn < pn /\ N = (N \div pn) * pn + (N % pn)
      BY <1>4, DivMod
    <3> QED BY <3>1
  <2>2. CASE k = 0
    BY <1>4, <2>1, <2>2
  <2> QED BY <2>1, <2>2
<1>8. PartMoved'
  <2>1. \A p : ~InCycle(p)'
    BY <1>1 DEF InCycle
  <2> QED BY <1>1, <1>2, <1>3, <2>1 DEF PartMoved, CyclesMoved, Turned
<1>9. On(N, l, pi, pj', pidx')
  BY <1>1, <1>5
<1> QED
  BY <1>1, <1>2, <1>3, <1>6, <1>7, <1>8, <1>9
     DEF IInv, SliceInv, StartInv, EuclidInv, CycleInv, MoveInv, DoneInv

\* Where a cycle is when some of its elements have been moved: the numbers,
MoveTypes ==
  /\ N \in Nat /\ l \in Nat /\ l < N /\ pn \in Nat /\ pn > 0
  /\ pi \in Nat /\ pi < pn /\ pj \in Nat /\ pj \in Int
  /\ pidx \in Nat /\ pidx < N
  /\ save = pi + 1 /\ save \in Nat

\* the count of elements in the cycle,
MoveCount == \E u \in Nat : u = N \div pn /\ N = u * pn /\ pj < u

\* the offset it is at, and where the next element comes from.
MovePlace ==
  /\ Shift(N, l, pn) /\ On(N, l, pi, pj, pidx)
  /\ pidx % pn = pi /\ From(pidx) = Source(N, l, pidx)

\* All of these follow from the invariant.
LEMMA MoveFacts ==
  ASSUME IInv, pc = "move"
  PROVE  SliceInv /\ PartMoved /\ MoveTypes /\ MoveCount /\ MovePlace
<1>1. SliceInv /\ PartMoved
  BY DEF IInv, MoveInv
<1>2. /\ Shift(N, l, pn) /\ pi \in Nat /\ pi < pn /\ save = pi + 1
      /\ pj \in Nat /\ pj < N \div pn /\ On(N, l, pi, pj, pidx)
  BY DEF IInv, CycleInv, MoveInv
<1>3. N \in Nat /\ l \in Nat /\ l < N /\ pn \in Nat /\ pn > 0 /\ Len(a) = N
  BY <1>1, <1>2 DEF Shift, SliceInv
<1>4. pidx \in Nat /\ pidx < N
  BY <1>2 DEF On
<1>5. MoveTypes
  BY <1>2, <1>3, <1>4 DEF MoveTypes
<1>6. pidx % pn = pi
  BY <1>2, OnRest
<1>7. From(pidx) = Source(N, l, pidx)
  BY <1>3 DEF From, Source
<1>8. MovePlace
  BY <1>2, <1>6, <1>7 DEF MovePlace
<1>9. MoveCount
  <2>1. PICK u \in Nat : N = u * pn
    BY <1>2 DEF Shift
  <2>2. N = u * pn + 0
    BY <1>3, <2>1
  <2>3. N \div pn = u
    BY <1>3, <2>2, DivModUnique
  <2>4. pj < u
    BY <1>2, <2>3
  <2> QED BY <2>1, <2>3, <2>4 DEF MoveCount
<1> QED BY <1>1, <1>5, <1>8, <1>9

\* To write one element of the slice.
LEMMA WriteElement ==
  ASSUME SliceInv, NEW p \in Nat, p < N, NEW x \in Nat, a' = [a EXCEPT ![p + 1] = x]
  PROVE  /\ a' \in Seq(Nat) /\ Len(a') = N
         /\ a'[p + 1] = x
         /\ \A o \in Nat : o < N /\ o # p => a'[o + 1] = a[o + 1]
<1>1. a \in Seq(Nat) /\ Len(a) = N /\ N \in Nat /\ p + 1 \in 1 .. Len(a)
  BY DEF SliceInv
<1>2. /\ a' \in Seq(Nat) /\ Len(a') = Len(a)
      /\ \A i \in 1 .. Len(a) : a'[i] = IF i = p + 1 THEN x ELSE a[i]
  BY <1>1, ExceptSeq
<1>3. ASSUME NEW o \in Nat, o < N, o # p PROVE a'[o + 1] = a[o + 1]
  <2>1. o + 1 \in 1 .. Len(a) /\ o + 1 # p + 1
    BY <1>1, <1>3
  <2> QED BY <1>2, <2>1
<1> QED BY <1>1, <1>2, <1>3

\* One more element of a cycle moves: it comes from an offset that no element
\* of this cycle, nor of an earlier one, has been moved to.
LEMMA MoveIInv == IInv /\ Move => IInv'
<1> SUFFICES ASSUME IInv, Move PROVE IInv'
  OBVIOUS
<1>1. /\ pc = "move"
      /\ pj' = pj + 1 /\ pidx' = From(pidx)
      /\ UNCHANGED <<pc, a0, l, pn, pl, pi, save>>
  BY DEF Move
<1>2. SliceInv /\ PartMoved /\ MoveTypes /\ MoveCount /\ MovePlace
  BY <1>1, MoveFacts
<1>3. pj < (N \div pn) - 1 /\ a' = [a EXCEPT ![pidx + 1] = a[From(pidx) + 1]]
  BY <1>2 DEF Move, q, d, SliceInv
<1>4. N' = N
  BY <1>1 DEF N
<1> DEFINE next == Source(N, l, pidx)
<1>5. next \in Nat /\ next < N /\ next = From(pidx)
  BY <1>2, SourceFits DEF MoveTypes, MovePlace
<1>6. PICK u \in Nat : u = N \div pn /\ N = u * pn /\ pj < u
  BY <1>2 DEF MoveCount
<1>7. pj + 1 \in Nat /\ pj < pj + 1 /\ pj + 1 < u
  <2>1. pj < u - 1 /\ pj \in Nat
    BY <1>2, <1>3, <1>6 DEF MoveTypes
  <2> QED BY <2>1
<1>8. On(N, l, pi, pj + 1, next)
  BY <1>2, OnNext DEF MoveTypes, MovePlace
<1>9. next % pn = pi
  BY <1>2, <1>7, <1>8, OnRest DEF MoveTypes, MovePlace
<1>10. ~InCycle(next)
  <2> SUFFICES ASSUME NEW t \in Nat, t < pj, On(N, l, pi, t, next) PROVE FALSE
    BY DEF InCycle
  <2>1. t < pj + 1
    BY <1>2 DEF MoveTypes
  <2>2. Shift(N, l, pn) /\ pi \in Nat
    BY <1>2 DEF MovePlace, MoveTypes
  <2> QED BY <1>6, <1>7, <1>8, <2>1, <2>2, OnDiffers
<1> HIDE DEF next
<1>11. a[next + 1] = next + 1
  <2>1. ~(next % pn < pi)
    BY <1>2, <1>9 DEF MoveTypes
  <2> QED BY <1>2, <1>5, <1>10, <2>1 DEF PartMoved
<1>12. /\ a' \in Seq(Nat) /\ Len(a') = N /\ a'[pidx + 1] = next + 1
       /\ \A o \in Nat : o < N /\ o # pidx => a'[o + 1] = a[o + 1]
  <2>1. next + 1 \in Nat
    BY <1>5
  <2>2. a' = [a EXCEPT ![pidx + 1] = next + 1]
    BY <1>3, <1>5, <1>11
  <2>3. SliceInv /\ pidx \in Nat /\ pidx < N
    BY <1>2 DEF MoveTypes
  <2> QED BY <2>1, <2>2, <2>3, WriteElement
<1>13. PartMoved'
  <2> SUFFICES ASSUME NEW p \in Nat, p < N
               PROVE  a'[p + 1] = IF p % pn < pi \/ InCycle(p)' THEN Turned(p) ELSE p + 1
    BY <1>1, <1>4 DEF PartMoved, Turned
  <2>1. InCycle(p)' <=> \E t \in Nat : t < pj + 1 /\ On(N, l, pi, t, p)
    BY <1>1, <1>4 DEF InCycle
  <2>2. pj \in Nat /\ pj \in Int /\ N \in Nat /\ l \in Nat /\ pi \in Nat
    BY <1>2 DEF MoveTypes
  <2>3. On(N, l, pi, pj, pidx)
    BY <1>2 DEF MovePlace
  <2>4. CASE p = pidx
    <3>1. InCycle(p)'
      BY <1>7, <2>1, <2>2, <2>3, <2>4
    <3>2. Turned(p) = next + 1
      BY <2>4 DEF Turned, next
    <3> QED BY <1>12, <2>4, <3>1, <3>2
  <2>5. CASE p # pidx
    <3>1. InCycle(p)' <=> InCycle(p)
      <4>1. ~On(N, l, pi, pj, p)
        BY <2>2, <2>3, <2>5, OnUnique
      <4>2. \A t \in Nat : t < pj + 1 <=> t < pj \/ t = pj
        BY <2>2
      <4> QED BY <2>1, <4>1, <4>2 DEF InCycle
    <3>2. a'[p + 1] = a[p + 1]
      BY <1>12, <2>5
    <3>3. a[p + 1] = IF p % pn < pi \/ InCycle(p) THEN Turned(p) ELSE p + 1
      BY <1>2 DEF PartMoved
    <3> QED BY <3>1, <3>2, <3>3
  <2> QED BY <2>4, <2>5
<1>14. SliceInv'
  BY <1>1, <1>2, <1>4, <1>12 DEF SliceInv
<1>15. MoveInv'
  <2>1. pj' \in Nat /\ pj' < N \div pn
    BY <1>1, <1>6, <1>7
  <2>2. On(N, l, pi, pj', pidx')
    BY <1>1, <1>5, <1>8
  <2>3. pi < pn /\ save = pi + 1
    BY <1>2 DEF MoveTypes
  <2> QED BY <1>1, <1>4, <1>13, <2>1, <2>2, <2>3 DEF MoveInv
<1> QED
  BY <1>1, <1>4, <1>14, <1>15 DEF IInv, StartInv, EuclidInv, CycleInv, DoneInv

\* The last offset of a cycle takes the saved element, and then all offsets
\* with the rest of this cycle have what they should.
LEMMA EndCycleIInv == IInv /\ EndCycle => IInv'
<1> SUFFICES ASSUME IInv, EndCycle PROVE IInv'
  OBVIOUS
<1>1. /\ pc = "move"
      /\ a' = [a EXCEPT ![pidx + 1] = save]
      /\ pi' = pi + 1 /\ pc' = "cycle"
      /\ UNCHANGED <<a0, l, pn, pl, pj, pidx, save>>
  BY DEF EndCycle
<1>2. SliceInv /\ PartMoved /\ MoveTypes /\ MoveCount /\ MovePlace
  BY <1>1, MoveFacts
<1>3. pj = (N \div pn) - 1
  BY <1>2 DEF EndCycle, q, d, SliceInv
<1>4. N' = N
  BY <1>1 DEF N
<1>5. PICK u \in Nat : u = N \div pn /\ N = u * pn
  BY <1>2 DEF MoveCount
<1>6. pj + 1 = u /\ pj = u - 1
  <2>1. pj = u - 1 /\ pj \in Nat
    BY <1>2, <1>3, <1>5 DEF MoveTypes
  <2> QED BY <2>1
<1>7. Source(N, l, pidx) = pi
  <2>1. On(N, l, pi, pj + 1, Source(N, l, pidx))
    BY <1>2, OnNext DEF MoveTypes, MovePlace
  <2>2. On(N, l, pi, u, Source(N, l, pidx))
    BY <1>6, <2>1
  <2>3. Shift(N, l, pn) /\ pi \in Nat /\ pi < pn
    BY <1>2 DEF MoveTypes, MovePlace
  <2> QED BY <1>5, <2>2, <2>3, OnCloses
<1>8. /\ a' \in Seq(Nat) /\ Len(a') = N /\ a'[pidx + 1] = pi + 1
      /\ \A o \in Nat : o < N /\ o # pidx => a'[o + 1] = a[o + 1]
  <2>1. SliceInv /\ pidx \in Nat /\ pidx < N /\ save \in Nat /\ save = pi + 1
    BY <1>2 DEF MoveTypes
  <2> QED BY <1>1, <2>1, WriteElement
<1>9. CyclesMoved'
  <2> SUFFICES ASSUME NEW p \in Nat, p < N
               PROVE  a'[p + 1] = IF p % pn < pi + 1 THEN Turned(p) ELSE p + 1
    BY <1>1, <1>4 DEF CyclesMoved, Turned
  <2>1. N \in Nat /\ l \in Nat /\ pi \in Nat /\ pj \in Int /\ pn \in Nat /\ pn > 0 /\ pi < pn
    BY <1>2 DEF MoveTypes
  <2>2. Shift(N, l, pn) /\ On(N, l, pi, pj, pidx) /\ pidx % pn = pi
    BY <1>2 DEF MovePlace
  <2>3. CASE p = pidx
    <3>1. p % pn < pi + 1
      BY <2>1, <2>2, <2>3
    <3> QED BY <1>7, <1>8, <2>3, <3>1 DEF Turned
  <2>4. CASE p # pidx
    <3>1. a'[p + 1] = a[p + 1]
      BY <1>8, <2>4
    <3>2. a[p + 1] = IF p % pn < pi \/ InCycle(p) THEN Turned(p) ELSE p + 1
      BY <1>2 DEF PartMoved
    <3>3. p % pn = pi => InCycle(p)
      <4> SUFFICES ASSUME p % pn = pi PROVE InCycle(p)
        OBVIOUS
      <4>1. PICK t \in Nat : t < u /\ On(N, l, pi, t, p)
        BY <1>5, <2>2, OnCovers
      <4>2. ASSUME t = pj PROVE FALSE
        BY <2>1, <2>2, <2>4, <4>1, <4>2, OnUnique
      <4>3. t < pj
        BY <1>6, <4>1, <4>2
      <4> QED BY <4>1, <4>3 DEF InCycle
    <3>4. InCycle(p) => p % pn = pi
      BY <2>1, <2>2, OnRest DEF InCycle
    <3>5. p % pn < pi + 1 <=> p % pn < pi \/ p % pn = pi
      <4>1. PICK r \in Nat : r = p % pn
        BY <2>1, DivMod
      <4>2. r < pi + 1 <=> r < pi \/ r = pi
        BY <2>1
      <4> QED BY <4>1, <4>2
    <3> QED BY <3>1, <3>2, <3>3, <3>4, <3>5
  <2> QED BY <2>3, <2>4
<1>10. SliceInv'
  BY <1>1, <1>2, <1>4, <1>8 DEF SliceInv
<1>11. CycleInv'
  <2>1. Shift(N, l, pn)
    BY <1>2 DEF MovePlace
  <2>2. pi + 1 \in Nat /\ pi + 1 <= pn
    BY <1>2 DEF MoveTypes
  <2> QED BY <1>1, <1>4, <1>9, <2>1, <2>2 DEF CycleInv
<1> QED
  BY <1>1, <1>10, <1>11 DEF IInv, StartInv, EuclidInv, MoveInv, DoneInv

\* When the cycles of all the rests are done, the slice is the rotated one.
LEMMA FinishIInv == IInv /\ Finish => IInv'
<1> SUFFICES ASSUME IInv, Finish PROVE IInv'
  OBVIOUS
<1>1. /\ pc = "cycle" /\ pi = pn /\ pc' = "done"
      /\ UNCHANGED <<a, a0, l, pn, pl, pi, pj, pidx, save>>
  BY DEF Finish, d
<1>2. N' = N
  BY <1>1 DEF N
<1>3. SliceInv /\ Shift(N, l, pn) /\ CyclesMoved
  BY <1>1 DEF IInv, CycleInv
<1>4. N \in Nat /\ l \in Nat /\ l < N /\ pn \in Nat /\ pn > 0 /\ DOMAIN a = 1 .. N
      /\ DOMAIN a0 = 1 .. N
  BY <1>3 DEF Shift, SliceInv, N
<1>5. ASSUME NEW i \in 1 .. N
      PROVE  a[i] = IF i + l <= N THEN a0[i + l] ELSE a0[i + l - (N - 0)]
  <2>1. PICK p \in Nat : p = i - 1 /\ p < N /\ p + 1 = i
    BY <1>4
  <2>2. p % pn < pi
    BY <1>1, <1>4, DivMod
  <2>3. a[i] = Source(N, l, p) + 1
    BY <1>3, <2>1, <2>2 DEF CyclesMoved, Turned
  <2>4. CASE i + l <= N
    <3>1. ~(p >= N - l) /\ i + l \in 1 .. N
      BY <1>4, <2>1, <2>4
    <3> QED BY <1>3, <1>4, <2>1, <2>3, <2>4, <3>1 DEF Source, SliceInv
  <2>5. CASE ~(i + l <= N)
    <3>1. p >= N - l /\ i + l - (N - 0) \in 1 .. N
      BY <1>4, <2>1, <2>5
    <3> QED BY <1>3, <1>4, <2>1, <2>3, <2>5, <3>1 DEF Source, SliceInv
  <2> QED BY <2>4, <2>5
<1>6. a = R!RotatedPart(a0, 0, N, l)
  <2>1. R!RotatedPart(a0, 0, N, l) = [i \in 1 .. N |-> IF i + l <= N THEN a0[i + l] ELSE a0[i + l - (N - 0)]]
    BY <1>4 DEF R!RotatedPart
  <2>2. a = [i \in 1 .. N |-> a[i]]
    BY <1>3, <1>4 DEF SliceInv
  <2> QED BY <1>5, <2>1, <2>2
<1> QED
  BY <1>1, <1>2, <1>3, <1>6
     DEF IInv, SliceInv, StartInv, EuclidInv, CycleInv, MoveInv, DoneInv

\* Every step keeps the invariant.
LEMMA NextIInv == IInv /\ [Next]_vars => IInv'
<1>1. IInv /\ UNCHANGED vars => IInv'
  BY DEF vars, IInv, SliceInv, StartInv, EuclidInv, CycleInv, MoveInv, DoneInv,
         CyclesMoved, PartMoved, InCycle, Turned, N
<1> QED
  BY <1>1, StartIInv, EuclidIInv, EuclidEndIInv, StartCycleIInv, MoveIInv, EndCycleIInv, FinishIInv
     DEF Next

\* So it holds always.
LEMMA Invariance == Spec => []IInv
BY InitIInv, NextIInv, PTL DEF Spec

-----------------------------------------------------------------------------
\* The refinement of Rotation without its liveness (ImplementsRotation is with
\* it): what is seen from outside is at first the slice as it was given, and
\* changes once, to the rotated one.
RotatesInOneStep ==
  R!Init /\ [][R!Next]_<<IF pc = "done" THEN a ELSE a0, l, pc = "done">>

\* For every length and every shift, the loops of the rotation in
\* cbordetveraux.rs leave the slice turned left by the shift, and nothing else.
THEOREM LoopsRotate == Spec => RotatesInOneStep
<1>1. Init => R!Init
  <2> SUFFICES ASSUME Init PROVE R!Init
    OBVIOUS
  <2>1. IInv /\ pc = "start" /\ a = a0
    BY InitIInv DEF Init
  <2>2. a0 = [i \in DOMAIN a0 |-> i]
    BY DEF Init
  <2>3. l \in 0 .. Len(a0)
    BY DEF Init
  <2> QED BY <2>1, <2>2, <2>3 DEF R!Init
<1>2. IInv /\ IInv' /\ [Next]_vars => [R!Next]_<<IF pc = "done" THEN a ELSE a0, l, pc = "done">>
  <2> SUFFICES ASSUME IInv, IInv', [Next]_vars
               PROVE  [R!Next]_<<IF pc = "done" THEN a ELSE a0, l, pc = "done">>
    OBVIOUS
  <2>1. a0' = a0 /\ l' = l /\ (pc = "done" => pc' = "done" /\ a' = a)
    BY DEF Next, vars, Start, Euclid, EuclidEnd, StartCycle, Move, EndCycle, Finish
  <2>2. CASE pc' # "done" \/ pc = "done"
    BY <2>1, <2>2
  <2>3. CASE pc' = "done" /\ pc # "done"
    <3>1. a' = R!RotatedPart(a0, 0, N, l)
      BY <2>1, <2>3 DEF IInv, DoneInv, N, R!RotatedPart
    <3> QED BY <2>1, <2>3, <3>1 DEF R!Next, R!Rotate, N
  <2> QED BY <2>2, <2>3
<1> QED BY <1>1, <1>2, Invariance, PTL DEF Spec, RotatesInOneStep
=============================================================================
