---------------------------- MODULE CommonProofs ----------------------------
(***************************************************************************)
(* What the other proofs need of numbers (induction, sums, remainders and  *)
(* the arithmetic of ids that wrap), of queues, and of packets and their   *)
(* fragments.                                                              *)
(***************************************************************************)
EXTENDS WrappingIds, Sums, Fragmentation, SequenceTheorems, WellFoundedInduction, TLAPS

-----------------------------------------------------------------------------
(* Induction *)

\* A set of naturals that holds 0 and the successor of each member holds them all.
LEMMA SetInduction ==
    ASSUME NEW T, 0 \in T, \A n \in Nat : n \in T => n + 1 \in T
    PROVE  \A n \in Nat : n \in T
<1> DEFINE F == {n \in Nat : n \notin T}
<1> SUFFICES ASSUME F # {} PROVE FALSE
  OBVIOUS
<1>1. PICK x \in F : \A y \in F : ~(<<y, x>> \in OpToRel(<, Nat))
  <2>1. IsWellFoundedOn(OpToRel(<, Nat), Nat)
    BY NatLessThanWellFounded
  <2>2. F \subseteq Nat
    OBVIOUS
  <2> HIDE DEF F
  <2> QED BY <2>1, <2>2, WFMin
<1>2. x \in Nat /\ x # 0 /\ x - 1 \in Nat /\ x - 1 < x /\ (x - 1) + 1 = x
  OBVIOUS
<1>3. <<x - 1, x>> \in OpToRel(<, Nat)
  BY <1>2 DEF OpToRel
<1>4. x - 1 \in T
  BY <1>1, <1>2, <1>3
<1> QED BY <1>2, <1>4

\* A set of naturals has a least element.
LEMMA LeastElement ==
    ASSUME NEW T, T \subseteq Nat, T # {}
    PROVE  \E x \in T : \A y \in T : x <= y
<1>1. PICK x \in T : \A y \in T : ~(<<y, x>> \in OpToRel(<, Nat))
  BY NatLessThanWellFounded, WFMin
<1>2. ASSUME NEW y \in T PROVE x <= y
  <2>1. x \in Nat /\ y \in Nat
    OBVIOUS
  <2>2. y < x => <<y, x>> \in OpToRel(<, Nat)
    BY <2>1 DEF OpToRel
  <2>3. ~(y < x)
    BY <1>1, <2>2, Zenon
  <2> QED BY <2>1, <2>3
<1> QED BY <1>2

-----------------------------------------------------------------------------
(* Sums *)

\* g holds the sums of the first values of f.
IsSum(g, f, n) == g = [k \in 0 .. n |-> IF k = 0 THEN 0 ELSE g[k - 1] + f[k]]

LEMMA SumExists ==
    ASSUME NEW f, NEW n \in Nat
    PROVE  \E g : IsSum(g, f, n)
<1> DEFINE T == {m \in Nat : \E g : IsSum(g, f, m)}
<1>1. 0 \in T
  <2> DEFINE g == [k \in 0 .. 0 |-> 0]
  <2>1. IsSum(g, f, 0)
    BY DEF IsSum
  <2> QED BY <2>1
<1>2. ASSUME NEW m \in Nat, m \in T
      PROVE  m + 1 \in T
  <2>1. PICK g : IsSum(g, f, m)
    BY <1>2
  <2> DEFINE h == [k \in 0 .. m + 1 |-> IF k = m + 1 THEN g[m] + f[m + 1] ELSE g[k]]
  <2>2. ASSUME NEW k \in 0 .. m + 1
        PROVE  h[k] = IF k = 0 THEN 0 ELSE h[k - 1] + f[k]
    <3>1. CASE k = m + 1
      BY <3>1
    <3>2. CASE k # m + 1
      <4>1. k \in 0 .. m
        BY <3>2
      <4>2. g[k] = IF k = 0 THEN 0 ELSE g[k - 1] + f[k]
        BY <2>1, <4>1 DEF IsSum
      <4>3. k # 0 => h[k - 1] = g[k - 1]
        BY <4>1
      <4> QED BY <3>2, <4>1, <4>2, <4>3
    <3> QED BY <3>1, <3>2
  <2>3. IsSum(h, f, m + 1)
    BY <2>2 DEF IsSum
  <2> QED BY <2>3
<1>3. \A m \in Nat : m \in T
  <2> HIDE DEF T
  <2> QED BY <1>1, <1>2, SetInduction
<1> QED BY <1>3

LEMMA SumUnique ==
    ASSUME NEW f, NEW e, NEW n \in Nat, NEW q \in Nat, n <= q,
           NEW g, IsSum(g, f, n), NEW h, IsSum(h, e, q),
           \A k \in 1 .. n : e[k] = f[k]
    PROVE  g[n] = h[n]
<1> DEFINE T == {m \in Nat : m <= n => g[m] = h[m]}
<1>1. 0 \in T
  <2>1. g[0] = 0 /\ h[0] = 0
    BY DEF IsSum
  <2> QED BY <2>1
<1>2. ASSUME NEW m \in Nat, m \in T
      PROVE  m + 1 \in T
  <2> SUFFICES ASSUME m + 1 <= n PROVE g[m + 1] = h[m + 1]
    OBVIOUS
  <2>1. m + 1 \in 0 .. n /\ m + 1 \in 0 .. q /\ m + 1 # 0 /\ m + 1 - 1 = m /\ m + 1 \in 1 .. n
    OBVIOUS
  <2>2. g[m + 1] = g[m] + f[m + 1] /\ h[m + 1] = h[m] + e[m + 1]
    BY <2>1 DEF IsSum
  <2> QED BY <1>2, <2>1, <2>2
<1>3. \A m \in Nat : m \in T
  <2> HIDE DEF T
  <2> QED BY <1>1, <1>2, SetInduction
<1> QED BY <1>3

\* The loop's function is the one the definition chooses.
LEMMA SumToIs ==
    ASSUME NEW f, NEW n \in Nat
    PROVE  \E g : IsSum(g, f, n) /\ SumTo(f, n) = g[n]
<1> DEFINE c == CHOOSE g : IsSum(g, f, n)
<1>1. IsSum(c, f, n)
  BY SumExists
<1>2. SumTo(f, n) = c[n]
  BY DEF SumTo, IsSum
<1> HIDE DEF c
<1> QED BY <1>1, <1>2

LEMMA SumStep ==
    ASSUME NEW f
    PROVE  /\ SumTo(f, 0) = 0
           /\ \A n \in Nat : SumTo(f, n + 1) = SumTo(f, n) + f[n + 1]
<1>1. SumTo(f, 0) = 0
  <2>1. PICK g : IsSum(g, f, 0) /\ SumTo(f, 0) = g[0]
    BY SumToIs
  <2> QED BY <2>1 DEF IsSum
<1>2. ASSUME NEW n \in Nat
      PROVE  SumTo(f, n + 1) = SumTo(f, n) + f[n + 1]
  <2>1. PICK g : IsSum(g, f, n) /\ SumTo(f, n) = g[n]
    BY SumToIs
  <2>2. n + 1 \in Nat /\ n <= n + 1 /\ n <= n
    OBVIOUS
  <2>3. PICK h : IsSum(h, f, n + 1) /\ SumTo(f, n + 1) = h[n + 1]
    BY <2>2, SumToIs
  <2>4. h[n + 1] = h[n] + f[n + 1]
    <3>1. n + 1 \in 0 .. n + 1 /\ n + 1 # 0 /\ (n + 1) - 1 = n
      OBVIOUS
    <3> QED BY <2>3, <3>1 DEF IsSum
  <2>5. IsSum(g, f, n) /\ IsSum(h, f, n + 1) /\ \A k \in 1 .. n : f[k] = f[k]
    BY <2>1, <2>3
  <2>6. g[n] = h[n]
    <3> DEFINE q == n + 1
    <3>1. q \in Nat /\ n <= q /\ IsSum(h, f, q)
      BY <2>2, <2>5
    <3> HIDE DEF q
    <3> QED BY <2>5, <3>1, SumUnique
  <2> QED BY <2>1, <2>3, <2>4, <2>6
<1> QED BY <1>1, <1>2

\* Sums of the same values are the same.
LEMMA SumSame ==
    ASSUME NEW f, NEW g, NEW n \in Nat, \A k \in 1 .. n : f[k] = g[k]
    PROVE  SumTo(f, n) = SumTo(g, n)
<1>1. PICK s : IsSum(s, f, n) /\ SumTo(f, n) = s[n]
  BY SumToIs
<1>2. PICK t : IsSum(t, g, n) /\ SumTo(g, n) = t[n]
  BY SumToIs
<1>3. n <= n
  OBVIOUS
<1> QED BY <1>1, <1>2, <1>3, SumUnique

LEMMA SumNat ==
    ASSUME NEW f, NEW n \in Nat, \A k \in 1 .. n : f[k] \in Nat
    PROVE  SumTo(f, n) \in Nat
<1> DEFINE T == {m \in Nat : m <= n => SumTo(f, m) \in Nat}
<1>1. 0 \in T
  BY SumStep
<1>2. ASSUME NEW m \in Nat, m \in T
      PROVE  m + 1 \in T
  <2> SUFFICES ASSUME m + 1 <= n PROVE SumTo(f, m + 1) \in Nat
    OBVIOUS
  <2>1. SumTo(f, m) \in Nat /\ m + 1 \in 1 .. n
    BY <1>2
  <2>2. SumTo(f, m + 1) = SumTo(f, m) + f[m + 1]
    BY SumStep
  <2>3. f[m + 1] \in Nat
    BY <2>1
  <2> QED BY <2>1, <2>2, <2>3
<1>3. \A m \in Nat : m \in T
  <2> HIDE DEF T
  <2> QED BY <1>1, <1>2, SetInduction
<1> QED BY <1>3

\* A sum is the sum of its first m values and of the others.
LEMMA SumSplit ==
    ASSUME NEW f, NEW m \in Nat, NEW n \in Nat, \A k \in 1 .. m + n : f[k] \in Nat,
           NEW g, \A k \in 1 .. n : g[k] = f[m + k]
    PROVE  SumTo(f, m + n) = SumTo(f, m) + SumTo(g, n)
<1> DEFINE T == {j \in Nat : j <= n => SumTo(f, m + j) = SumTo(f, m) + SumTo(g, j)}
<1>0. SumTo(f, m) \in Nat
  <2>1. \A k \in 1 .. m : f[k] \in Nat
    OBVIOUS
  <2> QED BY <2>1, SumNat
<1>1. 0 \in T
  <2>1. SumTo(g, 0) = 0 /\ m + 0 = m
    BY SumStep
  <2> QED BY <1>0, <2>1
<1>2. ASSUME NEW j \in Nat, j \in T
      PROVE  j + 1 \in T
  <2> SUFFICES ASSUME j + 1 <= n
               PROVE  SumTo(f, m + (j + 1)) = SumTo(f, m) + SumTo(g, j + 1)
    OBVIOUS
  <2>1. /\ SumTo(f, m + j) = SumTo(f, m) + SumTo(g, j) /\ j + 1 \in 1 .. n
        /\ m + (j + 1) = (m + j) + 1 /\ m + j \in Nat /\ m + (j + 1) \in 1 .. m + n
    BY <1>2
  <2>2. SumTo(f, m + (j + 1)) = SumTo(f, m + j) + f[m + (j + 1)]
    BY <2>1, SumStep
  <2>3. SumTo(g, j + 1) = SumTo(g, j) + g[j + 1]
    BY SumStep
  <2>4. g[j + 1] = f[m + (j + 1)] /\ f[m + (j + 1)] \in Nat
    BY <2>1
  <2>5. SumTo(g, j) \in Nat
    <3>1. ASSUME NEW k \in 1 .. j PROVE g[k] \in Nat
      <4>1. k \in 1 .. n /\ m + k \in 1 .. m + n
        BY <2>1
      <4> QED BY <4>1
    <3> QED BY <3>1, SumNat
  <2> QED BY <1>0, <2>1, <2>2, <2>3, <2>4, <2>5
<1>3. \A j \in Nat : j \in T
  <2> HIDE DEF T
  <2> QED BY <1>1, <1>2, SetInduction
<1> QED BY <1>3

-----------------------------------------------------------------------------
(* Wrapping arithmetic *)

LEMMA SubType ==
    ASSUME NEW a \in Id, NEW b \in Id
    PROVE  WrappingSub(a, b) \in Nat /\ WrappingSub(a, b) < IdMod
  BY IdModAssumption DEF WrappingSub, Id

LEMMA SubSelf ==
    ASSUME NEW a \in Id, NEW b \in Id
    PROVE  WrappingSub(a, b) = 0 <=> a = b
  BY IdModAssumption DEF WrappingSub, Id

LEMMA SubInjective ==
    ASSUME NEW a \in Id, NEW b \in Id, NEW c \in Id
    PROVE  WrappingSub(a, c) = WrappingSub(b, c) <=> a = b
  BY IdModAssumption DEF WrappingSub, Id

LEMMA AddType ==
    ASSUME NEW a \in Id
    PROVE  WrappingAdd(a, 1) \in Id
  BY IdModAssumption DEF WrappingAdd, Id

\* Stepping an id that is not yet a full turn away steps its distance.
LEMMA SubAdd ==
    ASSUME NEW a \in Id, NEW b \in Id, WrappingSub(a, b) + 1 < IdMod
    PROVE  WrappingSub(WrappingAdd(a, 1), b) = WrappingSub(a, b) + 1
  BY IdModAssumption DEF WrappingSub, WrappingAdd, Id

\* Moving the base towards an id shortens its distance by as much.
LEMMA SubShift ==
    ASSUME NEW a \in Id, NEW b \in Id, NEW c \in Id,
           WrappingSub(c, b) <= WrappingSub(a, b)
    PROVE  WrappingSub(a, c) = WrappingSub(a, b) - WrappingSub(c, b)
  BY IdModAssumption DEF WrappingSub, Id

\* How the distances of Ahead add up, as long as they are less than a full turn.
LEMMA AheadOfSub ==
    ASSUME NEW a \in Id, NEW b \in Id
    PROVE  Ahead(a, b, WrappingSub(a, b))
  BY IdModAssumption DEF Ahead, WrappingSub, Id

LEMMA SubOfAhead ==
    ASSUME NEW a \in Id, NEW b \in Id, NEW d \in Int, Ahead(a, b, d),
           -IdMod < d, d < IdMod
    PROVE  WrappingSub(a, b) = IF d >= 0 THEN d ELSE d + IdMod
  BY IdModAssumption DEF Ahead, WrappingSub, Id

LEMMA AheadZero ==
    ASSUME NEW a \in Id, NEW d \in Int, Ahead(a, a, d), -IdMod < d, d < IdMod
    PROVE  d = 0
  BY IdModAssumption DEF Ahead, Id

LEMMA AheadDiff ==
    ASSUME NEW a \in Id, NEW b \in Id, NEW c \in Id, NEW d \in Int, NEW e \in Int,
           Ahead(a, c, d), Ahead(b, c, e), -IdMod < d - e, d - e < IdMod
    PROVE  Ahead(a, b, d - e)
  BY IdModAssumption DEF Ahead, Id

LEMMA AheadNext ==
    ASSUME NEW a \in Id, NEW b \in Id, NEW d \in Int, Ahead(a, b, d)
    PROVE  /\ -IdMod < d - 1 /\ d - 1 < IdMod => Ahead(a, WrappingAdd(b, 1), d - 1)
           /\ -IdMod < d + 1 /\ d + 1 < IdMod => Ahead(WrappingAdd(a, 1), b, d + 1)
  BY IdModAssumption DEF Ahead, WrappingAdd, Id

\* Distances along the way add up.
LEMMA SubTrans ==
    ASSUME NEW a \in Id, NEW b \in Id, NEW c \in Id,
           WrappingSub(a, b) + WrappingSub(b, c) < IdMod
    PROVE  WrappingSub(a, c) = WrappingSub(a, b) + WrappingSub(b, c)
  BY IdModAssumption DEF WrappingSub, Id

\* wrapping_add and wrapping_sub of a number of steps.
LEMMA AddSteps ==
    ASSUME NEW a \in Id, NEW n \in 0 .. IdMod - 1
    PROVE  /\ WrappingAdd(a, n) \in Id /\ WrappingSub(WrappingAdd(a, n), a) = n
           /\ WrappingSub(a, n) \in Id /\ Ahead(WrappingSub(a, n), a, -n)
  BY IdModAssumption DEF WrappingAdd, WrappingSub, Ahead, Id

LEMMA AddTrans ==
    ASSUME NEW a \in Id, NEW b \in Id, NEW j \in Nat, WrappingSub(b, a) + j < IdMod
    PROVE  WrappingAdd(b, j) = WrappingAdd(a, WrappingSub(b, a) + j)
  BY IdModAssumption DEF WrappingAdd, WrappingSub, Id

\* k + 1 steps back from b is as far from a as the rest of the way.
LEMMA BackAndForth ==
    ASSUME NEW a \in Id, NEW b \in Id, NEW k \in Nat, k < WrappingSub(b, a)
    PROVE  WrappingSub(b, k + 1) = WrappingAdd(a, (WrappingSub(b, a) - 1) - k)
  BY IdModAssumption DEF WrappingAdd, WrappingSub, Id

-----------------------------------------------------------------------------
(* Quotients and remainders *)

LEMMA DivMod ==
    ASSUME NEW a \in Int, NEW t \in Nat, t > 0
    PROVE  /\ a \div t \in Int /\ a % t \in 0 .. t - 1
           /\ a = (t * (a \div t)) + (a % t)
  OBVIOUS

LEMMA DivModUnique ==
    ASSUME NEW a \in Int, NEW t \in Nat, t > 0, NEW q \in Int, NEW r \in 0 .. t - 1,
           a = (t * q) + r
    PROVE  a % t = r /\ a \div t = q
  OBVIOUS

LEMMA TimesMonotone ==
    ASSUME NEW a \in Int, NEW b \in Int, NEW f \in Nat, a <= b
    PROVE  a * f <= b * f
<1>1. (b - a) * f >= 0
  <2> DEFINE c == b - a
  <2>1. c \in Nat
    OBVIOUS
  <2> HIDE DEF c
  <2>2. c * f >= 0
    BY <2>1
  <2> QED BY <2>2 DEF c
<1>2. (b - a) * f = b * f - a * f
  OBVIOUS
<1> QED BY <1>1, <1>2

LEMMA ModAdd ==
    ASSUME NEW a \in Int, NEW t \in Nat, t > 0, NEW c \in Int
    PROVE  (a + t * c) % t = a % t
<1> DEFINE q == a \div t
           r == a % t
<1>1. q \in Int /\ r \in 0 .. t - 1 /\ a = (t * q) + r
  BY DivMod
<1> HIDE DEF q, r
<1>2. t * (q + c) = t * q + t * c /\ q + c \in Int /\ a + t * c \in Int
  BY <1>1
<1>3. a + t * c = (t * (q + c)) + r
  BY <1>1, <1>2
<1>4. (a + t * c) % t = r
  BY <1>1, <1>2, <1>3, DivModUnique
<1> QED BY <1>4 DEF r

LEMMA ModDistinct ==
    ASSUME NEW a \in Int, NEW b \in Int, NEW t \in Nat, t > 0, a < b, b - a < t
    PROVE  a % t # b % t
<1> DEFINE p == a \div t
           q == b \div t
           r == a % t
<1> SUFFICES ASSUME b % t = r PROVE FALSE
  OBVIOUS
<1>1. p \in Int /\ r \in 0 .. t - 1 /\ a = (t * p) + r /\ q \in Int /\ b = (t * q) + r
  BY DivMod
<1> HIDE DEF p, q, r
<1>2. b - a = t * (q - p)
  BY <1>1
<1>3. q - p \in Int /\ (q - p >= 1 \/ q - p <= 0)
  BY <1>1
<1>4. CASE q - p >= 1
  <2> DEFINE k == q - p
  <2>1. t * k >= t
    <3> HIDE DEF k
    <3>1. k \in Int /\ k >= 1
      BY <1>3, <1>4 DEF k
    <3> QED BY <3>1
  <2> QED BY <1>1, <1>2, <2>1
<1>5. CASE q - p <= 0
  <2> DEFINE k == q - p
  <2>1. t * k <= 0
    <3> HIDE DEF k
    <3>1. k \in Int /\ k <= 0
      BY <1>3, <1>5 DEF k
    <3> QED BY <3>1
  <2> QED BY <1>1, <1>2, <2>1
<1> QED BY <1>3, <1>4, <1>5

\* The word and the bit of a position in a ring of w-bit words: nested remainders.
\* An id that is counted by wrapping_add is a remainder.
LEMMA ModSucc ==
    ASSUME NEW a \in Nat
    PROVE  a % IdMod \in Id /\ WrappingAdd(a % IdMod, 1) = (a + 1) % IdMod
<1> DEFINE q == a \div IdMod
           r == a % IdMod
<1>1. IdMod \in Nat /\ IdMod > 1
  BY IdModAssumption
<1>2. q \in Int /\ r \in 0 .. IdMod - 1 /\ a = (IdMod * q) + r
  BY <1>1, DivMod
<1> HIDE DEF q, r
<1>3. r \in Id
  BY <1>2 DEF Id
<1>4. CASE r + 1 >= IdMod
  <2>1. a + 1 = (IdMod * (q + 1)) + 0 /\ q + 1 \in Int /\ 0 \in 0 .. IdMod - 1
    BY <1>1, <1>2, <1>4
  <2>2. (a + 1) % IdMod = 0
    <3> DEFINE x == a + 1
               y == q + 1
               z == 0
    <3>1. x \in Int /\ y \in Int /\ z \in 0 .. IdMod - 1 /\ x = (IdMod * y) + z
      BY <2>1
    <3> HIDE DEF x, y, z
    <3>2. x % IdMod = z
      BY <1>1, <3>1, DivModUnique
    <3> QED BY <3>2 DEF x, z
  <2> QED BY <1>1, <1>2, <1>3, <1>4, <2>2 DEF WrappingAdd, r
<1>5. CASE ~(r + 1 >= IdMod)
  <2>1. a + 1 = (IdMod * q) + (r + 1) /\ r + 1 \in 0 .. IdMod - 1
    BY <1>1, <1>2, <1>5
  <2>2. (a + 1) % IdMod = r + 1
    BY <1>1, <1>2, <2>1, DivModUnique
  <2> QED BY <1>3, <1>5, <2>2 DEF WrappingAdd, r
<1> QED BY <1>4, <1>5

LEMMA ModNested ==
    ASSUME NEW a \in Nat, NEW t \in Nat, t > 0, NEW w \in Nat, w > 0, t % w = 0
    PROVE  /\ t \div w \in Nat /\ t \div w > 0 /\ t = w * (t \div w)
           /\ (a % t) % w = a % w
           /\ (a % t) \div w = (a \div w) % (t \div w)
           /\ (a \div w) % (t \div w) \in 0 .. (t \div w) - 1
<1> DEFINE m == t \div w
           p == a % t
           q == a \div t
           u == p \div w
           v == p % w
<1>1. m \in Int /\ t = w * m
  <2>1. t = (w * m) + (t % w) /\ m \in Int
    BY DivMod
  <2> QED BY <2>1
<1>2. p \in 0 .. t - 1 /\ q \in Int /\ a = (t * q) + p
  BY DivMod
<1>3. u \in Int /\ v \in 0 .. w - 1 /\ p = (w * u) + v
  BY <1>2, DivMod
<1> HIDE DEF m, p, q, u, v
<1>4. m > 0 /\ m \in Nat
  BY <1>1
<1>5. u >= 0 /\ u < m
  <2>1. ~(u < 0)
    <3> SUFFICES ASSUME u < 0 PROVE FALSE
      OBVIOUS
    <3>1. w * u <= -w
      BY <1>3
    <3> QED BY <1>2, <1>3, <3>1
  <2>2. ~(u >= m)
    <3> SUFFICES ASSUME u >= m PROVE FALSE
      OBVIOUS
    <3>1. w * u >= w * m
      BY <1>1, <1>3
    <3> QED BY <1>1, <1>2, <1>3, <3>1
  <2> QED BY <1>3, <1>4, <2>1, <2>2
<1>6. a = (w * ((m * q) + u)) + v /\ (m * q) + u \in Int
  <2>1. t * q = w * (m * q) /\ m * q \in Int
    BY <1>1, <1>2
  <2>2. w * ((m * q) + u) = (w * (m * q)) + (w * u)
    BY <1>3, <2>1
  <2> QED BY <1>2, <1>3, <2>1, <2>2
<1>7. a % w = v /\ a \div w = (m * q) + u
  <2> DEFINE k == (m * q) + u
  <2>1. a \in Int /\ k \in Int /\ a = (w * k) + v
    BY <1>6
  <2> HIDE DEF k
  <2>2. a % w = v /\ a \div w = k
    BY <1>3, <2>1, DivModUnique
  <2> QED BY <2>2 DEF k
<1>8. ((m * q) + u) % m = u
  BY <1>2, <1>3, <1>4, <1>5, <1>6, DivModUnique
<1>9. u \in 0 .. m - 1
  BY <1>3, <1>4, <1>5
<1> QED BY <1>1, <1>4, <1>7, <1>8, <1>9 DEF m, p, u, v

-----------------------------------------------------------------------------
(* Queues *)

\* f is what is left of p without its first b elements.
IsSuffix(f, p, b) == Len(p) = b + Len(f) /\ \A j \in 1 .. Len(f) : f[j] = p[b + j]

\* A suffix f of p stays one when both are extended.
LEMMA SuffixConcat ==
    ASSUME NEW S, NEW f \in Seq(S), NEW p \in Seq(S), NEW g \in Seq(S), NEW b \in Nat,
           IsSuffix(f, p, b)
    PROVE  IsSuffix(f \o g, p \o g, b)
<1> USE DEF IsSuffix
<1>1. Len(f) \in Nat /\ Len(g) \in Nat /\ Len(p) \in Nat
  OBVIOUS
<1>2. Len(f \o g) = Len(f) + Len(g) /\ Len(p \o g) = Len(p) + Len(g)
  BY ConcatProperties
<1>3. ASSUME NEW i \in 1 .. Len(f \o g)
      PROVE  (f \o g)[i] = (p \o g)[b + i]
  <2>1. b + i \in 1 .. Len(p) + Len(g) /\ i \in 1 .. Len(f) + Len(g)
    BY <1>1, <1>2
  <2>2. (f \o g)[i] = IF i <= Len(f) THEN f[i] ELSE g[i - Len(f)]
    BY <2>1, ConcatProperties
  <2>3. (p \o g)[b + i] = IF b + i <= Len(p) THEN p[b + i] ELSE g[b + i - Len(p)]
    <3> DEFINE j == b + i
    <3>1. j \in 1 .. Len(p) + Len(g)
      BY <2>1
    <3> HIDE DEF j, IsSuffix
    <3>2. (p \o g)[j] = IF j <= Len(p) THEN p[j] ELSE g[j - Len(p)]
      BY <3>1, ConcatProperties
    <3> QED BY <3>2 DEF j
  <2>4. i <= Len(f) <=> b + i <= Len(p)
    BY <1>1, <2>1
  <2>5. b + i - Len(p) = i - Len(f)
    BY <1>1
  <2>6. i <= Len(f) => f[i] = p[b + i]
    BY <1>1, <2>1
  <2> QED BY <2>2, <2>3, <2>4, <2>5, <2>6
<1> QED BY <1>1, <1>2, <1>3

\* drain(0 .. d) of a queue.
LEMMA DropProperties ==
    ASSUME NEW S, NEW s \in Seq(S), NEW d \in Nat, d <= Len(s)
    PROVE  /\ SubSeq(s, d + 1, Len(s)) \in Seq(S)
           /\ Len(SubSeq(s, d + 1, Len(s))) = Len(s) - d
           /\ \A k \in 1 .. Len(s) - d : SubSeq(s, d + 1, Len(s))[k] = s[d + k]
  OBVIOUS

\* The elements of a sequence without its first.
LEMMA TailProperties ==
    ASSUME NEW S, NEW s \in Seq(S), s # <<>>, NEW i \in 1 .. Len(Tail(s))
    PROVE  /\ i + 1 \in 1 .. Len(s) /\ 1 \in 1 .. (i + 1) - 1
           /\ Tail(s)[i] = s[i + 1]
           /\ \A j \in 1 .. i - 1 : j + 1 \in 1 .. (i + 1) - 1 /\ Tail(s)[j] = s[j + 1]
<1>1. /\ Len(s) \in Nat /\ Len(Tail(s)) = Len(s) - 1
      /\ \A j \in 1 .. Len(Tail(s)) : Tail(s)[j] = s[j + 1]
  BY HeadTailProperties
<1>2. i + 1 \in 1 .. Len(s) /\ 1 \in 1 .. (i + 1) - 1
  BY <1>1
<1>3. ASSUME NEW j \in 1 .. i - 1
      PROVE  j + 1 \in 1 .. (i + 1) - 1 /\ j \in 1 .. Len(Tail(s))
  BY <1>1
<1> QED BY <1>1, <1>2, <1>3

\* A sequence without its i-th element.
LEMMA RemoveProperties ==
    ASSUME NEW S, NEW s \in Seq(S), NEW i \in 1 .. Len(s)
    PROVE  LET t == SubSeq(s, 1, i - 1) \o SubSeq(s, i + 1, Len(s))
           IN  /\ t \in Seq(S) /\ Len(t) = Len(s) - 1
               /\ \A k \in 1 .. Len(t) : t[k] = s[IF k < i THEN k ELSE k + 1]
<1> DEFINE l == SubSeq(s, 1, i - 1)
           r == SubSeq(s, i + 1, Len(s))
<1>1. /\ l \in Seq(S) /\ Len(l) = i - 1
      /\ \A k \in 1 .. i - 1 : l[k] = s[k]
  OBVIOUS
<1>2. /\ r \in Seq(S) /\ Len(r) = Len(s) - i
      /\ \A k \in 1 .. Len(s) - i : r[k] = s[i + k]
  BY DropProperties
<1> HIDE DEF l, r
<1>3. l \o r \in Seq(S) /\ Len(l \o r) = Len(s) - 1
  <2>1. l \o r \in Seq(S) /\ Len(l \o r) = Len(l) + Len(r)
    BY <1>1, <1>2, ConcatProperties
  <2>2. Len(s) \in Nat
    OBVIOUS
  <2> QED BY <1>1, <1>2, <2>1, <2>2
<1>4. ASSUME NEW k \in 1 .. Len(l \o r)
      PROVE  (l \o r)[k] = s[IF k < i THEN k ELSE k + 1]
  <2>1. k \in 1 .. Len(l) + Len(r)
    BY <1>1, <1>2, <1>3
  <2>2. (l \o r)[k] = IF k <= Len(l) THEN l[k] ELSE r[k - Len(l)]
    BY <1>1, <1>2, <2>1, ConcatProperties
  <2>3. CASE k < i
    BY <1>1, <2>1, <2>2, <2>3
  <2>4. CASE ~(k < i)
    <3>1. k - Len(l) \in 1 .. Len(s) - i /\ i + (k - Len(l)) = k + 1 /\ ~(k <= Len(l))
      BY <1>1, <1>2, <2>1, <2>4
    <3> QED BY <1>2, <2>2, <2>4, <3>1
  <2> QED BY <2>3, <2>4
<1> QED BY <1>3, <1>4 DEF l, r

LEMMA PrefixOfAppend ==
    ASSUME NEW S, NEW s \in Seq(S), NEW x \in S, NEW n \in 0 .. Len(s)
    PROVE  SubSeq(Append(s, x), 1, n) = SubSeq(s, 1, n)
<1>1. Append(s, x) = s \o <<x>> /\ <<x>> \in Seq(S) /\ Len(s) \in Nat
  BY AppendIsConcat
<1>2. CASE n = 0
  BY <1>2, SubSeqEmpty
<1>3. CASE n # 0
  <2>1. 1 \in 1 .. Len(s) /\ n \in 1 .. Len(s)
    BY <1>1, <1>3
  <2>2. SubSeq(s \o <<x>>, 1, n) = SubSeq(s, 1, n)
    BY <1>1, <2>1, SubSeqOfConcat1
  <2> QED BY <1>1, <2>2
<1> QED BY <1>2, <1>3

-----------------------------------------------------------------------------
(* Fragments *)

\* The fragments of a packet lie within it.
LEMMA FragmentBounds ==
    ASSUME NEW S, NEW packet \in Seq(S)
    PROVE  /\ FragmentCount(packet) \in Nat /\ FragmentCount(packet) >= 1
           /\ \A i \in 1 .. FragmentCount(packet) :
                /\ (i - 1) * FragmentSize \in Nat
                /\ (i - 1) * FragmentSize <= Len(packet)
                /\ i < FragmentCount(packet) =>
                      i * FragmentSize \in Nat /\ i * FragmentSize <= Len(packet)
<1> DEFINE n == FragmentCount(packet)
<1>1. n \in Nat /\ n >= 1
  <2>1. CASE Len(packet) = 0
    BY <2>1 DEF FragmentCount
  <2>2. CASE Len(packet) # 0
    <3> DEFINE l == Len(packet)
               f == FragmentSize
               x == l + f - 1
    <3>1. f \in Nat /\ f > 0 /\ l \in Nat /\ l > 0
      BY <2>2, FragmentSizeAssumption
    <3> HIDE DEF l, f
    <3>2. x \in Int /\ x >= f
      BY <3>1
    <3> HIDE DEF x
    <3>3. x \div f \in Int /\ x % f \in 0 .. f - 1 /\ x = (f * (x \div f)) + (x % f)
      BY <3>1, <3>2, DivMod
    <3>4. x \div f >= 1
      <4> DEFINE q == x \div f
      <4> HIDE DEF q
      <4> SUFFICES ASSUME q <= 0 PROVE FALSE
        BY <3>3 DEF q
      <4>0. q \in Int
        BY <3>3 DEF q
      <4>1. q * f <= 0 * f
        BY <3>1, <4>0, TimesMonotone
      <4>2. f * q <= 0
        BY <3>1, <4>0, <4>1
      <4> QED BY <3>1, <3>2, <3>3, <4>2 DEF q
    <3> QED BY <2>2, <3>3, <3>4 DEF FragmentCount, x, l, f
  <2> QED BY <2>1, <2>2
<1>2. ASSUME NEW i \in 1 .. n
      PROVE  /\ (i - 1) * FragmentSize \in Nat
             /\ (i - 1) * FragmentSize <= Len(packet)
             /\ i < n => i * FragmentSize \in Nat /\ i * FragmentSize <= Len(packet)
  <2>1. CASE Len(packet) = 0
    BY <2>1, FragmentSizeAssumption DEF FragmentCount
  <2>2. CASE Len(packet) # 0
    <3>1. n * FragmentSize <= Len(packet) + FragmentSize - 1
      BY <1>1, <2>2, FragmentSizeAssumption DEF FragmentCount
    <3>2. (i - 1) * FragmentSize \in Nat /\ i * FragmentSize \in Nat
      BY <1>1, FragmentSizeAssumption
    <3>3. (i - 1) * FragmentSize <= (n - 1) * FragmentSize
      BY <1>1, FragmentSizeAssumption, TimesMonotone
    <3>4. i < n => i * FragmentSize <= (n - 1) * FragmentSize
      <4>1. i < n => i <= n - 1 /\ i \in Int /\ n - 1 \in Int
        BY <1>1
      <4> QED BY <4>1, FragmentSizeAssumption, TimesMonotone
    <3>5. (n - 1) * FragmentSize = n * FragmentSize - FragmentSize
      BY <1>1, FragmentSizeAssumption
    <3> QED
      BY <1>1, <3>1, <3>2, <3>3, <3>4, <3>5, FragmentSizeAssumption
  <2> QED BY <2>1, <2>2
<1> QED BY <1>1, <1>2

\* push: a packet is split into a sequence of fragments.
LEMMA FragmentsType ==
    ASSUME NEW S, NEW packet \in Seq(S)
    PROVE  Fragments(packet) \in Seq([first : BOOLEAN, last : BOOLEAN, data : Seq(S)])
<1> DEFINE n == FragmentCount(packet)
<1>1. n \in Nat
  BY FragmentBounds
<1>2. ASSUME NEW i \in 1 .. n
      PROVE  /\ (i - 1) * FragmentSize \in Nat
             /\ (i - 1) * FragmentSize <= Len(packet)
             /\ i < n => i * FragmentSize \in Nat /\ i * FragmentSize <= Len(packet)
  BY FragmentBounds
<1> DEFINE T == [first : BOOLEAN, last : BOOLEAN, data : Seq(S)]
<1>3. ASSUME NEW i \in 1 .. n
      PROVE  Fragments(packet)[i] \in T
  <2> DEFINE lo == (i - 1) * FragmentSize + 1
             hi == IF i = n THEN Len(packet) ELSE i * FragmentSize
  <2>1. lo \in 1 .. Len(packet) + 1 /\ hi \in 0 .. Len(packet)
    BY <1>1, <1>2
  <2>2. SubSeq(packet, lo, hi) \in Seq(S)
    <3> HIDE DEF lo, hi
    <3> QED BY <2>1
  <2> QED BY <1>1, <2>2 DEF Fragments
<1> HIDE DEF T
<1>4. Fragments(packet) \in Seq(T)
  BY <1>1, <1>3 DEF Fragments
<1> QED BY <1>4 DEF T

\* The data of the next fragment continues the part of the packet that precedes it.
LEMMA NextFragment ==
    ASSUME NEW S, NEW packet \in Seq(S), NEW q \in Nat, q < FragmentCount(packet)
    PROVE  LET f == Fragments(packet)[q + 1]
               last == q + 1 = FragmentCount(packet)
           IN  /\ f.last = last
               /\ SubSeq(packet, 1, q * FragmentSize) \o f.data =
                    SubSeq(packet, 1, IF last THEN Len(packet) ELSE (q + 1) * FragmentSize)
<1> DEFINE c == FragmentCount(packet)
           last == q + 1 = c
           h == IF last THEN Len(packet) ELSE (q + 1) * FragmentSize
           l == q * FragmentSize
           f == Fragments(packet)[q + 1]
<1>1. c \in Nat /\ q + 1 \in 1 .. c /\ Len(packet) \in Nat
  BY FragmentBounds
<1>2. (q + 1) - 1 = q
  OBVIOUS
<1>3. /\ f.last = last
      /\ f.data = SubSeq(packet, ((q + 1) - 1) * FragmentSize + 1, h)
  BY <1>1 DEF Fragments
<1>4. f.data = SubSeq(packet, l + 1, h)
  BY <1>2, <1>3
<1>5. /\ ((q + 1) - 1) * FragmentSize \in Nat /\ ((q + 1) - 1) * FragmentSize <= Len(packet)
      /\ q + 1 < c => (q + 1) * FragmentSize \in Nat /\ (q + 1) * FragmentSize <= Len(packet)
  BY <1>1, FragmentBounds
<1>6. l \in Nat /\ l <= Len(packet)
  BY <1>2, <1>5
<1>7. ~last => l <= (q + 1) * FragmentSize
  <2>1. q \in Int /\ q + 1 \in Int /\ q <= q + 1
    OBVIOUS
  <2> QED BY <2>1, FragmentSizeAssumption, TimesMonotone
<1>8. h \in Nat /\ l <= h /\ h <= Len(packet)
  <2>1. CASE last
    BY <1>1, <1>6, <2>1
  <2>2. CASE ~last
    <3>1. q + 1 < c
      BY <1>1, <2>2
    <3> HIDE DEF l
    <3> QED BY <1>5, <1>7, <2>2, <3>1
  <2> QED BY <2>1, <2>2
<1> HIDE DEF l, h, f
<1>9. 1 \in 1 .. Len(packet) + 1 /\ l \in 1 - 1 .. Len(packet) /\ h \in l .. Len(packet)
  BY <1>1, <1>6, <1>8
<1>10. SubSeq(packet, 1, l) \o SubSeq(packet, l + 1, h) = SubSeq(packet, 1, h)
  BY <1>9, ConcatAdjacentSubSeq
<1> QED BY <1>3, <1>4, <1>10 DEF l, h, f

\* Every fragment agrees with the fragment size, as is_valid of the receiver demands.
LEMMA FragmentsValid ==
    ASSUME NEW S, NEW packet \in Seq(S), NEW i \in 1 .. FragmentCount(packet)
    PROVE  /\ FragmentIsValid(Fragments(packet)[i])
           /\ Fragments(packet)[i].first = (i = 1)
           /\ Fragments(packet)[i].last = (i = FragmentCount(packet))
<1> DEFINE c == FragmentCount(packet)
           F == FragmentSize
           l == Len(packet)
           f == Fragments(packet)[i]
           lo == (i - 1) * F
           hi == IF i = c THEN l ELSE i * F
<1>1. c \in Nat /\ i \in Nat /\ i >= 1 /\ i <= c /\ l \in Nat /\ F \in Nat /\ F > 0
  BY FragmentBounds, FragmentSizeAssumption
<1>2. f.first = (i = 1) /\ f.last = (i = c) /\ f.data = SubSeq(packet, lo + 1, hi)
  BY DEF Fragments
<1>3. lo \in Nat /\ lo <= l /\ (i < c => i * F \in Nat /\ i * F <= l)
  BY FragmentBounds
<1>4. l <= c * F
  <2>1. CASE l = 0
    BY <1>1, <2>1 DEF FragmentCount
  <2>2. CASE l # 0
    <3>1. c = (l + F - 1) \div F
      BY <2>2 DEF FragmentCount
    <3> DEFINE x == l + F - 1
    <3>2. x \in Int /\ x = l + (F - 1)
      BY <1>1
    <3>3. x % F \in 0 .. F - 1 /\ x = (F * c) + (x % F)
      BY <1>1, <3>1, <3>2, DivMod
    <3>4. F * c = c * F /\ c * F \in Int
      BY <1>1
    <3> HIDE DEF x, c, F, l
    <3> QED BY <1>1, <3>2, <3>3, <3>4
  <2> QED BY <2>1, <2>2
<1>5. i * F = lo + F /\ lo \in Nat
  BY <1>1, <1>3
<1>6. hi \in Nat /\ hi <= l /\ lo <= hi /\ (i = c => hi <= lo + F) /\ (i # c => hi = lo + F)
  <2>1. CASE i = c
    <3>1. hi = l /\ c * F = lo + F
      BY <1>5, <2>1
    <3> HIDE DEF hi, lo, c, F, l
    <3> QED BY <1>1, <1>3, <1>4, <2>1, <3>1
  <2>2. CASE i # c
    <3>1. hi = i * F /\ i < c
      BY <1>1, <2>2
    <3> HIDE DEF hi, lo, c, F, l
    <3> QED BY <1>1, <1>3, <1>5, <2>2, <3>1
  <2> QED BY <2>1, <2>2
<1> HIDE DEF hi, lo
<1>7. Len(f.data) = hi - lo
  <2>1. lo + 1 \in Int /\ hi \in Int /\ \A k \in lo + 1 .. hi : packet[k] \in S
    <3>1. \A k \in lo + 1 .. hi : k \in 1 .. Len(packet)
      BY <1>1, <1>3, <1>6
    <3> QED BY <1>3, <1>6, <3>1
  <2>2. Len(SubSeq(packet, lo + 1, hi)) =
          IF lo + 1 <= hi THEN hi - (lo + 1) + 1 ELSE 0
    BY <2>1, SubSeqProperties
  <2> QED BY <1>2, <1>3, <1>6, <2>2
<1> HIDE DEF f
<1>8. FragmentIsValid(f)
  <2>1. /\ i = c => Len(f.data) <= F
        /\ i # c => Len(f.data) = F
    BY <1>1, <1>3, <1>6, <1>7
  <2>2. (f.last => i = c) /\ (~f.last => i # c)
    BY <1>2
  <2> QED BY <2>1, <2>2 DEF FragmentIsValid
<1> QED BY <1>2, <1>8 DEF f

=============================================================================
