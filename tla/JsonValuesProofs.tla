-------------------------- MODULE JsonValuesProofs --------------------------
(***************************************************************************)
(* What holds of the scalars and the Values of any program: the numbers    *)
(* and strings it writes are read back, the conversions of a number do     *)
(* what the tests of it promise, every buffer has one owner, an array      *)
(* changes by one element, a mode decides the settings, a path is          *)
(* followed, and the order of values is a total order.                     *)
(***************************************************************************)
EXTENDS MCJsonValues, FiniteSetTheorems, SequenceTheorems, WellFoundedInduction, TLAPS

(* A set of numbers that holds 0, and the next of each, holds them all.    *)
LEMMA SetInduction ==
  ASSUME NEW Z \in SUBSET Nat, 0 \in Z, \A n \in Z : n + 1 \in Z
  PROVE  Z = Nat
<1> DEFINE Y == Nat \ Z
<1>1. SUFFICES ASSUME Y # {} PROVE FALSE
  OBVIOUS
<1>2. PICK x \in Y : \A y \in Y : ~ (<<y, x>> \in OpToRel(<,Nat))
  BY <1>1, WFMin, NatLessThanWellFounded
<1>3. \A y \in Y : ~(y < x)
  BY <1>2 DEF OpToRel
<1>4. x # 0 /\ x - 1 \in Nat /\ x - 1 < x
  OBVIOUS
<1>5. x - 1 \in Z
  BY <1>3, <1>4
<1> QED
  BY <1>4, <1>5

(* f starts at a, and each value of it comes from the one before, to n or  *)
(* for good.                                                               *)
IsPrefixOf(f, a, h, n) == f[0] = a /\ \A k \in 0 .. n - 1 : f[k + 1] = h[k][f[k]]
RecursiveFrom(f, a, h) == f[0] = a /\ \A n \in Nat : f[n + 1] = h[n][f[n]]

(* There is a function that starts at a and goes on by h.                  *)
LEMMA Recursion ==
  ASSUME NEW Y, NEW a \in Y, NEW h \in [Nat -> [Y -> Y]]
  PROVE  \E f \in [Nat -> Y] : RecursiveFrom(f, a, h)
<1> DEFINE Z == {n \in Nat : \E f \in [Nat -> Y] : IsPrefixOf(f, a, h, n)}
<1>1. 0 \in Z
  <2>1. IsPrefixOf([k \in Nat |-> a], a, h, 0)
    BY DEF IsPrefixOf
  <2> QED BY <2>1
<1>2. ASSUME NEW n \in Z PROVE n + 1 \in Z
  <2>0. n \in Nat OBVIOUS
  <2>1. PICK f \in [Nat -> Y] : IsPrefixOf(f, a, h, n)
    OBVIOUS
  <2> DEFINE g == [k \in Nat |-> IF k = n + 1 THEN h[n][f[n]] ELSE f[k]]
  <2>2. g \in [Nat -> Y]
    BY <2>0
  <2>3. \A k \in Nat : k # n + 1 => g[k] = f[k]
    OBVIOUS
  <2>4. g[n + 1] = h[n][g[n]]
    BY <2>0
  <2>5. g[0] = a
    BY <2>0, <2>1 DEF IsPrefixOf
  <2>6. ASSUME NEW k \in 0 .. n PROVE g[k + 1] = h[k][g[k]]
    BY <2>0, <2>1, <2>3, <2>4 DEF IsPrefixOf
  <2> HIDE DEF g
  <2>7. IsPrefixOf(g, a, h, n + 1)
    BY <2>0, <2>5, <2>6 DEF IsPrefixOf
  <2> QED BY <2>0, <2>2, <2>7
<1> HIDE DEF Z
<1>3. Z = Nat
  BY <1>1, <1>2, SetInduction DEF Z
<1> DEFINE F(n) == CHOOSE f \in [Nat -> Y] : IsPrefixOf(f, a, h, n)
<1>4. ASSUME NEW n \in Nat PROVE F(n) \in [Nat -> Y] /\ IsPrefixOf(F(n), a, h, n)
  BY <1>3 DEF Z
<1> HIDE DEF F
<1>5. ASSUME NEW n \in Nat PROVE \A k \in 0 .. n : F(n)[k] = F(n + 1)[k]
  <2> DEFINE R == {k \in Nat : k <= n => F(n)[k] = F(n + 1)[k]}
  <2>1. 0 \in R
    BY <1>4 DEF IsPrefixOf
  <2>2. ASSUME NEW k \in R PROVE k + 1 \in R
    <3>1. SUFFICES ASSUME k + 1 <= n PROVE F(n)[k + 1] = F(n + 1)[k + 1]
      OBVIOUS
    <3>2. k \in 0 .. n - 1 /\ k \in 0 .. (n + 1) - 1 /\ n + 1 \in Nat
      BY <3>1
    <3>3. F(n)[k + 1] = h[k][F(n)[k]]
      BY <1>4, <3>2 DEF IsPrefixOf
    <3>4. F(n + 1)[k + 1] = h[k][F(n + 1)[k]]
      BY <1>4, <3>2 DEF IsPrefixOf
    <3> QED BY <3>1, <3>3, <3>4
  <2> HIDE DEF R
  <2>3. R = Nat
    BY <2>1, <2>2, SetInduction DEF R
  <2> QED BY <2>3 DEF R
<1> DEFINE f == [n \in Nat |-> F(n)[n]]
<1>6. f \in [Nat -> Y]
  BY <1>4
<1>7. f[0] = a
  BY <1>4 DEF IsPrefixOf
<1>8. ASSUME NEW n \in Nat PROVE f[n + 1] = h[n][f[n]]
  <2>1. F(n + 1)[n + 1] = h[n][F(n + 1)[n]]
    BY <1>4 DEF IsPrefixOf
  <2>2. F(n + 1)[n] = F(n)[n]
    BY <1>5
  <2> QED BY <2>1, <2>2
<1> QED
  <2> HIDE DEF f
  <2>1. RecursiveFrom(f, a, h)
    BY <1>7, <1>8 DEF RecursiveFrom
  <2> QED BY <1>6, <2>1

(* Pow2 is what its definition says.                                       *)
LEMMA Pow2Def == /\ Pow2 \in [Nat -> Nat] /\ Pow2[0] = 1
                 /\ \A k \in Nat : Pow2[k + 1] = 2 * Pow2[k]
<1> DEFINE h == [n \in Nat |-> [x \in Nat |-> 2 * x]]
           D(g) == [k \in Nat |-> IF k = 0 THEN 1 ELSE 2 * g[k - 1]]
<1>1. PICK f \in [Nat -> Nat] : RecursiveFrom(f, 1, h)
  <2>1. h \in [Nat -> [Nat -> Nat]]
    OBVIOUS
  <2>2. 1 \in Nat
    OBVIOUS
  <2> HIDE DEF h
  <2> QED BY <2>1, <2>2, Recursion, Zenon
<1>2. f[0] = 1 /\ \A n \in Nat : f[n + 1] = 2 * f[n]
  BY <1>1 DEF RecursiveFrom
<1>3. \A n \in Nat \ {0} : n - 1 \in Nat /\ n = (n - 1) + 1
  OBVIOUS
<1>4. f = D(f)
  BY <1>1, <1>2, <1>3
<1>5. Pow2 = D(Pow2)
  <2>1. Pow2 = CHOOSE g : g = D(g)
    BY DEF Pow2
  <2> HIDE DEF D
  <2> QED BY <2>1, <1>4
<1>6. Pow2[0] = 1 /\ \A k \in Nat : Pow2[k + 1] = 2 * Pow2[k]
  BY <1>5
<1> DEFINE Z == {k \in Nat : Pow2[k] \in Nat}
<1>7. Z = Nat
  <2>1. 0 \in Z /\ \A k \in Z : k + 1 \in Z
    BY <1>6
  <2> HIDE DEF Z
  <2> QED BY <2>1, SetInduction DEF Z
<1>8. Pow2 \in [Nat -> Nat]
  <2>1. Pow2 = [k \in Nat |-> Pow2[k]]
    BY <1>5
  <2> QED BY <2>1, <1>7
<1> QED BY <1>6, <1>8

(* Powers of two grow, past their exponents.                               *)
LEMMA Pow2Grows ==
  /\ \A k \in Nat : Pow2[k] \in Nat /\ Pow2[k] >= 1 /\ k < Pow2[k]
  /\ \A k, j \in Nat : k <= j => Pow2[k] <= Pow2[j]
<1> DEFINE Z == {k \in Nat : Pow2[k] >= 1 /\ k < Pow2[k]}
<1>1. Z = Nat
  <2>1. 0 \in Z /\ \A k \in Z : k + 1 \in Z
    BY Pow2Def
  <2> HIDE DEF Z
  <2> QED BY <2>1, SetInduction DEF Z
<1>2. ASSUME NEW k \in Nat PROVE \A j \in Nat : k <= j => Pow2[k] <= Pow2[j]
  <2> DEFINE Y == {j \in Nat : k <= j => Pow2[k] <= Pow2[j]}
  <2>1. 0 \in Y /\ \A j \in Y : j + 1 \in Y
    <3>1. 0 \in Y
      <4>1. k <= 0 => k = 0
        OBVIOUS
      <4> QED BY <4>1, Pow2Def
    <3>2. ASSUME NEW j \in Y PROVE j + 1 \in Y
      <4>1. Pow2[j] <= Pow2[j + 1]
        BY Pow2Def, <1>1
      <4> QED BY <4>1, Pow2Def
    <3> QED BY <3>1, <3>2
  <2> HIDE DEF Y
  <2> QED BY <2>1, SetInduction DEF Y
<1> QED BY <1>1, <1>2, Pow2Def

(* The power of a sum.                                                     *)
LEMMA Pow2Sum == \A k, j \in Nat : Pow2[k + j] = Pow2[k] * Pow2[j]
<1> TAKE k \in Nat
<1> DEFINE Y == {j \in Nat : Pow2[k + j] = Pow2[k] * Pow2[j]}
<1>1. 0 \in Y
  BY Pow2Def
<1>2. ASSUME NEW j \in Y PROVE j + 1 \in Y
  <2>1. Pow2[k + (j + 1)] = 2 * Pow2[k + j]
    <3>1. k + (j + 1) = (k + j) + 1 /\ k + j \in Nat
      OBVIOUS
    <3> QED BY <3>1, Pow2Def
  <2>2. Pow2[k] * Pow2[j + 1] = Pow2[k] * (2 * Pow2[j])
    BY Pow2Def
  <2>3. Pow2[k] \in Nat /\ Pow2[j] \in Nat /\ Pow2[k + j] = Pow2[k] * Pow2[j]
    BY Pow2Def
  <2>4. Pow2[k] * (2 * Pow2[j]) = 2 * (Pow2[k] * Pow2[j])
    BY <2>3
  <2> QED BY <2>1, <2>2, <2>3, <2>4
<1> HIDE DEF Y
<1>3. Y = Nat
  BY <1>1, <1>2, SetInduction DEF Y
<1> QED BY <1>3 DEF Y

(* Scale(n) is the first at which n fits in the significand.               *)
LEMMA ScaleFacts ==
  ASSUME NEW n \in Nat
  PROVE  /\ Scale(n) \in Nat /\ n < Pow2[Scale(n) + Significand]
         /\ \A j \in Nat : n < Pow2[j + Significand] => Scale(n) <= j
<1> USE SignificandAssumption
<1> DEFINE Y == {k \in Nat : n < Pow2[k + Significand]}
<1>1. n \in Y
  <2>1. n < Pow2[n] /\ Pow2[n] <= Pow2[n + Significand] /\ Pow2[n + Significand] \in Nat /\ Pow2[n] \in Nat
    BY Pow2Grows
  <2> QED BY <2>1
<1>2. PICK k \in Y : \A j \in Y : ~ (<<j, k>> \in OpToRel(<, Nat))
  BY <1>1, WFMin, NatLessThanWellFounded
<1>3. \A j \in Y : k <= j
  <2>1. Y \subseteq Nat
    OBVIOUS
  <2> HIDE DEF Y
  <2>2. \A j \in Y : ~ (j < k)
    BY <1>2, <2>1 DEF OpToRel
  <2> QED BY <2>1, <2>2
<1>4. k <= n
  BY <1>1, <1>3
<1>5. \A j \in 0 .. k - 1 : n >= Pow2[j + Significand]
  <2> TAKE j \in 0 .. k - 1
  <2>1. j \notin Y /\ j \in Nat
    BY <1>3
  <2>2. Pow2[j + Significand] \in Nat
    BY Pow2Grows
  <2> QED BY <2>1, <2>2
<1>6. k \in 0 .. n /\ n < Pow2[k + Significand]
  BY <1>4
<1> HIDE DEF Y
<1>7. /\ Scale(n) \in 0 .. n /\ n < Pow2[Scale(n) + Significand]
      /\ \A j \in 0 .. Scale(n) - 1 : n >= Pow2[j + Significand]
  BY <1>5, <1>6 DEF Scale
<1>8. \A j \in Nat : Pow2[j + Significand] \in Nat
  BY Pow2Grows
<1> QED BY <1>7, <1>8

(* Rounding a number of units below the next is to one of both.            *)
LEMMA RoundedNatUnits ==
  ASSUME NEW n \in Nat, NEW u \in Nat, u >= 1, u = Pow2[Scale(n)]
  PROVE  /\ \E q \in Nat : /\ q * u <= n /\ n < (q + 1) * u
                           /\ RoundedNat(n) \in {q * u, (q + 1) * u}
                           /\ n = q * u => RoundedNat(n) = n
<1> DEFINE q == n \div u
           r == n % u
<1>1. q \in Nat /\ r \in 0 .. u - 1 /\ n = (u * q) + r
  <2>1. q \in Int /\ q >= 0
    OBVIOUS
  <2>2. r \in 0 .. u - 1
    OBVIOUS
  <2>3. n = (u * q) + r
    OBVIOUS
  <2> QED BY <2>1, <2>2, <2>3
<1>2. RoundedNat(n) = u * (IF RoundUp(q, r, u) THEN q + 1 ELSE q)
  BY DEF RoundedNat
<1> HIDE DEF q, r
<1>3. n = q * u => r = 0
  BY <1>1
<1>4. r = 0 => ~RoundUp(q, r, u)
  BY <1>1 DEF RoundUp
<1>5. u * q = q * u /\ u * (q + 1) = (q + 1) * u /\ (q + 1) * u = q * u + u
  BY <1>1
<1>6. q * u <= n /\ n < (q + 1) * u
  BY <1>1, <1>5
<1>7. RoundedNat(n) \in {q * u, (q + 1) * u}
  BY <1>1, <1>2, <1>5
<1>8. n = q * u => RoundedNat(n) = n
  BY <1>1, <1>2, <1>3, <1>4, <1>5
<1> QED BY <1>1, <1>6, <1>7, <1>8

(* A number that fits in the significand, or its double, is exact.         *)
LEMMA RoundedNatExact ==
  /\ \A n \in Nat : n < Pow2[Significand] => RoundedNat(n) = n
  /\ \A m \in Nat : m < Pow2[Significand] => RoundedNat(2 * m) = 2 * m
<1> USE SignificandAssumption
<1>1. ASSUME NEW n \in Nat, n < Pow2[Significand] PROVE RoundedNat(n) = n
  <2>1. Scale(n) = 0
    BY <1>1, ScaleFacts
  <2>2. Pow2[Scale(n)] = 1
    BY <2>1, Pow2Def
  <2>3. PICK q \in Nat : q * 1 <= n /\ n < (q + 1) * 1 /\ (n = q * 1 => RoundedNat(n) = n)
    BY <2>2, RoundedNatUnits
  <2> QED BY <2>3
<1>2. ASSUME NEW m \in Nat, m < Pow2[Significand] PROVE RoundedNat(2 * m) = 2 * m
  <2>1. 2 * m \in Nat /\ 2 * m < Pow2[1 + Significand]
    <3>1. Pow2[Significand + 1] = 2 * Pow2[Significand] /\ Pow2[Significand] \in Nat
      BY Pow2Def
    <3> QED BY <1>2, <3>1
  <2> DEFINE n == 2 * m
             u == Pow2[Scale(n)]
  <2> HIDE DEF n
  <2>2. Scale(n) \in {0, 1}
    <3>1. Scale(n) \in Nat /\ \A j \in Nat : n < Pow2[j + Significand] => Scale(n) <= j
      BY <2>1, ScaleFacts DEF n
    <3>2. Scale(n) <= 1
      BY <2>1, <3>1 DEF n
    <3> QED BY <3>1, <3>2
  <2>3. u \in {1, 2}
    <3>1. Pow2[0] = 1 /\ Pow2[1] = 2
      <4>1. Pow2[0 + 1] = 2 * Pow2[0]
        BY Pow2Def
      <4> QED BY <4>1, Pow2Def
    <3> QED BY <2>2, <3>1
  <2>4. PICK q \in Nat : q * u <= n /\ n < (q + 1) * u /\ (n = q * u => RoundedNat(n) = n)
    <3>1. n \in Nat
      BY <2>1 DEF n
    <3>2. u \in Nat /\ u >= 1 /\ u = Pow2[Scale(n)]
      BY <2>3
    <3> HIDE DEF u
    <3> QED BY <3>1, <3>2, RoundedNatUnits
  <2> HIDE DEF u
  <2>5. CASE u = 1
    BY <2>4, <2>5 DEF n
  <2>6. CASE u = 2
    BY <2>4, <2>6 DEF n
  <2> QED BY <2>3, <2>5, <2>6 DEF n
<1> QED BY <1>1, <1>2

(* A multiple of u up to another is no more of them.                       *)
LEMMA Multiples ==
  ASSUME NEW q \in Nat, NEW d \in Nat, NEW u \in Nat, u >= 1
  PROVE  /\ q * u \in Nat /\ (q + 1) * u \in Nat /\ d * u \in Nat
         /\ q < d => (q + 1) * u <= d * u
         /\ q > d => q * u > d * u
<1>1. q * u \in Nat /\ (q + 1) * u \in Nat /\ d * u \in Nat
  OBVIOUS
<1>2. q < d => (q + 1) * u <= d * u
  OBVIOUS
<1>3. q > d => q * u > d * u
  <2>1. q > d => q * u >= (d + 1) * u
    OBVIOUS
  <2>2. (d + 1) * u = (d * u) + u
    OBVIOUS
  <2> QED BY <1>1, <2>1, <2>2
<1> QED BY <1>1, <1>2, <1>3

(* A number is rounded to one next to it; a power of two that is a multiple *)
(* of its unit is not between the two.                                     *)
LEMMA RoundedNatNext ==
  ASSUME NEW k \in Nat, NEW n \in Nat, Scale(n) \in Nat, Scale(n) <= k
  PROVE  \E a, b \in Nat : /\ a <= n /\ n < b /\ RoundedNat(n) \in {a, b}
                           /\ n = a => RoundedNat(n) = n
                           /\ a < Pow2[k] => b <= Pow2[k]
<1> DEFINE u == Pow2[Scale(n)]  d == Pow2[k - Scale(n)]
<1>1. k - Scale(n) \in Nat /\ (k - Scale(n)) + Scale(n) = k
  OBVIOUS
<1>2. u \in Nat /\ u >= 1 /\ d \in Nat /\ Pow2[k] = d * u
  BY <1>1, Pow2Grows, Pow2Sum
<1>3. PICK q \in Nat : /\ q * u <= n /\ n < (q + 1) * u
                       /\ RoundedNat(n) \in {q * u, (q + 1) * u}
                       /\ n = q * u => RoundedNat(n) = n
  BY <1>2, RoundedNatUnits
<1> HIDE DEF u, d
<1>4. /\ q * u \in Nat /\ (q + 1) * u \in Nat
      /\ q < d => (q + 1) * u <= d * u
      /\ q >= d => q * u >= d * u
  BY <1>2, Multiples
<1> QED BY <1>2, <1>3, <1>4

(* A power of two is exact, and what is below one is not rounded past it.  *)
LEMMA RoundedNatPow2 ==
  ASSUME NEW k \in Nat
  PROVE  /\ RoundedNat(Pow2[k]) = Pow2[k]
         /\ \A n \in Nat : n <= Pow2[k] => RoundedNat(n) \in Nat /\ RoundedNat(n) <= Pow2[k]
<1> USE SignificandAssumption
<1>1. Pow2[k] \in Nat
  BY Pow2Grows
<1>2. CASE k < Significand
  <2>1. Pow2[k] < Pow2[Significand]
    <3>1. Pow2[k + 1] <= Pow2[Significand] /\ Pow2[k + 1] = 2 * Pow2[k] /\ Pow2[k] >= 1
      BY <1>2, Pow2Grows, Pow2Def
    <3> QED BY <1>1, <3>1, Pow2Grows
  <2>2. \A n \in Nat : n <= Pow2[k] => RoundedNat(n) = n
    BY <1>1, <2>1, RoundedNatExact, Pow2Grows
  <2> QED BY <1>1, <2>2
<1>3. CASE k >= Significand
  <2>1. ASSUME NEW n \in Nat, n <= Pow2[k]
        PROVE  RoundedNat(n) \in Nat /\ RoundedNat(n) <= Pow2[k] /\ (n = Pow2[k] => RoundedNat(n) = n)
    <3>1. Scale(n) \in Nat /\ Scale(n) <= k
      <4>1. (k - Significand) + 1 \in Nat /\ ((k - Significand) + 1) + Significand = k + 1
        BY <1>3
      <4>2. Pow2[k + 1] = 2 * Pow2[k] /\ Pow2[k] >= 1
        BY Pow2Def, Pow2Grows
      <4>3. n < Pow2[((k - Significand) + 1) + Significand]
        BY <1>1, <2>1, <4>1, <4>2
      <4>4. Scale(n) \in Nat /\ Scale(n) <= (k - Significand) + 1
        BY <4>1, <4>3, ScaleFacts
      <4> QED BY <1>3, <4>4
    <3>2. PICK a, b \in Nat : /\ a <= n /\ n < b /\ RoundedNat(n) \in {a, b}
                              /\ n = a => RoundedNat(n) = n
                              /\ a < Pow2[k] => b <= Pow2[k]
      BY <3>1, RoundedNatNext
    <3> QED BY <1>1, <2>1, <3>2
  <2> QED BY <1>1, <2>1
<1> QED BY <1>2, <1>3
-----------------------------------------------------------------------------
(* The floats of JsonNumbers are those of this module.                     *)
LEMMA NumberFloats ==
  /\ N!Pow2 = Pow2
  /\ \A n : N!Scale(n) = Scale(n) /\ N!RoundedNat(n) = RoundedNat(n) /\ N!Rounded(n) = Rounded(n)
<1>1. N!Pow2 = Pow2
  BY DEF Pow2, N!Pow2
<1>2. \A n : N!Scale(n) = Scale(n)
  BY <1>1 DEF Scale, N!Scale
<1>3. \A n : N!RoundedNat(n) = RoundedNat(n)
  BY <1>1, <1>2 DEF RoundedNat, N!RoundedNat, RoundUp, N!RoundUp
<1>4. \A n : N!Rounded(n) = Rounded(n)
  BY <1>3 DEF Rounded, N!Rounded
<1> QED BY <1>1, <1>2, <1>3, <1>4

(* A number is rounded to an integer.                                      *)
LEMMA RoundedInt == \A n \in Int : Rounded(n) \in Int /\ (n \in Nat => Rounded(n) \in Nat)
<1>1. ASSUME NEW n \in Nat PROVE RoundedNat(n) \in Nat
  <2>1. n <= Pow2[n]
    BY Pow2Grows
  <2> QED BY <2>1, RoundedNatPow2
<1>2. ASSUME NEW n \in Int PROVE Rounded(n) \in Int /\ (n \in Nat => Rounded(n) \in Nat)
  <2>1. CASE n >= 0
    BY <1>1, <2>1 DEF Rounded
  <2>2. CASE ~(n >= 0)
    <3>1. -n \in Nat
      BY <2>2
    <3>2. RoundedNat(-n) \in Nat
      BY <1>1, <3>1
    <3> QED BY <2>2, <3>2 DEF Rounded
  <2> QED BY <2>1, <2>2
<1> QED BY <1>2

(* The double nearest to a number, an infinity included, is one.           *)
LEMMA NearestInt == \A n \in Int : N!Nearest(n) \in Int
<1> TAKE n \in Int
<1>1. N!Rounded(n) \in Int
  BY NumberFloats, RoundedInt
<1>2. N!Infinity \in Int /\ -N!Infinity \in Int
  BY WidthsAssumption DEF N!Infinity
<1> QED BY <1>1, <1>2 DEF N!Nearest

(* The bounds the tests of Value compare a double with: those of an Int    *)
(* are exact, and so is the least LargestInt; the others go no further     *)
(* than the next double.                                                   *)
LEMMA BoundsRounded ==
  /\ Rounded(2 * N!MinInt) = 2 * N!MinInt /\ Rounded(2 * MaxInt) = 2 * MaxInt
  /\ Rounded(2 * N!MaxUInt) = 2 * N!MaxUInt /\ Rounded(2 * 0) = 0
  /\ Rounded(2 * N!MinLong) = 2 * N!MinLong
  /\ Rounded(2 * MaxLong) \in Int /\ Rounded(2 * MaxLong) <= 2 * (MaxLong + 1)
  /\ Rounded(2 * N!MaxULong) \in Int /\ Rounded(2 * N!MaxULong) <= 2 * (N!MaxULong + 1)
<1> USE SignificandAssumption, WidthsAssumption
<1>1. Pow2[Significand] \in Nat
  BY Pow2Grows
<1>2. ASSUME NEW m \in Nat, m < Pow2[Significand] PROVE Rounded(2 * m) = 2 * m
  BY <1>2, RoundedNatExact DEF Rounded
<1>3. ASSUME NEW m \in Nat, m # 0, RoundedNat(2 * m) = 2 * m PROVE Rounded(-2 * m) = -2 * m
  <2>1. -(-2 * m) = 2 * m /\ ~(-2 * m >= 0) /\ -(2 * m) = -2 * m
    BY <1>3
  <2> QED BY <1>3, <2>1 DEF Rounded
<1>4. /\ Rounded(2 * MaxInt) = 2 * MaxInt /\ Rounded(2 * 0) = 0
      /\ Rounded(2 * N!MaxUInt) = 2 * N!MaxUInt
  <2>1. MaxInt \in Nat /\ MaxInt < Pow2[Significand] /\ 0 < Pow2[Significand]
    BY <1>1
  <2>2. N!MaxUInt \in Nat /\ N!MaxUInt < Pow2[Significand]
    BY <1>1 DEF N!MaxUInt
  <2> QED BY <1>2, <2>1, <2>2
<1>5. Rounded(2 * N!MinInt) = 2 * N!MinInt
  <2>1. MaxInt + 1 < Pow2[Significand] \/ MaxInt = 0
    BY <1>1
  <2>2. MaxInt + 1 \in Nat /\ MaxInt + 1 # 0
    OBVIOUS
  <2>3. RoundedNat(2 * (MaxInt + 1)) = 2 * (MaxInt + 1)
    <3>1. CASE MaxInt + 1 < Pow2[Significand]
      BY <3>1, <2>2, RoundedNatExact
    <3>2. CASE MaxInt = 0
      BY <1>1, <3>2, RoundedNatExact
    <3> QED BY <2>1, <3>1, <3>2
  <2>4. 2 * N!MinInt = -2 * (MaxInt + 1)
    BY DEF N!MinInt
  <2> QED BY <1>3, <2>2, <2>3, <2>4
<1>6. PICK k \in Nat : MaxLong + 1 = Pow2[k]
  OBVIOUS
<1>7. /\ Pow2[k] \in Nat /\ Pow2[k] # 0 /\ k + 1 \in Nat /\ k + 2 \in Nat
      /\ Pow2[k + 1] = 2 * (MaxLong + 1)
      /\ Pow2[k + 2] = 2 * (2 * (MaxLong + 1))
  <2>1. k + 1 \in Nat /\ k + 2 = (k + 1) + 1
    OBVIOUS
  <2>2. Pow2[k + 1] = 2 * Pow2[k] /\ Pow2[k + 2] = 2 * Pow2[k + 1]
    BY <2>1, Pow2Def
  <2> QED BY <1>6, <2>1, <2>2, Pow2Grows
<1>8. Rounded(2 * N!MinLong) = 2 * N!MinLong
  <2>1. RoundedNat(Pow2[k + 1]) = Pow2[k + 1]
    BY <1>7, RoundedNatPow2
  <2>2. 2 * N!MinLong = -2 * (MaxLong + 1)
    BY DEF N!MinLong
  <2> QED BY <1>3, <1>7, <2>1, <2>2
<1>9. Rounded(2 * MaxLong) \in Int /\ Rounded(2 * MaxLong) <= 2 * (MaxLong + 1)
  <2>1. 2 * MaxLong \in Nat /\ 2 * MaxLong <= Pow2[k + 1]
    BY <1>7
  <2> QED BY <1>7, <2>1, RoundedNatPow2 DEF Rounded
<1>10. Rounded(2 * N!MaxULong) \in Int /\ Rounded(2 * N!MaxULong) <= 2 * (N!MaxULong + 1)
  <2>1. /\ 2 * N!MaxULong \in Nat /\ 2 * N!MaxULong <= Pow2[k + 2]
        /\ 2 * (N!MaxULong + 1) = Pow2[k + 2]
    BY <1>7 DEF N!MaxULong
  <2> QED BY <1>7, <2>1, RoundedNatPow2 DEF Rounded
<1> QED BY <1>4, <1>5, <1>8, <1>9, <1>10

(* What is not below a power of two is not rounded below it.               *)
LEMMA RoundedNatAbove ==
  ASSUME NEW k \in Nat, NEW n \in Nat, Pow2[k] <= n, n < Pow2[k + 1]
  PROVE  Pow2[k] <= RoundedNat(n)
<1> USE SignificandAssumption
<1>1. Scale(n) \in Nat /\ Scale(n) <= k
  <2>1. Pow2[k + 1] <= Pow2[k + Significand]
    BY Pow2Grows
  <2>2. n < Pow2[k + Significand]
    BY <2>1, Pow2Grows
  <2> QED BY <2>2, ScaleFacts
<1>2. PICK a, b \in Nat : /\ a <= n /\ n < b /\ RoundedNat(n) \in {a, b}
                          /\ a < Pow2[k] => b <= Pow2[k]
  BY <1>1, RoundedNatNext
<1> QED BY <1>2, Pow2Grows

(* The bounds of LargestInt and LargestUInt are rounded in their order.    *)
LEMMA LongsApart == Rounded(2 * MaxLong) <= Rounded(2 * N!MaxULong)
<1> USE SignificandAssumption, WidthsAssumption
<1>1. PICK k \in Nat : MaxLong + 1 = Pow2[k]
  OBVIOUS
<1>2. /\ k + 1 \in Nat /\ Pow2[k] \in Nat /\ Pow2[k] >= 1
      /\ Pow2[k + 1] = 2 * Pow2[k] /\ Pow2[(k + 1) + 1] = 2 * (2 * Pow2[k])
  <2>1. k + 1 \in Nat
    OBVIOUS
  <2>2. Pow2[k + 1] = 2 * Pow2[k] /\ Pow2[(k + 1) + 1] = 2 * Pow2[k + 1]
    BY <2>1, Pow2Def
  <2> QED BY <2>1, <2>2, Pow2Grows
<1>3. Rounded(2 * MaxLong) \in Nat /\ Rounded(2 * MaxLong) <= Pow2[k + 1]
  <2>1. 2 * MaxLong \in Nat /\ 2 * MaxLong <= Pow2[k + 1]
    BY <1>1, <1>2
  <2> QED BY <1>2, <2>1, RoundedNatPow2 DEF Rounded
<1>4. Rounded(2 * N!MaxULong) \in Nat /\ Pow2[k + 1] <= Rounded(2 * N!MaxULong)
  <2> DEFINE n == 2 * N!MaxULong
  <2>1. n \in Nat /\ Pow2[k + 1] <= n /\ n < Pow2[(k + 1) + 1]
    BY <1>1, <1>2 DEF N!MaxULong
  <2> HIDE DEF n
  <2>2. Pow2[k + 1] <= RoundedNat(n)
    BY <1>2, <2>1, RoundedNatAbove
  <2>3. Rounded(n) = RoundedNat(n) /\ Rounded(n) \in Nat
    BY <2>1, RoundedInt DEF Rounded
  <2> QED BY <2>2, <2>3 DEF n
<1> QED BY <1>2, <1>3, <1>4

(* What a literal's digits make, digit by digit.                           *)
LEMMA MagnitudeDef ==
  ASSUME literal.digits \in Seq(0 .. 9)
  PROVE  /\ \A k \in 0 .. Len(literal.digits) : N!Magnitude[k] \in Nat
         /\ N!Magnitude[0] = 0
         /\ \A k \in 0 .. Len(literal.digits) - 1 :
              N!Magnitude[k + 1] = 10 * N!Magnitude[k] + literal.digits[k + 1]
<1> DEFINE d == literal.digits
           len == Len(d)
           h == [n \in Nat |-> [x \in Nat |-> 10 * x + (IF n + 1 <= len THEN d[n + 1] ELSE 0)]]
           D(g) == [k \in 0 .. len |-> IF k = 0 THEN 0 ELSE 10 * g[k - 1] + d[k]]
<1>0. len \in Nat /\ \A n \in 1 .. len : d[n] \in 0 .. 9
  OBVIOUS
<1>1. PICK f \in [Nat -> Nat] : RecursiveFrom(f, 0, h)
  <2>1. ASSUME NEW n \in Nat, NEW x \in Nat
        PROVE  10 * x + (IF n + 1 <= len THEN d[n + 1] ELSE 0) \in Nat
    <3>1. n + 1 <= len => d[n + 1] \in 0 .. 9
      BY <1>0
    <3> HIDE DEF d, len
    <3> QED BY <3>1
  <2>2. h \in [Nat -> [Nat -> Nat]]
    BY <2>1
  <2>3. 0 \in Nat
    OBVIOUS
  <2> HIDE DEF h
  <2> QED BY <2>2, <2>3, Recursion, Zenon
<1>2. f[0] = 0 /\ \A n \in 0 .. len - 1 : f[n + 1] = 10 * f[n] + d[n + 1]
  <2>1. f[0] = 0 /\ \A n \in Nat : f[n + 1] = h[n][f[n]]
    BY <1>1 DEF RecursiveFrom
  <2>2. ASSUME NEW n \in 0 .. len - 1 PROVE f[n + 1] = 10 * f[n] + d[n + 1]
    <3>1. n \in Nat /\ f[n] \in Nat /\ n + 1 <= len
      BY <1>0
    <3> HIDE DEF d, len
    <3>2. h[n] = [x \in Nat |-> 10 * x + (IF n + 1 <= len THEN d[n + 1] ELSE 0)]
      BY ONLY <3>1
    <3>3. h[n][f[n]] = 10 * f[n] + (IF n + 1 <= len THEN d[n + 1] ELSE 0)
      BY ONLY <3>1, <3>2
    <3> HIDE DEF h
    <3> QED BY ONLY <2>1, <3>1, <3>3
  <2> QED BY <2>1, <2>2
<1> DEFINE g == [k \in 0 .. len |-> f[k]]
<1> HIDE DEF d, len
<1>3. \A n \in (0 .. len) \ {0} : n - 1 \in 0 .. len - 1 /\ n = (n - 1) + 1 /\ n - 1 \in 0 .. len
  BY <1>0
<1>4. g = D(g)
  BY <1>0, <1>2, <1>3
<1>5. N!Magnitude = D(N!Magnitude)
  <2>1. N!Magnitude = CHOOSE m : m = D(m)
    BY DEF N!Magnitude, d, len
  <2> HIDE DEF D
  <2> QED BY <2>1, <1>4
<1> DEFINE m == N!Magnitude
<1>6. m[0] = 0 /\ \A k \in 0 .. len - 1 : m[k + 1] = 10 * m[k] + d[k + 1]
  <2>1. m[0] = 0
    BY <1>0, <1>5
  <2>2. ASSUME NEW k \in 0 .. len - 1 PROVE m[k + 1] = 10 * m[k] + d[k + 1]
    <3>1. k + 1 \in 0 .. len /\ k + 1 # 0 /\ (k + 1) - 1 = k
      BY <1>0
    <3>2. m[k + 1] = D(m)[k + 1]
      BY <1>5
    <3> QED BY <3>1, <3>2
  <2> QED BY <2>1, <2>2
<1> HIDE DEF m, g, h, D
<1> DEFINE Z == {k \in Nat : k <= len => m[k] \in Nat}
<1>7. Z = Nat
  <2>1. 0 \in Z
    BY <1>6
  <2>2. ASSUME NEW k \in Z PROVE k + 1 \in Z
    <3>1. SUFFICES ASSUME k + 1 <= len PROVE m[k + 1] \in Nat
      OBVIOUS
    <3>2. k \in 0 .. len - 1 /\ m[k] \in Nat /\ d[k + 1] \in 0 .. 9
      BY <1>0, <3>1
    <3>3. m[k + 1] = 10 * m[k] + d[k + 1]
      BY <1>6, <3>2
    <3>4. \A x \in Nat, y \in 0 .. 9 : 10 * x + y \in Nat
      OBVIOUS
    <3>5. 10 * m[k] + d[k + 1] \in Nat
      BY <3>2, <3>4
    <3> QED BY <3>3, <3>5
  <2> HIDE DEF Z
  <2> QED BY <2>1, <2>2, SetInduction DEF Z
<1>8. \A k \in 0 .. len : m[k] \in Nat
  <2>1. ASSUME NEW k \in 0 .. len PROVE m[k] \in Nat
    <3>1. k \in Nat /\ k <= len
      BY <1>0
    <3>2. k \in Z
      BY <3>1, <1>7
    <3> QED BY <3>1, <3>2
  <2> QED BY <2>1
<1> QED
  BY <1>6, <1>8 DEF d, len, m

(* The number read so far only grows.                                      *)
LEMMA MagnitudeGrows ==
  ASSUME literal.digits \in Seq(0 .. 9), NEW i \in 0 .. Len(literal.digits)
  PROVE  N!Magnitude[i] <= N!Magnitude[Len(literal.digits)]
<1> DEFINE len == Len(literal.digits)
           Z == {j \in Nat : i + j <= len => N!Magnitude[i] <= N!Magnitude[i + j]}
<1>1. len \in Nat /\ i \in Nat /\ i <= len
  OBVIOUS
<1>2. ASSUME NEW k \in 0 .. len - 1 PROVE N!Magnitude[k] <= N!Magnitude[k + 1]
  <2>1. k \in 0 .. len /\ k + 1 \in 1 .. len
    BY <1>1
  <2>2. literal.digits[k + 1] \in 0 .. 9
    BY <2>1
  <2>3. N!Magnitude[k + 1] = 10 * N!Magnitude[k] + literal.digits[k + 1]
    BY MagnitudeDef, Zenon
  <2>4. N!Magnitude[k] \in Nat
    BY <2>1, MagnitudeDef, Zenon
  <2>5. \A x \in Nat, y \in 0 .. 9 : x <= 10 * x + y
    OBVIOUS
  <2> QED BY ONLY <2>2, <2>3, <2>4, <2>5
<1>3. \A k \in 0 .. len : N!Magnitude[k] \in Nat
  BY MagnitudeDef, Zenon
<1> HIDE DEF len
<1>4. 0 \in Z
  BY <1>1, <1>3
<1>5. ASSUME NEW j \in Z PROVE j + 1 \in Z
  <2>1. SUFFICES ASSUME i + (j + 1) <= len
                 PROVE  N!Magnitude[i] <= N!Magnitude[i + (j + 1)]
    OBVIOUS
  <2>2. i + j \in 0 .. len - 1 /\ i + j <= len /\ i + (j + 1) = (i + j) + 1
        /\ i + (j + 1) \in 0 .. len /\ i + j \in 0 .. len
    BY <1>1, <2>1
  <2>3. N!Magnitude[i] <= N!Magnitude[i + j] /\ N!Magnitude[i + j] <= N!Magnitude[(i + j) + 1]
    BY <1>2, <2>2
  <2> QED BY <1>1, <1>3, <2>2, <2>3
<1> HIDE DEF Z
<1>6. Z = Nat
  BY <1>4, <1>5, SetInduction DEF Z
<1>7. len - i \in Z /\ i + (len - i) = len
  BY <1>1, <1>6
<1> QED BY <1>7 DEF Z, len

-----------------------------------------------------------------------------
(* What a number being read, or a value that is converted, is.             *)
Numbers == [type : {"real"}, n : Int]
             \cup [type : {"int"}, n : {2 * i : i \in N!MinLong .. MaxLong}]
             \cup [type : {"uint"}, n : {2 * i : i \in 0 .. N!MaxULong}]
Scalar(v) == \/ v \in Numbers
             \/ v \in [type : {"bool", "string", "array"}, n : Int]
             \/ v = N!Unset
ReadsLiteral ==
  /\ class \in {"Reader", "OurReader"}
  /\ literal \in [negative : BOOLEAN, fraction : BOOLEAN, digits : Seq(0 .. 9)]
  /\ at \in 0 .. Len(literal.digits)
  /\ value = N!Magnitude[at] /\ value <= N!MaxIntegerValue
  /\ \/ pc = "digits" /\ decoded = N!Unset
     \/ /\ pc = "done" /\ (at < Len(literal.digits) => N!TooBig)
        /\ at < Len(literal.digits) \/ literal.fraction
        /\ decoded = [type |-> "real", n |-> N!Nearest(N!Number)]
     \/ /\ pc = "refused" /\ (at < Len(literal.digits) => N!TooBig)
        /\ at < Len(literal.digits) \/ literal.fraction
        /\ class = "Reader" /\ N!Overflows(N!Number) /\ decoded = N!Unset
     \/ /\ pc = "done" /\ at = Len(literal.digits) /\ ~literal.fraction
        /\ decoded = IF literal.negative THEN [type |-> "int", n |-> -2 * value]
                                         ELSE [type |-> N!Positive, n |-> 2 * value]
HasScalar ==
  /\ class = "none" /\ pc = "done" /\ at = 0 /\ value = 0
  /\ literal = [negative |-> FALSE, digits |-> <<>>, fraction |-> FALSE]
  /\ Scalar(decoded)
NumberInv == OfNumber => ReadsLiteral \/ HasScalar

(* The most an integer may be, the digits before its last, and the last.   *)
LEMMA Widths ==
  ASSUME literal.negative \in BOOLEAN
  PROVE  /\ N!MaxIntegerValue \in Nat /\ N!MaxIntegerValue <= N!MaxULong /\ N!MaxULong \in Nat
         /\ N!Threshold \in Nat /\ N!Threshold >= 1 /\ N!MaxIntegerValue % 10 \in 0 .. 9
         /\ N!MaxIntegerValue = 10 * N!Threshold + (N!MaxIntegerValue % 10)
<1> USE WidthsAssumption
<1>1. /\ N!MaxIntegerValue \in Nat /\ N!MaxIntegerValue <= N!MaxULong
      /\ N!MaxULong \in Nat /\ N!MaxIntegerValue >= 10
  BY DEF N!MaxIntegerValue, N!MaxULong
<1> DEFINE max == N!MaxIntegerValue
<1> HIDE DEF max
<1>2. \A n \in Nat : n >= 10 => /\ n \div 10 \in Nat /\ n \div 10 >= 1 /\ n % 10 \in 0 .. 9
                                /\ n = 10 * (n \div 10) + (n % 10)
  OBVIOUS
<1>3. max \in Nat /\ max >= 10
  BY <1>1 DEF max
<1>4. /\ max \div 10 \in Nat /\ max \div 10 >= 1 /\ max % 10 \in 0 .. 9
      /\ max = 10 * (max \div 10) + (max % 10)
  BY <1>2, <1>3
<1> QED BY <1>1, <1>4 DEF max, N!Threshold

(* Reading goes on as long as the integer still fits: nothing wraps.       *)
LEMMA NothingWraps ==
  ASSUME literal \in [negative : BOOLEAN, fraction : BOOLEAN, digits : Seq(0 .. 9)],
         at \in 0 .. Len(literal.digits) - 1, value = N!Magnitude[at], ~N!TooBig
  PROVE  /\ N!Magnitude[at + 1] <= N!MaxIntegerValue
         /\ (value * 10 + N!DigitAt) % (N!MaxULong + 1) = N!Magnitude[at + 1]
<1>1. literal.negative \in BOOLEAN /\ literal.digits \in Seq(0 .. 9)
  OBVIOUS
<1>2. at \in 0 .. Len(literal.digits) /\ N!DigitAt \in 0 .. 9 /\ at + 1 \in 0 .. Len(literal.digits)
  BY <1>1 DEF N!DigitAt
<1>3. value \in Nat /\ N!Magnitude[at + 1] = 10 * value + N!DigitAt
  BY <1>1, <1>2, MagnitudeDef DEF N!DigitAt
<1>4. value <= N!Threshold /\ (value = N!Threshold => N!DigitAt <= N!MaxIntegerValue % 10)
  BY <1>1, <1>2, <1>3, Widths DEF N!TooBig
<1> DEFINE max == N!MaxIntegerValue  top == N!Threshold  low == N!MaxIntegerValue % 10
           d == N!DigitAt  long == N!MaxULong
<1>5. /\ max \in Nat /\ max <= long /\ long \in Nat /\ top \in Nat /\ low \in 0 .. 9
      /\ max = 10 * top + low
  BY <1>1, Widths
<1>6. d \in 0 .. 9 /\ value <= top /\ (value = top => d <= low)
  BY <1>2, <1>4
<1>7. 10 * value + d <= max
  <2> HIDE DEF max, top, low, d, long
  <2>1. CASE value = top
    BY ONLY <1>5, <1>6, <2>1
  <2>2. CASE value # top
    <3>1. value + 1 <= top
      BY ONLY <1>3, <1>5, <1>6, <2>2
    <3>2. 10 * value + 10 <= 10 * top
      BY ONLY <1>3, <1>5, <3>1
    <3> QED BY ONLY <1>3, <1>5, <1>6, <3>2
  <2> QED BY <2>1, <2>2
<1>8. (value * 10 + d) % (long + 1) = 10 * value + d
  <2> HIDE DEF max, top, low, d, long
  <2>1. value * 10 + d = 10 * value + d /\ 10 * value + d \in 0 .. long
    <3>1. value \in Nat /\ d \in Nat /\ max <= long /\ max \in Nat /\ long \in Nat
      BY <1>3, <1>5, <1>6
    <3> QED BY ONLY <1>7, <3>1
  <2>2. \A x \in 0 .. long : x % (long + 1) = x
    BY <1>5
  <2> QED BY <2>1, <2>2
<1> QED BY <1>3, <1>7, <1>8

(* It stops before the end when no digits to come can make it fit.         *)
LEMMA TooBigIsPast ==
  ASSUME literal \in [negative : BOOLEAN, fraction : BOOLEAN, digits : Seq(0 .. 9)],
         at \in 0 .. Len(literal.digits) - 1, value = N!Magnitude[at], N!TooBig,
         ~literal.fraction
  PROVE  N!Magnitude[Len(literal.digits)] > N!MaxIntegerValue
<1> DEFINE len == Len(literal.digits)
<1>1. literal.negative \in BOOLEAN /\ literal.digits \in Seq(0 .. 9) /\ len \in Nat
  OBVIOUS
<1>2. at \in 0 .. len /\ N!DigitAt \in 0 .. 9 /\ at + 1 \in 0 .. len
  BY <1>1 DEF N!DigitAt
<1>3. value \in Nat /\ N!Magnitude[at + 1] = 10 * value + N!DigitAt
  BY <1>1, <1>2, MagnitudeDef DEF N!DigitAt
<1>4. \A k \in 0 .. len : N!Magnitude[k] \in Nat /\ N!Magnitude[k] <= N!Magnitude[len]
  BY <1>1, MagnitudeDef, MagnitudeGrows
<1>5. /\ N!MaxIntegerValue \in Nat /\ N!Threshold \in Nat /\ N!Threshold >= 1
      /\ N!MaxIntegerValue % 10 \in 0 .. 9
      /\ N!MaxIntegerValue = 10 * N!Threshold + (N!MaxIntegerValue % 10)
  BY <1>1, Widths
<1> DEFINE max == N!MaxIntegerValue  top == N!Threshold  low == N!MaxIntegerValue % 10
           d == N!DigitAt  m == N!Magnitude
<1>6. /\ max \in Nat /\ top \in Nat /\ top >= 1 /\ low \in 0 .. 9 /\ max = 10 * top + low
      /\ d \in 0 .. 9 /\ value \in Nat /\ m[at + 1] = 10 * value + d
  BY <1>2, <1>3, <1>5
<1>7. CASE value > top \/ (value = top /\ d > low)
  <2>1. m[at + 1] > max
    <3> HIDE DEF max, top, low, d, m
    <3>1. CASE value = top /\ d > low
      BY ONLY <1>6, <3>1
    <3>2. CASE value > top
      <4>1. value >= top + 1
        BY ONLY <1>6, <3>2
      <4>2. 10 * value >= 10 * top + 10
        BY ONLY <1>6, <4>1
      <4> QED BY ONLY <1>6, <4>2
    <3> QED BY <1>7, <3>1, <3>2
  <2>2. m[at + 1] <= m[len] /\ m[at + 1] \in Nat /\ m[len] \in Nat
    BY <1>1, <1>2, <1>4
  <2> DEFINE x == m[at + 1]  z == m[len]
  <2>3. z > max
    <3>1. x > max /\ x <= z /\ x \in Nat /\ z \in Nat /\ max \in Nat
      BY <1>6, <2>1, <2>2
    <3> HIDE DEF max, x, z
    <3> QED BY <3>1
  <2> QED BY <2>3
<1>8. CASE value = top /\ at + 1 # len
  <2>1. at + 1 \in 0 .. len - 1 /\ at + 2 \in 0 .. len /\ (at + 1) + 1 = at + 2
    BY <1>1, <1>2, <1>8
  <2>2. m[at + 2] = 10 * m[at + 1] + literal.digits[at + 2] /\ literal.digits[at + 2] \in 0 .. 9
    BY <1>1, <2>1, MagnitudeDef
  <2>3. m[at + 2] <= m[len] /\ m[len] \in Nat /\ m[at + 2] \in Nat
    BY <1>1, <2>1, <1>4
  <2> DEFINE e == literal.digits[at + 2]
  <2>4. m[at + 2] = 10 * m[at + 1] + e /\ e \in 0 .. 9
    BY <2>2
  <2> DEFINE x == m[at + 1]  y == m[at + 2]  z == m[len]
  <2>5. /\ x = 10 * top + d /\ y = 10 * x + e /\ y <= z /\ z \in Nat /\ y \in Nat
        /\ max = 10 * top + low /\ top \in Nat /\ top >= 1 /\ low \in 0 .. 9
        /\ d \in 0 .. 9 /\ e \in 0 .. 9
    BY <1>6, <1>8, <2>3, <2>4
  <2>6. z > max
    <3> HIDE DEF max, top, low, d, m, e, x, y, z
    <3>1. x \in Nat /\ x >= 10 * top /\ y >= 100 * top
      BY <2>5
    <3> QED BY <2>5, <3>1
  <2> QED BY <2>6
<1>9. value > top \/ (value = top /\ (at + 1 # len \/ d > low))
  BY DEF N!TooBig, N!IsLastDigit
<1> QED
  BY <1>7, <1>8, <1>9

(* Each step of a reader takes the invariant a step further.               *)
LEMMA NumberStep == ReadsLiteral /\ N!Next => ReadsLiteral'
<1> HAVE ReadsLiteral /\ N!Next
<1> DEFINE len == Len(literal.digits)
<1>1. /\ literal \in [negative : BOOLEAN, fraction : BOOLEAN, digits : Seq(0 .. 9)]
      /\ at \in 0 .. len /\ len \in Nat /\ class \in {"Reader", "OurReader"}
      /\ value = N!Magnitude[at] /\ value <= N!MaxIntegerValue
  BY DEF ReadsLiteral
<1>2. literal' = literal /\ class' = class
  BY DEF N!Next, N!Digit, N!DecodeDouble, N!Finish
<1>3. /\ N!Magnitude' = N!Magnitude /\ N!MaxIntegerValue' = N!MaxIntegerValue
      /\ N!Number' = N!Number /\ N!Threshold' = N!Threshold
  BY <1>2 DEF N!Magnitude, N!MaxIntegerValue, N!Number, N!Threshold
<1>4. CASE N!Digit
  <2>1. at < len /\ ~N!TooBig /\ pc = "digits" /\ decoded = N!Unset
    BY <1>4 DEF N!Digit, ReadsLiteral
  <2>2. at \in 0 .. len - 1
    BY <1>1, <2>1
  <2>3. /\ at' = at + 1 /\ at + 1 \in 0 .. len /\ pc' = "digits" /\ decoded' = N!Unset
        /\ value' = N!Magnitude[at + 1] /\ value' <= N!MaxIntegerValue
    BY <1>1, <1>4, <2>1, <2>2, NothingWraps DEF N!Digit, N!Unset
  <2> QED BY <1>1, <1>2, <1>3, <2>3 DEF ReadsLiteral, N!Unset
<1>5. CASE N!DecodeDouble
  <2>1. /\ at' = at /\ value' = value
        /\ at < len => N!TooBig
        /\ at < len \/ literal.fraction
    BY <1>1, <1>5 DEF N!DecodeDouble
  <2>2. N!TooBig' = N!TooBig
    BY <1>2, <1>3, <2>1 DEF N!TooBig, N!IsLastDigit, N!DigitAt
  <2>3. CASE pc' = "done" /\ decoded' = [type |-> "real", n |-> N!Nearest(N!Number)]
    BY <1>1, <1>2, <1>3, <2>1, <2>2, <2>3 DEF ReadsLiteral
  <2>4. CASE class = "Reader" /\ N!Overflows(N!Number) /\ pc' = "refused" /\ decoded' = decoded
    <3>1. decoded = N!Unset /\ N!Unset' = N!Unset
      BY <1>5 DEF N!DecodeDouble, ReadsLiteral, N!Unset
    <3> QED BY <1>1, <1>2, <1>3, <2>1, <2>2, <2>4, <3>1 DEF ReadsLiteral
  <2> QED BY <1>5, <2>3, <2>4 DEF N!DecodeDouble
<1>6. CASE N!Finish
  <2>1. /\ at' = at /\ value' = value /\ pc' = "done" /\ at = len /\ ~literal.fraction
        /\ decoded' = IF literal.negative THEN [type |-> "int", n |-> -2 * value]
                                          ELSE [type |-> N!Positive, n |-> 2 * value]
    BY <1>6 DEF N!Finish
  <2>2. N!Positive' = N!Positive
    BY <2>1 DEF N!Positive
  <2> QED BY <1>1, <1>2, <1>3, <2>1, <2>2 DEF ReadsLiteral
<1> QED
  BY <1>4, <1>5, <1>6 DEF N!Next

(* A number is being read, or was made by other means.                     *)
LEMMA NumberInvariance == ProgramSpec => []NumberInv
<1>1. ProgramInit => NumberInv
  <2> SUFFICES ASSUME ProgramInit, OfNumber PROVE ReadsLiteral \/ HasScalar
    BY DEF NumberInv
  <2>1. N!Init
    BY DEF ProgramInit, ScalarsInit, OfNumber
  <2>2. CASE literal \in Literals /\ class \in {"Reader", "OurReader"}
    <3>1. literal \in [negative : BOOLEAN, fraction : BOOLEAN, digits : Seq(0 .. 9)]
      BY <2>2, LiteralsAssumption
    <3>2. literal.digits \in Seq(0 .. 9) /\ literal.negative \in BOOLEAN
      BY <3>1
    <3>3. 0 \in 0 .. Len(literal.digits) /\ N!Magnitude[0] = 0
      BY <3>2, MagnitudeDef
    <3>4. 0 <= N!MaxIntegerValue
      BY <3>2, Widths
    <3>5. at = 0 /\ value = 0 /\ pc = "digits" /\ decoded = N!Unset
      BY <2>1, <2>2 DEF N!Init
    <3> QED BY <2>2, <3>1, <3>3, <3>4, <3>5 DEF ReadsLiteral
  <2>3. CASE decoded \in Scalars /\ class = "none"
    <3>1. Scalar(decoded)
      BY <2>3, ScalarsAssumption DEF Scalar, Numbers, N!MinLong, N!MaxULong, N!Unset
    <3> QED BY <2>1, <2>3, <3>1 DEF N!Init, HasScalar
  <2> QED BY <2>1, <2>2, <2>3 DEF N!Init
<1>2. NumberInv /\ [ProgramNext]_programVars => NumberInv'
  <2> SUFFICES ASSUME NumberInv, [ProgramNext]_programVars, OfNumber'
               PROVE  (ReadsLiteral \/ HasScalar)'
    BY DEF NumberInv
  <2>1. CASE ProgramNext
    <3>1. OfNumber /\ N!Next
      BY <2>1 DEF ProgramNext, OfNumber, ScalarsNext
    <3>2. CASE ReadsLiteral
      BY <3>1, <3>2, NumberStep
    <3>3. CASE HasScalar
      BY <3>1, <3>3 DEF HasScalar, N!Next, N!Digit, N!DecodeDouble, N!Finish
    <3> QED BY <3>1, <3>2, <3>3 DEF NumberInv
  <2>2. CASE UNCHANGED programVars
    <3>1. UNCHANGED <<class, literal, at, value, decoded, pc, part>>
      BY <2>2 DEF programVars, numberVars
    <3>2. ReadsLiteral' = ReadsLiteral /\ HasScalar' = HasScalar
      BY <3>1 DEF ReadsLiteral, HasScalar, N!Magnitude, N!MaxIntegerValue, N!TooBig,
                  N!Threshold, N!IsLastDigit, N!DigitAt, N!Number, N!Positive
    <3> QED BY <3>1, <3>2 DEF NumberInv, OfNumber
  <2> QED BY <2>1, <2>2
<1> QED
  BY <1>1, <1>2, PTL DEF ProgramSpec

(* What is read is a number its type holds.                                *)
LEMMA ReadsScalar == ReadsLiteral => N!TypeOK /\ Scalar(decoded)
<1> SUFFICES ASSUME ReadsLiteral PROVE N!TypeOK /\ Scalar(decoded)
  OBVIOUS
<1> USE WidthsAssumption
<1>1. literal.negative \in BOOLEAN /\ literal.digits \in Seq(0 .. 9)
      /\ Len(literal.digits) \in Nat /\ at \in 0 .. Len(literal.digits)
  BY DEF ReadsLiteral
<1>2. value \in Nat /\ value <= N!MaxIntegerValue /\ N!MaxIntegerValue \in Nat
  BY <1>1, MagnitudeDef, Widths DEF ReadsLiteral
<1>3. N!Number \in Int
  <2>1. N!Magnitude[Len(literal.digits)] \in Nat
    BY <1>1, MagnitudeDef
  <2> QED BY <2>1 DEF N!Number
<1>4. decoded.n \in Int /\ decoded.type \in {"null", "int", "uint", "real"} /\ Scalar(decoded)
  <2>1. CASE decoded = N!Unset
    BY <2>1 DEF N!Unset, Scalar
  <2>2. CASE decoded = [type |-> "real", n |-> N!Nearest(N!Number)]
    BY <2>2, <1>3, NearestInt DEF Scalar, Numbers
  <2>3. CASE literal.negative /\ decoded = [type |-> "int", n |-> -2 * value]
    <3>1. -value \in N!MinLong .. MaxLong /\ -2 * value = 2 * (-value)
      BY <1>2, <2>3 DEF N!MaxIntegerValue, N!MinLong
    <3> QED BY <2>3, <3>1 DEF Scalar, Numbers
  <2>4. CASE ~literal.negative /\ decoded = [type |-> N!Positive, n |-> 2 * value]
    <3>1. value \in 0 .. N!MaxULong /\ N!Positive \in {"int", "uint"}
          /\ (N!Positive = "int" => value \in N!MinLong .. MaxLong)
      BY <1>2, <2>4 DEF N!MaxIntegerValue, N!MaxULong, N!Positive, N!MinLong
    <3> QED BY <2>4, <3>1 DEF Scalar, Numbers
  <2> QED BY <1>1, <2>1, <2>2, <2>3, <2>4 DEF ReadsLiteral
<1> QED
  BY <1>1, <1>2, <1>4 DEF N!TypeOK, ReadsLiteral

(* What is read is the number written, or the nearest.                     *)
LEMMA ReadsExactly == ReadsLiteral => N!NumbersAreExact
<1> SUFFICES ASSUME ReadsLiteral, pc \in {"done", "refused"} PROVE N!NumbersAreExact
  BY DEF N!NumbersAreExact
<1> DEFINE len == Len(literal.digits)  m == N!Magnitude[Len(literal.digits)]
<1>1. /\ literal \in [negative : BOOLEAN, fraction : BOOLEAN, digits : Seq(0 .. 9)]
      /\ literal.negative \in BOOLEAN /\ literal.digits \in Seq(0 .. 9)
      /\ len \in Nat /\ at \in 0 .. len /\ value = N!Magnitude[at]
  BY DEF ReadsLiteral
<1>2. m \in Nat /\ value \in Nat
  BY <1>1, MagnitudeDef
<1>3. N!MaxIntegerValue \in Nat /\ N!MaxULong \in Nat /\ N!MaxULong = 2 * MaxLong + 1
      /\ N!MinLong = -MaxLong - 1 /\ MaxLong \in Nat
      /\ N!MaxIntegerValue = IF literal.negative THEN MaxLong + 1 ELSE N!MaxULong
  BY <1>1, Widths, WidthsAssumption DEF N!MaxULong, N!MinLong, N!MaxIntegerValue
<1> DEFINE AsDouble == IF pc = "refused" THEN class = "Reader" /\ N!Overflows(N!Number)
                       ELSE decoded = [type |-> "real", n |-> N!Nearest(N!Number)]
<1>4. CASE literal.fraction
  <2>1. AsDouble
    BY <1>4 DEF ReadsLiteral
  <2> QED BY <1>4, <2>1 DEF N!NumbersAreExact
<1>5. CASE ~literal.fraction /\ at < len
  <2>1. at \in 0 .. len - 1 /\ N!TooBig /\ AsDouble
    BY <1>1, <1>5 DEF ReadsLiteral
  <2>2. m > N!MaxIntegerValue
    BY <1>1, <1>5, <2>1, TooBigIsPast
  <2>3. N!Number = IF literal.negative THEN -(2 * m + 0) ELSE 2 * m + 0
    BY <1>5 DEF N!Number
  <2>4. ~(N!Number >= 2 * N!MinLong /\ N!Number <= 2 * N!MaxULong)
    <3> HIDE DEF m
    <3> QED BY <1>2, <1>3, <2>2, <2>3
  <2> QED BY <2>1, <2>4 DEF N!NumbersAreExact
<1>6. CASE ~literal.fraction /\ at = len
  <2>1. N!Number = IF literal.negative THEN -(2 * value + 0) ELSE 2 * value + 0
    BY <1>1, <1>6 DEF N!Number
  <2>2. /\ value <= N!MaxIntegerValue /\ pc = "done"
        /\ decoded = IF literal.negative THEN [type |-> "int", n |-> -2 * value]
                                         ELSE [type |-> N!Positive, n |-> 2 * value]
    BY <1>6 DEF ReadsLiteral
  <2>3. decoded.n = N!Number /\ decoded.type \in {"int", "uint"}
    BY <1>1, <1>2, <2>1, <2>2 DEF N!Positive
  <2>4. N!Integral([n |-> N!Number])
    BY <1>2, <2>1 DEF N!Integral
  <2>5. N!Number >= 2 * N!MinLong /\ N!Number <= 2 * N!MaxULong
    BY <1>2, <1>3, <2>1, <2>2
  <2> QED BY <1>6, <2>2, <2>3, <2>4, <2>5 DEF N!NumbersAreExact
<1> QED
  BY <1>1, <1>4, <1>5, <1>6

(***************************************************************************)
(* A number of any length, at any widths of the integers that a double is  *)
(* exact for an Int of: both readers decode every integer that a           *)
(* LargestInt or a LargestUInt holds as itself and every other number as   *)
(* the nearest double; only Reader refuses a number, when it is beyond     *)
(* every double (OurReader makes it an infinity), and the arithmetic of    *)
(* neither wraps.                                                          *)
(***************************************************************************)
THEOREM ExactNumbers == ProgramSpec => []NumbersAreExact
<1>1. NumberInv => NumbersAreExact
  <2> SUFFICES ASSUME NumberInv, OfNumber PROVE N!TypeOK /\ N!NumbersAreExact
    BY DEF NumbersAreExact
  <2>1. CASE ReadsLiteral
    BY <2>1, ReadsScalar, ReadsExactly
  <2>2. CASE HasScalar
    <3>1. N!NumbersAreExact
      BY <2>2 DEF HasScalar, N!NumbersAreExact
    <3>2. decoded.n \in Int /\ decoded.type \in {"null", "bool", "int", "uint", "real", "string", "array"}
      BY <2>2, WidthsAssumption DEF HasScalar, Scalar, Numbers, N!Unset, N!MinLong, N!MaxULong
    <3>3. literal.negative \in BOOLEAN /\ literal.digits = <<>>
      BY <2>2 DEF HasScalar
    <3>4. 0 \in 0 .. N!MaxIntegerValue /\ 0 \in 0 .. Len(literal.digits)
      BY <3>3, Widths
    <3> QED BY <2>2, <3>1, <3>2, <3>4 DEF HasScalar, N!TypeOK
  <2> QED BY <2>1, <2>2 DEF NumberInv
<1> QED
  BY <1>1, NumberInvariance, PTL

-----------------------------------------------------------------------------
(* A real in the range of an integer type is not past the double next to   *)
(* its bound, and one that is integral and below it is in the type.        *)
LEMMA RealsFit ==
  ASSUME NEW v \in [type : {"real"}, n : Int]
  PROVE  /\ N!InRange(v, N!MinInt, MaxInt) <=> N!Between(v, N!MinInt, MaxInt)
         /\ N!InRange(v, 0, N!MaxUInt) <=> N!Between(v, 0, N!MaxUInt)
         /\ N!InRange(v, N!MinLong, MaxLong) => N!Between(v, N!MinLong, MaxLong + 1)
         /\ N!InRange(v, 0, N!MaxULong) => N!Between(v, 0, N!MaxULong + 1)
         /\ (v.n >= N!Rounded(2 * N!MinLong) /\ N!Below(v, MaxLong)) =>
              /\ N!InRange(v, N!MinLong, MaxLong)
              /\ N!Integral(v) => N!Between(v, N!MinLong, MaxLong)
         /\ (v.n >= 0 /\ N!Below(v, N!MaxULong)) =>
              /\ N!InRange(v, 0, N!MaxULong)
              /\ N!Integral(v) => N!Between(v, 0, N!MaxULong)
<1> USE WidthsAssumption
<1>0. v.n \in Int
  OBVIOUS
<1>1. /\ N!InRange(v, N!MinInt, MaxInt) <=> N!Between(v, N!MinInt, MaxInt)
      /\ N!InRange(v, 0, N!MaxUInt) <=> N!Between(v, 0, N!MaxUInt)
  BY NumberFloats, BoundsRounded DEF N!InRange, N!Between
<1>2. /\ N!InRange(v, N!MinLong, MaxLong) => N!Between(v, N!MinLong, MaxLong + 1)
      /\ N!InRange(v, 0, N!MaxULong) => N!Between(v, 0, N!MaxULong + 1)
  <2>1. MaxLong \in Int /\ N!MaxULong \in Int
    BY DEF N!MaxULong
  <2> QED BY <1>0, <2>1, NumberFloats, BoundsRounded DEF N!InRange, N!Between
<1>3. ASSUME v.n >= N!Rounded(2 * N!MinLong), N!Below(v, MaxLong)
      PROVE  /\ N!InRange(v, N!MinLong, MaxLong)
             /\ N!Integral(v) => N!Between(v, N!MinLong, MaxLong)
  <2> DEFINE top == Rounded(2 * MaxLong)
  <2>1. v.n >= 2 * N!MinLong /\ v.n < top /\ top \in Int /\ top <= 2 * (MaxLong + 1)
    BY <1>3, NumberFloats, BoundsRounded DEF N!Below
  <2>2. N!InRange(v, N!MinLong, MaxLong)
    BY <1>0, <1>3, <2>1, NumberFloats DEF N!InRange
  <2> HIDE DEF top
  <2>3. v.n % 2 = 0 => v.n <= 2 * MaxLong
    BY <1>0, <2>1
  <2> QED BY <2>1, <2>2, <2>3 DEF N!Integral, N!Between
<1>4. ASSUME v.n >= 0, N!Below(v, N!MaxULong)
      PROVE  /\ N!InRange(v, 0, N!MaxULong)
             /\ N!Integral(v) => N!Between(v, 0, N!MaxULong)
  <2> DEFINE top == Rounded(2 * N!MaxULong)
  <2>1. v.n < top /\ top \in Int /\ top <= 2 * (N!MaxULong + 1) /\ N!MaxULong \in Int
    BY <1>4, NumberFloats, BoundsRounded DEF N!Below, N!MaxULong
  <2>2. N!InRange(v, 0, N!MaxULong)
    BY <1>0, <1>4, <2>1, NumberFloats, BoundsRounded DEF N!InRange
  <2> HIDE DEF top
  <2>3. v.n % 2 = 0 => v.n <= 2 * N!MaxULong
    BY <1>0, <2>1
  <2> QED BY <1>4, <2>1, <2>2, <2>3 DEF N!Integral, N!Between
<1> QED BY <1>1, <1>2, <1>3, <1>4

(* What is below one of the greatest integers is in range of one of the    *)
(* types, as the two ranges overlap.                                       *)
LEMMA IntegralReals ==
  ASSUME NEW v \in [type : {"real"}, n : Int]
  PROVE  (v.n >= N!Rounded(2 * N!MinLong) /\ N!Below(v, N!MaxULong))
            <=> \/ v.n >= N!Rounded(2 * N!MinLong) /\ N!Below(v, MaxLong)
                \/ v.n >= 0 /\ N!Below(v, N!MaxULong)
<1> USE WidthsAssumption
<1>1. /\ v.n \in Int /\ N!Rounded(2 * N!MinLong) = 2 * N!MinLong
      /\ N!Rounded(2 * MaxLong) \in Nat /\ N!Rounded(2 * N!MaxULong) \in Nat
  <2>1. 2 * MaxLong \in Nat /\ 2 * N!MaxULong \in Nat
    BY DEF N!MaxULong
  <2> QED BY <2>1, NumberFloats, BoundsRounded, RoundedInt
<1>2. N!Rounded(2 * MaxLong) <= N!Rounded(2 * N!MaxULong)
  BY NumberFloats, BoundsRounded, LongsApart
<1>3. N!MinLong \in Int /\ N!MinLong <= 0
  BY DEF N!MinLong
<1> QED BY <1>1, <1>2, <1>3 DEF N!Below

(* Truncating to an integer stays between two, and keeps one.              *)
LEMMA Truncating ==
  ASSUME NEW v, v.n \in Int
  PROVE  /\ N!Truncated(v) \in Int
         /\ N!Integral(v) => 2 * N!Truncated(v) = v.n
         /\ \A i, j \in Int : i <= 0 /\ 0 <= j /\ N!Between(v, i, j) => N!Truncated(v) \in i .. j
         /\ \A j \in Nat : v.n <= 2 * (j + 1) => N!Truncated(v) <= j \/ v.n = 2 * (j + 1)
<1> DEFINE n == v.n
<1>1. n \in Int
  OBVIOUS
<1>2. N!Truncated(v) = IF n >= 0 THEN n \div 2 ELSE -((-n) \div 2)
  BY DEF N!Truncated
<1>3. PICK q \in Nat : (IF n >= 0 THEN n ELSE -n) \in {2 * q, 2 * q + 1}
                       /\ q = (IF n >= 0 THEN n ELSE -n) \div 2
  <2> HIDE DEF n
  <2>1. \A k \in Nat : k \div 2 \in Nat /\ k \in {2 * (k \div 2), 2 * (k \div 2) + 1}
    OBVIOUS
  <2>2. (IF n >= 0 THEN n ELSE -n) \in Nat
    BY <1>1
  <2> QED BY <2>1, <2>2
<1>4. N!Truncated(v) = IF n >= 0 THEN q ELSE -q
  BY <1>2, <1>3
<1>5. /\ n >= 0 => n \in {2 * q, 2 * q + 1}
      /\ n < 0  => n \in {-(2 * q), -(2 * q + 1)}
  <2> HIDE DEF n
  <2> QED BY <1>1, <1>3
<1>6. N!Integral(v) = (n % 2 = 0)
  BY DEF N!Integral
<1> HIDE DEF n
<1>7. n % 2 = 0 => 2 * (IF n >= 0 THEN q ELSE -q) = n
  BY <1>1, <1>5
<1>8. \A i, j \in Int : i <= 0 /\ 0 <= j /\ 2 * i <= n /\ n <= 2 * j
                           => (IF n >= 0 THEN q ELSE -q) \in i .. j
  BY <1>1, <1>5
<1>9. \A j \in Nat : n <= 2 * (j + 1) => (IF n >= 0 THEN q ELSE -q) <= j \/ n = 2 * (j + 1)
  BY <1>1, <1>5
<1>10. N!Truncated(v) \in Int
  BY <1>4
<1>11. \A i, j \in Int : N!Between(v, i, j) <=> 2 * i <= n /\ n <= 2 * j
  BY DEF N!Between, n
<1> QED
  BY <1>4, <1>6, <1>7, <1>8, <1>9, <1>10, <1>11 DEF n

(* What tests, foretelling and conversions say of a scalar.                *)
LEMMA ScalarsConvert ==
  ASSUME Scalar(decoded)
  PROVE  N!TestsJustifyConversions /\ N!ConvertibleMeansConverted /\ N!ConversionsFit
<1> USE WidthsAssumption
<1>1. /\ N!MinInt \in Int /\ N!MinInt <= 0 /\ N!MaxUInt \in Nat /\ MaxInt \in Nat
      /\ N!MinLong \in Int /\ N!MinLong <= 0 /\ N!MaxULong \in Nat /\ MaxLong \in Nat
  BY DEF N!MinInt, N!MaxUInt, N!MinLong, N!MaxULong
<1>2. CASE decoded \in [type : {"real"}, n : Int]
  <2> DEFINE v == decoded
  <2>1. /\ v.type = "real" /\ N!IsReal(v) /\ N!IsNumber(v) /\ v.n \in Int
    BY <1>2 DEF N!IsReal, N!IsNumber
  <2>0. N!IsIntegral(v) <=> N!IsInt64(v) \/ N!IsUInt64(v)
    <3>1. (v.n >= N!Rounded(2 * N!MinLong) /\ N!Below(v, N!MaxULong))
             <=> \/ v.n >= N!Rounded(2 * N!MinLong) /\ N!Below(v, MaxLong)
                 \/ v.n >= 0 /\ N!Below(v, N!MaxULong)
      BY <1>2, IntegralReals
    <3> HIDE DEF v
    <3> QED BY ONLY <2>1, <3>1 DEF N!IsIntegral, N!IsInt64, N!IsUInt64
  <2>2. N!TestsJustifyConversions
    BY <1>2, <2>0, <2>1, RealsFit, Truncating, BoundsRounded
       DEF N!TestsJustifyConversions, N!IsInt, N!IsUInt, N!IsInt64, N!IsUInt64,
           N!AsIntAccepts, N!AsUIntAccepts, N!AsInt64Accepts, N!AsUInt64Accepts
  <2>3. N!ConvertibleMeansConverted
    BY <2>1 DEF N!ConvertibleMeansConverted, N!IsConvertibleTo, N!AsIntAccepts, N!AsUIntAccepts,
                N!AsDoubleAccepts, N!AsBoolAccepts, N!AsStringAccepts, N!IsInt, N!IsUInt, N!Trivial
  <2>4. N!ConversionsFit
    <3>1. N!AsIntAccepts(v) => N!Truncated(v) \in N!MinInt .. MaxInt
      BY <1>1, <1>2, <2>1, RealsFit, Truncating DEF N!AsIntAccepts
    <3>2. N!AsUIntAccepts(v) => N!Truncated(v) \in 0 .. N!MaxUInt
      BY <1>1, <1>2, <2>1, RealsFit, Truncating DEF N!AsUIntAccepts
    <3>3. ASSUME NEW i \in Int, NEW j \in Nat, i <= 0, N!Between(v, i, j + 1)
          PROVE  N!Truncated(v) \in i .. j \/ v.n = 2 * (j + 1)
      <4>1. v.n <= 2 * (j + 1)
        BY <3>3 DEF N!Between
      <4>2. j + 1 \in Int /\ 0 <= j + 1 /\ N!Truncated(v) \in i .. j + 1
        BY <2>1, <3>3, Truncating
      <4>3. N!Truncated(v) <= j \/ v.n = 2 * (j + 1)
        BY <2>1, <4>1, Truncating
      <4>4. N!Truncated(v) \in Int
        BY <2>1, Truncating
      <4> QED BY <4>2, <4>3, <4>4
    <3>4. N!AsInt64Accepts(v) => N!Truncated(v) \in N!MinLong .. MaxLong \/ v.n = 2 * (MaxLong + 1)
      BY <1>1, <1>2, <2>1, <3>3, RealsFit DEF N!AsInt64Accepts
    <3>5. N!AsUInt64Accepts(v) => N!Truncated(v) \in 0 .. N!MaxULong \/ v.n = 2 * (N!MaxULong + 1)
      BY <1>1, <1>2, <2>1, <3>3, RealsFit DEF N!AsUInt64Accepts
    <3> QED BY <2>1, <3>1, <3>2, <3>4, <3>5 DEF N!ConversionsFit
  <2> QED BY <2>2, <2>3, <2>4
<1>3. CASE decoded \in [type : {"int"}, n : {2 * i : i \in N!MinLong .. MaxLong}]
  <2>1. PICK i \in N!MinLong .. MaxLong : decoded = [type |-> "int", n |-> 2 * i]
    BY <1>3
  <2>2. i \in Int /\ N!Truncated(decoded) = i /\ decoded.n = 2 * i /\ decoded.type = "int"
    <3>1. i \in Int
      BY <1>1
    <3>2. decoded.n = 2 * i /\ (2 * i) % 2 = 0
      BY <2>1, <3>1
    <3>3. 2 * N!Truncated(decoded) = 2 * i /\ N!Truncated(decoded) \in Int
      BY <3>1, <3>2, Truncating DEF N!Integral
    <3> QED BY <2>1, <3>1, <3>3
  <2>3. N!IsNumber(decoded) /\ ~N!IsReal(decoded)
    BY <2>1 DEF N!IsNumber, N!IsReal
  <2>4. /\ N!IsInt(decoded) <=> i \in N!MinInt .. MaxInt
        /\ N!IsUInt(decoded) <=> i \in 0 .. N!MaxUInt
        /\ N!IsInt64(decoded) /\ N!Between(decoded, N!MinLong, MaxLong)
        /\ N!IsUInt64(decoded) <=> i >= 0
    BY <1>1, <2>2, <2>3 DEF N!IsInt, N!IsUInt, N!IsInt64, N!IsUInt64, N!Between
  <2>5. N!TestsJustifyConversions
    <3>1. i <= N!MaxULong
      BY <1>1, <2>1 DEF N!MaxULong
    <3> QED
      BY <1>1, <2>2, <2>3, <2>4, <3>1
         DEF N!TestsJustifyConversions, N!AsIntAccepts, N!AsUIntAccepts, N!AsInt64Accepts,
             N!AsUInt64Accepts, N!IsIntegral, N!Between
  <2>6. N!ConvertibleMeansConverted
    BY <2>2, <2>3 DEF N!ConvertibleMeansConverted, N!IsConvertibleTo, N!AsIntAccepts,
             N!AsUIntAccepts, N!AsDoubleAccepts, N!AsBoolAccepts, N!AsStringAccepts, N!Trivial
  <2>7. N!ConversionsFit
    <3>1. i \in N!MinLong .. MaxLong /\ (i >= 0 => i \in 0 .. N!MaxULong)
      BY <1>1, <2>1 DEF N!MaxULong
    <3> QED
      BY <2>2, <2>3, <2>4, <3>1 DEF N!ConversionsFit, N!AsIntAccepts, N!AsUIntAccepts,
         N!AsInt64Accepts, N!AsUInt64Accepts, N!Trivial
  <2> QED BY <2>5, <2>6, <2>7
<1>4. CASE decoded \in [type : {"uint"}, n : {2 * i : i \in 0 .. N!MaxULong}]
  <2>1. PICK i \in 0 .. N!MaxULong : decoded = [type |-> "uint", n |-> 2 * i]
    BY <1>4
  <2>2. i \in Int /\ N!Truncated(decoded) = i /\ decoded.n = 2 * i /\ decoded.type = "uint"
    <3>1. i \in Int
      BY <1>1
    <3>2. decoded.n = 2 * i /\ (2 * i) % 2 = 0
      BY <2>1, <3>1
    <3>3. 2 * N!Truncated(decoded) = 2 * i /\ N!Truncated(decoded) \in Int
      BY <3>1, <3>2, Truncating DEF N!Integral
    <3> QED BY <2>1, <3>1, <3>3
  <2>3. N!IsNumber(decoded) /\ ~N!IsReal(decoded)
    BY <2>1 DEF N!IsNumber, N!IsReal
  <2>4. N!TestsJustifyConversions
    BY <1>1, <2>2, <2>3
       DEF N!TestsJustifyConversions, N!IsInt, N!IsUInt, N!IsInt64, N!IsUInt64, N!IsIntegral,
           N!AsIntAccepts, N!AsUIntAccepts, N!AsInt64Accepts, N!AsUInt64Accepts, N!Between
  <2>5. N!ConvertibleMeansConverted
    BY <2>2, <2>3 DEF N!ConvertibleMeansConverted, N!IsConvertibleTo, N!AsIntAccepts,
             N!AsUIntAccepts, N!AsDoubleAccepts, N!AsBoolAccepts, N!AsStringAccepts, N!Trivial
  <2>6. N!ConversionsFit
    BY <1>1, <2>2, <2>3 DEF N!ConversionsFit, N!AsIntAccepts, N!AsUIntAccepts, N!AsInt64Accepts,
             N!AsUInt64Accepts, N!IsInt, N!IsUInt, N!IsInt64, N!IsUInt64, N!Between, N!Trivial
  <2> QED BY <2>4, <2>5, <2>6
<1>5. CASE decoded \in [type : {"bool", "string", "array"}, n : Int] \/ decoded = N!Unset
  <2>1. /\ decoded.type \in {"bool", "string", "array", "null"} /\ decoded.n \in Int
        /\ decoded.type = "null" => decoded = N!Unset
    BY <1>5 DEF N!Unset
  <2>2. ~N!IsNumber(decoded) /\ ~N!IsReal(decoded)
    BY <2>1 DEF N!IsNumber, N!IsReal
  <2>3. ~N!IsInt(decoded) /\ ~N!IsUInt(decoded) /\ ~N!IsInt64(decoded) /\ ~N!IsUInt64(decoded)
    BY <2>1, <2>2 DEF N!IsInt, N!IsUInt, N!IsInt64, N!IsUInt64
  <2>4. N!TestsJustifyConversions
    BY <2>1, <2>2, <2>3 DEF N!TestsJustifyConversions, N!IsIntegral
  <2>5. N!ConvertibleMeansConverted
    BY <2>1, <2>2, <2>3 DEF N!ConvertibleMeansConverted, N!IsConvertibleTo, N!AsIntAccepts,
             N!AsUIntAccepts, N!AsDoubleAccepts, N!AsBoolAccepts, N!AsStringAccepts, N!Trivial
  <2>6. N!ConversionsFit
    <3>1. CASE decoded = N!Unset
      <4>1. N!Truncated(decoded) = 0
        BY <3>1 DEF N!Unset, N!Truncated
      <4>2. 0 \in N!MinInt .. MaxInt /\ 0 \in 0 .. N!MaxUInt /\ 0 \in N!MinLong .. MaxLong
            /\ 0 \in 0 .. N!MaxULong
        BY <1>1
      <4> QED BY <4>1, <4>2 DEF N!ConversionsFit
    <3>2. CASE decoded.type \in {"string", "array"}
      BY <2>2, <2>3, <3>2 DEF N!ConversionsFit, N!AsIntAccepts, N!AsUIntAccepts,
               N!AsInt64Accepts, N!AsUInt64Accepts, N!Trivial
    <3>3. CASE decoded.type = "bool"
      BY <3>3 DEF N!ConversionsFit
    <3> QED BY <2>1, <3>1, <3>2, <3>3
  <2> QED BY <2>4, <2>5, <2>6
<1> QED
  BY <1>2, <1>3, <1>4, <1>5 DEF Scalar, Numbers

(***************************************************************************)
(* Whatever number a Value holds, read or made, at any widths: a test that *)
(* holds justifies its conversion, isConvertibleTo foretells whether one   *)
(* throws, and what is converted, its type holds.                          *)
(***************************************************************************)
THEOREM JustifiedConversions == ProgramSpec => []ConversionsAreJustified
<1>1. NumberInv => ConversionsAreJustified
  BY ReadsScalar, ScalarsConvert DEF NumberInv, HasScalar, ConversionsAreJustified
<1> QED
  BY <1>1, NumberInvariance, PTL
-----------------------------------------------------------------------------
(* Paths, compared key by key.                                             *)
Path == Seq(Keys)
Starts(p, q) == Len(p) <= Len(q) /\ \A i \in 1 .. Len(p) : q[i] = p[i]
After(q, n)  == SubSeq(q, n + 1, Len(q))

(* Paths of one length, one above the other, are the same.                 *)
LEMMA SamePath == \A p, q \in Path : (Len(p) = Len(q) /\ Starts(p, q)) => p = q
BY DEF Path, Starts

(* What SequencesExt calls a prefix.                                       *)
LEMMA PrefixStarts == \A p, q \in Path : IsPrefix(p, q) <=> Starts(p, q)
<1> TAKE p \in Path, q \in Path
<1>1. Len(p) \in Nat /\ Len(q) \in Nat
  BY DEF Path
<1>2. CASE Len(p) <= Len(q)
  <2>1. /\ SubSeq(p, 1, Len(p)) \in Path /\ Len(SubSeq(p, 1, Len(p))) = Len(p)
        /\ \A i \in 1 .. Len(p) : SubSeq(p, 1, Len(p))[i] = p[i]
    BY <1>1, <1>2 DEF Path
  <2>2. /\ SubSeq(q, 1, Len(p)) \in Path /\ Len(SubSeq(q, 1, Len(p))) = Len(p)
        /\ \A i \in 1 .. Len(p) : SubSeq(q, 1, Len(p))[i] = q[i]
    BY <1>1, <1>2 DEF Path
  <2> DEFINE a == SubSeq(p, 1, Len(p))  b == SubSeq(q, 1, Len(p))
  <2>3. a = b <=> \A i \in 1 .. Len(p) : a[i] = b[i]
    <3> HIDE DEF a, b
    <3>1. a \in Path /\ b \in Path /\ Len(a) = Len(p) /\ Len(b) = Len(p)
      BY <2>1, <2>2 DEF a, b
    <3> QED BY <1>1, <3>1 DEF Path
  <2> QED BY <1>1, <1>2, <2>1, <2>2, <2>3 DEF IsPrefix, Starts
<1>3. CASE ~(Len(p) <= Len(q))
  BY <1>3 DEF IsPrefix, Starts
<1> QED BY <1>1, <1>2, <1>3

(* A path below another, key by key.                                       *)
LEMMA Joined ==
  ASSUME NEW p \in Path, NEW w \in Path
  PROVE  /\ p \o w \in Path /\ Len(p \o w) = Len(p) + Len(w) /\ Len(p) \in Nat /\ Len(w) \in Nat
         /\ \A i \in 1 .. Len(p) : (p \o w)[i] = p[i]
         /\ \A i \in 1 .. Len(w) : (p \o w)[Len(p) + i] = w[i]
         /\ Starts(p, p \o w)
BY DEF Path, Starts

(* The empty path is above all.                                            *)
LEMMA Root == <<>> \in Path /\ Len(<<>>) = 0 /\ \A p \in Path : Starts(<<>>, p) /\ p \o <<>> = p
BY DEF Path, Starts

(* A path is one above it and the rest.                                    *)
LEMMA JoinedAfter ==
  ASSUME NEW p \in Path, NEW q \in Path, Starts(p, q)
  PROVE  After(q, Len(p)) \in Path /\ q = p \o After(q, Len(p))
<1> DEFINE w == After(q, Len(p))
<1>1. /\ w \in Path /\ Len(w) = Len(q) - Len(p) /\ Len(p) \in Nat /\ Len(q) \in Nat
      /\ Len(p) <= Len(q) /\ \A i \in 1 .. Len(w) : w[i] = q[Len(p) + i]
  BY DEF Path, Starts, After
<1> HIDE DEF w
<1>2. Len(p \o w) = Len(q) /\ p \o w \in Path
  BY <1>1, Joined
<1>3. ASSUME NEW i \in 1 .. Len(q) PROVE (p \o w)[i] = q[i]
  <2>1. CASE i <= Len(p)
    BY <1>1, <2>1, Joined DEF Starts
  <2>2. CASE ~(i <= Len(p))
    <3> DEFINE k == i - Len(p)
    <3>1. k \in 1 .. Len(w) /\ i = Len(p) + k
      BY <1>1, <2>2
    <3>2. (p \o w)[Len(p) + k] = w[k] /\ w[k] = q[Len(p) + k]
      BY <1>1, <3>1, Joined
    <3> HIDE DEF k
    <3> QED BY <3>1, <3>2
  <2> QED BY <2>1, <2>2
<1>4. Starts(p \o w, q)
  BY <1>1, <1>2, <1>3 DEF Starts
<1> QED BY <1>1, <1>2, <1>4, SamePath DEF w

(* The rest of a path below another.                                       *)
LEMMA AfterJoined ==
  ASSUME NEW p \in Path, NEW w \in Path
  PROVE  After(p \o w, Len(p)) = w
<1> DEFINE v == After(p \o w, Len(p))
<1>1. /\ v \in Path /\ Len(v) = Len(w)
      /\ \A i \in 1 .. Len(v) : v[i] = (p \o w)[Len(p) + i]
  BY Joined DEF Path, After
<1> HIDE DEF v
<1>2. Starts(v, w) /\ Len(v) = Len(w)
  BY <1>1, Joined DEF Starts
<1> QED BY <1>1, <1>2, SamePath DEF v

(* Paths below one are the same if their rests are.                        *)
LEMMA Cancelled ==
  ASSUME NEW p \in Path, NEW w \in Path, NEW v \in Path, p \o w = p \o v
  PROVE  w = v
BY AfterJoined

(* What is above a path is above what is below it; of two above a path,    *)
(* one is above the other.                                                 *)
LEMMA StartsOrder ==
  /\ \A p \in Path : Starts(p, p)
  /\ \A p, q, r \in Path : Starts(p, q) /\ Starts(q, r) => Starts(p, r)
  /\ \A p, q, r \in Path : Starts(p, r) /\ Starts(q, r) /\ Len(p) <= Len(q) => Starts(p, q)
<1>1. \A p \in Path : Starts(p, p)
  BY DEF Path, Starts
<1>2. \A p, q, r \in Path : Starts(p, q) /\ Starts(q, r) => Starts(p, r)
  BY DEF Path, Starts
<1>3. \A p, q, r \in Path : Starts(p, r) /\ Starts(q, r) /\ Len(p) <= Len(q) => Starts(p, q)
  BY DEF Path, Starts
<1> QED BY <1>1, <1>2, <1>3

(* Below one path, the rests are above each other as the paths are.        *)
LEMMA JoinedStarts ==
  ASSUME NEW p \in Path, NEW v \in Path, NEW w \in Path
  PROVE  Starts(p \o v, p \o w) <=> Starts(v, w)
<1>0. /\ Len(p) \in Nat /\ Len(v) \in Nat /\ Len(w) \in Nat
      /\ Len(p \o v) = Len(p) + Len(v) /\ Len(p \o w) = Len(p) + Len(w)
  BY Joined
<1>1. ASSUME Starts(v, w) PROVE Starts(p \o v, p \o w)
  <2>1. Len(p \o v) <= Len(p \o w)
    BY <1>1, Joined DEF Starts
  <2>2. ASSUME NEW i \in 1 .. Len(p \o v) PROVE (p \o w)[i] = (p \o v)[i]
    <3>1. CASE i <= Len(p)
      BY <3>1, Joined
    <3>2. CASE ~(i <= Len(p))
      <4> DEFINE k == i - Len(p)
      <4>1. k \in 1 .. Len(v) /\ i = Len(p) + k /\ k \in 1 .. Len(w) /\ w[k] = v[k]
        BY <1>0, <1>1, <3>2 DEF Starts
      <4>2. (p \o v)[Len(p) + k] = v[k] /\ (p \o w)[Len(p) + k] = w[k]
        BY <4>1, Joined
      <4> HIDE DEF k
      <4> QED BY <4>1, <4>2
    <3> QED BY <3>1, <3>2
  <2> QED BY <2>1, <2>2 DEF Starts
<1>2. ASSUME Starts(p \o v, p \o w) PROVE Starts(v, w)
  <2>1. Len(v) <= Len(w)
    BY <1>2, Joined DEF Starts
  <2>2. ASSUME NEW i \in 1 .. Len(v) PROVE w[i] = v[i]
    <3>1. Len(p) + i \in 1 .. Len(p \o v) /\ i \in 1 .. Len(w)
      BY <1>0, <2>1
    <3>2. (p \o w)[Len(p) + i] = (p \o v)[Len(p) + i]
      BY <1>2, <3>1 DEF Starts
    <3> QED BY <3>1, <3>2, Joined
  <2> QED BY <2>1, <2>2 DEF Starts
<1> QED BY <1>1, <1>2

-----------------------------------------------------------------------------
(* A tree, said of whole prefixes; which buffers it holds, and that none   *)
(* of them twice.                                                          *)
Tree(t) ==
  /\ t \in [DOMAIN t -> Nodes] /\ <<>> \in DOMAIN t /\ t[<<>>].key = 0
  /\ DOMAIN t \subseteq Path
  /\ \A p \in DOMAIN t : t[p].type # "string" => t[p].text = 0
  /\ \A p \in DOMAIN t, q \in Path : Starts(q, p) /\ Len(q) < Len(p) =>
       q \in DOMAIN t /\ t[q].type = Holder(p[Len(q) + 1])
  /\ \A p \in DOMAIN t : p # <<>> => (p[Len(p)][1] = "index" => t[p].key = 0)
Once(t) == \A p, q \in DOMAIN t, f, g \in Fields :
             t[p][f] # 0 /\ t[p][f] = t[q][g] => p = q /\ f = g

(* What a path begins with.                                                *)
LEMMA Cut ==
  ASSUME NEW p \in Path, NEW n \in 1 .. Len(p)
  PROVE  /\ SubSeq(p, 1, n - 1) \in Path /\ Len(SubSeq(p, 1, n - 1)) = n - 1
         /\ Starts(SubSeq(p, 1, n - 1), p)
BY DEF Path, Starts

(* A tree is what the type invariant calls one.                            *)
LEMMA TreeIs == \A t : IsTree(t) <=> Tree(t)
<1> SUFFICES ASSUME NEW t, DOMAIN t \subseteq Path
             PROVE  (\A p \in DOMAIN t : \A n \in 1 .. Len(p) :
                       /\ SubSeq(p, 1, n - 1) \in DOMAIN t
                       /\ t[SubSeq(p, 1, n - 1)].type = Holder(p[n]))
                    <=> (\A p \in DOMAIN t, q \in Path : Starts(q, p) /\ Len(q) < Len(p) =>
                           q \in DOMAIN t /\ t[q].type = Holder(p[Len(q) + 1]))
  BY DEF IsTree, Tree, Path
<1>1. ASSUME \A p \in DOMAIN t : \A n \in 1 .. Len(p) :
               /\ SubSeq(p, 1, n - 1) \in DOMAIN t
               /\ t[SubSeq(p, 1, n - 1)].type = Holder(p[n]),
             NEW p \in DOMAIN t, NEW q \in Path, Starts(q, p), Len(q) < Len(p)
      PROVE  q \in DOMAIN t /\ t[q].type = Holder(p[Len(q) + 1])
  <2> DEFINE n == Len(q) + 1  c == SubSeq(p, 1, n - 1)
  <2>1. n \in 1 .. Len(p) /\ n - 1 = Len(q) /\ p \in Path
    BY <1>1 DEF Path
  <2>2. c \in Path /\ Len(c) = Len(q) /\ Starts(c, p)
    BY <2>1, Cut
  <2>3. Starts(c, q)
    <3>1. Len(q) \in Nat /\ Len(c) <= Len(q)
      BY <2>2 DEF Path
    <3> HIDE DEF c
    <3> QED BY <1>1, <2>1, <2>2, <3>1, StartsOrder
  <2>4. c = q
    BY <2>2, <2>3, SamePath
  <2> QED BY <1>1, <2>1, <2>4
<1>2. ASSUME \A p \in DOMAIN t, q \in Path : Starts(q, p) /\ Len(q) < Len(p) =>
               q \in DOMAIN t /\ t[q].type = Holder(p[Len(q) + 1]),
             NEW p \in DOMAIN t, NEW n \in 1 .. Len(p)
      PROVE  /\ SubSeq(p, 1, n - 1) \in DOMAIN t
             /\ t[SubSeq(p, 1, n - 1)].type = Holder(p[n])
  <2> DEFINE c == SubSeq(p, 1, n - 1)
  <2>1. p \in Path /\ Len(p) \in Nat
    BY DEF Path
  <2>2. c \in Path /\ Len(c) = n - 1 /\ Starts(c, p) /\ Len(c) < Len(p) /\ Len(c) + 1 = n
    BY <2>1, Cut
  <2> HIDE DEF c
  <2>3. c \in DOMAIN t /\ t[c].type = Holder(p[n])
    BY <1>2, <2>2
  <2> QED BY <2>3 DEF c
<1> QED BY <1>1, <1>2

(* What is held is what some field of a node is, other than 0.             *)
LEMMA HeldIs ==
  \A t, b : b \in Held(t) <=> b # 0 /\ \E p \in DOMAIN t, f \in Fields : t[p][f] = b
<1> SUFFICES ASSUME NEW t, NEW b
             PROVE  b \in Held(t) <=> b # 0 /\ \E p \in DOMAIN t, f \in Fields : t[p][f] = b
  OBVIOUS
<1>1. ASSUME b \in Held(t) PROVE b # 0 /\ \E p \in DOMAIN t, f \in Fields : t[p][f] = b
  <2>1. PICK s \in (DOMAIN t) \X Fields : t[s[1]][s[2]] # 0 /\ b = t[s[1]][s[2]]
    BY <1>1 DEF Held, Slots
  <2> QED BY <2>1
<1>2. ASSUME b # 0, NEW p \in DOMAIN t, NEW f \in Fields, t[p][f] = b PROVE b \in Held(t)
  <2>1. <<p, f>> \in Slots(t)
    BY <1>2 DEF Slots
  <2> QED BY <1>2, <2>1 DEF Held
<1> QED BY <1>1, <1>2

(* The nodes under a path.                                                 *)
LEMMA UnderIs ==
  ASSUME NEW t, DOMAIN t \subseteq Path, NEW p \in Path
  PROVE  \A q : q \in Under(t, p) <=> q \in DOMAIN t /\ Starts(p, q)
BY PrefixStarts DEF Under

(* What buffers a node may hold, and what becomes of its fields.           *)
LEMMA NodeFields ==
  ASSUME NEW r \in Nodes
  PROVE  /\ \A f \in Fields : r[f] \in Buffers \cup {0}
         /\ r.type \in Types /\ r.text = r["text"] /\ r.key = r["key"] /\ r.comment = r["comment"]
         /\ DOMAIN r = {"type"} \cup Fields
BY DEF Nodes, Fields, Types

(* A node with another name.                                               *)
LEMMA KeySet ==
  ASSUME NEW r \in Nodes, NEW x \in Buffers \cup {0}
  PROVE  LET s == [r EXCEPT !.key = x]
         IN  /\ s \in Nodes /\ s.type = r.type /\ s.text = r.text /\ s.key = x
             /\ \A f \in Fields : s[f] = IF f = "key" THEN x ELSE r[f]
BY DEF Nodes, Fields, Types

(* A node with another comment.                                            *)
LEMMA CommentSet ==
  ASSUME NEW r \in Nodes, NEW x \in Buffers \cup {0}
  PROVE  LET s == [r EXCEPT !.comment = x]
         IN  /\ s \in Nodes /\ s.type = r.type /\ s.text = r.text /\ s.key = r.key
             /\ \A f \in Fields : s[f] = IF f = "comment" THEN x ELSE r[f]
BY DEF Nodes, Fields, Types

-----------------------------------------------------------------------------
(* Graft: where a node of the new tree comes from.                         *)
Grafted(g, t, p, u) ==
  /\ p \in Path /\ <<>> \in DOMAIN u
  /\ DOMAIN g \subseteq Path
  /\ \A q \in Path : q \in DOMAIN g <=>
       (q \in DOMAIN t /\ ~Starts(p, q)) \/ (\E w \in DOMAIN u : q = p \o w)
  /\ \A q \in DOMAIN t : ~Starts(p, q) => g[q] = t[q]
  /\ g[p] = [u[<<>>] EXCEPT !.key = t[p].key]
  /\ \A w \in DOMAIN u : w # <<>> => p \o w # p /\ g[p \o w] = u[w]

(* Graft puts every node of the new tree below the path.                   *)
LEMMA GraftIs ==
  ASSUME NEW t, NEW u, Tree(t), Tree(u), NEW p \in DOMAIN t
  PROVE  Grafted(Graft(t, p, u), t, p, u)
<1> DEFINE D == (DOMAIN t \ Under(t, p)) \cup {p \o w : w \in DOMAIN u}
<1>1. p \in Path /\ DOMAIN t \subseteq Path /\ DOMAIN u \subseteq Path /\ <<>> \in DOMAIN u
  BY DEF Tree
<1>2. DOMAIN Graft(t, p, u) = D
  BY DEF Graft
<1>3. \A w \in DOMAIN u : p \o w \in Path /\ Starts(p, p \o w)
  BY <1>1, Joined
<1>4. D \subseteq Path
  BY <1>1, <1>3
<1>5. \A q \in Path : q \in D <=>
        (q \in DOMAIN t /\ ~Starts(p, q)) \/ (\E w \in DOMAIN u : q = p \o w)
  BY <1>1, UnderIs
<1>6. \A q \in D : Graft(t, p, u)[q] =
        IF q = p THEN [u[<<>>] EXCEPT !.key = t[p].key]
        ELSE IF IsPrefix(p, q) THEN u[After(q, Len(p))] ELSE t[q]
  BY DEF Graft, After
<1>7. ASSUME NEW q \in DOMAIN t, ~Starts(p, q) PROVE Graft(t, p, u)[q] = t[q]
  <2>1. q \in D /\ q # p /\ ~IsPrefix(p, q)
    BY <1>1, <1>5, <1>7, PrefixStarts, StartsOrder
  <2> HIDE DEF D
  <2> QED BY <1>6, <2>1
<1>8. Graft(t, p, u)[p] = [u[<<>>] EXCEPT !.key = t[p].key]
  <2>1. p \in D
    BY <1>1, Root
  <2> HIDE DEF D
  <2> QED BY <1>6, <2>1
<1>9. ASSUME NEW w \in DOMAIN u, w # <<>> PROVE p \o w # p /\ Graft(t, p, u)[p \o w] = u[w]
  <2>1. p \o w \in D /\ w \in Path
    BY <1>1
  <2>2. p \o w # p
    <3>1. p = p \o <<>>
      BY <1>1, Root
    <3> QED BY <1>1, <1>9, <2>1, <3>1, Cancelled, Root
  <2>3. IsPrefix(p, p \o w) /\ After(p \o w, Len(p)) = w
    BY <1>1, <1>3, <2>1, PrefixStarts, AfterJoined
  <2> HIDE DEF D
  <2> QED BY <1>6, <2>1, <2>2, <2>3
<1> QED BY <1>1, <1>2, <1>4, <1>5, <1>7, <1>8, <1>9 DEF Grafted

(* The same, field by field.                                               *)
LEMMA GraftNodes ==
  ASSUME NEW t, NEW u, Tree(t), Tree(u), NEW p \in DOMAIN t
  PROVE  /\ \A q \in DOMAIN Graft(t, p, u) : Graft(t, p, u)[q] \in Nodes
         /\ \A w \in DOMAIN u :
              /\ p \o w \in DOMAIN Graft(t, p, u)
              /\ Graft(t, p, u)[p \o w].type = u[w].type
              /\ Graft(t, p, u)[p \o w].text = u[w].text
              /\ Graft(t, p, u)[p \o w].key = IF w = <<>> THEN t[p].key ELSE u[w].key
              /\ \A f \in Fields : Graft(t, p, u)[p \o w][f] =
                   IF w = <<>> /\ f = "key" THEN t[p].key ELSE u[w][f]
<1> DEFINE g == Graft(t, p, u)
<1>1. /\ t[p] \in Nodes /\ \A q \in DOMAIN t : t[q] \in Nodes
      /\ \A w \in DOMAIN u : u[w] \in Nodes /\ w \in Path
      /\ t[p].key \in Buffers \cup {0}
  BY NodeFields DEF Tree, Nodes
<1>0. Grafted(g, t, p, u)
  BY GraftIs
<1> HIDE DEF g
<1>2. /\ p \in Path /\ DOMAIN g \subseteq Path /\ <<>> \in DOMAIN u
      /\ \A q \in Path : q \in DOMAIN g <=>
           (q \in DOMAIN t /\ ~Starts(p, q)) \/ (\E w \in DOMAIN u : q = p \o w)
      /\ \A q \in DOMAIN t : ~Starts(p, q) => g[q] = t[q]
      /\ g[p] = [u[<<>>] EXCEPT !.key = t[p].key]
      /\ \A w \in DOMAIN u : w # <<>> => p \o w # p /\ g[p \o w] = u[w]
  BY <1>0 DEF Grafted
<1>3. \A w \in DOMAIN u : p \o w \in Path /\ p \o w \in DOMAIN g
  BY <1>1, <1>2, Joined
<1>4. p \o <<>> = p /\ g[p] \in Nodes
  <2>1. u[<<>>] \in Nodes
    BY <1>1, <1>2
  <2>2. g[p] \in Nodes
    <3>1. [u[<<>>] EXCEPT !.key = t[p].key] \in Nodes
      BY <1>1, <2>1, KeySet
    <3> QED BY <1>2, <3>1
  <2> QED BY <1>2, <2>2, Root
<1>5. \A w \in DOMAIN u : g[p \o w] \in Nodes
  BY <1>1, <1>2, <1>4
<1>6. \A q \in DOMAIN g : g[q] \in Nodes
  BY <1>1, <1>2, <1>5
<1>7. ASSUME NEW w \in DOMAIN u
      PROVE  /\ g[p \o w].type = u[w].type /\ g[p \o w].text = u[w].text
             /\ g[p \o w].key = IF w = <<>> THEN t[p].key ELSE u[w].key
             /\ \A f \in Fields : g[p \o w][f] =
                  IF w = <<>> /\ f = "key" THEN t[p].key ELSE u[w][f]
  <2>1. CASE w = <<>>
    <3>1. u[<<>>] \in Nodes
      BY <1>1, <1>2
    <3>2. g[p \o w] = [u[<<>>] EXCEPT !.key = t[p].key]
      BY <1>2, <1>4, <2>1
    <3> QED BY <1>1, <2>1, <3>1, <3>2, KeySet
  <2>2. CASE w # <<>>
    BY <1>2, <2>2
  <2> QED BY <2>1, <2>2
<1> QED BY <1>3, <1>6, <1>7 DEF g

(* A tree grafted on a tree makes a tree.                                  *)
LEMMA GraftTree ==
  ASSUME NEW t, NEW u, Tree(t), Tree(u), NEW p \in DOMAIN t
  PROVE  Tree(Graft(t, p, u))
<1> DEFINE g == Graft(t, p, u)
<1>0. Grafted(g, t, p, u)
  BY GraftIs
<1>1. /\ p \in Path /\ DOMAIN g \subseteq Path /\ <<>> \in DOMAIN u
      /\ \A q \in Path : q \in DOMAIN g <=>
           (q \in DOMAIN t /\ ~Starts(p, q)) \/ (\E w \in DOMAIN u : q = p \o w)
      /\ \A q \in DOMAIN t : ~Starts(p, q) => g[q] = t[q]
  <2> HIDE DEF g
  <2> QED BY <1>0 DEF Grafted
<1>2. /\ \A q \in DOMAIN g : g[q] \in Nodes
      /\ \A w \in DOMAIN u :
           /\ p \o w \in DOMAIN g
           /\ g[p \o w].type = u[w].type /\ g[p \o w].text = u[w].text
           /\ g[p \o w].key = IF w = <<>> THEN t[p].key ELSE u[w].key
  BY GraftNodes
<1>3. /\ DOMAIN t \subseteq Path /\ DOMAIN u \subseteq Path
      /\ Len(p) \in Nat /\ \A w \in Path : Len(w) \in Nat
  BY DEF Tree, Path
<1>4. g \in [DOMAIN g -> Nodes]
  <2>1. g = [q \in DOMAIN g |-> g[q]]
    BY DEF Graft
  <2> HIDE DEF g
  <2> QED BY <1>2, <2>1
<1> HIDE DEF g
<1>5. <<>> \in DOMAIN g /\ g[<<>>].key = 0
  <2>1. CASE p = <<>>
    <3>1. p \o <<>> = <<>>
      BY <2>1, Root
    <3> QED BY <1>1, <1>2, <2>1, <3>1 DEF Tree
  <2>2. CASE p # <<>>
    <3>1. <<>> \in DOMAIN t /\ ~Starts(p, <<>>)
      <4>1. ASSUME Starts(p, <<>>) PROVE FALSE
        <5>1. Len(p) = Len(<<>>)
          BY <1>3, <4>1, Root DEF Starts
        <5> QED BY <1>1, <2>2, <4>1, <5>1, SamePath, Root
      <4> QED BY <4>1 DEF Tree
    <3> QED BY <1>1, <3>1, Root DEF Tree
  <2> QED BY <2>1, <2>2
<1>6. ASSUME NEW q \in DOMAIN g PROVE g[q].type # "string" => g[q].text = 0
  <2>1. CASE q \in DOMAIN t /\ ~Starts(p, q)
    BY <1>1, <2>1 DEF Tree
  <2>2. CASE \E w \in DOMAIN u : q = p \o w
    BY <1>2, <2>2 DEF Tree
  <2> QED BY <1>1, <2>1, <2>2
<1>7. ASSUME NEW q \in DOMAIN g, NEW r \in Path, Starts(r, q), Len(r) < Len(q)
      PROVE  r \in DOMAIN g /\ g[r].type = Holder(q[Len(r) + 1])
  <2>1. CASE q \in DOMAIN t /\ ~Starts(p, q)
    <3>1. ~Starts(p, r)
      BY <1>1, <1>7, <2>1, StartsOrder
    <3>2. r \in DOMAIN t /\ t[r].type = Holder(q[Len(r) + 1])
      BY <1>7, <2>1 DEF Tree
    <3> QED BY <1>1, <1>7, <3>1, <3>2
  <2>2. ASSUME NEW w \in DOMAIN u, q = p \o w PROVE r \in DOMAIN g /\ g[r].type = Holder(q[Len(r) + 1])
    <3>1. /\ w \in Path /\ Len(q) = Len(p) + Len(w) /\ Starts(p, q)
          /\ \A i \in 1 .. Len(p) : q[i] = p[i]
          /\ \A i \in 1 .. Len(w) : q[Len(p) + i] = w[i]
      BY <1>1, <1>3, <2>2, Joined
    <3>2. CASE Len(r) < Len(p)
      <4>1. Starts(r, p)
        BY <1>1, <1>3, <1>7, <3>1, <3>2, StartsOrder
      <4>2. ~Starts(p, r)
        BY <1>3, <3>2 DEF Starts
      <4>3. r \in DOMAIN t /\ t[r].type = Holder(p[Len(r) + 1])
        BY <1>7, <3>2, <4>1 DEF Tree
      <4>4. Len(r) + 1 \in 1 .. Len(p)
        BY <1>3, <1>7, <3>2
      <4>5. r \in DOMAIN g /\ g[r] = t[r]
        BY <1>1, <1>7, <4>2, <4>3
      <4> QED BY <3>1, <4>3, <4>4, <4>5
    <3>3. CASE ~(Len(r) < Len(p))
      <4>1. Starts(p, r)
        BY <1>1, <1>3, <1>7, <3>1, <3>3, StartsOrder
      <4>2. PICK v \in Path : r = p \o v
        BY <1>1, <1>7, <4>1, JoinedAfter
      <4>3. Starts(v, w) /\ Len(r) = Len(p) + Len(v) /\ Len(v) < Len(w)
        BY <1>1, <1>3, <1>7, <2>2, <3>1, <4>2, JoinedStarts, Joined
      <4>4. v \in DOMAIN u /\ u[v].type = Holder(w[Len(v) + 1])
        BY <3>1, <4>2, <4>3 DEF Tree
      <4>5. q[Len(r) + 1] = w[Len(v) + 1]
        <5> DEFINE k == Len(v) + 1
        <5>1. k \in 1 .. Len(w) /\ Len(r) + 1 = Len(p) + k
          BY <1>3, <3>1, <4>2, <4>3
        <5> HIDE DEF k
        <5>2. q[Len(r) + 1] = w[k]
          BY <3>1, <5>1
        <5> QED BY <5>2 DEF k
      <4> QED BY <1>2, <4>2, <4>4, <4>5
    <3> QED BY <3>2, <3>3
  <2> QED BY <1>1, <2>1, <2>2
<1>8. ASSUME NEW q \in DOMAIN g, q # <<>>, q[Len(q)][1] = "index" PROVE g[q].key = 0
  <2>1. CASE q \in DOMAIN t /\ ~Starts(p, q)
    BY <1>1, <1>8, <2>1 DEF Tree
  <2>2. ASSUME NEW w \in DOMAIN u, q = p \o w PROVE g[q].key = 0
    <3>1. CASE w = <<>>
      <4>1. q = p
        BY <1>1, <2>2, <3>1, Root
      <4> QED BY <1>2, <1>8, <2>2, <3>1, <4>1 DEF Tree
    <3>2. CASE w # <<>>
      <4>1. w \in Path /\ Len(w) \in 1 .. Len(w) /\ Len(q) = Len(p) + Len(w)
        <5>1. w \in Path /\ Len(w) # 0
          BY <1>3, <3>2, Root, SamePath DEF Path
        <5> QED BY <1>1, <1>3, <2>2, <5>1, Joined
      <4>2. q[Len(q)] = w[Len(w)]
        BY <1>1, <2>2, <4>1, Joined
      <4> QED BY <1>2, <1>8, <2>2, <3>2, <4>2 DEF Tree
    <3> QED BY <3>1, <3>2
  <2> QED BY <1>1, <2>1, <2>2
<1> QED
  BY <1>1, <1>4, <1>5, <1>6, <1>7, <1>8 DEF Tree, g

-----------------------------------------------------------------------------
(* Subtree: the tree of a value in another, whose name stays behind.       *)
SubtreeOf(s, t, p) ==
  /\ DOMAIN s \subseteq Path
  /\ \A w \in Path : w \in DOMAIN s <=> p \o w \in DOMAIN t
  /\ s[<<>>] = [t[p] EXCEPT !.key = 0]
  /\ \A w \in DOMAIN s : w # <<>> => s[w] = t[p \o w]

(* Subtree takes every node below the path, and only those.                *)
LEMMA SubtreeIs ==
  ASSUME NEW t, Tree(t), NEW p \in DOMAIN t
  PROVE  SubtreeOf(Subtree(t, p), t, p)
<1> DEFINE D == {After(q, Len(p)) : q \in Under(t, p)}  s == Subtree(t, p)
<1>1. p \in Path /\ DOMAIN t \subseteq Path
  BY DEF Tree
<1>2. DOMAIN s = D /\ \A w \in D : s[w] = IF w = <<>> THEN [t[p] EXCEPT !.key = 0] ELSE t[p \o w]
  BY DEF Subtree, After
<1>3. \A q \in Under(t, p) : /\ q \in DOMAIN t /\ After(q, Len(p)) \in Path
                             /\ q = p \o After(q, Len(p))
  BY <1>1, UnderIs, JoinedAfter
<1>4. D \subseteq Path
  BY <1>3
<1>5. ASSUME NEW w \in Path PROVE w \in D <=> p \o w \in DOMAIN t
  <2>1. ASSUME w \in D PROVE p \o w \in DOMAIN t
    BY <1>3, <2>1
  <2>2. ASSUME p \o w \in DOMAIN t PROVE w \in D
    <3>1. p \o w \in Under(t, p) /\ w = After(p \o w, Len(p))
      BY <1>1, <2>2, UnderIs, Joined, AfterJoined
    <3> QED BY <3>1
  <2> QED BY <2>1, <2>2
<1>6. <<>> \in D
  BY <1>1, <1>5, Root
<1> HIDE DEF D, s
<1>7. SubtreeOf(s, t, p)
  BY <1>2, <1>4, <1>5, <1>6 DEF SubtreeOf
<1> QED BY <1>7 DEF s

(* The same, field by field.                                               *)
LEMMA SubtreeNodes ==
  ASSUME NEW t, Tree(t), NEW p \in DOMAIN t, NEW s, SubtreeOf(s, t, p)
  PROVE  /\ <<>> \in DOMAIN s
         /\ \A w \in DOMAIN s :
              /\ w \in Path /\ p \o w \in DOMAIN t /\ s[w] \in Nodes
              /\ s[w].type = t[p \o w].type /\ s[w].text = t[p \o w].text
              /\ s[w].key = IF w = <<>> THEN 0 ELSE t[p \o w].key
              /\ \A f \in Fields : s[w][f] = IF w = <<>> /\ f = "key" THEN 0 ELSE t[p \o w][f]
<1>1. /\ DOMAIN t \subseteq Path /\ \A q \in DOMAIN t : t[q] \in Nodes
      /\ p \in Path /\ p \o <<>> = p
  BY Root DEF Tree
<1>2. <<>> \in DOMAIN s
  BY <1>1, Root DEF SubtreeOf
<1>3. ASSUME NEW w \in DOMAIN s
      PROVE  /\ w \in Path /\ p \o w \in DOMAIN t /\ s[w] \in Nodes
             /\ s[w].type = t[p \o w].type /\ s[w].text = t[p \o w].text
             /\ s[w].key = IF w = <<>> THEN 0 ELSE t[p \o w].key
             /\ \A f \in Fields : s[w][f] = IF w = <<>> /\ f = "key" THEN 0 ELSE t[p \o w][f]
  <2>1. w \in Path /\ p \o w \in DOMAIN t
    BY DEF SubtreeOf
  <2>2. CASE w = <<>>
    <3> DEFINE r == t[p]  r0 == [t[p] EXCEPT !.key = 0]
    <3>1. s[w] = r0 /\ t[p \o w] = r /\ r \in Nodes
      BY <1>1, <2>2 DEF SubtreeOf
    <3>2. /\ r0 \in Nodes /\ r0.type = r.type /\ r0.text = r.text /\ r0.key = 0
          /\ \A f \in Fields : r0[f] = IF f = "key" THEN 0 ELSE r[f]
      BY <3>1, KeySet
    <3> HIDE DEF r, r0
    <3> QED BY <2>1, <2>2, <3>1, <3>2
  <2>3. CASE w # <<>>
    BY <1>1, <2>1, <2>3 DEF SubtreeOf
  <2> QED BY <2>1, <2>2, <2>3
<1> QED BY <1>2, <1>3

(* The subtree of a tree is a tree.                                        *)
LEMMA SubtreeTree ==
  ASSUME NEW t, Tree(t), NEW p \in DOMAIN t
  PROVE  Tree(Subtree(t, p))
<1> DEFINE s == Subtree(t, p)
<1>1. SubtreeOf(s, t, p)
  BY SubtreeIs
<1>2. s \in [DOMAIN s -> Nodes] /\ <<>> \in DOMAIN s
  <2>1. s = [w \in DOMAIN s |-> s[w]]
    BY DEF Subtree
  <2> HIDE DEF s
  <2> QED BY <1>1, <2>1, SubtreeNodes
<1> HIDE DEF s
<1>3. \A w \in DOMAIN s :
        /\ w \in Path /\ p \o w \in DOMAIN t
        /\ s[w].type = t[p \o w].type /\ s[w].text = t[p \o w].text
        /\ s[w].key = IF w = <<>> THEN 0 ELSE t[p \o w].key
  BY <1>1, SubtreeNodes
<1>4. p \in Path /\ Len(p) \in Nat /\ \A w \in Path : Len(w) \in Nat
  BY DEF Tree, Path
<1>5. ASSUME NEW w \in DOMAIN s, NEW r \in Path, Starts(r, w), Len(r) < Len(w)
      PROVE  r \in DOMAIN s /\ s[r].type = Holder(w[Len(r) + 1])
  <2>1. w \in Path /\ p \o w \in DOMAIN t
    BY <1>3
  <2>2. /\ p \o r \in Path /\ Starts(p \o r, p \o w) /\ Len(p \o r) < Len(p \o w)
        /\ Len(p \o r) = Len(p) + Len(r)
    BY <1>4, <1>5, <2>1, JoinedStarts, Joined
  <2>3. p \o r \in DOMAIN t /\ t[p \o r].type = Holder((p \o w)[Len(p) + Len(r) + 1])
    BY <2>1, <2>2 DEF Tree
  <2>4. (p \o w)[Len(p) + Len(r) + 1] = w[Len(r) + 1]
    <3> DEFINE k == Len(r) + 1
    <3>1. k \in 1 .. Len(w) /\ Len(p) + Len(r) + 1 = Len(p) + k
      BY <1>4, <1>5, <2>1
    <3> HIDE DEF k
    <3>2. (p \o w)[Len(p) + k] = w[k]
      BY <1>4, <2>1, <3>1, Joined
    <3> QED BY <3>1, <3>2 DEF k
  <2>5. r \in DOMAIN s
    BY <1>1, <2>3 DEF SubtreeOf
  <2> QED BY <1>3, <2>3, <2>4, <2>5
<1>6. ASSUME NEW w \in DOMAIN s, w # <<>>, w[Len(w)][1] = "index" PROVE s[w].key = 0
  <2>1. w \in Path /\ Len(w) # 0 /\ p \o w \in DOMAIN t
    BY <1>3, <1>6, Root, SamePath DEF Path
  <2>2. Len(w) \in 1 .. Len(w) /\ Len(p \o w) = Len(p) + Len(w)
    BY <1>4, <2>1, Joined
  <2>3. (p \o w)[Len(p \o w)] = w[Len(w)] /\ p \o w # <<>>
    BY <1>4, <2>1, <2>2, Joined, Root
  <2> QED BY <1>3, <1>6, <2>1, <2>3 DEF Tree
<1>7. Tree(s)
  BY <1>2, <1>3, <1>5, <1>6 DEF Tree
<1> QED BY <1>7 DEF s

(* The slots of a subtree are those below its root, without its name.      *)
Inside(t, p, q, f) == q \in DOMAIN t /\ f \in Fields /\ Starts(p, q) /\ ~(q = p /\ f = "key")

(* What a value in a tree holds; it holds nothing twice if the tree does not. *)
LEMMA HeldAtIs ==
  ASSUME NEW t, Tree(t), NEW p \in DOMAIN t
  PROVE  /\ \A b : b \in HeldAt(t, p) <=> b # 0 /\ \E q, f : Inside(t, p, q, f) /\ t[q][f] = b
         /\ HeldAt(t, p) \subseteq Held(t)
         /\ Once(t) => Once(Subtree(t, p))
<1> DEFINE s == Subtree(t, p)
<1>1. SubtreeOf(s, t, p)
  BY SubtreeIs
<1>2. HeldAt(t, p) = Held(s)
  BY DEF HeldAt
<1> HIDE DEF s
<1>3. \A w \in DOMAIN s :
        /\ w \in Path /\ p \o w \in DOMAIN t
        /\ \A f \in Fields : s[w][f] = IF w = <<>> /\ f = "key" THEN 0 ELSE t[p \o w][f]
  BY <1>1, SubtreeNodes
<1>4. p \in Path /\ DOMAIN t \subseteq Path
  BY DEF Tree
<1>5. ASSUME NEW w \in DOMAIN s, NEW f \in Fields, s[w][f] # 0
      PROVE  Inside(t, p, p \o w, f) /\ t[p \o w][f] = s[w][f]
  <2>1. ~(w = <<>> /\ f = "key") /\ t[p \o w][f] = s[w][f] /\ w \in Path
    BY <1>3, <1>5
  <2>2. p \o w = p => w = <<>>
    <3>1. p \o <<>> = p /\ <<>> \in Path
      BY <1>4, Root
    <3> QED BY <1>4, <2>1, <3>1, Cancelled
  <2> QED BY <1>3, <1>4, <2>1, <2>2, Joined DEF Inside
<1>6. ASSUME NEW q, NEW f, Inside(t, p, q, f)
      PROVE  \E w \in DOMAIN s : q = p \o w /\ s[w][f] = t[q][f]
  <2>1. PICK w \in Path : q = p \o w
    BY <1>4, <1>6, JoinedAfter DEF Inside
  <2>2. w \in DOMAIN s
    BY <1>1, <1>6, <2>1 DEF SubtreeOf, Inside
  <2>3. ~(w = <<>> /\ f = "key") /\ f \in Fields
    BY <1>4, <1>6, <2>1, Root DEF Inside
  <2> QED BY <1>3, <2>1, <2>2, <2>3
<1>7. ASSUME NEW b PROVE b \in Held(s) <=> b # 0 /\ \E q, f : Inside(t, p, q, f) /\ t[q][f] = b
  <2>1. ASSUME b \in Held(s) PROVE b # 0 /\ \E q, f : Inside(t, p, q, f) /\ t[q][f] = b
    <3>1. PICK w \in DOMAIN s, f \in Fields : b # 0 /\ s[w][f] = b
      BY <2>1, HeldIs
    <3> QED BY <1>5, <3>1
  <2>2. ASSUME b # 0, NEW q, NEW f, Inside(t, p, q, f), t[q][f] = b PROVE b \in Held(s)
    <3>1. PICK w \in DOMAIN s : s[w][f] = b
      BY <1>6, <2>2
    <3>2. f \in Fields
      BY <2>2 DEF Inside
    <3> QED BY <2>2, <3>1, <3>2, HeldIs
  <2> QED BY <2>1, <2>2
<1>8. Held(s) \subseteq Held(t)
  BY <1>7, HeldIs DEF Inside
<1>9. ASSUME Once(t) PROVE Once(s)
  <2> SUFFICES ASSUME NEW w \in DOMAIN s, NEW v \in DOMAIN s, NEW f \in Fields, NEW g \in Fields,
                      s[w][f] # 0, s[w][f] = s[v][g]
               PROVE  w = v /\ f = g
    BY DEF Once
  <2>0. /\ p \o w \in DOMAIN t /\ p \o v \in DOMAIN t
        /\ t[p \o w][f] # 0 /\ t[p \o w][f] = t[p \o v][g]
    BY <1>3, <1>5
  <2>1. p \o w = p \o v /\ f = g
    <3> DEFINE a == p \o w  b == p \o v
    <3>1. a \in DOMAIN t /\ b \in DOMAIN t /\ t[a][f] # 0 /\ t[a][f] = t[b][g]
      BY <2>0
    <3> HIDE DEF a, b
    <3>2. a = b /\ f = g
      BY <1>9, <3>1 DEF Once
    <3> QED BY <3>2 DEF a, b
  <2> QED BY <1>3, <1>4, <2>1, Cancelled
<1> QED BY <1>2, <1>7, <1>8, <1>9 DEF s

(* A graft replaces what was held there by what the new tree holds.        *)
LEMMA GraftHeld ==
  ASSUME NEW t, NEW u, Tree(t), Tree(u), NEW p \in DOMAIN t,
         Once(t), Once(u), Held(t) \cap Held(u) = {}
  PROVE  /\ Once(Graft(t, p, u))
         /\ Held(Graft(t, p, u)) = (Held(t) \ HeldAt(t, p)) \cup Held(u)
<1> DEFINE g == Graft(t, p, u)
           Old(q, f) == /\ q \in DOMAIN t /\ q \in DOMAIN g /\ g[q][f] = t[q][f]
                        /\ ~Starts(p, q) \/ (q = p /\ f = "key")
           New(q, f, w) == /\ w \in DOMAIN u /\ q = p \o w /\ g[q][f] = u[w][f]
                           /\ ~(w = <<>> /\ f = "key")
<1>1. Grafted(g, t, p, u)
  BY GraftIs
<1>2. \A w \in DOMAIN u :
        /\ p \o w \in DOMAIN g
        /\ \A f \in Fields : g[p \o w][f] = IF w = <<>> /\ f = "key" THEN t[p].key ELSE u[w][f]
  BY GraftNodes
<1> HIDE DEF g
<1>3. /\ p \in Path /\ DOMAIN g \subseteq Path /\ DOMAIN t \subseteq Path /\ DOMAIN u \subseteq Path
      /\ <<>> \in DOMAIN u /\ p \o <<>> = p /\ Starts(p, p)
      /\ \A q \in DOMAIN t : t[q] \in Nodes /\ t[q].key = t[q]["key"]
      /\ u[<<>>].key = 0 /\ u[<<>>] \in Nodes /\ u[<<>>]["key"] = 0
  BY <1>1, Root, StartsOrder, NodeFields DEF Grafted, Tree
<1>4. ASSUME NEW q \in DOMAIN g, NEW f \in Fields PROVE Old(q, f) \/ \E w : New(q, f, w)
  <2>1. CASE q \in DOMAIN t /\ ~Starts(p, q)
    BY <1>1, <2>1 DEF Grafted
  <2>2. ASSUME NEW w \in DOMAIN u, q = p \o w PROVE Old(q, f) \/ \E v : New(q, f, v)
    <3>1. CASE w = <<>> /\ f = "key"
      BY <1>2, <1>3, <2>2, <3>1
    <3>2. CASE ~(w = <<>> /\ f = "key")
      BY <1>2, <2>2, <3>2
    <3> QED BY <3>1, <3>2
  <2> QED BY <1>1, <1>3, <2>1, <2>2 DEF Grafted
<1>5. ASSUME NEW q \in DOMAIN t, NEW f \in Fields, ~Starts(p, q) \/ (q = p /\ f = "key")
      PROVE  Old(q, f)
  <2>1. CASE ~Starts(p, q)
    BY <1>1, <1>3, <2>1 DEF Grafted
  <2>2. CASE q = p /\ f = "key"
    BY <1>2, <1>3, <2>2
  <2> QED BY <1>5, <2>1, <2>2
<1>6. ASSUME NEW w \in DOMAIN u, NEW f \in Fields, ~(w = <<>> /\ f = "key")
      PROVE  New(p \o w, f, w) /\ p \o w \in DOMAIN g
  BY <1>2, <1>6
<1>7. Once(g)
  <2> SUFFICES ASSUME NEW q \in DOMAIN g, NEW r \in DOMAIN g, NEW f \in Fields, NEW h \in Fields,
                      g[q][f] # 0, g[q][f] = g[r][h]
               PROVE  q = r /\ f = h
    BY DEF Once
  <2>1. CASE Old(q, f) /\ Old(r, h)
    <3>1. q \in DOMAIN t /\ r \in DOMAIN t /\ t[q][f] # 0 /\ t[q][f] = t[r][h]
      BY <2>1
    <3> QED BY <3>1 DEF Once
  <2>2. ASSUME NEW w, NEW v, New(q, f, w), New(r, h, v) PROVE q = r /\ f = h
    <3>1. w \in DOMAIN u /\ v \in DOMAIN u /\ u[w][f] # 0 /\ u[w][f] = u[v][h]
      BY <2>2
    <3>2. w = v /\ f = h
      BY <3>1 DEF Once
    <3> QED BY <2>2, <3>2
  <2>3. ASSUME NEW w, Old(q, f), New(r, h, w) PROVE FALSE
    <3>1. g[q][f] \in Held(t) /\ g[q][f] \in Held(u)
      BY <2>3, HeldIs
    <3> QED BY <3>1
  <2>4. ASSUME NEW w, New(q, f, w), Old(r, h) PROVE FALSE
    <3>1. g[q][f] \in Held(t) /\ g[q][f] \in Held(u)
      BY <2>4, HeldIs
    <3> QED BY <3>1
  <2> HIDE DEF Old, New
  <2> QED BY <1>4, <2>1, <2>2, <2>3, <2>4
<1>8. ASSUME NEW b, b \in Held(g) PROVE b \in (Held(t) \ HeldAt(t, p)) \cup Held(u)
  <2>1. PICK q \in DOMAIN g, f \in Fields : b # 0 /\ g[q][f] = b
    BY <1>8, HeldIs
  <2>2. CASE Old(q, f)
    <3>1. b \in Held(t) /\ t[q][f] = b /\ q \in DOMAIN t
      BY <2>1, <2>2, HeldIs
    <3>2. ASSUME b \in HeldAt(t, p) PROVE FALSE
      <4>1. PICK r, h : Inside(t, p, r, h) /\ t[r][h] = b
        BY <3>2, HeldAtIs
      <4>2. r = q /\ h = f
        BY <2>1, <3>1, <4>1 DEF Once, Inside
      <4> QED BY <2>2, <4>1, <4>2 DEF Inside
    <3> QED BY <3>1, <3>2
  <2>3. ASSUME NEW w, New(q, f, w) PROVE b \in Held(u)
    BY <2>1, <2>3, HeldIs
  <2> HIDE DEF Old, New
  <2> QED BY <1>4, <2>2, <2>3
<1>9. ASSUME NEW b, b \in Held(t), b \notin HeldAt(t, p) PROVE b \in Held(g)
  <2>1. PICK q \in DOMAIN t, f \in Fields : b # 0 /\ t[q][f] = b
    BY <1>9, HeldIs
  <2>2. ~Starts(p, q) \/ (q = p /\ f = "key")
    BY <1>9, <2>1, HeldAtIs DEF Inside
  <2>3. Old(q, f)
    BY <1>5, <2>2
  <2> QED BY <2>1, <2>3, HeldIs
<1>10. ASSUME NEW b, b \in Held(u) PROVE b \in Held(g)
  <2>1. PICK w \in DOMAIN u, f \in Fields : b # 0 /\ u[w][f] = b
    BY <1>10, HeldIs
  <2>2. ~(w = <<>> /\ f = "key")
    BY <1>3, <2>1
  <2>3. New(p \o w, f, w) /\ p \o w \in DOMAIN g
    BY <1>6, <2>2
  <2> QED BY <2>1, <2>3, HeldIs
<1>11. Held(g) = (Held(t) \ HeldAt(t, p)) \cup Held(u)
  BY <1>8, <1>9, <1>10
<1> QED BY <1>7, <1>11 DEF g

-----------------------------------------------------------------------------
(* A value of its own: a scalar, or an empty array or object.              *)
LEMMA LeafTree ==
  ASSUME NEW type \in Types, NEW x \in Buffers \cup {0}, type # "string" => x = 0
  PROVE  /\ Tree(Leaf(type, x)) /\ Once(Leaf(type, x))
         /\ Held(Leaf(type, x)) = {x} \ {0} /\ Leaf(type, x)[<<>>].type = type
<1> DEFINE r == Node(type, x, 0)  l == Leaf(type, x)
<1>1. /\ r \in Nodes /\ r.type = type /\ r.text = x /\ r.key = 0
      /\ \A f \in Fields : r[f] = IF f = "text" THEN x ELSE 0
  BY DEF Node, Nodes, Fields
<1> HIDE DEF r
<1>2. l = [p \in {<<>>} |-> r]
  BY DEF Leaf, r
<1>3. DOMAIN l = {<<>>} /\ l[<<>>] = r /\ l \in [{<<>>} -> Nodes]
  BY <1>1, <1>2
<1> HIDE DEF l
<1>4. Tree(l)
  <2>1. \A q \in Path : ~(Len(q) < Len(<<>>))
    BY Root DEF Path
  <2> QED BY <1>1, <1>3, <2>1, Root DEF Tree
<1>5. Once(l)
  BY <1>1, <1>3 DEF Once
<1>6. Held(l) = {x} \ {0}
  <2>1. \A b : b \in Held(l) <=> b # 0 /\ \E f \in Fields : r[f] = b
    BY <1>3, HeldIs
  <2>2. "text" \in Fields
    BY DEF Fields
  <2> QED BY <1>1, <2>1, <2>2
<1> QED BY <1>1, <1>3, <1>4, <1>5, <1>6 DEF l

(* What goes with a member: all that is held from its path on.             *)
LEMMA ReleasedIs ==
  ASSUME NEW t, Tree(t), NEW p \in DOMAIN t
  PROVE  \A b : b \in Released(t, p) <=>
           b # 0 /\ \E q \in DOMAIN t, f \in Fields : Starts(p, q) /\ t[q][f] = b
<1>1. p \in Path /\ Starts(p, p) /\ t[p].key = t[p]["key"] /\ "key" \in Fields
  BY StartsOrder, NodeFields DEF Tree, Fields
<1>2. ASSUME NEW b
      PROVE  b \in Released(t, p) <=>
               b # 0 /\ \E q \in DOMAIN t, f \in Fields : Starts(p, q) /\ t[q][f] = b
  <2>1. b \in Released(t, p) <=> b \in HeldAt(t, p) \/ (b = t[p]["key"] /\ b # 0)
    BY <1>1 DEF Released
  <2>2. b \in HeldAt(t, p) <=> b # 0 /\ \E q, f : Inside(t, p, q, f) /\ t[q][f] = b
    BY HeldAtIs
  <2> QED BY <1>1, <2>1, <2>2 DEF Inside
<1> QED BY <1>2

(* Erasing members leaves a tree, which holds all but what went with them. *)
LEMMA EraseTree ==
  ASSUME NEW t, Tree(t), NEW Z \in SUBSET (DOMAIN t \ {<<>>})
  PROVE  /\ Tree(EraseAll(t, Z))
         /\ EraseAll(t, Z)[<<>>] = t[<<>>]
         /\ Once(t) => Once(EraseAll(t, Z))
         /\ Once(t) => Held(EraseAll(t, Z)) = Held(t) \ UNION {Released(t, p) : p \in Z}
         /\ \A q : q \in DOMAIN EraseAll(t, Z) <=>
              q \in DOMAIN t /\ \A p \in Z : ~Starts(p, q)
<1> DEFINE e == EraseAll(t, Z)
<1>1. DOMAIN t \subseteq Path /\ Z \subseteq Path
  BY DEF Tree
<1>2. DOMAIN e = DOMAIN t \ UNION {Under(t, p) : p \in Z} /\ e = [q \in DOMAIN e |-> e[q]]
      /\ \A q \in DOMAIN e : e[q] = t[q]
  BY DEF EraseAll
<1> HIDE DEF e
<1>3. \A q : q \in DOMAIN e <=> q \in DOMAIN t /\ \A p \in Z : ~Starts(p, q)
  BY <1>1, <1>2, UnderIs
<1>4. <<>> \in DOMAIN e
  <2>1. ASSUME NEW p \in Z, Starts(p, <<>>) PROVE FALSE
    <3>1. Len(p) = 0 /\ p \in Path
      BY <1>1, <2>1, Root DEF Starts, Path
    <3> QED BY <2>1, <3>1, Root, SamePath
  <2> QED BY <1>3, <2>1 DEF Tree
<1>5. e \in [DOMAIN e -> Nodes]
  <2>1. \A q \in DOMAIN e : e[q] \in Nodes
    BY <1>2, <1>3 DEF Tree
  <2> QED BY <1>2, <2>1
<1>6. ASSUME NEW q \in DOMAIN e, NEW r \in Path, Starts(r, q), Len(r) < Len(q)
      PROVE  r \in DOMAIN e /\ e[r].type = Holder(q[Len(r) + 1])
  <2>1. r \in DOMAIN t /\ t[r].type = Holder(q[Len(r) + 1])
    BY <1>3, <1>6 DEF Tree
  <2>2. \A p \in Z : ~Starts(p, r)
    BY <1>1, <1>3, <1>6, StartsOrder
  <2> QED BY <1>2, <1>3, <2>1, <2>2
<1>7. Tree(e)
  <2>1. /\ \A q \in DOMAIN e : e[q].type # "string" => e[q].text = 0
        /\ \A q \in DOMAIN e : q # <<>> => (q[Len(q)][1] = "index" => e[q].key = 0)
        /\ e[<<>>].key = 0 /\ DOMAIN e \subseteq Path
    BY <1>1, <1>2, <1>3, <1>4 DEF Tree
  <2> QED BY <1>4, <1>5, <1>6, <2>1 DEF Tree
<1>8. Once(t) => Once(e)
  BY <1>2, <1>3 DEF Once
<1>9. ASSUME Once(t) PROVE Held(e) = Held(t) \ UNION {Released(t, p) : p \in Z}
  <2>1. ASSUME NEW b, b \in Held(e) PROVE b \in Held(t) \ UNION {Released(t, p) : p \in Z}
    <3>1. PICK q \in DOMAIN e, f \in Fields : b # 0 /\ t[q][f] = b
      BY <1>2, <2>1, HeldIs
    <3>2. q \in DOMAIN t /\ b \in Held(t)
      BY <1>3, <3>1, HeldIs
    <3>3. ASSUME NEW p \in Z, b \in Released(t, p) PROVE FALSE
      <4>1. PICK r \in DOMAIN t, h \in Fields : Starts(p, r) /\ t[r][h] = b
        BY <3>3, ReleasedIs
      <4>2. q = r
        BY <1>9, <3>1, <3>2, <4>1 DEF Once
      <4> QED BY <1>3, <4>1, <4>2
    <3> QED BY <3>2, <3>3
  <2>2. ASSUME NEW b, b \in Held(t), \A p \in Z : b \notin Released(t, p) PROVE b \in Held(e)
    <3>1. PICK q \in DOMAIN t, f \in Fields : b # 0 /\ t[q][f] = b
      BY <2>2, HeldIs
    <3>2. \A p \in Z : ~Starts(p, q)
      BY <2>2, <3>1, ReleasedIs
    <3> QED BY <1>2, <1>3, <3>1, <3>2, HeldIs
  <2> QED BY <2>1, <2>2
<1>10. e[<<>>] = t[<<>>]
  BY <1>2, <1>4
<1> QED BY <1>3, <1>7, <1>8, <1>9, <1>10 DEF e

(* Erasing one.                                                            *)
LEMMA EraseIs == \A t, p : Erase(t, p) = EraseAll(t, {p})
<1> SUFFICES ASSUME NEW t, NEW p PROVE Erase(t, p) = EraseAll(t, {p})
  OBVIOUS
<1>1. UNION {Under(t, x) : x \in {p}} = Under(t, p)
  OBVIOUS
<1> QED BY <1>1 DEF Erase, EraseAll

(* A new member or element.                                                *)
LEMMA InsertTree ==
  ASSUME NEW t, Tree(t), NEW p \in DOMAIN t, NEW k \in Keys, NEW x \in Buffers \cup {0},
         Append(p, k) \notin DOMAIN t, t[p].type = Holder(k),
         k[1] = "index" => x = 0, x \notin Held(t)
  PROVE  /\ Tree(Insert(t, Append(p, k), x)) /\ Append(p, k) \in DOMAIN Insert(t, Append(p, k), x)
         /\ Once(t) => Once(Insert(t, Append(p, k), x))
         /\ Held(Insert(t, Append(p, k), x)) = Held(t) \cup ({x} \ {0})
         /\ HeldAt(Insert(t, Append(p, k), 0), Append(p, k)) = {}
         /\ Insert(t, Append(p, k), x)[<<>>] = t[<<>>]
<1> DEFINE c == Append(p, k)  r == Node("null", 0, x)
           R(i, y) == i = [q \in DOMAIN t \cup {c} |-> IF q = c THEN Node("null", 0, y) ELSE t[q]]
<1>1. /\ p \in Path /\ DOMAIN t \subseteq Path /\ c \in Path /\ Len(c) = Len(p) + 1
      /\ Len(p) \in Nat /\ \A n \in 1 .. Len(p) : c[n] = p[n]
      /\ c[Len(p) + 1] = k /\ c # <<>>
  BY DEF Tree, Path
<1>2. /\ \A y \in Buffers \cup {0} :
           Node("null", 0, y) \in Nodes /\ Node("null", 0, y).key = y
           /\ \A f \in Fields : Node("null", 0, y)[f] = IF f = "key" THEN y ELSE 0
      /\ r.type = "null" /\ r.text = 0
  BY DEF Node, Nodes, Fields, Types
<1>3. R(Insert(t, c, x), x) /\ R(Insert(t, c, 0), 0)
  BY DEF Insert
<1>4. Starts(p, c)
  BY <1>1 DEF Starts
<1> HIDE DEF c, r
<1>5. ASSUME NEW i, NEW y \in Buffers \cup {0}, R(i, y), k[1] = "index" => y = 0 PROVE Tree(i)
  <2>1. /\ DOMAIN i = DOMAIN t \cup {c} /\ \A q \in DOMAIN t : i[q] = t[q]
        /\ i[c] = Node("null", 0, y)
    BY <1>5 DEF c
  <2>2. i \in [DOMAIN i -> Nodes] /\ <<>> \in DOMAIN i /\ i[<<>>].key = 0
    <3>1. \A q \in DOMAIN t : t[q] \in Nodes
      BY DEF Tree
    <3>2. \A q \in DOMAIN i : i[q] \in Nodes
      BY <1>2, <2>1, <3>1
    <3>3. i = [q \in DOMAIN i |-> i[q]]
      BY <1>5
    <3> QED BY <1>1, <2>1, <3>2, <3>3 DEF Tree
  <2>3. ASSUME NEW q \in DOMAIN i, NEW s \in Path, Starts(s, q), Len(s) < Len(q)
        PROVE  s \in DOMAIN i /\ i[s].type = Holder(q[Len(s) + 1])
    <3>1. CASE q \in DOMAIN t
      BY <2>1, <2>3, <3>1 DEF Tree
    <3>2. CASE q = c
      <4>1. Starts(s, p) /\ Len(s) \in Nat /\ Len(s) <= Len(p)
        <5>1. Len(s) \in Nat /\ Len(s) <= Len(p)
          BY <1>1, <2>3, <3>2 DEF Path
        <5> QED BY <1>1, <1>4, <2>3, <3>2, <5>1, StartsOrder
      <4>2. CASE Len(s) = Len(p)
        <5>1. s = p
          BY <1>1, <4>1, <4>2, SamePath
        <5> QED BY <1>1, <2>1, <3>2, <5>1
      <4>3. CASE Len(s) < Len(p)
        <5>1. s \in DOMAIN t /\ t[s].type = Holder(p[Len(s) + 1])
          BY <2>3, <4>1, <4>3 DEF Tree
        <5>2. Len(s) + 1 \in 1 .. Len(p)
          BY <1>1, <4>1, <4>3
        <5> QED BY <1>1, <2>1, <3>2, <5>1, <5>2
      <4> QED BY <1>1, <4>1, <4>2, <4>3
    <3> QED BY <2>1, <3>1, <3>2
  <2>4. ASSUME NEW q \in DOMAIN i, q # <<>>, q[Len(q)][1] = "index" PROVE i[q].key = 0
    <3>1. CASE q \in DOMAIN t
      BY <2>1, <2>4, <3>1 DEF Tree
    <3>2. CASE q = c
      BY <1>1, <1>2, <1>5, <2>1, <2>4, <3>2
    <3> QED BY <2>1, <3>1, <3>2
  <2>5. \A q \in DOMAIN i : i[q].type # "string" => i[q].text = 0
    <3>1. Node("null", 0, y).text = 0
      BY DEF Node
    <3> QED BY <2>1, <3>1 DEF Tree
  <2> QED BY <1>1, <2>1, <2>2, <2>3, <2>4, <2>5 DEF Tree
<1>6. ASSUME NEW i, R(i, x) PROVE /\ Once(t) => Once(i)
                                  /\ Held(i) = Held(t) \cup ({x} \ {0})
                                  /\ i[<<>>] = t[<<>>] /\ c \in DOMAIN i
  <2>1. /\ DOMAIN i = DOMAIN t \cup {c} /\ \A q \in DOMAIN t : i[q] = t[q] /\ q # c
        /\ \A f \in Fields : i[c][f] = IF f = "key" THEN x ELSE 0
    BY <1>2, <1>6 DEF c
  <2>2. ASSUME Once(t), NEW q \in DOMAIN i, NEW s \in DOMAIN i, NEW f \in Fields, NEW h \in Fields,
               i[q][f] # 0, i[q][f] = i[s][h]
        PROVE  q = s /\ f = h
    <3>1. CASE q \in DOMAIN t /\ s \in DOMAIN t
      BY <2>1, <2>2, <3>1 DEF Once
    <3>2. CASE q = c /\ s = c
      BY <2>1, <2>2, <3>2
    <3>3. CASE q \in DOMAIN t /\ s = c
      <4>1. t[q][f] = x /\ x # 0
        BY <2>1, <2>2, <3>3
      <4> QED BY <3>3, <4>1, HeldIs
    <3>4. CASE q = c /\ s \in DOMAIN t
      <4>1. t[s][h] = x /\ x # 0
        BY <2>1, <2>2, <3>4
      <4> QED BY <3>4, <4>1, HeldIs
    <3> QED BY <2>1, <3>1, <3>2, <3>3, <3>4
  <2>3. ASSUME NEW b PROVE b \in Held(i) <=> b \in Held(t) \/ (b = x /\ b # 0)
    <3>1. "key" \in Fields
      BY DEF Fields
    <3> QED BY <2>1, <3>1, HeldIs
  <2>4. i[<<>>] = t[<<>>]
    BY <2>1 DEF Tree
  <2> QED BY <2>1, <2>2, <2>3, <2>4 DEF Once
<1>7. ASSUME NEW i, R(i, 0) PROVE HeldAt(i, c) = {}
  <2>1. /\ DOMAIN i = DOMAIN t \cup {c} /\ \A f \in Fields : i[c][f] = 0
    BY <1>2, <1>7 DEF c
  <2>2. Tree(i)
    BY <1>5, <1>7
  <2>3. ASSUME NEW q \in DOMAIN t, Starts(c, q) PROVE FALSE
    <3>1. q \in Path /\ Len(c) <= Len(q)
      BY <1>1, <2>3 DEF Starts
    <3>2. CASE Len(c) = Len(q)
      BY <1>1, <2>3, <3>1, <3>2, SamePath DEF c
    <3>3. CASE Len(c) < Len(q)
      BY <1>1, <2>3, <3>1, <3>3 DEF Tree, c
    <3>4. Len(q) \in Nat /\ Len(c) \in Nat
      BY <1>1, <3>1 DEF Path
    <3> QED BY <3>1, <3>2, <3>3, <3>4
  <2>4. \A b : b \notin HeldAt(i, c)
    BY <2>1, <2>2, <2>3, HeldAtIs DEF Inside
  <2> QED BY <2>4
<1> HIDE DEF R
<1> QED
  BY <1>3, <1>5, <1>6, <1>7 DEF c

-----------------------------------------------------------------------------
(* A copy has buffers of its own, a different one for each.                *)
LEMMA CopyTree ==
  ASSUME NEW t, Tree(t), Fits(t)
  PROVE  Tree(Copy(t)) /\ Once(Copy(t)) /\ Held(Copy(t)) \subseteq Buffers \ heap
         /\ Copy(t)[<<>>].type = t[<<>>].type
<1> DEFINE c == Copy(t)
           new == CHOOSE n \in Injective(Slots(t)) : TRUE
<1>1. new \in [Slots(t) -> Buffers \ heap]
      /\ \A a, b \in Slots(t) : new[a] = new[b] => a = b
  <2>1. new \in Injective(Slots(t))
    BY DEF Fits
  <2> HIDE DEF new
  <2> QED BY <2>1 DEF Injective, IsInjective
<1>2. /\ c = [p \in DOMAIN t |-> c[p]] /\ DOMAIN c = DOMAIN t
      /\ \A p \in DOMAIN t : c[p] = [f \in DOMAIN t[p] |->
            IF <<p, f>> \in Slots(t) THEN new[<<p, f>>] ELSE t[p][f]]
  BY DEF Copy, CopyWith
<1> HIDE DEF c, new
<1>3. \A p, f : <<p, f>> \in Slots(t) <=> p \in DOMAIN t /\ f \in Fields /\ t[p][f] # 0
  BY DEF Slots
<1>4. ASSUME NEW p \in DOMAIN t
      PROVE  /\ c[p] \in Nodes /\ c[p].type = t[p].type
             /\ t[p].text = 0 => c[p].text = 0
             /\ t[p].key = 0 => c[p].key = 0
             /\ \A f \in Fields : c[p][f] = IF t[p][f] # 0 THEN new[<<p, f>>] ELSE 0
             /\ \A f \in Fields : t[p][f] # 0 => new[<<p, f>>] \in Buffers \ heap
  <2>1. t[p] \in Nodes /\ DOMAIN t[p] = {"type", "text", "key", "comment"}
    BY NodeFields DEF Tree, Fields
  <2> DEFINE V(f) == IF t[p][f] # 0 THEN new[<<p, f>>] ELSE 0
  <2>2. \A f \in Fields : t[p][f] # 0 => new[<<p, f>>] \in Buffers \ heap
    BY <1>1, <1>3
  <2>3. c[p] = [f \in {"type", "text", "key", "comment"} |->
                  IF f = "type" THEN t[p].type ELSE V(f)]
    <3>1. \A f \in {"type", "text", "key", "comment"} :
            (IF <<p, f>> \in Slots(t) THEN new[<<p, f>>] ELSE t[p][f]) =
            (IF f = "type" THEN t[p].type ELSE V(f))
      BY <1>3 DEF Fields
    <3> HIDE DEF V
    <3> QED BY <1>2, <2>1, <3>1
  <2>4. \A f \in Fields : V(f) \in Buffers \cup {0} /\ c[p][f] = V(f)
    BY <2>2, <2>3 DEF Fields
  <2>5. c[p].type = t[p].type /\ t[p].type \in Types
    BY <2>1, <2>3 DEF Nodes
  <2>6. c[p] \in Nodes
    <3> DEFINE x == V("text")  y == V("key")  z == V("comment")
    <3>1. c[p] = [type |-> t[p].type, text |-> x, key |-> y, comment |-> z]
      <4> HIDE DEF V
      <4> QED BY <2>3
    <3>2. x \in Buffers \cup {0} /\ y \in Buffers \cup {0} /\ z \in Buffers \cup {0}
      BY <2>4 DEF Fields
    <3> HIDE DEF V, x, y, z
    <3> QED BY <2>5, <3>1, <3>2 DEF Nodes
  <2>7. (t[p].text = 0 => c[p].text = 0) /\ (t[p].key = 0 => c[p].key = 0)
    <3>1. c[p].text = V("text") /\ c[p].key = V("key")
      BY <2>3
    <3> QED BY <3>1
  <2> QED BY <2>2, <2>4, <2>5, <2>6, <2>7
<1>5. Tree(c)
  <2>1. c \in [DOMAIN c -> Nodes]
    BY <1>2, <1>4
  <2>2. /\ <<>> \in DOMAIN c /\ c[<<>>].key = 0 /\ DOMAIN c \subseteq Path
        /\ \A q \in DOMAIN c : q # <<>> => (q[Len(q)][1] = "index" => c[q].key = 0)
        /\ \A q \in DOMAIN c : c[q].type # "string" => c[q].text = 0
    BY <1>2, <1>4 DEF Tree
  <2>3. \A p \in DOMAIN c, q \in Path : Starts(q, p) /\ Len(q) < Len(p) =>
          q \in DOMAIN c /\ c[q].type = Holder(p[Len(q) + 1])
    BY <1>2, <1>4 DEF Tree
  <2> QED BY <2>1, <2>2, <2>3 DEF Tree
<1>6. Once(c)
  <2> SUFFICES ASSUME NEW p \in DOMAIN t, NEW q \in DOMAIN t, NEW f \in Fields, NEW g \in Fields,
                      c[p][f] # 0, c[p][f] = c[q][g]
               PROVE  p = q /\ f = g
    BY <1>2 DEF Once
  <2>1. t[p][f] # 0 /\ t[q][g] # 0
    BY <1>4
  <2>2. new[<<p, f>>] = new[<<q, g>>] /\ <<p, f>> \in Slots(t) /\ <<q, g>> \in Slots(t)
    BY <1>3, <1>4, <2>1
  <2>3. <<p, f>> = <<q, g>>
    BY <1>1, <2>2
  <2> QED BY <2>3
<1>7. ASSUME NEW b, b \in Held(c) PROVE b \in Buffers \ heap
  <2>1. PICK p \in DOMAIN t, f \in Fields : b # 0 /\ c[p][f] = b
    BY <1>2, <1>7, HeldIs
  <2>2. t[p][f] # 0 /\ b = new[<<p, f>>]
    BY <1>4, <2>1
  <2> QED BY <1>4, <2>2
<1>8. c[<<>>].type = t[<<>>].type
  BY <1>4 DEF Tree
<1> QED BY <1>5, <1>6, <1>7, <1>8 DEF c

(* A null that becomes an object or an array loses its comment.            *)
LEMMA AsTree ==
  ASSUME NEW t, Tree(t), Once(t), NEW p \in DOMAIN t, NEW type \in {"array", "object"},
         t[p].type \in {"null", type}
  PROVE  /\ Tree(As(t, p, type)) /\ Once(As(t, p, type))
         /\ p \in DOMAIN As(t, p, type) /\ As(t, p, type)[p].type = type
         /\ Held(As(t, p, type)) = Held(t) \ LostComment(t, p)
         /\ LostComment(t, p) \subseteq Held(t) \cup {0}
<1>0. t[p] \in Nodes /\ p \in Path /\ Len(p) \in Nat
  BY DEF Tree, Path
<1>1. CASE t[p].type = type
  BY <1>1 DEF As, LostComment
<1>2. CASE t[p].type = "null"
  <2> DEFINE l == Leaf(type, 0)  g == Graft(t, p, l)
  <2>1. Tree(l) /\ Once(l) /\ Held(l) = {} /\ l[<<>>].type = type
    BY LeafTree DEF Types
  <2>2. As(t, p, type) = g /\ LostComment(t, p) = {t[p].comment}
    BY <1>2 DEF As, LostComment
  <2> HIDE DEF l
  <2>3. Tree(g) /\ Once(g) /\ Held(g) = Held(t) \ HeldAt(t, p)
    BY <2>1, GraftTree, GraftHeld
  <2>4. p \in DOMAIN g /\ g[p].type = type
    <3>1. <<>> \in DOMAIN l /\ p \o <<>> = p
      BY <1>0, <2>1, Root DEF Tree
    <3>2. \A w \in DOMAIN l : p \o w \in DOMAIN g /\ g[p \o w].type = l[w].type
      BY <2>1, GraftNodes
    <3> HIDE DEF g
    <3> QED BY <2>1, <3>1, <3>2
  <2>5. ASSUME NEW q, NEW f, Inside(t, p, q, f), t[q][f] # 0 PROVE q = p /\ f = "comment"
    <3>1. q \in Path /\ Len(q) \in Nat /\ q \in DOMAIN t /\ Starts(p, q)
      BY <2>5 DEF Inside, Tree, Path
    <3>2. ASSUME Len(p) < Len(q) PROVE FALSE
      <4>1. t[p].type = Holder(q[Len(p) + 1])
        BY <1>0, <3>1, <3>2 DEF Tree
      <4> QED BY <1>2, <4>1 DEF Holder
    <3>3. Len(p) = Len(q)
      BY <1>0, <3>1, <3>2 DEF Starts
    <3>4. q = p
      BY <1>0, <3>1, <3>3, SamePath
    <3>5. t[p]["text"] = 0
      BY <1>0, <1>2, NodeFields DEF Tree
    <3> QED BY <2>5, <3>4, <3>5 DEF Inside, Fields
  <2>6. t[p].comment # 0 => t[p].comment \in HeldAt(t, p)
    <3>1. t[p].comment = t[p]["comment"] /\ Inside(t, p, p, "comment")
      BY <1>0, NodeFields, StartsOrder DEF Inside, Fields
    <3> QED BY <3>1, HeldAtIs
  <2>7. \A b \in HeldAt(t, p) : b = t[p].comment /\ b # 0
    <3>1. \A b \in HeldAt(t, p) : b # 0 /\ \E q, f : Inside(t, p, q, f) /\ t[q][f] = b
      BY HeldAtIs
    <3>2. t[p].comment = t[p]["comment"]
      BY <1>0, NodeFields
    <3> QED BY <2>5, <3>1, <3>2
  <2>8. 0 \notin Held(t) /\ HeldAt(t, p) \subseteq Held(t)
    BY HeldIs, HeldAtIs
  <2>9. Held(g) = Held(t) \ {t[p].comment} /\ {t[p].comment} \subseteq Held(t) \cup {0}
    <3> HIDE DEF g
    <3> QED BY <2>3, <2>6, <2>7, <2>8
  <2> QED BY <2>2, <2>3, <2>4, <2>9
<1> QED BY <1>1, <1>2

(* How many elements: what is held of an array is below.                   *)
At(i) == <<Index(i)>>

(* What is below an array is at or below one of its elements.              *)
LEMMA FirstKey ==
  ASSUME NEW t, Tree(t), t[<<>>].type = "array", NEW q \in DOMAIN t, q # <<>>
  PROVE  \E k \in 0 .. MaxIndex :
           /\ q[1] = Index(k) /\ At(k) \in DOMAIN t /\ At(k) \in Path /\ Len(q) >= 1
           /\ \E w \in Path : q = At(k) \o w
<1>1. q \in Path /\ Len(q) \in Nat /\ Len(q) >= 1 /\ <<>> \in Path /\ Len(<<>>) = 0
  BY Root, SamePath DEF Tree, Path
<1>2. t[<<>>].type = Holder(q[1]) /\ q[1] \in Keys
  <2>1. Starts(<<>>, q) /\ Len(<<>>) < Len(q) /\ Len(<<>>) + 1 = 1
    BY <1>1, Root
  <2>2. t[<<>>].type = Holder(q[Len(<<>>) + 1])
    BY <1>1, <2>1 DEF Tree
  <2> QED BY <1>1, <2>1, <2>2 DEF Path
<1>3. PICK k \in 0 .. MaxIndex : q[1] = Index(k)
  BY <1>2 DEF Keys, Holder, Index
<1>4. At(k) \in Path /\ Len(At(k)) = 1 /\ At(k)[1] = Index(k)
  BY <1>2, <1>3 DEF At, Path
<1>5. Starts(At(k), q)
  BY <1>1, <1>3, <1>4 DEF Starts
<1>6. At(k) \in DOMAIN t
  <2>1. CASE Len(q) = 1
    BY <1>1, <1>4, <1>5, <2>1, SamePath
  <2>2. CASE Len(q) # 1
    <3> DEFINE n == Len(q)
    <3>0. n \in Nat /\ n >= 1 /\ n # 1
      BY <1>1, <2>2
    <3> HIDE DEF n
    <3>1. 1 < n
      BY <3>0
    <3>2. Len(At(k)) < Len(q)
      BY <1>4, <3>1 DEF n
    <3> QED BY <1>4, <1>5, <3>2 DEF Tree
  <2> QED BY <2>1, <2>2
<1>7. \E w \in Path : q = At(k) \o w
  BY <1>1, <1>4, <1>5, JoinedAfter
<1> QED BY <1>1, <1>3, <1>4, <1>6, <1>7

(* A set of indices has a greatest.                                        *)
LEMMA MaxOf ==
  ASSUME NEW Z \in SUBSET (0 .. MaxIndex), Z # {}
  PROVE  Max(Z) \in Z /\ \A z \in Z : z <= Max(Z)
<1> USE JsonValueAssumption
<1> DEFINE Y == {n \in Nat : \E z \in Z : n = MaxIndex - z}
<1>1. Y # {}
  <2>1. PICK z \in Z : TRUE
    OBVIOUS
  <2>2. MaxIndex - z \in Y
    BY <2>1
  <2> QED BY <2>2
<1>2. PICK n \in Y : \A m \in Y : ~(<<m, n>> \in OpToRel(<, Nat))
  BY <1>1, WFMin, NatLessThanWellFounded
<1>3. \A m \in Y : n <= m
  <2>1. Y \subseteq Nat
    OBVIOUS
  <2> HIDE DEF Y
  <2>2. \A m \in Y : ~(m < n)
    BY <1>2, <2>1 DEF OpToRel
  <2> QED BY <2>1, <2>2
<1>4. PICK x \in Z : n = MaxIndex - x
  OBVIOUS
<1>5. \A y \in Z : x >= y
  <2> TAKE y \in Z
  <2>1. MaxIndex - y \in Y
    OBVIOUS
  <2> QED BY <1>3, <1>4, <2>1
<1>6. Max(Z) \in Z /\ \A y \in Z : Max(Z) >= y
  BY <1>4, <1>5 DEF Max
<1> QED BY <1>6

(* The size of an array is past all its indices.                           *)
LEMMA SizeIs ==
  ASSUME NEW t, Tree(t), t[<<>>].type = "array"
  PROVE  /\ Size(t) \in 0 .. MaxIndex + 1
         /\ \A k \in Nat : At(k) \in DOMAIN t => k < Size(t)
<1> USE JsonValueAssumption
<1> DEFINE C == Children(t, <<>>)  Z == {q[1][2] : q \in C}
<1>1. \A q \in C : q \in DOMAIN t /\ q # <<>> /\ q \in Path
  BY Root DEF Children, Tree
<1>2. \A q \in C : \E k \in 0 .. MaxIndex : q[1] = Index(k)
  BY <1>1, FirstKey
<1>3. Z \subseteq 0 .. MaxIndex
  BY <1>2 DEF Index
<1>4. ASSUME NEW k \in Nat, At(k) \in DOMAIN t PROVE k \in Z
  <2>1. At(k) \in Path /\ Len(At(k)) = 1 /\ At(k)[1] = Index(k)
    BY <1>4 DEF Tree, At
  <2>2. IsPrefix(<<>>, At(k)) /\ Len(<<>>) = 0
    BY <2>1, Root, PrefixStarts
  <2>3. At(k) \in C
    BY <1>4, <2>1, <2>2 DEF Children
  <2> HIDE DEF C
  <2>4. At(k)[1][2] \in Z
    BY <2>3
  <2> QED BY <2>1, <2>4 DEF Index
<1>5. CASE C = {}
  <2>1. Size(t) = 0
    BY <1>5 DEF Size
  <2>2. Z = {}
    BY <1>5
  <2> HIDE DEF Z, C
  <2>3. Size(t) \in 0 .. MaxIndex + 1
    BY <2>1
  <2>4. \A k \in Nat : At(k) \notin DOMAIN t
    BY <1>4, <2>2
  <2> QED BY <2>3, <2>4
<1>6. CASE C # {}
  <2>1. Size(t) = Max(Z) + 1 /\ Z # {}
    BY <1>6 DEF Size
  <2> HIDE DEF Z, C
  <2>2. Max(Z) \in Z /\ \A z \in Z : z <= Max(Z)
    BY <1>3, <2>1, MaxOf
  <2> DEFINE m == Max(Z)
  <2>3. m \in Z /\ m \in 0 .. MaxIndex /\ Size(t) = m + 1 /\ \A z \in Z : z <= m
    BY <1>3, <2>1, <2>2
  <2> HIDE DEF m
  <2>4. Size(t) \in 0 .. MaxIndex + 1
    BY <2>3
  <2>5. ASSUME NEW k \in Nat, At(k) \in DOMAIN t PROVE k < Size(t)
    <3>1. k <= m
      BY <1>4, <2>3, <2>5
    <3> QED BY <2>3, <3>1
  <2> QED BY <2>4, <2>5
<1> QED BY <1>5, <1>6

-----------------------------------------------------------------------------
(* removeIndex: the elements after the one that goes, one place down.      *)
LEMMA AtIs ==
  ASSUME NEW k \in 0 .. MaxIndex
  PROVE  /\ At(k) \in Path /\ Len(At(k)) = 1 /\ At(k)[1] = Index(k) /\ At(k)[1][2] = k
         /\ At(k) # <<>> /\ At(k)[1][1] = "index" /\ Holder(At(k)[1]) = "array"
<1>1. Index(k) \in Keys
  BY DEF Keys, Index
<1> QED BY <1>1 DEF At, Path, Index, Holder

(* A path below an element.                                                *)
LEMMA AtJoined ==
  ASSUME NEW k \in 0 .. MaxIndex, NEW w \in Path
  PROVE  /\ At(k) \o w \in Path /\ (At(k) \o w)[1] = Index(k) /\ At(k) \o w # <<>>
         /\ Len(At(k) \o w) = Len(w) + 1 /\ Len(w) \in Nat
         /\ (At(k) \o w)[1][2] = k /\ Tail(At(k) \o w) = w
<1> DEFINE p == At(k)  q == p \o w  v == Tail(q)
<1>1. /\ p \in Path /\ Len(p) = 1 /\ p[1] = Index(k) /\ Index(k)[2] = k
  BY AtIs DEF Index
<1> HIDE DEF p
<1>2. /\ q \in Path /\ Len(q) = 1 + Len(w) /\ Len(w) \in Nat /\ q[1] = Index(k)
      /\ \A i \in 1 .. Len(w) : q[1 + i] = w[i]
  <2>1. /\ q \in Path /\ Len(q) = Len(p) + Len(w) /\ Len(w) \in Nat
        /\ \A i \in 1 .. Len(p) : q[i] = p[i]
        /\ \A i \in 1 .. Len(w) : q[Len(p) + i] = w[i]
    BY <1>1, Joined
  <2> HIDE DEF q
  <2> QED BY <1>1, <2>1
<1> HIDE DEF q
<1>3. q # <<>>
  BY <1>2, Root
<1>4. v \in Path /\ Len(v) = Len(w) /\ \A i \in 1 .. Len(w) : v[i] = q[1 + i]
  BY <1>2, <1>3 DEF Path
<1> HIDE DEF v
<1>5. Starts(v, w)
  BY <1>2, <1>4 DEF Starts
<1>6. v = w
  BY <1>4, <1>5, SamePath
<1> QED BY <1>1, <1>2, <1>3, <1>6 DEF p, q, v

(* An element has the nodes below its index, and a hole holds nothing.     *)
LEMMA ElementIs ==
  ASSUME NEW t, Tree(t), NEW k \in 0 .. MaxIndex
  PROVE  /\ Tree(ElementAt(t, k))
         /\ At(k) \in DOMAIN t => \A w \in Path :
              /\ w \in DOMAIN ElementAt(t, k) <=> At(k) \o w \in DOMAIN t
              /\ w \in DOMAIN ElementAt(t, k) =>
                   \A f \in Fields : ElementAt(t, k)[w][f] = t[At(k) \o w][f]
         /\ At(k) \notin DOMAIN t =>
              \A w \in DOMAIN ElementAt(t, k), f \in Fields : ElementAt(t, k)[w][f] = 0
<1> DEFINE p == At(k)
<1>1. /\ p \in Path /\ Len(p) = 1 /\ p[1][1] = "index" /\ p # <<>>
  BY AtIs
<1>2. CASE p \in DOMAIN t
  <2> DEFINE s == Subtree(t, p)
  <2>1. ElementAt(t, k) = s
    BY <1>2 DEF ElementAt, At
  <2> HIDE DEF p
  <2>2. Tree(s) /\ SubtreeOf(s, t, p)
    BY <1>2, SubtreeTree, SubtreeIs
  <2> HIDE DEF s
  <2>3. t[p]["key"] = 0
    <3>1. t[p].key = 0 /\ t[p] \in Nodes
      BY <1>1, <1>2 DEF Tree
    <3> QED BY <3>1, NodeFields
  <2>4. \A w \in DOMAIN s : \A f \in Fields :
          s[w][f] = IF w = <<>> /\ f = "key" THEN 0 ELSE t[p \o w][f]
    BY <1>2, <2>2, SubtreeNodes
  <2>5. \A w \in DOMAIN s : \A f \in Fields : s[w][f] = t[p \o w][f]
    BY <1>1, <2>3, <2>4, Root
  <2>6. \A w \in Path : w \in DOMAIN s <=> p \o w \in DOMAIN t
    BY <2>2 DEF SubtreeOf
  <2> QED BY <1>2, <2>1, <2>2, <2>5, <2>6 DEF p
<1>3. CASE p \notin DOMAIN t
  <2>1. ElementAt(t, k) = NullTree
    BY <1>3 DEF ElementAt, At
  <2>2. Tree(NullTree) /\ Held(NullTree) = {}
    BY LeafTree DEF NullTree, Types
  <2>3. \A w \in DOMAIN NullTree, f \in Fields : NullTree[w][f] = 0
    BY <2>2, HeldIs
  <2> HIDE DEF p
  <2> QED BY <1>3, <2>1, <2>2, <2>3 DEF p
<1> QED BY <1>2, <1>3

(* Where a node of what is left comes from.                                *)
Before(t, i, q) == q \in DOMAIN t /\ (q = <<>> \/ \E k \in 0 .. i - 1 : q[1] = Index(k))
Moved(t, i, q, j, w) ==
  j \in i .. Size(t) - 2 /\ w \in DOMAIN ElementAt(t, j + 1) /\ q = At(j) \o w
ShiftOf(s, t, i) ==
  /\ DOMAIN s \subseteq Path
  /\ \A q : q \in DOMAIN s <=> Before(t, i, q) \/ \E j, w : Moved(t, i, q, j, w)
  /\ \A q : Before(t, i, q) => s[q] = t[q]
  /\ \A q, j, w : Moved(t, i, q, j, w) => s[q] = ElementAt(t, j + 1)[w]

(* A node that moved is below an index from i on, and not one that stayed. *)
LEMMA MovedIs ==
  ASSUME NEW t, Tree(t), t[<<>>].type = "array", NEW i \in 0 .. MaxIndex,
         NEW q, NEW j, NEW w, Moved(t, i, q, j, w)
  PROVE  /\ j \in 0 .. MaxIndex /\ j + 1 \in 0 .. MaxIndex /\ j >= i /\ w \in Path
         /\ q \in Path /\ q[1] = Index(j) /\ q # <<>> /\ Tail(q) = w /\ q[1][2] = j
         /\ q = At(j) \o w /\ ~Before(t, i, q) /\ w \in DOMAIN ElementAt(t, j + 1)
<1>1. j \in 0 .. MaxIndex /\ j + 1 \in 0 .. MaxIndex /\ j >= i
  <2> DEFINE n == Size(t)
  <2>1. n \in 0 .. MaxIndex + 1
    BY SizeIs
  <2>2. j \in i .. n - 2
    BY DEF Moved
  <2> HIDE DEF n
  <2> QED BY <2>1, <2>2, JsonValueAssumption
<1>2. w \in Path /\ w \in DOMAIN ElementAt(t, j + 1) /\ q = At(j) \o w
  BY <1>1, ElementIs DEF Tree, Moved
<1>3. q \in Path /\ q[1] = Index(j) /\ q # <<>> /\ Tail(q) = w /\ q[1][2] = j
  BY <1>1, <1>2, AtJoined
<1>4. ~Before(t, i, q)
  BY <1>1, <1>3 DEF Before, Index
<1> QED BY <1>1, <1>2, <1>3, <1>4

(* removeIndex keeps what is before the index, and moves what is after it. *)
LEMMA ShiftIs ==
  ASSUME NEW t, Tree(t), t[<<>>].type = "array", NEW i \in 0 .. MaxIndex
  PROVE  ShiftOf(Shifted(t, i), t, i)
<1> DEFINE moved(j) == {<<Index(j)>> \o q : q \in DOMAIN ElementAt(t, j + 1)}
           kept     == {q \in DOMAIN t : q = <<>> \/ q[1][2] < i}
           D        == kept \cup UNION {moved(j) : j \in i .. Size(t) - 2}
           s        == Shifted(t, i)
<1>1. /\ DOMAIN s = D
      /\ \A p \in D : s[p] = IF p \in kept THEN t[p] ELSE ElementAt(t, p[1][2] + 1)[Tail(p)]
  BY DEF Shifted, ShiftedFrom
<1>2. ASSUME NEW q PROVE q \in kept <=> Before(t, i, q)
  <2>1. CASE q \in DOMAIN t /\ q # <<>>
    <3>1. PICK k \in 0 .. MaxIndex : q[1] = Index(k)
      BY <2>1, FirstKey
    <3>2. q[1][2] = k
      BY <3>1 DEF Index
    <3>3. (\E l \in 0 .. i - 1 : q[1] = Index(l)) <=> k < i
      BY <3>1 DEF Index
    <3> QED BY <2>1, <3>2, <3>3 DEF Before
  <2>2. CASE ~(q \in DOMAIN t /\ q # <<>>)
    BY <2>2 DEF Before
  <2> QED BY <2>1, <2>2
<1>3. ASSUME NEW q PROVE q \in UNION {moved(j) : j \in i .. Size(t) - 2}
                         <=> \E j, w : Moved(t, i, q, j, w)
  <2>1. ASSUME NEW j PROVE q \in moved(j) <=> \E w \in DOMAIN ElementAt(t, j + 1) : q = At(j) \o w
    BY Zenon DEF At
  <2> HIDE DEF moved, kept
  <2>2. q \in UNION {moved(j) : j \in i .. Size(t) - 2}
        <=> \E j \in i .. Size(t) - 2 : q \in moved(j)
    BY Zenon
  <2> QED BY <2>1, <2>2, Zenon DEF Moved
<1> HIDE DEF moved, kept
<1>4. \A q : q \in D <=> Before(t, i, q) \/ \E j, w : Moved(t, i, q, j, w)
  BY <1>2, <1>3
<1> HIDE DEF D, s
<1>5. ASSUME NEW q, Before(t, i, q) PROVE s[q] = t[q] /\ q \in Path
  BY <1>1, <1>2, <1>4, <1>5 DEF Before, Tree
<1>6. ASSUME NEW q, NEW j, NEW w, Moved(t, i, q, j, w)
      PROVE  s[q] = ElementAt(t, j + 1)[w] /\ q \in Path
  <2>1. q \in D /\ q \notin kept /\ q[1][2] = j /\ Tail(q) = w /\ q \in Path
    BY <1>2, <1>4, <1>6, MovedIs
  <2> QED BY <1>1, <2>1
<1>7. DOMAIN s \subseteq Path
  BY <1>1, <1>4, <1>5, <1>6
<1> QED BY <1>1, <1>4, <1>5, <1>6, <1>7 DEF ShiftOf, s

(* It leaves a tree.                                                       *)
LEMMA ShiftTree ==
  ASSUME NEW t, Tree(t), t[<<>>].type = "array", NEW i \in 0 .. MaxIndex
  PROVE  Tree(Shifted(t, i)) /\ Shifted(t, i)[<<>>] = t[<<>>]
<1> DEFINE s == Shifted(t, i)
<1>1. ShiftOf(s, t, i)
  BY ShiftIs
<1>2. s = [q \in DOMAIN s |-> s[q]]
  BY DEF Shifted, ShiftedFrom
<1> HIDE DEF s
<1>3. <<>> \in DOMAIN t /\ <<>> \in Path /\ Len(<<>>) = 0 /\ \A p \in Path : Starts(<<>>, p)
  BY Root DEF Tree
<1>4. Before(t, i, <<>>) /\ s[<<>>] = t[<<>>] /\ <<>> \in DOMAIN s
  BY <1>1, <1>3 DEF ShiftOf, Before
<1>5. ASSUME NEW q, NEW j, NEW w, Moved(t, i, q, j, w)
      PROVE  /\ s[q] = ElementAt(t, j + 1)[w] /\ Tree(ElementAt(t, j + 1)) /\ w \in Path
             /\ w \in DOMAIN ElementAt(t, j + 1) /\ q = At(j) \o w
             /\ j \in 0 .. MaxIndex /\ q \in DOMAIN s
  BY <1>1, <1>5, MovedIs, ElementIs DEF ShiftOf
<1>6. ASSUME NEW q \in DOMAIN s
      PROVE  /\ s[q] \in Nodes
             /\ s[q].type # "string" => s[q].text = 0
             /\ q # <<>> => (q[Len(q)][1] = "index" => s[q].key = 0)
  <2>1. CASE Before(t, i, q)
    BY <1>1, <2>1 DEF ShiftOf, Before, Tree
  <2>2. ASSUME NEW j, NEW w, Moved(t, i, q, j, w)
        PROVE  /\ s[q] \in Nodes
               /\ s[q].type # "string" => s[q].text = 0
               /\ q # <<>> => (q[Len(q)][1] = "index" => s[q].key = 0)
    <3> DEFINE e == ElementAt(t, j + 1)
    <3>1. /\ s[q] = e[w] /\ Tree(e) /\ w \in Path /\ w \in DOMAIN e /\ q = At(j) \o w
          /\ j \in 0 .. MaxIndex
      BY <1>5, <2>2
    <3> HIDE DEF e
    <3>2. CASE w = <<>>
      BY <3>1, <3>2 DEF Tree
    <3>3. CASE w # <<>>
      <4>1. Len(w) \in 1 .. Len(w) /\ Len(w) \in Nat
        BY <3>1, <3>3, Root, SamePath DEF Path
      <4>2. q[Len(q)] = w[Len(w)]
        <5>1. At(j) \in Path
          BY <3>1, AtIs
        <5>2. Len(q) = Len(At(j)) + Len(w) /\ q[Len(At(j)) + Len(w)] = w[Len(w)]
          BY <3>1, <4>1, <5>1, Joined
        <5> QED BY <5>2
      <4> QED BY <3>1, <3>3, <4>2 DEF Tree
    <3> QED BY <3>2, <3>3
  <2> QED BY <1>1, <2>1, <2>2 DEF ShiftOf
<1>7. ASSUME NEW q \in DOMAIN s, NEW r \in Path, Starts(r, q), Len(r) < Len(q)
      PROVE  r \in DOMAIN s /\ s[r].type = Holder(q[Len(r) + 1])
  <2>1. CASE Before(t, i, q)
    <3>1. r \in DOMAIN t /\ t[r].type = Holder(q[Len(r) + 1])
      BY <1>7, <2>1 DEF Before, Tree
    <3>2. r # <<>> => r[1] = q[1] /\ q # <<>>
      <4>1. ASSUME r # <<>> PROVE Len(r) >= 1 /\ Len(r) \in Nat
        BY <4>1, Root, SamePath DEF Path
      <4>2. q \in Path /\ Len(q) \in Nat
        BY <1>1 DEF ShiftOf, Path
      <4> QED BY <1>3, <1>7, <4>1, <4>2 DEF Starts
    <3>3. Before(t, i, r)
      BY <2>1, <3>1, <3>2 DEF Before
    <3> QED BY <1>1, <3>1, <3>3 DEF ShiftOf
  <2>2. ASSUME NEW j, NEW w, Moved(t, i, q, j, w)
        PROVE  r \in DOMAIN s /\ s[r].type = Holder(q[Len(r) + 1])
    <3> DEFINE e == ElementAt(t, j + 1)  p == At(j)
    <3>1. /\ s[q] = e[w] /\ Tree(e) /\ w \in Path /\ w \in DOMAIN e /\ q = p \o w
          /\ j \in 0 .. MaxIndex
      BY <1>5, <2>2
    <3>2. /\ p \in Path /\ Len(p) = 1 /\ p[1] = Index(j) /\ Holder(p[1]) = "array"
      BY <3>1, AtIs
    <3>3. \A v \in DOMAIN e : Moved(t, i, p \o v, j, v)
      BY <2>2 DEF Moved
    <3>4. \A v \in DOMAIN e : s[p \o v] = e[v] /\ p \o v \in DOMAIN s
      BY <1>5, <3>3
    <3> HIDE DEF e, p
    <3>5. /\ Len(q) = 1 + Len(w) /\ Starts(p, q) /\ Len(w) \in Nat /\ Len(r) \in Nat
          /\ \A n \in 1 .. 1 : q[n] = p[n]
          /\ \A n \in 1 .. Len(w) : q[1 + n] = w[n]
      <4>1. /\ Len(q) = Len(p) + Len(w) /\ Starts(p, q) /\ Len(w) \in Nat
            /\ \A n \in 1 .. Len(p) : q[n] = p[n]
            /\ \A n \in 1 .. Len(w) : q[Len(p) + n] = w[n]
        BY <3>1, <3>2, Joined
      <4>2. Len(r) \in Nat
        BY DEF Path
      <4> QED BY <3>2, <4>1, <4>2
    <3>6. CASE Len(r) = 0
      <4>1. r = <<>>
        BY <1>3, <3>6, SamePath
      <4>2. q[1] = p[1]
        BY <3>5
      <4> QED BY <1>4, <3>2, <3>6, <4>1, <4>2
    <3>7. CASE Len(r) # 0
      <4>1. Starts(p, r)
        <5>1. q \in Path /\ Len(p) <= Len(r)
          BY <1>1, <3>2, <3>5, <3>7 DEF ShiftOf
        <5> QED BY <1>7, <3>2, <3>5, <5>1, StartsOrder
      <4>2. PICK v \in Path : r = p \o v
        BY <3>2, <4>1, JoinedAfter
      <4>3. Starts(v, w) /\ Len(r) = 1 + Len(v) /\ Len(v) \in Nat
        <5>1. Starts(v, w)
          BY <1>7, <3>1, <3>2, <4>2, JoinedStarts
        <5>2. Len(r) = Len(p) + Len(v) /\ Len(v) \in Nat
          BY <3>2, <4>2, Joined
        <5> QED BY <3>2, <5>1, <5>2
      <4>4. Len(v) < Len(w) /\ Len(v) + 1 \in 1 .. Len(w) /\ Len(r) + 1 = 1 + (Len(v) + 1)
        <5> DEFINE a == Len(v)  b == Len(w)  c == Len(r)  d == Len(q)
        <5>1. a \in Nat /\ b \in Nat /\ c = 1 + a /\ d = 1 + b /\ c < d
          BY <1>7, <3>5, <4>3
        <5> HIDE DEF a, b, c, d
        <5>2. a < b /\ a + 1 \in 1 .. b /\ c + 1 = 1 + (a + 1)
          BY <5>1
        <5> QED BY <5>2 DEF a, b, c, d
      <4>5. v \in DOMAIN e /\ e[v].type = Holder(w[Len(v) + 1])
        BY <3>1, <4>2, <4>3, <4>4 DEF Tree
      <4>6. q[Len(r) + 1] = w[Len(v) + 1]
        BY <3>5, <4>4
      <4> QED BY <3>4, <4>2, <4>5, <4>6
    <3> QED BY <3>6, <3>7
  <2> QED BY <1>1, <2>1, <2>2 DEF ShiftOf
<1>8. s \in [DOMAIN s -> Nodes]
  BY <1>2, <1>6
<1>9. DOMAIN s \subseteq Path /\ s[<<>>].key = 0
  BY <1>1, <1>4 DEF ShiftOf, Tree
<1>10. Tree(s)
  BY <1>4, <1>6, <1>7, <1>8, <1>9 DEF Tree
<1> QED BY <1>4, <1>10 DEF s

Lowered(q, o, i) ==
  \E j \in i .. MaxIndex, w \in Path :
    j + 1 \in 0 .. MaxIndex /\ q = At(j) \o w /\ o = At(j + 1) \o w

(* No two nodes come from the same one.                                    *)
LEMMA LoweredOnce ==
  ASSUME NEW t, NEW i \in 0 .. MaxIndex, NEW q, NEW o, Lowered(q, o, i)
  PROVE  ~Before(t, i, o) /\ \A r : Lowered(r, o, i) => q = r
<1>1. PICK j \in i .. MaxIndex, w \in Path :
        j + 1 \in 0 .. MaxIndex /\ q = At(j) \o w /\ o = At(j + 1) \o w
  BY DEF Lowered
<1>2. o[1] = Index(j + 1) /\ o # <<>> /\ o[1][2] = j + 1 /\ Tail(o) = w
  BY <1>1, AtJoined
<1>3. ~Before(t, i, o)
  BY <1>2 DEF Before, Index
<1>4. ASSUME NEW r, Lowered(r, o, i) PROVE q = r
  <2>1. PICK l \in i .. MaxIndex, v \in Path :
          l + 1 \in 0 .. MaxIndex /\ r = At(l) \o v /\ o = At(l + 1) \o v
    BY <1>4 DEF Lowered
  <2>2. o[1][2] = l + 1 /\ Tail(o) = v
    BY <2>1, AtJoined
  <2>3. j = l /\ w = v
    BY <1>2, <2>2
  <2> QED BY <1>1, <2>1, <2>3
<1> QED BY <1>3, <1>4

(* Every buffer of what is left was held by another element, or not by an  *)
(* element, and each is still held.                                        *)
LEMMA ShiftHeld ==
  ASSUME NEW t, Tree(t), Once(t), t[<<>>].type = "array", NEW i \in 0 .. MaxIndex,
         At(i) \in DOMAIN t
  PROVE  /\ Once(Shifted(t, i))
         /\ Held(Shifted(t, i)) = Held(t) \ HeldAt(t, At(i))
<1> DEFINE s == Shifted(t, i)
           Origin(q, o) == \/ Before(t, i, q) /\ o = q
                           \/ \E j, w : /\ Moved(t, i, q, j, w) /\ o = At(j + 1) \o w
                                        /\ At(j + 1) \in DOMAIN t
<1>1. ShiftOf(s, t, i)
  BY ShiftIs
<1> HIDE DEF s
<1>2. DOMAIN t \subseteq Path
  BY DEF Tree
<1>3. ASSUME NEW q \in DOMAIN s, NEW f \in Fields, s[q][f] # 0
      PROVE  \E o : Origin(q, o) /\ o \in DOMAIN t /\ s[q][f] = t[o][f]
  <2>1. CASE Before(t, i, q)
    BY <1>1, <2>1 DEF ShiftOf, Before
  <2>2. ASSUME NEW j, NEW w, Moved(t, i, q, j, w)
        PROVE  \E o : Origin(q, o) /\ o \in DOMAIN t /\ s[q][f] = t[o][f]
    <3>1. /\ s[q] = ElementAt(t, j + 1)[w] /\ j + 1 \in 0 .. MaxIndex /\ w \in Path
          /\ w \in DOMAIN ElementAt(t, j + 1)
      BY <1>1, <2>2, MovedIs DEF ShiftOf
    <3>2. At(j + 1) \in DOMAIN t
      BY <1>3, <3>1, ElementIs
    <3>3. At(j + 1) \o w \in DOMAIN t /\ s[q][f] = t[At(j + 1) \o w][f]
      BY <3>1, <3>2, ElementIs
    <3> QED BY <2>2, <3>2, <3>3
  <2> QED BY <1>1, <2>1, <2>2 DEF ShiftOf
<1>4. ASSUME NEW q, NEW o, Origin(q, o)
      PROVE  (q = o /\ Before(t, i, q)) \/ Lowered(q, o, i)
  <2>1. ASSUME NEW j, NEW w, Moved(t, i, q, j, w), o = At(j + 1) \o w PROVE Lowered(q, o, i)
    <3>1. j \in i .. MaxIndex /\ w \in Path /\ j + 1 \in 0 .. MaxIndex /\ q = At(j) \o w
      BY <2>1, MovedIs
    <3> QED BY <2>1, <3>1 DEF Lowered
  <2> QED BY <1>4, <2>1
<1>5. ASSUME NEW q, NEW r, NEW o, Origin(q, o), Origin(r, o) PROVE q = r
  <2> HIDE DEF Origin
  <2>1. /\ (q = o /\ Before(t, i, q)) \/ Lowered(q, o, i)
        /\ (r = o /\ Before(t, i, r)) \/ Lowered(r, o, i)
    BY <1>4, <1>5
  <2>2. \A a : Lowered(a, o, i) => ~Before(t, i, o) /\ \A d : Lowered(d, o, i) => a = d
    BY LoweredOnce
  <2> QED BY <2>1, <2>2
<1>6. Once(s)
  <2> SUFFICES ASSUME NEW q \in DOMAIN s, NEW r \in DOMAIN s, NEW f \in Fields, NEW h \in Fields,
                      s[q][f] # 0, s[q][f] = s[r][h]
               PROVE  q = r /\ f = h
    BY DEF Once
  <2> HIDE DEF Origin
  <2>1. PICK o : Origin(q, o) /\ o \in DOMAIN t /\ s[q][f] = t[o][f]
    BY <1>3
  <2>2. PICK a : Origin(r, a) /\ a \in DOMAIN t /\ s[r][h] = t[a][h]
    BY <1>3
  <2>3. t[o][f] # 0 /\ t[o][f] = t[a][h]
    BY <2>1, <2>2
  <2>4. o = a /\ f = h
    BY <2>1, <2>2, <2>3 DEF Once
  <2> QED BY <1>5, <2>1, <2>2, <2>4
<1>7. ASSUME NEW b, b \in Held(s) PROVE b \in Held(t) \ HeldAt(t, At(i))
  <2>1. PICK q \in DOMAIN s, f \in Fields : b # 0 /\ s[q][f] = b
    BY <1>7, HeldIs
  <2>2. PICK o : Origin(q, o) /\ o \in DOMAIN t /\ t[o][f] = b
    BY <1>3, <2>1
  <2>3. ~Starts(At(i), o)
    <3>0. At(i) \in Path /\ Len(At(i)) = 1 /\ At(i)[1] = Index(i)
      BY AtIs
    <3>1. SUFFICES ASSUME Starts(At(i), o) PROVE FALSE
      OBVIOUS
    <3>2. o[1] = Index(i) /\ o # <<>>
      BY <3>0, <3>1, Root DEF Starts
    <3>3. CASE q = o /\ Before(t, i, q)
      BY <3>2, <3>3 DEF Before, Index
    <3>4. ASSUME Lowered(q, o, i) PROVE FALSE
      <4>1. PICK j \in i .. MaxIndex, w \in Path : j + 1 \in 0 .. MaxIndex /\ o = At(j + 1) \o w
        BY <3>4 DEF Lowered
      <4>2. o[1] = Index(j + 1)
        BY <4>1, AtJoined
      <4> QED BY <3>2, <4>2 DEF Index
    <3> HIDE DEF Origin
    <3> QED BY <1>4, <2>2, <3>3, <3>4
  <2>4. ASSUME b \in HeldAt(t, At(i)) PROVE FALSE
    <3>1. PICK r, h : Inside(t, At(i), r, h) /\ t[r][h] = b
      BY <2>4, HeldAtIs
    <3>2. r = o
      BY <2>1, <2>2, <3>1 DEF Once, Inside
    <3> QED BY <2>3, <3>1, <3>2 DEF Inside
  <2> QED BY <2>1, <2>2, <2>4, HeldIs
<1>8. ASSUME NEW b, b \in Held(t), b \notin HeldAt(t, At(i)) PROVE b \in Held(s)
  <2>1. PICK q \in DOMAIN t, f \in Fields : b # 0 /\ t[q][f] = b
    BY <1>8, HeldIs
  <2>2. CASE Before(t, i, q)
    <3>1. q \in DOMAIN s /\ s[q] = t[q]
      BY <1>1, <2>2 DEF ShiftOf
    <3> QED BY <2>1, <3>1, HeldIs
  <2>3. CASE ~Before(t, i, q)
    <3>1. q # <<>>
      BY <2>3 DEF Before
    <3>2. PICK k \in 0 .. MaxIndex, w \in Path :
            q[1] = Index(k) /\ At(k) \in DOMAIN t /\ q = At(k) \o w
      BY <3>1, FirstKey
    <3>3. k >= i
      BY <2>3, <3>2 DEF Before
    <3>4. k # i
      <4> SUFFICES ASSUME k = i PROVE FALSE
        OBVIOUS
      <4>0. At(i) \in Path /\ Len(At(i)) = 1 /\ At(i)[1][1] = "index" /\ At(i) # <<>>
        BY AtIs
      <4>1. Starts(At(i), q)
        BY <3>2, <4>0, Joined
      <4>2. ~(q = At(i) /\ f = "key")
        <5>1. t[At(i)] \in Nodes /\ t[At(i)].key = 0
          BY <4>0 DEF Tree
        <5> QED BY <2>1, <5>1, NodeFields
      <4> QED BY <1>8, <2>1, <4>1, <4>2, HeldAtIs DEF Inside
    <3> DEFINE j == k - 1
    <3>5. /\ j \in i .. Size(t) - 2 /\ j + 1 = k
      <4> DEFINE n == Size(t)
      <4>1. n \in 0 .. MaxIndex + 1 /\ k < n
        BY <3>2, SizeIs
      <4> HIDE DEF n
      <4>2. k - 1 \in i .. n - 2 /\ (k - 1) + 1 = k
        BY <3>3, <3>4, <4>1, JsonValueAssumption
      <4> QED BY <4>2 DEF n
    <3>6. w \in DOMAIN ElementAt(t, k) /\ ElementAt(t, k)[w][f] = t[q][f]
      BY <2>1, <3>2, ElementIs
    <3> HIDE DEF j
    <3>7. Moved(t, i, At(j) \o w, j, w)
      BY <3>5, <3>6 DEF Moved
    <3>8. At(j) \o w \in DOMAIN s /\ s[At(j) \o w] = ElementAt(t, k)[w]
      BY <1>1, <3>5, <3>7 DEF ShiftOf
    <3> QED BY <2>1, <3>6, <3>8, HeldIs
  <2> QED BY <2>2, <2>3
<1> QED BY <1>6, <1>7, <1>8 DEF s

-----------------------------------------------------------------------------
(* A comment is set: the one there was is released.                        *)
LEMMA CommentTree ==
  ASSUME NEW t, Tree(t), Once(t), NEW p \in DOMAIN t, NEW x \in Buffers \cup {0}, x \notin Held(t)
  PROVE  LET c == [t EXCEPT ![p].comment = x]
         IN  /\ Tree(c) /\ Once(c)
             /\ Held(c) = (Held(t) \ {t[p].comment}) \cup ({x} \ {0})
             /\ {t[p].comment} \subseteq Held(t) \cup {0}
<1> DEFINE c == [t EXCEPT ![p].comment = x]
<1>1. /\ c = [q \in DOMAIN t |-> c[q]] /\ DOMAIN c = DOMAIN t
      /\ \A q \in DOMAIN t : q # p => c[q] = t[q]
      /\ c[p] = [t[p] EXCEPT !.comment = x]
  OBVIOUS
<1> HIDE DEF c
<1>2. t[p] \in Nodes /\ t[p].comment = t[p]["comment"] /\ "comment" \in Fields
  BY NodeFields DEF Tree, Fields
<1>3. /\ c[p] \in Nodes /\ c[p].type = t[p].type /\ c[p].text = t[p].text /\ c[p].key = t[p].key
      /\ \A f \in Fields : c[p][f] = IF f = "comment" THEN x ELSE t[p][f]
  <2> DEFINE r == t[p]  s == [r EXCEPT !.comment = x]
  <2>1. c[p] = s /\ r \in Nodes
    BY <1>1, <1>2
  <2>2. /\ s \in Nodes /\ s.type = r.type /\ s.text = r.text /\ s.key = r.key
        /\ \A f \in Fields : s[f] = IF f = "comment" THEN x ELSE r[f]
    <3> HIDE DEF r
    <3> QED BY <2>1, CommentSet
  <2> HIDE DEF s
  <2> QED BY <2>1, <2>2
<1>4. \A q \in DOMAIN t :
        /\ c[q] \in Nodes /\ c[q].type = t[q].type /\ c[q].text = t[q].text /\ c[q].key = t[q].key
        /\ \A f \in Fields : c[q][f] = IF q = p /\ f = "comment" THEN x ELSE t[q][f]
  BY <1>1, <1>3 DEF Tree
<1>5. Tree(c)
  <2>1. c \in [DOMAIN c -> Nodes]
    BY <1>1, <1>4
  <2>2. /\ <<>> \in DOMAIN c /\ c[<<>>].key = 0 /\ DOMAIN c \subseteq Path
        /\ \A q \in DOMAIN c : q # <<>> => (q[Len(q)][1] = "index" => c[q].key = 0)
        /\ \A q \in DOMAIN c : c[q].type # "string" => c[q].text = 0
    BY <1>1, <1>4 DEF Tree
  <2>3. \A a \in DOMAIN c, q \in Path : Starts(q, a) /\ Len(q) < Len(a) =>
          q \in DOMAIN c /\ c[q].type = Holder(a[Len(q) + 1])
    BY <1>1, <1>4 DEF Tree
  <2> QED BY <2>1, <2>2, <2>3 DEF Tree
<1>6. Once(c)
  <2> SUFFICES ASSUME NEW q \in DOMAIN t, NEW r \in DOMAIN t, NEW f \in Fields, NEW h \in Fields,
                      c[q][f] # 0, c[q][f] = c[r][h]
               PROVE  q = r /\ f = h
    BY <1>1 DEF Once
  <2>1. CASE q = p /\ f = "comment"
    <3>1. ASSUME ~(r = p /\ h = "comment") PROVE x \in Held(t)
      BY <1>4, <2>1, <3>1, HeldIs
    <3> QED BY <2>1, <3>1
  <2>2. CASE ~(q = p /\ f = "comment") /\ r = p /\ h = "comment"
    <3>1. x \in Held(t)
      BY <1>4, <2>2, HeldIs
    <3> QED BY <3>1
  <2>3. CASE ~(q = p /\ f = "comment") /\ ~(r = p /\ h = "comment")
    <3>1. t[q][f] # 0 /\ t[q][f] = t[r][h]
      BY <1>4, <2>3
    <3> QED BY <3>1 DEF Once
  <2> QED BY <2>1, <2>2, <2>3
<1>7. ASSUME NEW b PROVE b \in Held(c) <=> b \in (Held(t) \ {t[p].comment}) \cup ({x} \ {0})
  <2>1. ASSUME b \in Held(c) PROVE b \in (Held(t) \ {t[p].comment}) \cup ({x} \ {0})
    <3>1. PICK q \in DOMAIN t, f \in Fields : b # 0 /\ c[q][f] = b
      BY <1>1, <2>1, HeldIs
    <3>2. CASE q = p /\ f = "comment"
      BY <1>4, <3>1, <3>2
    <3>3. CASE ~(q = p /\ f = "comment")
      <4>1. t[q][f] = b /\ b \in Held(t)
        BY <1>4, <3>1, <3>3, HeldIs
      <4>2. b # t[p]["comment"]
        BY <1>2, <3>1, <3>3, <4>1 DEF Once
      <4> QED BY <1>2, <4>1, <4>2
    <3> QED BY <3>2, <3>3
  <2>2. ASSUME b \in Held(t), b # t[p].comment PROVE b \in Held(c)
    <3>1. PICK q \in DOMAIN t, f \in Fields : b # 0 /\ t[q][f] = b
      BY <2>2, HeldIs
    <3>2. ~(q = p /\ f = "comment")
      BY <1>2, <2>2, <3>1
    <3> QED BY <1>1, <1>4, <3>1, <3>2, HeldIs
  <2>3. ASSUME b = x, x # 0 PROVE b \in Held(c)
    <3>1. c[p]["comment"] = b /\ p \in DOMAIN c
      BY <1>1, <1>2, <1>4, <2>3
    <3> QED BY <1>2, <2>3, <3>1, HeldIs
  <2> QED BY <2>1, <2>2, <2>3
<1>8. t[p].comment # 0 => t[p].comment \in Held(t)
  BY <1>2, HeldIs
<1> QED BY <1>5, <1>6, <1>7, <1>8 DEF c

(* All of a value is held at its root, which has no name.                  *)
LEMMA RootHolds ==
  ASSUME NEW t, Tree(t)
  PROVE  HeldAt(t, <<>>) = Held(t)
<1>1. t[<<>>] \in Nodes /\ t[<<>>].key = 0 /\ <<>> \in DOMAIN t
  BY DEF Tree
<1>2. t[<<>>]["key"] = 0
  BY <1>1, NodeFields
<1>3. ASSUME NEW b, b \in Held(t) PROVE b \in HeldAt(t, <<>>)
  <2>1. PICK q \in DOMAIN t, f \in Fields : b # 0 /\ t[q][f] = b
    BY <1>3, HeldIs
  <2>2. Inside(t, <<>>, q, f)
    BY <1>2, <2>1, Root DEF Inside, Tree
  <2> QED BY <1>1, <2>1, <2>2, HeldAtIs
<1> QED BY <1>1, <1>3, HeldAtIs

-----------------------------------------------------------------------------
(* THE INVARIANT.  The Values of the program are trees that hold no buffer *)
(* twice, no two of them hold the same, and what is allocated is what they *)
(* hold.                                                                   *)
Owned(vs, hp) ==
  /\ DOMAIN vs = Variables /\ hp \subseteq Buffers
  /\ \A v \in Variables : Tree(vs[v]) /\ Once(vs[v])
  /\ \A v, w \in Variables : v # w => Held(vs[v]) \cap Held(vs[w]) = {}
  /\ \A b : b \in hp <=> \E v \in Variables : b \in Held(vs[v])
OwnedInv == Owned(values, heap) /\ thrown \in BOOLEAN

(* Two Values (or one) are changed: what they lose is released, and what   *)
(* they gain was free.                                                     *)
Change(vs, hp, v, w, new, R, A) ==
  /\ DOMAIN new = Variables /\ \A x \in Variables : x # v /\ x # w => new[x] = vs[x]
  /\ Tree(new[v]) /\ Once(new[v]) /\ Tree(new[w]) /\ Once(new[w])
  /\ v # w => Held(new[v]) \cap Held(new[w]) = {}
  /\ A \subseteq Buffers \ hp /\ R \subseteq Held(vs[v]) \cup Held(vs[w]) \cup {0}
  /\ Held(new[v]) \cup Held(new[w]) = ((Held(vs[v]) \cup Held(vs[w])) \ R) \cup A

(* Such a change keeps the invariant.                                      *)
LEMMA Changed ==
  ASSUME NEW vs, NEW hp, NEW v \in Variables, NEW w \in Variables,
         NEW new, NEW R, NEW A, Owned(vs, hp), Change(vs, hp, v, w, new, R, A)
  PROVE  Owned(new, (hp \ R) \cup A)
<1>0. /\ DOMAIN new = Variables /\ \A x \in Variables : x # v /\ x # w => new[x] = vs[x]
      /\ Tree(new[v]) /\ Once(new[v]) /\ Tree(new[w]) /\ Once(new[w])
      /\ v # w => Held(new[v]) \cap Held(new[w]) = {}
      /\ A \subseteq Buffers \ hp /\ R \subseteq Held(vs[v]) \cup Held(vs[w]) \cup {0}
      /\ Held(new[v]) \cup Held(new[w]) = ((Held(vs[v]) \cup Held(vs[w])) \ R) \cup A
  BY DEF Change
<1> DEFINE H(x) == Held(vs[x])  G(x) == Held(new[x])
<1>1. \A x \in Variables : x # v /\ x # w => G(x) = H(x)
  BY <1>0
<1>2. \A x, y \in Variables : x # y => H(x) \cap H(y) = {}
  BY DEF Owned
<1>3. \A b : b \in hp <=> \E x \in Variables : b \in H(x)
  BY DEF Owned
<1>4. G(v) \cup G(w) = ((H(v) \cup H(w)) \ R) \cup A
  BY <1>0
<1>5. v # w => G(v) \cap G(w) = {}
  BY <1>0
<1>6. \A x \in Variables : 0 \notin H(x)
  BY HeldIs
<1>7. R \subseteq H(v) \cup H(w) \cup {0} /\ A \subseteq Buffers \ hp
  BY <1>0
<1>8. \A x \in Variables : Tree(new[x]) /\ Once(new[x])
  BY <1>0 DEF Owned
<1> HIDE DEF H, G
<1>9. ASSUME NEW x \in Variables, x # v, x # w PROVE G(x) \cap (G(v) \cup G(w)) = {}
  <2>1. H(x) \cap H(v) = {} /\ H(x) \cap H(w) = {}
    BY <1>2, <1>9
  <2>2. H(x) \cap A = {}
    BY <1>3, <1>7
  <2> QED BY <1>1, <1>4, <1>9, <2>1, <2>2
<1>10. ASSUME NEW x \in Variables, NEW y \in Variables, x # y PROVE G(x) \cap G(y) = {}
  <2>1. CASE x \in {v, w} /\ y \in {v, w}
    BY <1>5, <1>10, <2>1
  <2>2. CASE x \notin {v, w} /\ y \in {v, w}
    BY <1>9, <2>2
  <2>3. CASE x \in {v, w} /\ y \notin {v, w}
    BY <1>9, <2>3
  <2>4. CASE x \notin {v, w} /\ y \notin {v, w}
    BY <1>1, <1>2, <1>10, <2>4
  <2> QED BY <2>1, <2>2, <2>3, <2>4
<1>11. ASSUME NEW b PROVE b \in (hp \ R) \cup A <=> \E x \in Variables : b \in G(x)
  <2>1. ASSUME b \in hp, b \notin R PROVE \E x \in Variables : b \in G(x)
    <3>1. PICK x \in Variables : b \in H(x)
      BY <1>3, <2>1
    <3>2. CASE x \in {v, w}
      BY <1>4, <2>1, <3>1, <3>2
    <3>3. CASE x \notin {v, w}
      BY <1>1, <3>1, <3>3
    <3> QED BY <3>2, <3>3
  <2>2. ASSUME b \in A PROVE \E x \in Variables : b \in G(x)
    BY <1>4, <2>2
  <2>3. ASSUME NEW x \in Variables, b \in G(x) PROVE b \in (hp \ R) \cup A
    <3>1. CASE x \in {v, w}
      BY <1>3, <1>4, <1>7, <2>3, <3>1
    <3>2. CASE x \notin {v, w}
      <4>1. b \in H(x) /\ b \in hp /\ b # 0
        BY <1>1, <1>3, <1>6, <2>3, <3>2
      <4>2. b \notin H(v) /\ b \notin H(w)
        BY <1>2, <3>2, <4>1
      <4> QED BY <1>7, <4>1, <4>2
    <3> QED BY <3>1, <3>2
  <2> QED BY <2>1, <2>2, <2>3
<1>12. (hp \ R) \cup A \subseteq Buffers
  BY <1>7 DEF Owned
<1> QED BY <1>0, <1>8, <1>10, <1>11, <1>12 DEF Owned, G

(* The same for one Value.                                                 *)
LEMMA OneChanged ==
  ASSUME NEW vs, NEW hp, Owned(vs, hp), NEW v \in Variables, NEW n, NEW R, NEW A,
         Tree(n), Once(n), A \subseteq Buffers \ hp, R \subseteq Held(vs[v]) \cup {0},
         Held(n) = (Held(vs[v]) \ R) \cup A
  PROVE  Owned([vs EXCEPT ![v] = n], (hp \ R) \cup A)
<1> DEFINE new == [vs EXCEPT ![v] = n]
<1>1. DOMAIN new = Variables /\ new[v] = n /\ \A x \in Variables : x # v => new[x] = vs[x]
  BY DEF Owned
<1> HIDE DEF new
<1>2. Change(vs, hp, v, v, new, R, A)
  BY <1>1 DEF Change
<1>3. Owned(new, (hp \ R) \cup A)
  BY <1>2, Changed
<1> QED BY <1>3 DEF new

(* A buffer that is allocated was free.                                    *)
LEMMA FreshIs ==
  ASSUME Owned(values, heap), heap # Buffers
  PROVE  /\ Fresh \in Buffers \ heap /\ Fresh # 0
         /\ \A v \in Variables : Fresh \notin Held(values[v])
<1>1. \E b : b \in Buffers \ heap
  BY DEF Owned
<1>2. Fresh \in Buffers \ heap
  BY <1>1 DEF Fresh
<1> QED BY <1>2, JsonValueAssumption DEF Owned

-----------------------------------------------------------------------------
(* What each operation keeps.                                              *)
LEMMA PutKeeps ==
  ASSUME OwnedInv, NEW v \in Variables, NEW p \in DOMAIN values[v], NEW u, Tree(u), Once(u),
         Held(u) \subseteq Buffers \ heap, Put(v, p, u)
  PROVE  OwnedInv'
<1> DEFINE t == values[v]  g == Graft(t, p, u)
<1>1. Owned(values, heap) /\ Tree(t) /\ Once(t) /\ p \in DOMAIN t
  BY DEF OwnedInv, Owned
<1>2. Held(t) \cap Held(u) = {}
  BY <1>1 DEF Owned
<1>3. v \in DOMAIN values
  BY <1>1 DEF Owned
<1>4. /\ values' = [values EXCEPT ![v] = g] /\ heap' = (heap \ HeldAt(t, p)) \cup Held(u)
      /\ thrown' = FALSE
  BY <1>3 DEF Put, Become
<1> HIDE DEF t
<1>5. Tree(g) /\ Once(g) /\ Held(g) = (Held(t) \ HeldAt(t, p)) \cup Held(u)
  BY <1>1, <1>2, GraftTree, GraftHeld
<1>6. HeldAt(t, p) \subseteq Held(t)
  BY <1>1, HeldAtIs
<1> HIDE DEF g
<1>7. Owned([values EXCEPT ![v] = g], (heap \ HeldAt(t, p)) \cup Held(u))
  BY <1>1, <1>5, <1>6, OneChanged DEF t
<1> QED BY <1>4, <1>7 DEF OwnedInv

(* operator= from a text, a static text or a value of any variable.        *)
LEMMA AssignKeeps ==
  ASSUME OwnedInv, NEW v \in Variables, NEW p \in DOMAIN values[v],
         \/ AssignText(v, p) \/ AssignStatic(v, p)
         \/ \E w \in Variables : \E q \in DOMAIN values[w] : Assign(v, p, w, q)
  PROVE  OwnedInv'
<1>0. Owned(values, heap)
  BY DEF OwnedInv
<1>1. CASE AssignText(v, p)
  <2> DEFINE u == Leaf("string", Fresh)
  <2>1. heap # Buffers /\ Put(v, p, u)
    BY <1>1 DEF AssignText
  <2>2. Fresh \in Buffers \ heap
    BY <1>0, <2>1, FreshIs
  <2>3. Tree(u) /\ Once(u) /\ Held(u) = {Fresh} \ {0}
    BY <2>2, LeafTree DEF Types
  <2> HIDE DEF u
  <2>4. Held(u) \subseteq Buffers \ heap
    BY <2>2, <2>3
  <2> QED BY <2>1, <2>3, <2>4, PutKeeps
<1>2. CASE AssignStatic(v, p)
  <2> DEFINE u == Leaf("string", 0)
  <2>1. Tree(u) /\ Once(u) /\ Held(u) = {}
    BY LeafTree DEF Types
  <2>2. Put(v, p, u)
    BY <1>2 DEF AssignStatic
  <2> HIDE DEF u
  <2> QED BY <2>1, <2>2, PutKeeps
<1>3. ASSUME NEW w \in Variables, NEW q \in DOMAIN values[w], Assign(v, p, w, q)
      PROVE  OwnedInv'
  <2> DEFINE s == Subtree(values[w], q)  u == Copy(s)
  <2>1. Fits(s) /\ Put(v, p, u)
    BY <1>3 DEF Assign
  <2>2. Tree(s)
    BY <1>0, SubtreeTree DEF Owned
  <2> HIDE DEF s
  <2>3. Tree(u) /\ Once(u) /\ Held(u) \subseteq Buffers \ heap
    BY <2>1, <2>2, CopyTree
  <2> HIDE DEF u
  <2> QED BY <2>1, <2>3, PutKeeps
<1> QED BY <1>1, <1>2, <1>3

(* setComment.                                                             *)
LEMMA CommentKeeps ==
  ASSUME OwnedInv, NEW v \in Variables, NEW p \in DOMAIN values[v], SetComment(v, p)
  PROVE  OwnedInv'
<1> DEFINE t == values[v]  n == [t EXCEPT ![p].comment = Fresh]  R == {t[p].comment}  A == {Fresh}
<1>1. Owned(values, heap) /\ Tree(t) /\ Once(t) /\ p \in DOMAIN t /\ v \in DOMAIN values
  BY DEF OwnedInv, Owned
<1>2. heap # Buffers
  BY DEF SetComment
<1>3. Fresh \in Buffers \ heap /\ Fresh # 0 /\ Fresh \notin Held(t)
  BY <1>1, <1>2, FreshIs
<1>4. values' = [values EXCEPT ![v] = n] /\ heap' = (heap \ R) \cup A /\ thrown' = FALSE
  BY <1>1 DEF SetComment, Become
<1>5. Tree(n) /\ Once(n) /\ Held(n) = (Held(t) \ R) \cup A /\ R \subseteq Held(t) \cup {0}
  <2> DEFINE x == Fresh
  <2>1. x \in Buffers \cup {0} /\ x \notin Held(t) /\ A = {x} \ {0}
    BY <1>3
  <2> HIDE DEF t, x
  <2>2. LET c == [t EXCEPT ![p].comment = x]
        IN  /\ Tree(c) /\ Once(c)
            /\ Held(c) = (Held(t) \ {t[p].comment}) \cup ({x} \ {0})
            /\ {t[p].comment} \subseteq Held(t) \cup {0}
    BY <1>1, <2>1, CommentTree
  <2>3. n = [t EXCEPT ![p].comment = x]
    BY DEF x
  <2> HIDE DEF n, A
  <2> QED BY <2>1, <2>2, <2>3
<1>6. A \subseteq Buffers \ heap
  BY <1>3
<1> HIDE DEF n, R, A
<1>7. Owned([values EXCEPT ![v] = n], (heap \ R) \cup A)
  BY <1>1, <1>5, <1>6, OneChanged
<1> QED BY <1>4, <1>7 DEF OwnedInv

(* An operation that throws has changed nothing.                           *)
LEMMA ThrowKeeps == ASSUME OwnedInv, Throw PROVE OwnedInv'
BY DEF OwnedInv, Throw

(* operator[] and resolveReference, of a member or of an element.          *)
LEMMA ResolveKeeps ==
  ASSUME OwnedInv, NEW v \in Variables, NEW p \in DOMAIN values[v],
         NEW type \in {"object", "array"}, NEW key \in Keys, NEW static \in BOOLEAN,
         Holder(key) = type, Resolve(v, p, type, key, static)
  PROVE  OwnedInv'
<1> DEFINE t == As(values[v], p, type)
           q == Append(p, key)
           fresh == key[1] = "name" /\ ~static /\ q \notin DOMAIN t
           b == IF fresh THEN Fresh ELSE 0
           n == IF q \in DOMAIN t THEN t ELSE Insert(t, q, b)
           R == LostComment(values[v], p)
           A == {b} \ {0}
<1>1. CASE Throw
  BY <1>1, ThrowKeeps
<1>2. ASSUME values[v][p].type \in {"null", type}, fresh => heap # Buffers,
             values' = [values EXCEPT ![v] = n], heap' = (heap \ R) \cup A, thrown' = FALSE
      PROVE  OwnedInv'
  <2>1. Owned(values, heap) /\ Tree(values[v]) /\ Once(values[v])
    BY DEF OwnedInv, Owned
  <2>2. /\ Tree(t) /\ Once(t) /\ p \in DOMAIN t /\ t[p].type = type
        /\ Held(t) = Held(values[v]) \ R /\ R \subseteq Held(values[v]) \cup {0}
    BY <1>2, <2>1, AsTree
  <2> HIDE DEF t, R
  <2>3. fresh => Fresh \in Buffers \ heap /\ Fresh # 0 /\ Fresh \notin Held(values[v])
    BY <1>2, <2>1, FreshIs
  <2>4. key[1] = "index" => ~fresh
    OBVIOUS
  <2>5. q \in DOMAIN t => ~fresh
    OBVIOUS
  <2> HIDE DEF fresh, q
  <2>6. 0 \notin Held(t)
    BY HeldIs
  <2>7. /\ b \in Buffers \cup {0} /\ b \notin Held(t) /\ A \subseteq Buffers \ heap
        /\ key[1] = "index" => b = 0
        /\ q \in DOMAIN t => A = {}
    BY <2>2, <2>3, <2>4, <2>5, <2>6
  <2> HIDE DEF b
  <2>8. Tree(n) /\ Once(n) /\ Held(n) = Held(t) \cup A
    <3>1. CASE q \in DOMAIN t
      BY <2>2, <2>7, <3>1
    <3>2. CASE q \notin DOMAIN t
      <4>1. Tree(Insert(t, q, b)) /\ Once(Insert(t, q, b)) /\ Held(Insert(t, q, b)) = Held(t) \cup A
        BY <2>2, <2>7, <3>2, InsertTree DEF q
      <4> QED BY <3>2, <4>1
    <3> QED BY <3>1, <3>2
  <2> HIDE DEF n, A
  <2>9. Owned([values EXCEPT ![v] = n], (heap \ R) \cup A)
    BY <2>1, <2>2, <2>7, <2>8, OneChanged
  <2> QED BY <1>2, <2>9 DEF OwnedInv
<1> QED
  <2>1. Throw \/ (/\ values[v][p].type \in {"null", type} /\ (fresh => heap # Buffers)
                  /\ values' = [values EXCEPT ![v] = n] /\ heap' = (heap \ R) \cup A
                  /\ thrown' = FALSE)
    BY DEF Resolve, Become, Type
  <2> QED BY <1>1, <1>2, <2>1

(* Either of them.                                                         *)
LEMMA NamedKeeps ==
  ASSUME OwnedInv, NEW v \in Variables, NEW p \in DOMAIN values[v],
         \/ \E n \in Names, static \in BOOLEAN : Member(v, p, n, static)
         \/ \E i \in 0 .. MaxIndex : Element(v, p, i)
  PROVE  OwnedInv'
<1>1. ASSUME NEW n \in Names, NEW static \in BOOLEAN, Member(v, p, n, static) PROVE OwnedInv'
  <2>1. <<"name", n>> \in Keys /\ Holder(<<"name", n>>) = "object"
    BY DEF Keys, Holder
  <2> QED BY <1>1, <2>1, ResolveKeeps DEF Member
<1>2. ASSUME NEW i \in 0 .. MaxIndex, Element(v, p, i) PROVE OwnedInv'
  <2>1. Index(i) \in Keys /\ Holder(Index(i)) = "array"
    BY DEF Keys, Holder, Index
  <2> QED BY <1>2, <2>1, ResolveKeeps DEF Element
<1> QED BY <1>1, <1>2

(* A new element of an array holds nothing.                                *)
LEMMA ElementInserted ==
  ASSUME NEW t, Tree(t), Once(t), t[<<>>].type = "array", NEW m \in 0 .. MaxIndex,
         At(m) \notin DOMAIN t
  PROVE  /\ Tree(Insert(t, At(m), 0)) /\ Once(Insert(t, At(m), 0))
         /\ At(m) \in DOMAIN Insert(t, At(m), 0)
         /\ Held(Insert(t, At(m), 0)) = Held(t) /\ HeldAt(Insert(t, At(m), 0), At(m)) = {}
<1> DEFINE r == <<>>  k == Index(m)  c == Append(r, k)  x == 0
<1>1. c = At(m) /\ x = 0 /\ {x} \ {0} = {}
  BY DEF At
<1>2. /\ r \in DOMAIN t /\ k \in Keys /\ c \notin DOMAIN t /\ t[r].type = Holder(k)
      /\ x \in Buffers \cup {0} /\ x \notin Held(t) /\ (k[1] = "index" => x = 0)
  <2>1. r \in DOMAIN t /\ c \notin DOMAIN t /\ x \notin Held(t)
    BY <1>1, HeldIs DEF Tree
  <2>2. k \in Keys /\ Holder(k) = "array"
    BY DEF Keys, Holder, Index
  <2> QED BY <2>1, <2>2
<1> HIDE DEF r, k, x
<1>3. /\ Tree(Insert(t, c, x)) /\ c \in DOMAIN Insert(t, c, x)
      /\ Once(t) => Once(Insert(t, c, x))
      /\ Held(Insert(t, c, x)) = Held(t) \cup ({x} \ {0})
      /\ HeldAt(Insert(t, c, 0), c) = {}
  BY <1>2, InsertTree
<1> HIDE DEF c
<1> QED BY <1>1, <1>3

(* append, also of an array to itself and in either order of evaluation.   *)
LEMMA AppendKeeps ==
  ASSUME OwnedInv, NEW v \in Variables, NEW w \in Variables, AppendValue(v, w)
  PROVE  OwnedInv'
<1> DEFINE t == As(values[v], <<>>, "array")
           m == Size(t)
           q == <<Index(m)>>
           u == Insert(t, q, 0)
           R == LostComment(values[v], <<>>)
<1>1. CASE Throw
  BY <1>1, ThrowKeeps
<1>2. ASSUME values[v][<<>>].type \in {"null", "array"}, m <= MaxIndex,
             NEW source \in {values[w], u}, Fits(source),
             values' = [values EXCEPT ![v] = Graft(u, q, Copy(source))],
             heap' = (heap \ R) \cup Held(Copy(source)), thrown' = FALSE
      PROVE  OwnedInv'
  <2>1. Owned(values, heap) /\ Tree(values[v]) /\ Once(values[v]) /\ Tree(values[w])
    BY DEF OwnedInv, Owned
  <2>2. /\ Tree(t) /\ Once(t) /\ <<>> \in DOMAIN t /\ t[<<>>].type = "array"
        /\ Held(t) = Held(values[v]) \ R /\ R \subseteq Held(values[v]) \cup {0}
    <3>1. <<>> \in DOMAIN values[v]
      BY <2>1 DEF Tree
    <3> QED BY <1>2, <2>1, <3>1, AsTree
  <2> HIDE DEF t, R
  <2>3. m \in 0 .. MaxIndex + 1 /\ \A k \in Nat : At(k) \in DOMAIN t => k < m
    BY <2>2, SizeIs
  <2>4. m \in 0 .. MaxIndex /\ At(m) \notin DOMAIN t
    <3> HIDE DEF m
    <3>1. m \in 0 .. MaxIndex
      BY <1>2, <2>3, JsonValueAssumption
    <3> QED BY <2>3, <3>1
  <2>5. q = At(m)
    BY DEF At
  <2> HIDE DEF m
  <2> HIDE DEF q
  <2>8. /\ Tree(u) /\ Once(u) /\ q \in DOMAIN u /\ Held(u) = Held(t) /\ HeldAt(u, q) = {}
    BY <2>2, <2>4, <2>5, ElementInserted
  <2> DEFINE c == Copy(source)  n == Graft(u, q, c)
  <2> HIDE DEF u
  <2>9. Tree(c) /\ Once(c) /\ Held(c) \subseteq Buffers \ heap
    BY <1>2, <2>1, <2>8, CopyTree
  <2> HIDE DEF c
  <2>10. Held(values[v]) \subseteq heap
    BY <2>1 DEF Owned
  <2>11. Tree(n) /\ Once(n) /\ Held(n) = (Held(values[v]) \ R) \cup Held(c)
    <3>1. Held(u) \cap Held(c) = {}
      BY <2>2, <2>8, <2>9, <2>10
    <3>2. Tree(n) /\ Once(n) /\ Held(n) = (Held(u) \ HeldAt(u, q)) \cup Held(c)
      BY <2>8, <2>9, <3>1, GraftTree, GraftHeld
    <3> QED BY <2>2, <2>8, <3>2
  <2> HIDE DEF n
  <2>12. Owned([values EXCEPT ![v] = n], (heap \ R) \cup Held(c))
    BY <2>1, <2>2, <2>9, <2>11, OneChanged
  <2> QED BY <1>2, <2>12 DEF OwnedInv, n, c
<1> QED
  <2>1. \/ Throw
        \/ /\ values[v][<<>>].type \in {"null", "array"} /\ m <= MaxIndex
           /\ \E source \in {values[w], u} :
                /\ Fits(source)
                /\ values' = [values EXCEPT ![v] = Graft(u, q, Copy(source))]
                /\ heap' = (heap \ R) \cup Held(Copy(source)) /\ thrown' = FALSE
    BY DEF AppendValue, Become, Type
  <2> HIDE DEF u, q, m, R
  <2> QED BY <1>1, <1>2, <2>1

(* One is taken out of a Value, and a copy of it put in another.           *)
LEMMA MoveKeeps ==
  ASSUME OwnedInv, NEW v \in Variables, NEW w \in Variables, v # w, NEW s, NEW n, NEW R,
         Tree(s), Fits(s), Tree(n), Once(n),
         Held(n) = Held(values[v]) \ R, R \subseteq Held(values[v]),
         Become([values EXCEPT ![v] = n, ![w] = Copy(s)], R \cup HeldAt(values[w], <<>>),
                Held(Copy(s)))
  PROVE  OwnedInv'
<1> DEFINE c == Copy(s)  new == [values EXCEPT ![v] = n, ![w] = c]
           Q == R \cup HeldAt(values[w], <<>>)  A == Held(c)
<1>1. /\ Owned(values, heap) /\ Tree(values[v]) /\ Tree(values[w])
      /\ Held(values[v]) \cap Held(values[w]) = {} /\ Held(values[v]) \subseteq heap
  BY DEF OwnedInv, Owned
<1>2. Tree(c) /\ Once(c) /\ Held(c) \subseteq Buffers \ heap
  BY CopyTree
<1>3. values' = new /\ heap' = (heap \ Q) \cup A /\ thrown' = FALSE
  BY DEF Become
<1> HIDE DEF c
<1>4. /\ DOMAIN new = Variables /\ new[v] = n /\ new[w] = c
      /\ \A x \in Variables : x # v /\ x # w => new[x] = values[x]
  BY <1>1 DEF Owned
<1> HIDE DEF new
<1>5. HeldAt(values[w], <<>>) = Held(values[w])
  BY <1>1, RootHolds
<1>6. Q \subseteq Held(values[v]) \cup Held(values[w]) \cup {0} /\ Q = R \cup Held(values[w])
  BY <1>5
<1> HIDE DEF Q
<1>7. Held(n) \cap Held(c) = {} /\ A \subseteq Buffers \ heap
  BY <1>1, <1>2
<1>8. Held(n) \cup Held(c) = ((Held(values[v]) \cup Held(values[w])) \ Q) \cup A
  BY <1>1, <1>6
<1> HIDE DEF A
<1>9. Owned(new, (heap \ Q) \cup A)
  <2>1. Tree(new[v]) /\ Once(new[v]) /\ Tree(new[w]) /\ Once(new[w])
    BY <1>2, <1>4
  <2>2. /\ v # w => Held(new[v]) \cap Held(new[w]) = {}
        /\ Held(new[v]) \cup Held(new[w]) = ((Held(values[v]) \cup Held(values[w])) \ Q) \cup A
    BY <1>4, <1>7, <1>8
  <2>3. Change(values, heap, v, w, new, Q, A)
    BY <1>4, <1>6, <1>7, <2>1, <2>2 DEF Change
  <2> QED BY <1>1, <2>3, Changed
<1> QED BY <1>3, <1>9 DEF OwnedInv

(* removeMember and removeIndex.                                           *)
LEMMA RemoveKeeps ==
  ASSUME OwnedInv, NEW v \in Variables, NEW w \in Variables,
         \/ \E n \in Names : RemoveMember(v, n, w)
         \/ \E i \in 0 .. MaxIndex : RemoveIndex(v, i, w)
  PROVE  OwnedInv'
<1> DEFINE t == values[v]
<1>0. Tree(t) /\ Once(t)
  BY DEF OwnedInv, Owned
<1>1. ASSUME NEW n \in Names, RemoveMember(v, n, w) PROVE OwnedInv'
  <2> DEFINE q == <<<<"name", n>>>>  s == Subtree(t, q)  e == Erase(t, q)  R == Released(t, q)
  <2>1. /\ v # w /\ q \in DOMAIN t /\ Fits(s)
        /\ Become([values EXCEPT ![v] = e, ![w] = Copy(s)], R \cup HeldAt(values[w], <<>>),
                  Held(Copy(s)))
    BY <1>1 DEF RemoveMember
  <2>2. q # <<>>
    OBVIOUS
  <2> HIDE DEF q
  <2>3. Tree(s)
    BY <1>0, <2>1, SubtreeTree
  <2>4. Tree(e) /\ Once(e) /\ Held(e) = Held(t) \ R
    <3> DEFINE Z == {q}
    <3>1. Z \in SUBSET (DOMAIN t \ {<<>>}) /\ UNION {Released(t, p) : p \in Z} = R
      BY <2>1, <2>2
    <3>2. e = EraseAll(t, Z)
      BY EraseIs
    <3> HIDE DEF e, Z, R
    <3>3. /\ Tree(EraseAll(t, Z)) /\ Once(EraseAll(t, Z))
          /\ Held(EraseAll(t, Z)) = Held(t) \ UNION {Released(t, p) : p \in Z}
      BY <1>0, <3>1, EraseTree
    <3> QED BY <3>1, <3>2, <3>3
  <2>5. R \subseteq Held(t)
    BY <1>0, <2>1, ReleasedIs, HeldIs
  <2> HIDE DEF s, e, R
  <2> QED BY <2>1, <2>3, <2>4, <2>5, MoveKeeps
<1>2. ASSUME NEW i \in 0 .. MaxIndex, RemoveIndex(v, i, w) PROVE OwnedInv'
  <2> DEFINE q == At(i)  s == Subtree(t, q)  e == Shifted(t, i)  R == HeldAt(t, q)
  <2>1. /\ v # w /\ q \in DOMAIN t /\ Fits(s) /\ t[<<>>].type = "array"
        /\ Become([values EXCEPT ![v] = e, ![w] = Copy(s)], R \cup HeldAt(values[w], <<>>),
                  Held(Copy(s)))
    BY <1>2 DEF RemoveIndex, At
  <2>2. Tree(s)
    BY <1>0, <2>1, SubtreeTree
  <2>3. Tree(e) /\ Once(e) /\ Held(e) = Held(t) \ R
    BY <1>0, <2>1, ShiftTree, ShiftHeld
  <2>4. R \subseteq Held(t)
    BY <1>0, <2>1, HeldAtIs
  <2> HIDE DEF s, e, R
  <2> QED BY <2>1, <2>2, <2>3, <2>4, MoveKeeps
<1> QED BY <1>1, <1>2

(* The members or elements of a value are below it.                        *)
LEMMA ChildrenIs ==
  ASSUME NEW t, Tree(t)
  PROVE  Children(t, <<>>) \subseteq DOMAIN t \ {<<>>}
BY Root DEF Children

(* resize, whether its assertion holds or not.                             *)
LEMMA ResizeKeeps ==
  ASSUME OwnedInv, NEW v \in Variables, NEW n \in 0 .. MaxIndex + 1, Resize(v, n)
  PROVE  OwnedInv'
<1> DEFINE t    == As(values[v], <<>>, "array")
           last == <<Index(n - 1)>>
           gone == {p \in Children(t, <<>>) : p[1][2] >= n}
           lost == LostComment(values[v], <<>>)
           more == UNION {Released(t, p) : p \in gone}
           u    == Insert(t, last, 0)
           e    == EraseAll(t, gone)
<1>1. Owned(values, heap) /\ Tree(values[v]) /\ Once(values[v])
  BY DEF OwnedInv, Owned
<1>2. CASE Throw
  BY <1>2, ThrowKeeps
<1>3. ASSUME values[v][<<>>].type \in {"null", "array"}
      PROVE  /\ Tree(t) /\ Once(t) /\ t[<<>>].type = "array"
             /\ Held(t) = Held(values[v]) \ lost /\ lost \subseteq Held(values[v]) \cup {0}
  <2>1. <<>> \in DOMAIN values[v]
    BY <1>1 DEF Tree
  <2> QED BY <1>1, <1>3, <2>1, AsTree
<1>4. ASSUME values[v][<<>>].type \in {"null", "array"}, n > Size(t),
             values' = [values EXCEPT ![v] = u], heap' = heap \ lost, thrown' = FALSE
      PROVE  OwnedInv'
  <2> DEFINE m == Size(t)  i == n - 1
  <2>1. m \in 0 .. MaxIndex + 1 /\ \A k \in Nat : At(k) \in DOMAIN t => k < m
    BY <1>3, <1>4, SizeIs
  <2>2. n > m
    BY <1>4
  <2>3. last = At(i)
    BY DEF At
  <2> HIDE DEF m, last
  <2>4. i \in 0 .. MaxIndex /\ ~(i < m)
    BY <2>1, <2>2, JsonValueAssumption
  <2> HIDE DEF i
  <2>5. At(i) \notin DOMAIN t
    BY <2>1, <2>4
  <2> HIDE DEF t, lost
  <2>6. Tree(u) /\ Once(u) /\ Held(u) = Held(t)
    BY <1>3, <1>4, <2>3, <2>4, <2>5, ElementInserted
  <2> HIDE DEF u
  <2>7. Owned([values EXCEPT ![v] = u], (heap \ lost) \cup {})
    <3> DEFINE A == {}
    <3>1. A \subseteq Buffers \ heap /\ Held(u) = (Held(values[v]) \ lost) \cup A
      BY <1>3, <1>4, <2>6
    <3> HIDE DEF A
    <3>2. Owned([values EXCEPT ![v] = u], (heap \ lost) \cup A)
      BY <1>1, <1>3, <1>4, <2>6, <3>1, OneChanged
    <3> QED BY <3>2 DEF A
  <2>8. (heap \ lost) \cup {} = heap \ lost
    OBVIOUS
  <2> QED BY <1>4, <2>7, <2>8 DEF OwnedInv
<1>5. ASSUME values[v][<<>>].type \in {"null", "array"},
             values' = [values EXCEPT ![v] = e], heap' = heap \ (lost \cup more),
             thrown' = (Size(e) # n)
      PROVE  OwnedInv'
  <2>1. Tree(t) /\ Once(t) /\ Held(t) = Held(values[v]) \ lost
        /\ lost \subseteq Held(values[v]) \cup {0}
    BY <1>3, <1>5
  <2> HIDE DEF t, lost
  <2>2. gone \in SUBSET (DOMAIN t \ {<<>>})
    BY <2>1, ChildrenIs
  <2>3. \A p \in gone : Released(t, p) \subseteq Held(t)
    BY <2>1, <2>2, ReleasedIs, HeldIs
  <2> HIDE DEF gone
  <2>4. Tree(e) /\ Once(e) /\ Held(e) = Held(t) \ more
    BY <2>1, <2>2, EraseTree
  <2>5. more \subseteq Held(t)
    BY <2>3
  <2>6. thrown' \in BOOLEAN
    BY <1>5
  <2> HIDE DEF e, more
  <2> DEFINE R == lost \cup more  A == {}
  <2>7. /\ A \subseteq Buffers \ heap /\ Held(e) = (Held(values[v]) \ R) \cup A
        /\ R \subseteq Held(values[v]) \cup {0} /\ heap' = (heap \ R) \cup A
    BY <1>5, <2>1, <2>4, <2>5
  <2> HIDE DEF A, R
  <2>8. Owned([values EXCEPT ![v] = e], (heap \ R) \cup A)
    BY <1>1, <2>4, <2>7, OneChanged
  <2> QED BY <1>5, <2>6, <2>7, <2>8 DEF OwnedInv
<1> QED
  <2>1. \/ Throw
        \/ /\ values[v][<<>>].type \in {"null", "array"} /\ n > Size(t)
           /\ values' = [values EXCEPT ![v] = u] /\ heap' = (heap \ lost) \cup {}
           /\ thrown' = FALSE
        \/ /\ values[v][<<>>].type \in {"null", "array"}
           /\ values' = [values EXCEPT ![v] = e] /\ heap' = heap \ (lost \cup more)
           /\ thrown' = (Size(e) # n)
    BY DEF Resize, Become, Type
  <2>2. (heap \ lost) \cup {} = heap \ lost
    OBVIOUS
  <2> HIDE DEF t, u, e, lost, more
  <2> QED BY <1>2, <1>4, <1>5, <2>1, <2>2

(* clear.                                                                  *)
LEMMA ClearKeeps ==
  ASSUME OwnedInv, NEW v \in Variables, Clear(v)
  PROVE  OwnedInv'
<1> DEFINE t == values[v]  Z == Children(t, <<>>)  e == EraseAll(t, Z)
           R == UNION {Released(t, p) : p \in Z}  A == {}
<1>1. Owned(values, heap) /\ Tree(t) /\ Once(t)
  BY DEF OwnedInv, Owned
<1>2. CASE Throw
  BY <1>2, ThrowKeeps
<1>3. ASSUME values' = [values EXCEPT ![v] = e], heap' = (heap \ R) \cup A, thrown' = FALSE
      PROVE  OwnedInv'
  <2>1. Z \in SUBSET (DOMAIN t \ {<<>>})
    BY <1>1, ChildrenIs
  <2>2. \A p \in Z : Released(t, p) \subseteq Held(t)
    BY <1>1, <2>1, ReleasedIs, HeldIs
  <2> HIDE DEF Z
  <2>3. Tree(e) /\ Once(e) /\ Held(e) = Held(t) \ R
    BY <1>1, <2>1, EraseTree
  <2>4. R \subseteq Held(t) \cup {0} /\ A \subseteq Buffers \ heap
    BY <2>2
  <2>5. Held(e) = (Held(t) \ R) \cup A
    BY <2>3
  <2> HIDE DEF e, R, A
  <2>6. Owned([values EXCEPT ![v] = e], (heap \ R) \cup A)
    BY <1>1, <2>3, <2>4, <2>5, OneChanged
  <2> QED BY <1>3, <2>6 DEF OwnedInv
<1>4. Throw \/ (values' = [values EXCEPT ![v] = e] /\ heap' = (heap \ R) \cup A /\ thrown' = FALSE)
  <2>1. v \in DOMAIN values
    BY <1>1 DEF Owned
  <2> QED BY <2>1 DEF Clear, Become
<1> HIDE DEF e, R, A
<1> QED BY <1>2, <1>3, <1>4

(* swap and swapPayload.                                                   *)
LEMMA SwapKeeps ==
  ASSUME OwnedInv, NEW v \in Variables, NEW w \in Variables, v # w,
         Swap(v, w) \/ SwapPayload(v, w)
  PROVE  OwnedInv'
<1> DEFINE t == values[v]  u == values[w]
<1>1. /\ Owned(values, heap) /\ Tree(t) /\ Once(t) /\ Tree(u) /\ Once(u) /\ Held(t) \cap Held(u) = {}
      /\ <<>> \in DOMAIN t /\ <<>> \in DOMAIN u /\ 0 \notin Held(t) /\ 0 \notin Held(u)
  BY HeldIs DEF OwnedInv, Owned, Tree
<1>2. ASSUME NEW a, NEW b, Tree(a), Once(a), Tree(b), Once(b), Held(a) \cap Held(b) = {},
             Held(a) \cup Held(b) = Held(t) \cup Held(u),
             Become([values EXCEPT ![v] = a, ![w] = b], {}, {})
      PROVE  OwnedInv'
  <2> DEFINE new == [values EXCEPT ![v] = a, ![w] = b]  R == {}  A == {}
  <2>1. values' = new /\ heap' = (heap \ R) \cup A /\ thrown' = FALSE
    BY <1>2 DEF Become
  <2>2. /\ DOMAIN new = Variables /\ new[v] = a /\ new[w] = b
        /\ \A x \in Variables : x # v /\ x # w => new[x] = values[x]
    BY <1>1 DEF Owned
  <2> HIDE DEF new
  <2>3. /\ R \subseteq Held(t) \cup Held(u) \cup {0} /\ A \subseteq Buffers \ heap
        /\ Held(new[v]) \cup Held(new[w]) = ((Held(t) \cup Held(u)) \ R) \cup A
        /\ v # w => Held(new[v]) \cap Held(new[w]) = {}
        /\ Tree(new[v]) /\ Once(new[v]) /\ Tree(new[w]) /\ Once(new[w])
    BY <1>2, <2>2
  <2> HIDE DEF R, A
  <2>4. Owned(new, (heap \ R) \cup A)
    <3>1. Change(values, heap, v, w, new, R, A)
      BY <2>2, <2>3 DEF Change
    <3> QED BY <1>1, <3>1, Changed
  <2> QED BY <2>1, <2>4 DEF OwnedInv
<1>3. CASE Swap(v, w)
  BY <1>1, <1>2, <1>3 DEF Swap
<1>4. CASE SwapPayload(v, w)
  <2> DEFINE x == t[<<>>].comment  y == u[<<>>].comment
             a == [u EXCEPT ![<<>>].comment = x]  b == [t EXCEPT ![<<>>].comment = y]
  <2>1. Become([values EXCEPT ![v] = a, ![w] = b], {}, {})
    BY <1>4 DEF SwapPayload
  <2> HIDE DEF t, u
  <2>2. /\ x \in Buffers \cup {0} /\ (x # 0 => x \in Held(t))
        /\ y \in Buffers \cup {0} /\ (y # 0 => y \in Held(u))
    <3>1. t[<<>>] \in Nodes /\ u[<<>>] \in Nodes
      BY <1>1 DEF Tree
    <3>2. /\ x = t[<<>>]["comment"] /\ y = u[<<>>]["comment"] /\ "comment" \in Fields
          /\ x \in Buffers \cup {0} /\ y \in Buffers \cup {0}
      BY <3>1, NodeFields DEF Fields
    <3> HIDE DEF x, y
    <3> QED BY <1>1, <3>2, HeldIs
  <2>3. x \notin Held(u) /\ y \notin Held(t)
    BY <1>1, <2>2
  <2>4. Tree(a) /\ Once(a) /\ Held(a) = (Held(u) \ {y}) \cup ({x} \ {0})
    <3> HIDE DEF x
    <3>1. LET c == [u EXCEPT ![<<>>].comment = x]
          IN  /\ Tree(c) /\ Once(c)
              /\ Held(c) = (Held(u) \ {u[<<>>].comment}) \cup ({x} \ {0})
      BY <1>1, <2>2, <2>3, CommentTree
    <3> QED BY <3>1
  <2>5. Tree(b) /\ Once(b) /\ Held(b) = (Held(t) \ {x}) \cup ({y} \ {0})
    <3> HIDE DEF y
    <3>1. LET c == [t EXCEPT ![<<>>].comment = y]
          IN  /\ Tree(c) /\ Once(c)
              /\ Held(c) = (Held(t) \ {t[<<>>].comment}) \cup ({y} \ {0})
      BY <1>1, <2>2, <2>3, CommentTree
    <3> QED BY <3>1
  <2> HIDE DEF x, y, a, b
  <2>6. Held(a) \cap Held(b) = {} /\ Held(a) \cup Held(b) = Held(t) \cup Held(u)
    BY <1>1, <2>2, <2>4, <2>5
  <2> QED BY <1>2, <2>1, <2>4, <2>5, <2>6
<1> QED BY <1>3, <1>4

(* Every step of a program keeps the invariant,                            *)
LEMMA OwnedStep == OwnedInv /\ [Next]_vars => OwnedInv'
<1> HAVE OwnedInv /\ [Next]_vars
<1>1. ASSUME NEW v \in Variables, NEW p \in DOMAIN values[v],
             \/ AssignText(v, p) \/ AssignStatic(v, p) \/ SetComment(v, p)
             \/ \E w \in Variables : \E q \in DOMAIN values[w] : Assign(v, p, w, q)
             \/ \E n \in Names, static \in BOOLEAN : Member(v, p, n, static)
             \/ \E i \in 0 .. MaxIndex : Element(v, p, i)
      PROVE  OwnedInv'
  BY <1>1, AssignKeeps, CommentKeeps, NamedKeeps
<1>2. ASSUME NEW v \in Variables, NEW w \in Variables,
             \/ AppendValue(v, w)
             \/ \E n \in Names : RemoveMember(v, n, w)
             \/ \E i \in 0 .. MaxIndex : RemoveIndex(v, i, w)
             \/ v # w /\ (Swap(v, w) \/ SwapPayload(v, w))
      PROVE  OwnedInv'
  BY <1>2, AppendKeeps, RemoveKeeps, SwapKeeps
<1>3. ASSUME NEW v \in Variables,
             \/ \E n \in Names : RemoveNothing(v, <<"name", n>>)
             \/ \E i \in 0 .. MaxIndex : RemoveNothing(v, Index(i))
             \/ Clear(v)
             \/ \E n \in 0 .. MaxIndex + 1 : Resize(v, n)
      PROVE  OwnedInv'
  <2>1. ASSUME NEW key, RemoveNothing(v, key) PROVE OwnedInv'
    BY <2>1 DEF RemoveNothing, OwnedInv
  <2> QED BY <1>3, <2>1, ClearKeeps, ResizeKeeps
<1>4. CASE UNCHANGED vars
  BY <1>4 DEF vars, OwnedInv
<1>5. CASE Next
  BY <1>1, <1>2, <1>3, <1>5 DEF Next
<1> QED BY <1>4, <1>5

(* it holds when all Values are null,                                      *)
LEMMA OwnedAtFirst == Init => OwnedInv
<1> HAVE Init
<1>1. Tree(NullTree) /\ Once(NullTree) /\ Held(NullTree) = {}
  BY LeafTree DEF NullTree, Types
<1>2. /\ DOMAIN values = Variables /\ \A v \in Variables : values[v] = NullTree
      /\ heap = {} /\ thrown = FALSE
  BY DEF Init
<1> QED BY <1>1, <1>2 DEF OwnedInv, Owned

(* and it says who owns each buffer.                                       *)
LEMMA OwnedIsOwned == OwnedInv => HeapIsOwned
<1> HAVE OwnedInv
<1>1. /\ DOMAIN values = Variables /\ heap \subseteq Buffers /\ thrown \in BOOLEAN
      /\ \A v \in Variables : Tree(values[v]) /\ Once(values[v])
      /\ \A v, w \in Variables : v # w => Held(values[v]) \cap Held(values[w]) = {}
      /\ \A b : b \in heap <=> \E v \in Variables : b \in Held(values[v])
  BY DEF OwnedInv, Owned
<1>2. TypeOK
  BY <1>1, TreeIs DEF TypeOK
<1>3. \A b : \A o \in Owners(b) :
        /\ o = <<o[1], o[2]>> /\ o[2] = <<o[2][1], o[2][2]>>
        /\ o[1] \in Variables /\ o[2][1] \in DOMAIN values[o[1]] /\ o[2][2] \in Fields
        /\ values[o[1]][o[2][1]][o[2][2]] # 0 /\ values[o[1]][o[2][1]][o[2][2]] = b
  BY DEF Owners, AllSlots, Slots
<1>4. ASSUME NEW b, NEW o \in Owners(b), NEW a \in Owners(b) PROVE o = a
  <2> DEFINE v == o[1]  w == a[1]  p == o[2][1]  q == a[2][1]  f == o[2][2]  g == a[2][2]
  <2>1. /\ v \in Variables /\ p \in DOMAIN values[v] /\ f \in Fields
        /\ values[v][p][f] # 0 /\ values[v][p][f] = b
        /\ w \in Variables /\ q \in DOMAIN values[w] /\ g \in Fields
        /\ values[w][q][g] = b
        /\ o = <<v, <<p, f>>>> /\ a = <<w, <<q, g>>>>
    BY <1>3
  <2> HIDE DEF v, w, p, q, f, g
  <2>2. b \in Held(values[v]) /\ b \in Held(values[w])
    BY <2>1, HeldIs
  <2>3. v = w
    BY <1>1, <2>1, <2>2
  <2>4. p = q /\ f = g
    <3>1. /\ Once(values[v]) /\ p \in DOMAIN values[v] /\ q \in DOMAIN values[v]
          /\ values[v][p][f] # 0 /\ values[v][p][f] = values[v][q][g]
      BY <1>1, <2>1, <2>3
    <3> QED BY <2>1, <3>1 DEF Once
  <2> QED BY <2>1, <2>3, <2>4
<1>5. ASSUME NEW b \in heap PROVE \E o : o \in Owners(b)
  <2>1. PICK v \in Variables : b \in Held(values[v])
    BY <1>1
  <2>2. PICK s \in Slots(values[v]) : b = values[v][s[1]][s[2]]
    BY <2>1 DEF Held
  <2>3. <<v, s>> \in Owners(b)
    BY <2>2 DEF Owners, AllSlots
  <2> QED BY <2>3
<1>6. ASSUME NEW b, NEW o \in Owners(b) PROVE b \in heap
  <2>1. b \in Held(values[o[1]]) /\ o[1] \in Variables
    BY <1>3, HeldIs
  <2> QED BY <1>1, <2>1
<1>7. ASSUME NEW b \in Buffers PROVE Cardinality(Owners(b)) = IF b \in heap THEN 1 ELSE 0
  <2>1. CASE b \in heap
    <3>1. PICK o : Owners(b) = {o}
      <4>1. PICK o : o \in Owners(b)
        BY <1>5, <2>1
      <4>2. Owners(b) = {o}
        BY <1>4, <4>1
      <4> QED BY <4>2
    <3> QED BY <2>1, <3>1, FS_Singleton
  <2>2. CASE b \notin heap
    <3>1. Owners(b) = {}
      BY <1>6, <2>2
    <3> QED BY <2>2, <3>1, FS_EmptySet
  <2> QED BY <2>1, <2>2
<1> QED BY <1>2, <1>7 DEF HeapIsOwned

LEMMA OwnedInvariance == ProgramSpec => []OwnedInv
<1>1. ProgramInit => OwnedInv
  BY OwnedAtFirst DEF ProgramInit
<1>2. OwnedInv /\ [ProgramNext]_programVars => OwnedInv'
  <2>1. [ProgramNext]_programVars => [Next]_vars
    BY DEF ProgramNext, programVars, ValuesNext
  <2> QED BY <2>1, OwnedStep
<1> QED BY <1>1, <1>2, PTL DEF ProgramSpec

(***************************************************************************)
(* In every state of a program, whatever it copied, swapped, moved or      *)
(* took apart, with any number of Values, names, indices and buffers: the  *)
(* trees are trees, every buffer allocated has exactly one owner, and no   *)
(* Value refers to one released.                                           *)
(***************************************************************************)
THEOREM BuffersAreOwned == ProgramSpec => []HeapIsOwned
BY OwnedInvariance, OwnedIsOwned, PTL

-----------------------------------------------------------------------------
(* ARRAYS, element by element: each is its shape, the types of its nodes.  *)
LEMMA SameShape ==
  ASSUME NEW e, NEW d, DOMAIN e = DOMAIN d, \A w \in DOMAIN d : e[w].type = d[w].type
  PROVE  Shape(e) = Shape(d)
BY DEF Shape

(* A copy looks like its original.                                         *)
LEMMA CopyShape ==
  ASSUME NEW t, Tree(t)
  PROVE  Shape(Copy(t)) = Shape(t)
<1> DEFINE c == Copy(t)  new == CHOOSE n \in Injective(Slots(t)) : TRUE
<1>1. /\ DOMAIN c = DOMAIN t
      /\ \A p \in DOMAIN t : c[p] = [f \in DOMAIN t[p] |->
            IF <<p, f>> \in Slots(t) THEN new[<<p, f>>] ELSE t[p][f]]
  BY DEF Copy, CopyWith
<1> HIDE DEF c, new
<1>2. ASSUME NEW p \in DOMAIN t PROVE c[p].type = t[p].type
  <2>1. <<p, "type">> \notin Slots(t)
    BY DEF Slots, Fields
  <2>2. "type" \in DOMAIN t[p]
    BY NodeFields DEF Tree
  <2>3. c[p]["type"] = t[p]["type"]
    BY <1>1, <2>1, <2>2
  <2> QED BY <2>3
<1>3. Shape(c) = Shape(t)
  BY <1>1, <1>2, SameShape
<1> QED BY <1>3 DEF c

(* An element is what is below its index; one that is missing is a null.   *)
LEMMA ElementTypes ==
  ASSUME NEW t, Tree(t), NEW k \in 0 .. MaxIndex
  PROVE  /\ At(k) \in DOMAIN t => \A w \in Path :
              /\ w \in DOMAIN ElementAt(t, k) <=> At(k) \o w \in DOMAIN t
              /\ w \in DOMAIN ElementAt(t, k) => ElementAt(t, k)[w].type = t[At(k) \o w].type
         /\ At(k) \notin DOMAIN t => ElementAt(t, k) = NullTree
         /\ <<>> \in DOMAIN ElementAt(t, k) /\ DOMAIN ElementAt(t, k) \subseteq Path
<1>1. CASE At(k) \in DOMAIN t
  <2> DEFINE s == Subtree(t, At(k))
  <2>1. ElementAt(t, k) = s
    BY <1>1 DEF ElementAt, At
  <2>2. SubtreeOf(s, t, At(k))
    BY <1>1, SubtreeIs
  <2> HIDE DEF s
  <2>3. <<>> \in DOMAIN s /\ \A w \in DOMAIN s : s[w].type = t[At(k) \o w].type
    BY <1>1, <2>2, SubtreeNodes
  <2> QED BY <1>1, <2>1, <2>2, <2>3 DEF SubtreeOf
<1>2. CASE At(k) \notin DOMAIN t
  <2>1. ElementAt(t, k) = NullTree
    BY <1>2 DEF ElementAt, At
  <2>2. DOMAIN NullTree = {<<>>}
    BY DEF NullTree, Leaf
  <2> QED BY <1>2, <2>1, <2>2, Root
<1> QED BY <1>1, <1>2

(* Elements of two trees that have the same nodes look the same.           *)
LEMMA SameElement ==
  ASSUME NEW s, Tree(s), NEW j \in 0 .. MaxIndex, At(j) \in DOMAIN s,
         NEW d, DOMAIN d \subseteq Path,
         \A w \in Path : /\ At(j) \o w \in DOMAIN s <=> w \in DOMAIN d
                         /\ w \in DOMAIN d => s[At(j) \o w].type = d[w].type
  PROVE  Shape(ElementAt(s, j)) = Shape(d)
<1> DEFINE e == ElementAt(s, j)
<1>1. /\ \A w \in Path : /\ w \in DOMAIN e <=> At(j) \o w \in DOMAIN s
                         /\ w \in DOMAIN e => e[w].type = s[At(j) \o w].type
      /\ DOMAIN e \subseteq Path
  BY ElementTypes
<1> HIDE DEF e
<1>2. DOMAIN e = DOMAIN d /\ \A w \in DOMAIN d : e[w].type = d[w].type
  BY <1>1
<1>3. Shape(e) = Shape(d)
  BY <1>2, SameShape
<1> QED BY <1>3 DEF e

(* The last place of an array is taken.                                    *)
LEMMA SizeTop ==
  ASSUME NEW t, Tree(t), t[<<>>].type = "array"
  PROVE  Size(t) = 0 \/ (Size(t) - 1 \in 0 .. MaxIndex /\ At(Size(t) - 1) \in DOMAIN t)
<1> DEFINE C == Children(t, <<>>)  Z == {q[1][2] : q \in C}
<1>1. \A q \in C : q \in DOMAIN t /\ q \in Path /\ q # <<>> /\ Len(q) = 1
  BY Root DEF Children, Tree
<1>2. ASSUME NEW q \in C PROVE \E k \in 0 .. MaxIndex : q[1][2] = k /\ q = At(k)
  <2>1. PICK k \in 0 .. MaxIndex : q[1] = Index(k)
    BY <1>1, FirstKey
  <2>2. q = At(k)
    <3>1. At(k) \in Path /\ Len(At(k)) = 1 /\ At(k)[1] = Index(k)
      BY AtIs
    <3>2. Starts(q, At(k))
      <4>1. Len(q) = 1 /\ \A n \in 1 .. 1 : n = 1
        BY <1>1
      <4> QED BY <2>1, <3>1, <4>1 DEF Starts
    <3> QED BY <1>1, <3>1, <3>2, SamePath
  <2> QED BY <2>1, <2>2 DEF Index
<1>3. Z \subseteq 0 .. MaxIndex
  BY <1>2
<1>4. CASE C = {}
  BY <1>4 DEF Size
<1>5. CASE C # {}
  <2>1. Size(t) = Max(Z) + 1 /\ Z # {}
    BY <1>5 DEF Size
  <2>2. \A z \in Z : At(z) \in DOMAIN t
    BY <1>1, <1>2
  <2> HIDE DEF Z, C
  <2>3. Max(Z) \in Z
    BY <1>3, <2>1, MaxOf
  <2> DEFINE m == Max(Z)
  <2>4. m \in 0 .. MaxIndex /\ At(m) \in DOMAIN t /\ Size(t) = m + 1
    BY <1>3, <2>1, <2>2, <2>3
  <2> HIDE DEF m
  <2>5. Size(t) - 1 = m
    BY <2>4, JsonValueAssumption
  <2> QED BY <2>4, <2>5
<1> QED BY <1>4, <1>5

(* What follows a removed element is one place lower.                      *)
LEMMA ShiftedElements ==
  ASSUME NEW t, Tree(t), t[<<>>].type = "array", NEW i \in 0 .. MaxIndex, NEW j \in 0 .. MaxIndex,
         j <= Size(t) - 2
  PROVE  Shape(ElementAt(Shifted(t, i), j)) = Shape(ElementAt(t, IF j < i THEN j ELSE j + 1))
<1> USE JsonValueAssumption
<1> DEFINE s == Shifted(t, i)
<1>1. Tree(s) /\ ShiftOf(s, t, i) /\ Size(t) \in 0 .. MaxIndex + 1
  BY ShiftTree, ShiftIs, SizeIs
<1> HIDE DEF s
<1>2. \A w \in Path : At(j) \o w \in Path /\ (At(j) \o w)[1] = Index(j) /\ At(j) \o w # <<>>
  BY AtJoined
<1>3. \A k, l \in Nat : Index(k) = Index(l) => k = l
  BY DEF Index
<1>4. CASE j < i
  <2>1. ASSUME NEW w \in Path
        PROVE  /\ At(j) \o w \in DOMAIN s <=> At(j) \o w \in DOMAIN t
               /\ At(j) \o w \in DOMAIN t => s[At(j) \o w] = t[At(j) \o w]
    <3> DEFINE q == At(j) \o w
    <3>1. Before(t, i, q) <=> q \in DOMAIN t
      BY <1>2, <1>4 DEF Before
    <3>2. ASSUME NEW k, NEW x, Moved(t, i, q, k, x) PROVE FALSE
      <4>1. k \in 0 .. MaxIndex /\ k >= i /\ q[1] = Index(k)
        BY <3>2, MovedIs
      <4>2. k = j
        <5>1. q[1] = Index(j)
          BY <1>2
        <5> HIDE DEF q
        <5>2. k \in Nat /\ j \in Nat /\ Index(k) = Index(j)
          BY <4>1, <5>1
        <5> QED BY ONLY <1>3, <5>2
      <4> QED BY <1>4, <4>1, <4>2
    <3> HIDE DEF q
    <3>3. /\ q \in DOMAIN s <=> q \in DOMAIN t
          /\ q \in DOMAIN t => s[q] = t[q]
      BY <1>1, <3>1, <3>2 DEF ShiftOf
    <3> QED BY <3>3 DEF q
  <2>2. At(j) \o <<>> = At(j) /\ <<>> \in Path
    BY AtIs, Root
  <2>3. At(j) \in DOMAIN s <=> At(j) \in DOMAIN t
    BY <2>1, <2>2
  <2>4. CASE At(j) \in DOMAIN t
    <3> DEFINE d == ElementAt(t, j)
    <3>1. /\ \A w \in Path : /\ w \in DOMAIN d <=> At(j) \o w \in DOMAIN t
                             /\ w \in DOMAIN d => d[w].type = t[At(j) \o w].type
          /\ DOMAIN d \subseteq Path
      BY <2>4, ElementTypes
    <3> HIDE DEF d
    <3>2. Shape(ElementAt(s, j)) = Shape(d)
      BY <1>1, <2>1, <2>3, <2>4, <3>1, SameElement
    <3> QED BY <1>4, <3>2 DEF d, s
  <2>5. CASE At(j) \notin DOMAIN t
    <3>1. ElementAt(t, j) = NullTree /\ ElementAt(s, j) = NullTree
      BY <1>1, <2>3, <2>5, ElementTypes
    <3> QED BY <1>4, <3>1 DEF s
  <2> QED BY <2>4, <2>5
<1>5. CASE ~(j < i)
  <2> DEFINE d == ElementAt(t, j + 1)
  <2>0. j \in i .. Size(t) - 2 /\ j + 1 \in 0 .. MaxIndex
    BY <1>1, <1>5
  <2>1. <<>> \in DOMAIN d /\ DOMAIN d \subseteq Path
    BY <2>0, ElementTypes
  <2>2. ASSUME NEW w \in Path
        PROVE  /\ At(j) \o w \in DOMAIN s <=> w \in DOMAIN d
               /\ w \in DOMAIN d => s[At(j) \o w] = d[w]
    <3> DEFINE q == At(j) \o w
    <3>1. ~Before(t, i, q)
      BY <1>2, <1>3, <1>5 DEF Before
    <3>2. w \in DOMAIN d => Moved(t, i, q, j, w)
      BY <2>0 DEF Moved
    <3>3. ASSUME NEW k, NEW x, Moved(t, i, q, k, x) PROVE w \in DOMAIN d
      <4>1. k \in 0 .. MaxIndex /\ q[1] = Index(k) /\ Tail(q) = x /\ x \in DOMAIN ElementAt(t, k + 1)
        BY <3>3, MovedIs
      <4>2. k = j /\ Tail(q) = w
        BY <1>2, <1>3, <4>1, AtJoined
      <4> QED BY <4>1, <4>2
    <3> HIDE DEF q, d
    <3>4. q \in DOMAIN s <=> w \in DOMAIN d
      BY <1>1, <3>1, <3>2, <3>3 DEF ShiftOf
    <3>5. w \in DOMAIN d => s[q] = d[w]
      BY <1>1, <3>2 DEF ShiftOf, d
    <3> QED BY <3>4, <3>5 DEF q
  <2>3. At(j) \o <<>> = At(j) /\ <<>> \in Path
    BY AtIs, Root
  <2> HIDE DEF d
  <2>4. At(j) \in DOMAIN s
    BY <2>1, <2>2, <2>3
  <2>5. Shape(ElementAt(s, j)) = Shape(d)
    BY <1>1, <2>1, <2>2, <2>4, SameElement
  <2> QED BY <1>5, <2>5 DEF d, s
<1> QED BY <1>4, <1>5

(* The array is one shorter, or more if the last one goes and holes were   *)
(* before it.                                                              *)
LEMMA ShiftedSize ==
  ASSUME NEW t, Tree(t), t[<<>>].type = "array", NEW i \in 0 .. MaxIndex, At(i) \in DOMAIN t
  PROVE  /\ Size(Shifted(t, i)) \in 0 .. Size(t) - 1 /\ i < Size(t) /\ Size(t) \in 1 .. MaxIndex + 1
         /\ i + 1 # Size(t) => Size(Shifted(t, i)) = Size(t) - 1
         /\ \A k \in Size(Shifted(t, i)) .. Size(t) - 2 : At(k) \notin DOMAIN t
<1> USE JsonValueAssumption
<1> DEFINE s == Shifted(t, i)
<1>1. /\ Tree(s) /\ s[<<>>].type = "array" /\ ShiftOf(s, t, i) /\ Size(t) \in 0 .. MaxIndex + 1
      /\ i < Size(t)
  BY ShiftTree, ShiftIs, SizeIs
<1>2. Size(t) \in 1 .. MaxIndex + 1
  BY <1>1
<1>3. Size(t) - 1 \in 0 .. MaxIndex /\ At(Size(t) - 1) \in DOMAIN t
  BY <1>2, SizeTop
<1> HIDE DEF s
<1>4. Size(s) \in 0 .. MaxIndex + 1 /\ \A k \in Nat : At(k) \in DOMAIN s => k < Size(s)
  BY <1>1, SizeIs
<1>5. Size(s) = 0 \/ (Size(s) - 1 \in 0 .. MaxIndex /\ At(Size(s) - 1) \in DOMAIN s)
  BY <1>1, SizeTop
<1>6. ASSUME NEW k \in 0 .. MaxIndex, At(k) \in DOMAIN s PROVE k <= Size(t) - 2
  <2>0. At(k)[1] = Index(k) /\ At(k) # <<>>
    BY AtIs
  <2>1. CASE Before(t, i, At(k))
    <3>1. PICK l \in 0 .. i - 1 : Index(k) = Index(l)
      BY <2>0, <2>1 DEF Before
    <3>2. k = l
      BY <3>1 DEF Index
    <3> QED BY <1>1, <3>1, <3>2
  <2>2. ASSUME NEW j, NEW w, Moved(t, i, At(k), j, w) PROVE k <= Size(t) - 2
    <3>1. Index(j) = Index(k) /\ j \in i .. Size(t) - 2
      BY <2>0, <2>2, MovedIs DEF Moved
    <3> QED BY <3>1 DEF Index
  <2> QED BY <1>1, <1>6, <2>1, <2>2 DEF ShiftOf
<1>7. Size(s) <= Size(t) - 1
  BY <1>2, <1>4, <1>5, <1>6
<1>8. ASSUME i + 1 # Size(t) PROVE Size(s) = Size(t) - 1
  <2> DEFINE j == Size(t) - 2
  <2>1. j \in i .. Size(t) - 2 /\ j + 1 = Size(t) - 1 /\ j \in 0 .. MaxIndex /\ j + 1 \in 0 .. MaxIndex
    BY <1>1, <1>2, <1>8
  <2>2. <<>> \in DOMAIN ElementAt(t, j + 1) /\ At(j) = At(j) \o <<>>
    BY <2>1, ElementTypes, AtIs, Root
  <2> HIDE DEF j
  <2>3. Moved(t, i, At(j), j, <<>>)
    BY <2>1, <2>2 DEF Moved
  <2>4. At(j) \in DOMAIN s
    BY <1>1, <2>3 DEF ShiftOf
  <2>5. j < Size(s)
    BY <1>4, <2>1, <2>4
  <2> QED BY <1>2, <1>4, <1>7, <2>1, <2>5
<1>9. ASSUME NEW k \in Size(s) .. Size(t) - 2, At(k) \in DOMAIN t PROVE FALSE
  <2>1. i + 1 = Size(t)
    BY <1>1, <1>2, <1>4, <1>8, <1>9
  <2>2. k \in 0 .. i - 1 /\ k \in 0 .. MaxIndex
    BY <1>2, <1>4, <1>9, <2>1
  <2>3. Before(t, i, At(k))
    BY <1>9, <2>2, AtIs DEF Before
  <2>4. At(k) \in DOMAIN s
    BY <1>1, <2>3 DEF ShiftOf
  <2> QED BY <1>4, <1>9, <2>2, <2>4
<1>10. Size(s) \in 0 .. Size(t) - 1
  BY <1>2, <1>4, <1>7
<1> QED BY <1>1, <1>2, <1>8, <1>9, <1>10 DEF s

(* Sequences without one element, without the last, and one that begins    *)
(* another.                                                                *)
LEMMA Without ==
  ASSUME NEW Y, NEW a \in Seq(Y), NEW i \in 0 .. Len(a) - 1
  PROVE  /\ RemoveAt(a, i + 1) \in Seq(Y) /\ Len(RemoveAt(a, i + 1)) = Len(a) - 1
         /\ \A k \in 1 .. Len(a) - 1 : RemoveAt(a, i + 1)[k] = IF k <= i THEN a[k] ELSE a[k + 1]
<1> DEFINE x == SubSeq(a, 1, i)  y == SubSeq(a, i + 2, Len(a))
<1>1. /\ x \in Seq(Y) /\ Len(x) = i /\ \A k \in 1 .. i : x[k] = a[k]
      /\ y \in Seq(Y) /\ Len(y) = Len(a) - i - 1 /\ \A k \in 1 .. Len(a) - i - 1 : y[k] = a[i + 1 + k]
      /\ i \in Nat /\ Len(a) \in Nat /\ i <= Len(a) - 1
  OBVIOUS
<1>2. RemoveAt(a, i + 1) = x \o y
  <2>1. (i + 1) - 1 = i /\ (i + 1) + 1 = i + 2
    OBVIOUS
  <2> QED BY <2>1 DEF RemoveAt
<1> HIDE DEF x, y
<1>3. /\ x \o y \in Seq(Y) /\ Len(x \o y) = Len(x) + Len(y)
      /\ \A k \in 1 .. Len(x) + Len(y) : (x \o y)[k] = IF k <= Len(x) THEN x[k] ELSE y[k - Len(x)]
  BY <1>1, ConcatProperties
<1>4. ASSUME NEW k \in 1 .. Len(a) - 1
      PROVE  (x \o y)[k] = IF k <= i THEN a[k] ELSE a[k + 1]
  <2>1. (x \o y)[k] = IF k <= i THEN x[k] ELSE y[k - i]
    BY ONLY <1>1, <1>3, <1>4
  <2>2. CASE k <= i
    <3>1. k \in 1 .. i
      BY <2>2
    <3> QED BY <1>1, <2>1, <2>2, <3>1
  <2>3. CASE ~(k <= i)
    <3>1. k - i \in 1 .. Len(a) - i - 1 /\ i + 1 + (k - i) = k + 1
      BY <1>1, <2>3
    <3>2. y[k - i] = a[k + 1]
      BY <1>1, <3>1
    <3> QED BY <2>1, <2>3, <3>2
  <2> QED BY <2>2, <2>3
<1>5. Len(x) + Len(y) = Len(a) - 1
  BY <1>1
<1> QED BY <1>2, <1>3, <1>4, <1>5

LEMMA Begins ==
  ASSUME NEW Y, NEW a \in Seq(Y), NEW b \in Seq(Y), Len(a) <= Len(b),
         \A k \in 1 .. Len(a) : a[k] = b[k]
  PROVE  IsPrefix(a, b) /\ (Len(a) = Len(b) => a = b)
<1>1. Len(a) \in Nat /\ Len(b) \in Nat
  OBVIOUS
<1> DEFINE x == SubSeq(a, 1, Len(a))  y == SubSeq(b, 1, Len(a))
<1>2. /\ x \in Seq(Y) /\ Len(x) = Len(a) /\ \A k \in 1 .. Len(a) : x[k] = a[k]
      /\ y \in Seq(Y) /\ Len(y) = Len(a) /\ \A k \in 1 .. Len(a) : y[k] = b[k]
  BY <1>1
<1> HIDE DEF x, y
<1>3. x = y
  BY <1>2
<1>4. Len(a) = Len(b) => a = b
  OBVIOUS
<1> QED BY <1>3, <1>4 DEF IsPrefix, x, y

LEMMA AllButLast ==
  ASSUME NEW Y, NEW a \in Seq(Y), NEW b \in Seq(Y), Len(a) = Len(b) + 1,
         \A k \in 1 .. Len(b) : a[k] = b[k]
  PROVE  Front(a) = b
<1>1. Len(a) - 1 = Len(b) /\ Len(b) \in Nat
  OBVIOUS
<1> DEFINE x == SubSeq(a, 1, Len(b))
<1>2. x \in Seq(Y) /\ Len(x) = Len(b) /\ \A k \in 1 .. Len(b) : x[k] = a[k]
  BY <1>1
<1> HIDE DEF x
<1>3. x = b
  BY <1>2
<1> QED BY <1>1, <1>3 DEF Front, x

(* The elements of an array are a sequence.                                *)
LEMMA ElementsAre ==
  ASSUME NEW t, Size(t) \in Nat, NEW Y, \A j \in 0 .. Size(t) - 1 : Shape(ElementAt(t, j)) \in Y
  PROVE  /\ Elements(t) \in Seq(Y) /\ Len(Elements(t)) = Size(t)
         /\ \A k \in 1 .. Size(t) : Elements(t)[k] = Shape(ElementAt(t, k - 1))
<1> DEFINE n == Size(t)  F(k) == Shape(ElementAt(t, k - 1))
<1>1. \A k \in 1 .. n : F(k) \in Y
  OBVIOUS
<1>2. Elements(t) = [k \in 1 .. n |-> F(k)]
  BY DEF Elements
<1> HIDE DEF n, F
<1>3. n \in Nat
  BY DEF n
<1>4. [k \in 1 .. n |-> F(k)] \in [1 .. n -> Y]
  BY <1>1
<1>5. [k \in 1 .. n |-> F(k)] \in Seq(Y) /\ Len([k \in 1 .. n |-> F(k)]) = n
  BY <1>3, <1>4
<1>6. \A k \in 1 .. n : [l \in 1 .. n |-> F(l)][k] = F(k)
  OBVIOUS
<1>7. Elements(t) \in Seq(Y) /\ Len(Elements(t)) = n /\ \A k \in 1 .. n : Elements(t)[k] = F(k)
  BY <1>2, <1>5, <1>6
<1> QED BY <1>7 DEF n, F

(* removeIndex on the array, element by element.                           *)
LEMMA RemovesOne ==
  ASSUME NEW t, Tree(t), t[<<>>].type = "array", NEW i \in 0 .. MaxIndex, At(i) \in DOMAIN t
  PROVE  LET old   == Elements(t)
             left  == Elements(Shifted(t, i))
             wants == RemoveAt(old, i + 1)
         IN  /\ IsPrefix(left, wants)
             /\ left # wants => i + 1 = Len(old)
             /\ \A j \in Len(left) + 1 .. Len(wants) : <<Index(j - 1)>> \notin DOMAIN t
             /\ old[i + 1] = Shape(Subtree(t, At(i)))
<1> USE JsonValueAssumption
<1> DEFINE s == Shifted(t, i)  n == Size(t)  m == Size(s)
           Y == {Shape(ElementAt(t, j)) : j \in 0 .. MaxIndex}
           old == Elements(t)  left == Elements(s)  wants == RemoveAt(old, i + 1)
<1>1. /\ m \in 0 .. n - 1 /\ i < n /\ n \in 1 .. MaxIndex + 1
      /\ i + 1 # n => m = n - 1
      /\ \A k \in m .. n - 2 : At(k) \notin DOMAIN t
  BY ShiftedSize
<1>2. old \in Seq(Y) /\ Len(old) = n /\ \A k \in 1 .. n : old[k] = Shape(ElementAt(t, k - 1))
  <2>1. \A j \in 0 .. n - 1 : Shape(ElementAt(t, j)) \in Y
    <3>1. \A j \in 0 .. n - 1 : j \in 0 .. MaxIndex
      BY <1>1
    <3> QED BY <3>1
  <2> HIDE DEF Y, n
  <2>2. n \in Nat
    BY <1>1
  <2>3. Elements(t) \in Seq(Y) /\ Len(Elements(t)) = Size(t)
        /\ \A k \in 1 .. Size(t) : Elements(t)[k] = Shape(ElementAt(t, k - 1))
    BY <2>1, <2>2, ElementsAre DEF n
  <2> QED BY <2>3 DEF n
<1>3. \A j \in 0 .. m - 1 : Shape(ElementAt(s, j)) = Shape(ElementAt(t, IF j < i THEN j ELSE j + 1))
  <2>1. \A j \in 0 .. m - 1 : j \in 0 .. MaxIndex /\ j <= n - 2
    BY <1>1
  <2> QED BY <2>1, ShiftedElements
<1>4. left \in Seq(Y) /\ Len(left) = m /\ \A k \in 1 .. m : left[k] = Shape(ElementAt(s, k - 1))
  <2>1. \A j \in 0 .. m - 1 : Shape(ElementAt(s, j)) \in Y
    <3> TAKE j \in 0 .. m - 1
    <3> DEFINE l == IF j < i THEN j ELSE j + 1
    <3>1. l \in 0 .. MaxIndex
      BY <1>1
    <3>2. Shape(ElementAt(s, j)) = Shape(ElementAt(t, l))
      BY <1>3
    <3> HIDE DEF l, s
    <3> QED BY <3>1, <3>2
  <2> HIDE DEF Y, s
  <2>2. m \in Nat
    BY <1>1
  <2> QED BY <2>1, <2>2, ElementsAre
<1> HIDE DEF Y, s, n, m, old, left
<1>5. /\ wants \in Seq(Y) /\ Len(wants) = n - 1
      /\ \A k \in 1 .. n - 1 : wants[k] = IF k <= i THEN old[k] ELSE old[k + 1]
  <2>1. i \in 0 .. Len(old) - 1
    BY <1>1, <1>2
  <2> QED BY <1>2, <2>1, Without
<1> HIDE DEF wants
<1>6. ASSUME NEW k \in 1 .. m PROVE left[k] = wants[k]
  <2> DEFINE E(j) == Shape(ElementAt(t, j))
  <2>1. /\ k \in 1 .. n - 1 /\ k - 1 \in 0 .. m - 1 /\ k \in 1 .. n /\ k + 1 \in 1 .. n
        /\ (k + 1) - 1 = k /\ (k - 1) + 1 = k
    BY <1>1
  <2>2. left[k] = E(IF k - 1 < i THEN k - 1 ELSE (k - 1) + 1)
    BY <1>3, <1>4, <2>1
  <2>3. wants[k] = IF k <= i THEN old[k] ELSE old[k + 1]
    BY <1>5, <2>1
  <2>4. old[k] = E(k - 1) /\ old[k + 1] = E((k + 1) - 1)
    BY <1>2, <2>1
  <2> HIDE DEF E
  <2>5. CASE k <= i
    <3>1. k - 1 < i
      BY <2>5
    <3> QED BY <2>2, <2>3, <2>4, <2>5, <3>1
  <2>6. CASE ~(k <= i)
    <3>1. ~(k - 1 < i)
      BY <2>6
    <3> QED BY <2>1, <2>2, <2>3, <2>4, <2>6, <3>1
  <2> QED BY <2>5, <2>6
<1>7. IsPrefix(left, wants) /\ (m = n - 1 => left = wants)
  <2>1. Len(left) <= Len(wants)
    BY <1>1, <1>4, <1>5
  <2> QED BY <1>4, <1>5, <1>6, <2>1, Begins
<1>8. \A j \in Len(left) + 1 .. Len(wants) : At(j - 1) \notin DOMAIN t
  <2>1. \A j \in Len(left) + 1 .. Len(wants) : j - 1 \in m .. n - 2
    BY <1>1, <1>4, <1>5
  <2> QED BY <1>1, <2>1
<1>9. old[i + 1] = Shape(Subtree(t, At(i)))
  <2>1. i + 1 \in 1 .. n /\ (i + 1) - 1 = i
    BY <1>1
  <2>2. ElementAt(t, i) = Subtree(t, At(i))
    BY DEF ElementAt, At
  <2> QED BY <1>2, <2>1, <2>2
<1> QED BY <1>1, <1>2, <1>7, <1>8, <1>9 DEF old, left, wants, s, n, m, At

LEMMA RemovalTakes == OwnedInv => TakesOne
<1> SUFFICES ASSUME OwnedInv, NEW v \in Variables, NEW w \in Variables, NEW i \in 0 .. MaxIndex,
                    RemoveIndex(v, i, w)
             PROVE  LET old   == Elements(values[v])
                        left  == Elements(values'[v])
                        wants == RemoveAt(old, i + 1)
                    IN  /\ IsPrefix(left, wants)
                        /\ left # wants => i + 1 = Len(old)
                        /\ \A j \in Len(left) + 1 .. Len(wants) :
                             <<Index(j - 1)>> \notin DOMAIN values[v]
                        /\ Shape(values'[w]) = old[i + 1]
  BY DEF TakesOne
<1> DEFINE t == values[v]  q == At(i)  removed == Copy(Subtree(t, q))
<1>1. /\ v # w /\ t[<<>>].type = "array" /\ q \in DOMAIN t
      /\ values' = [values EXCEPT ![v] = Shifted(t, i), ![w] = removed]
  BY DEF RemoveIndex, Become, At
<1>2. Tree(t) /\ DOMAIN values = Variables
  BY DEF OwnedInv, Owned
<1>3. values'[v] = Shifted(t, i) /\ values'[w] = removed
  BY <1>1, <1>2
<1>4. Shape(removed) = Shape(Subtree(t, q))
  BY <1>1, <1>2, SubtreeTree, CopyShape
<1> HIDE DEF t, q, removed
<1>5. LET old   == Elements(t)
          left  == Elements(Shifted(t, i))
          wants == RemoveAt(old, i + 1)
      IN  /\ IsPrefix(left, wants)
          /\ left # wants => i + 1 = Len(old)
          /\ \A j \in Len(left) + 1 .. Len(wants) : <<Index(j - 1)>> \notin DOMAIN t
          /\ old[i + 1] = Shape(Subtree(t, q))
  BY <1>1, <1>2, RemovesOne DEF q
<1> QED BY <1>3, <1>4, <1>5 DEF t

(* What an array becomes when an element is put at its end.                *)
LEMMA Appended ==
  ASSUME NEW t, Tree(t), t[<<>>].type = "array", Once(t), Size(t) <= MaxIndex,
         NEW c, Tree(c)
  PROVE  LET g == Graft(Insert(t, At(Size(t)), 0), At(Size(t)), c)
         IN  /\ Size(g) = Size(t) + 1 /\ Size(t) \in Nat
             /\ \A j \in 0 .. Size(t) - 1 : Shape(ElementAt(g, j)) = Shape(ElementAt(t, j))
             /\ Shape(ElementAt(g, Size(t))) = Shape(c)
<1> USE JsonValueAssumption
<1> DEFINE n == Size(t)  q == At(n)  u == Insert(t, q, 0)  g == Graft(u, q, c)
<1>1. n \in 0 .. MaxIndex /\ \A k \in Nat : At(k) \in DOMAIN t => k < n
  BY SizeIs
<1>2. q \notin DOMAIN t
  BY <1>1
<1>3. q \in Path /\ q[1] = Index(n) /\ q # <<>> /\ Len(q) = 1
  BY <1>1, AtIs
<1>4. Tree(u) /\ q \in DOMAIN u
  BY <1>1, <1>2, ElementInserted
<1>5. DOMAIN u = DOMAIN t \cup {q} /\ \A p \in DOMAIN t : u[p] = t[p]
  BY <1>2 DEF Insert
<1> HIDE DEF n, q, u, g
<1>6. Tree(g) /\ Grafted(g, u, q, c)
  BY <1>4, GraftTree, GraftIs DEF g
<1>7. \A w \in DOMAIN c : q \o w \in DOMAIN g /\ g[q \o w].type = c[w].type
  BY <1>4, GraftNodes DEF g
<1>8. \A k, l \in Nat : Index(k) = Index(l) => k = l
  BY DEF Index
<1>9. ASSUME NEW p \in Path, p # <<>>, NEW k \in 0 .. MaxIndex, p[1] = Index(k), k # n
      PROVE  /\ p \in DOMAIN g <=> p \in DOMAIN t
             /\ p \in DOMAIN t => g[p] = t[p]
  <2>1. ~Starts(q, p)
    <3>1. Starts(q, p) => p[1] = q[1]
      BY <1>3 DEF Starts
    <3> QED BY <1>1, <1>3, <1>8, <1>9, <3>1
  <2>2. \A w \in DOMAIN c : p # q \o w
    <3>1. \A w \in DOMAIN c : Starts(q, q \o w)
      BY <1>3, Joined DEF Tree
    <3> QED BY <2>1, <3>1
  <2>3. p # q
    BY <1>1, <1>3, <1>8, <1>9
  <2> QED BY <1>5, <1>6, <2>1, <2>2, <2>3 DEF Grafted
<1>10. \A k \in 0 .. MaxIndex : \A w \in Path :
         /\ At(k) \o w \in Path /\ (At(k) \o w)[1] = Index(k) /\ At(k) \o w # <<>>
         /\ At(k) \o <<>> = At(k) /\ <<>> \in Path
  BY AtJoined, AtIs, Root
<1>11. ASSUME NEW j \in 0 .. MaxIndex, j # n
       PROVE  /\ At(j) \in DOMAIN g <=> At(j) \in DOMAIN t
              /\ Shape(ElementAt(g, j)) = Shape(ElementAt(t, j))
  <2>1. \A w \in Path : /\ At(j) \o w \in DOMAIN g <=> At(j) \o w \in DOMAIN t
                        /\ At(j) \o w \in DOMAIN t => g[At(j) \o w] = t[At(j) \o w]
    BY <1>9, <1>10, <1>11
  <2>2. At(j) \in DOMAIN g <=> At(j) \in DOMAIN t
    <3>1. At(j) \o <<>> = At(j) /\ <<>> \in Path
      BY AtIs, Root
    <3> QED BY <2>1, <3>1
  <2>3. CASE At(j) \in DOMAIN t
    <3> DEFINE d == ElementAt(t, j)
    <3>1. /\ \A w \in Path : /\ w \in DOMAIN d <=> At(j) \o w \in DOMAIN t
                             /\ w \in DOMAIN d => d[w].type = t[At(j) \o w].type
          /\ DOMAIN d \subseteq Path
      BY <2>3, ElementTypes
    <3> HIDE DEF d
    <3>2. Shape(ElementAt(g, j)) = Shape(d)
      BY <1>6, <2>1, <2>2, <2>3, <3>1, SameElement
    <3> QED BY <2>2, <3>2 DEF d
  <2>4. CASE At(j) \notin DOMAIN t
    <3>1. ElementAt(t, j) = NullTree /\ ElementAt(g, j) = NullTree
      BY <1>6, <2>2, <2>4, ElementTypes
    <3> QED BY <2>2, <3>1
  <2> QED BY <2>3, <2>4
<1>12. /\ At(n) \in DOMAIN g /\ Shape(ElementAt(g, n)) = Shape(c)
  <2>1. <<>> \in DOMAIN c /\ DOMAIN c \subseteq Path
    BY DEF Tree
  <2>2. q \o <<>> = q
    BY <1>3, Root
  <2>3. At(n) \in DOMAIN g
    BY <1>7, <2>1, <2>2 DEF q
  <2>4. ASSUME NEW w \in Path PROVE q \o w \in DOMAIN g <=> w \in DOMAIN c
    <3>1. q \o w \in Path /\ Starts(q, q \o w)
      BY <1>3, Joined
    <3>2. \A x \in DOMAIN c : q \o w = q \o x => w = x
      BY <1>3, <2>1, Cancelled
    <3> QED BY <1>6, <1>7, <3>1, <3>2 DEF Grafted
  <2>5. Shape(ElementAt(g, n)) = Shape(c)
    BY <1>1, <1>6, <1>7, <2>1, <2>3, <2>4, SameElement DEF q
  <2> QED BY <2>3, <2>5
<1>13. g[<<>>].type = "array"
  <2>1. <<>> \in DOMAIN u /\ ~Starts(q, <<>>) /\ <<>> \in DOMAIN t
    BY <1>3, <1>4, Root DEF Tree, Starts
  <2> QED BY <1>5, <1>6, <2>1 DEF Grafted
<1>14. Size(g) = n + 1
  <2>1. n < Size(g) /\ Size(g) \in 0 .. MaxIndex + 1
    BY <1>1, <1>6, <1>12, <1>13, SizeIs
  <2>2. Size(g) - 1 \in 0 .. MaxIndex /\ At(Size(g) - 1) \in DOMAIN g
    BY <1>1, <1>6, <1>13, <2>1, SizeTop
  <2> DEFINE k == Size(g) - 1
  <2>3. k \in 0 .. MaxIndex /\ At(k) \in DOMAIN g /\ k >= n /\ Size(g) = k + 1
    BY <1>1, <2>1, <2>2
  <2> HIDE DEF k
  <2>4. k # n => k < n
    BY <1>1, <1>11, <2>3
  <2> QED BY <1>1, <2>3, <2>4
<1>15. n \in Nat /\ \A j \in 0 .. n - 1 : j \in 0 .. MaxIndex /\ j # n
  BY <1>1
<1> QED BY <1>11, <1>12, <1>14, <1>15 DEF n, q, u, g

(* An array and what a null becomes have the same elements.                *)
LEMMA AsElements ==
  ASSUME NEW t, Tree(t), Once(t), t[<<>>].type \in {"null", "array"}
  PROVE  Elements(As(t, <<>>, "array")) = Elements(t) /\ Size(As(t, <<>>, "array")) = Size(t)
<1> USE JsonValueAssumption
<1>1. CASE t[<<>>].type = "array"
  BY <1>1 DEF As
<1>2. CASE t[<<>>].type = "null"
  <2> DEFINE leaf == Leaf("array", 0)  a == Graft(t, <<>>, leaf)
  <2>1. As(t, <<>>, "array") = a
    BY <1>2 DEF As
  <2>2. Tree(leaf) /\ DOMAIN leaf = {<<>>}
    BY LeafTree DEF Types, Leaf
  <2>3. Tree(a) /\ a[<<>>].type = "array"
    BY <1>2, <2>1, AsTree DEF Tree
  <2> HIDE DEF leaf, a
  <2>4. Grafted(a, t, <<>>, leaf)
    BY <2>2, GraftIs DEF a, Tree
  <2>5. \A k \in 0 .. MaxIndex : At(k) \notin DOMAIN a
    <3> SUFFICES ASSUME NEW k \in 0 .. MaxIndex, At(k) \in DOMAIN a PROVE FALSE
      OBVIOUS
    <3>1. At(k) \in Path /\ At(k) # <<>> /\ Starts(<<>>, At(k)) /\ <<>> \o <<>> = <<>>
      BY AtIs, Root
    <3>2. At(k) = <<>> \o <<>>
      BY <2>2, <2>4, <3>1 DEF Grafted
    <3> QED BY <3>1, <3>2
  <2>6. Size(a) = 0
    BY <2>3, <2>5, SizeTop
  <2>7. Size(t) = 0
    BY <1>2 DEF Size
  <2> QED BY <2>1, <2>6, <2>7 DEF Elements
<1> QED BY <1>1, <1>2

LEMMA AppendAdds == OwnedInv => AddsOne
<1> USE JsonValueAssumption
<1> SUFFICES ASSUME OwnedInv, NEW v \in Variables, NEW w \in Variables,
                    AppendValue(v, w), ~thrown'
             PROVE  LET old   == Elements(values[v])
                        new   == Elements(values'[v])
                        grown == Insert(As(values[v], <<>>, "array"), <<Index(Len(old))>>, 0)
                    IN  /\ Front(new) = old
                        /\ \/ Last(new) = Shape(values[w])
                           \/ v = w /\ Last(new) = Shape(grown)
  BY DEF AddsOne
<1> DEFINE t == As(values[v], <<>>, "array")  n == Size(t)  q == At(n)  u == Insert(t, q, 0)
<1>1. PICK source \in IF v = w THEN {values[w], u} ELSE {values[w]} :
        /\ values[v][<<>>].type \in {"null", "array"} /\ n <= MaxIndex /\ Fits(source)
        /\ values' = [values EXCEPT ![v] = Graft(u, q, Copy(source))]
  BY DEF AppendValue, Throw, Type, Become, At
<1>2. /\ DOMAIN values = Variables /\ \A x \in Variables : Tree(values[x]) /\ Once(values[x])
  BY DEF OwnedInv, Owned
<1>3. Tree(t) /\ Once(t) /\ t[<<>>].type = "array"
  BY <1>1, <1>2, AsTree DEF Tree
<1>4. Elements(t) = Elements(values[v])
  BY <1>1, <1>2, AsElements
<1> HIDE DEF t
<1>5. Size(t) \in 0 .. MaxIndex /\ At(Size(t)) \notin DOMAIN t
  BY <1>1, <1>3, SizeIs
<1>6. Tree(u)
  BY <1>3, <1>5, ElementInserted
<1> DEFINE c == Copy(source)  g == Graft(u, q, c)
<1>7. Tree(source) /\ Tree(c) /\ Shape(c) = Shape(source)
  BY <1>1, <1>2, <1>6, CopyTree, CopyShape
<1>8. values'[v] = g
  BY <1>1, <1>2
<1> HIDE DEF c
<1>9. /\ Size(g) = n + 1 /\ n \in Nat
      /\ \A j \in 0 .. n - 1 : Shape(ElementAt(g, j)) = Shape(ElementAt(t, j))
      /\ Shape(ElementAt(g, n)) = Shape(c)
  BY <1>1, <1>3, <1>7, Appended
<1> DEFINE Y == {Shape(ElementAt(g, j)) : j \in 0 .. n}  new == Elements(g)  old == Elements(t)
<1> HIDE DEF n, g
<1>10. new \in Seq(Y) /\ Len(new) = n + 1 /\ \A k \in 1 .. n + 1 : new[k] = Shape(ElementAt(g, k - 1))
  <2>1. \A j \in 0 .. Size(g) - 1 : Shape(ElementAt(g, j)) \in Y
    <3>1. \A j \in 0 .. Size(g) - 1 : j \in 0 .. n
      BY <1>9
    <3> QED BY <3>1
  <2>2. Size(g) \in Nat
    BY <1>9
  <2> HIDE DEF Y
  <2>3. new \in Seq(Y) /\ Len(new) = Size(g)
        /\ \A k \in 1 .. Size(g) : new[k] = Shape(ElementAt(g, k - 1))
    BY <2>1, <2>2, ElementsAre
  <2> QED BY <1>9, <2>3
<1>11. old \in Seq(Y) /\ Len(old) = n /\ \A k \in 1 .. n : old[k] = Shape(ElementAt(t, k - 1))
  <2>1. \A j \in 0 .. n - 1 : Shape(ElementAt(t, j)) \in Y
    <3>1. \A j \in 0 .. n - 1 : j \in 0 .. n
      BY <1>9
    <3> QED BY <1>9, <3>1
  <2> HIDE DEF Y
  <2>2. n = Size(t)
    BY DEF n
  <2> QED BY <1>9, <2>1, <2>2, ElementsAre
<1> HIDE DEF Y, new, old
<1>12. Front(new) = old
  <2>1. ASSUME NEW k \in 1 .. n PROVE new[k] = old[k]
    <3>1. k \in 1 .. n + 1 /\ k - 1 \in 0 .. n - 1
      BY <1>9
    <3> QED BY <1>9, <1>10, <1>11, <3>1
  <2>2. Len(new) = Len(old) + 1
    BY <1>10, <1>11
  <2> QED BY <1>10, <1>11, <2>1, <2>2, AllButLast
<1>13. Last(new) = Shape(source)
  <2>1. n + 1 \in 1 .. n + 1 /\ (n + 1) - 1 = n
    BY <1>9
  <2> QED BY <1>7, <1>9, <1>10, <2>1 DEF Last
<1>14. Insert(t, <<Index(Len(old))>>, 0) = u
  BY <1>11 DEF At
<1>15. Last(new) = Shape(values[w]) \/ (v = w /\ Last(new) = Shape(u))
  BY <1>1, <1>13
<1> HIDE DEF u
<1> QED BY <1>4, <1>8, <1>12, <1>14, <1>15 DEF new, old, t

(***************************************************************************)
(* At every step of every program: removeIndex takes exactly the element   *)
(* at the index out of the array and hands it over, and append adds one,   *)
(* whatever the holes, and whichever Values share a name.                  *)
(***************************************************************************)
THEOREM ArraysByOne == ProgramSpec => ArraysChangeByOne
<1>1. OwnedInv => (part = "arrays" => TakesOne /\ AddsOne)
  BY RemovalTakes, AppendAdds
<1> QED BY <1>1, OwnedInvariance, PTL DEF ProgramSpec, ArraysChangeByOne
-----------------------------------------------------------------------------
(* STRINGS.  A boundary of a text is a place with an even number of        *)
(* backslashes right before it: none of them escapes what follows.         *)
Marked(t, i, j) == \A k \in i .. j : t[k] = T!Backslash
Boundary(t, p) == \E m \in Nat : /\ 2 * m < p /\ t[p - 2 * m] # T!Backslash
                                 /\ Marked(t, p - 2 * m + 1, p)

(* After what is no backslash there is a boundary.                         *)
LEMMA PlainBoundary ==
  ASSUME NEW t, NEW p \in Nat, p >= 1, t[p] # T!Backslash
  PROVE  Boundary(t, p)
<1>1. 0 \in Nat /\ 2 * 0 < p /\ p - 2 * 0 = p
  OBVIOUS
<1>2. Marked(t, p - 2 * 0 + 1, p)
  BY DEF Marked
<1> QED BY <1>1, <1>2 DEF Boundary

(* What is passed over from a boundary, one character or a backslash with  *)
(* what it escapes, ends at one; a backslash alone does not.               *)
LEMMA NextBoundary ==
  ASSUME NEW t, NEW p \in Nat, Boundary(t, p)
  PROVE  /\ t[p + 1] # T!Backslash => Boundary(t, p + 1)
         /\ t[p + 1] = T!Backslash => Boundary(t, p + 2) /\ ~Boundary(t, p + 1)
<1>1. PICK m \in Nat : 2 * m < p /\ t[p - 2 * m] # T!Backslash /\ Marked(t, p - 2 * m + 1, p)
  BY DEF Boundary
<1>2. t[p + 1] # T!Backslash => Boundary(t, p + 1)
  BY PlainBoundary
<1>3. ASSUME t[p + 1] = T!Backslash PROVE Boundary(t, p + 2)
  <2>1. CASE t[p + 2] # T!Backslash
    BY <2>1, PlainBoundary
  <2>2. CASE t[p + 2] = T!Backslash
    <3>1. /\ m + 1 \in Nat /\ 2 * (m + 1) < p + 2 /\ (p + 2) - 2 * (m + 1) = p - 2 * m
          /\ (p + 2) - 2 * (m + 1) + 1 = p - 2 * m + 1
      BY <1>1
    <3>2. Marked(t, p - 2 * m + 1, p + 2)
      <4>1. \A k \in p - 2 * m + 1 .. p + 2 : k \in p - 2 * m + 1 .. p \/ k = p + 1 \/ k = p + 2
        BY <1>1
      <4> QED BY <1>1, <1>3, <2>2, <4>1 DEF Marked
    <3> QED BY <1>1, <3>1, <3>2 DEF Boundary
  <2> QED BY <2>1, <2>2
<1>4. ASSUME t[p + 1] = T!Backslash, Boundary(t, p + 1) PROVE FALSE
  <2>1. PICK n \in Nat : /\ 2 * n < p + 1 /\ t[p + 1 - 2 * n] # T!Backslash
                         /\ Marked(t, p + 1 - 2 * n + 1, p + 1)
    BY <1>4 DEF Boundary
  <2>2. CASE p + 1 - 2 * n > p - 2 * m
    <3>1. p + 1 - 2 * n \in p - 2 * m + 1 .. p \/ p + 1 - 2 * n = p + 1
      BY <2>1, <2>2
    <3> QED BY <1>1, <1>4, <2>1, <3>1 DEF Marked
  <2>3. CASE p + 1 - 2 * n < p - 2 * m
    <3>1. p - 2 * m \in p + 1 - 2 * n + 1 .. p + 1
      BY <1>1, <2>3
    <3> QED BY <1>1, <2>1, <3>1 DEF Marked
  <2>4. p + 1 - 2 * n # p - 2 * m
    OBVIOUS
  <2> QED BY <2>2, <2>3, <2>4
<1> QED BY <1>2, <1>3, <1>4

(* What a writer makes of a character: itself, two characters or three.    *)
Escapes1(c, e) == Len(e) = 1 /\ e[1] = c /\ c \notin {34, 92}
Escapes2(c, e) == /\ Len(e) = 2 /\ e[1] = 92
                  /\ \/ c \in {34, 92} /\ e[2] = c
                     \/ c \in DOMAIN T!Named /\ e[2] = T!Named[c]
Escapes3(c, e) == Len(e) = 3 /\ e[1] = 92 /\ e[2] = 117 /\ e[3] = 256 + c /\ c < 32
LEMMA EscapedIs ==
  ASSUME NEW c \in Nat
  PROVE  /\ T!Escaped(c) \in Seq(Nat)
         /\ \/ Escapes1(c, T!Escaped(c))
            \/ Escapes2(c, T!Escaped(c))
            \/ Escapes3(c, T!Escaped(c))
<1>1. CASE c \in {34, 92}
  <2>1. T!Escaped(c) = <<92, c>>
    BY <1>1 DEF T!Escaped, T!Quote, T!Backslash
  <2> QED BY <1>1, <2>1 DEF Escapes2
<1>2. CASE c \notin {34, 92} /\ c \in DOMAIN T!Named
  <2>1. T!Escaped(c) = <<92, T!Named[c]>>
    BY <1>2 DEF T!Escaped, T!Quote, T!Backslash
  <2>2. T!Named[c] \in Nat
    BY <1>2 DEF T!Named
  <2>3. \A b \in Nat : /\ <<92, b>> \in Seq(Nat) /\ Len(<<92, b>>) = 2
                        /\ <<92, b>>[1] = 92 /\ <<92, b>>[2] = b
    OBVIOUS
  <2> QED BY ONLY <1>2, <2>1, <2>2, <2>3 DEF Escapes2
<1>3. CASE c \notin {34, 92} /\ c \notin DOMAIN T!Named /\ c < 32
  <2>1. T!Escaped(c) = <<92, 117, 256 + c>>
    BY <1>3 DEF T!Escaped, T!Quote, T!Backslash, T!LetterU, T!Hex
  <2> QED BY <1>3, <2>1 DEF Escapes3
<1>4. CASE c \notin {34, 92} /\ c \notin DOMAIN T!Named /\ ~(c < 32)
  <2>1. T!Escaped(c) = <<c>>
    BY <1>4 DEF T!Escaped, T!Quote, T!Backslash
  <2> QED BY <1>4, <2>1 DEF Escapes1
<1> QED BY <1>1, <1>2, <1>3, <1>4

(* The letters of escapes are none of the other characters that may follow *)
(* a backslash, and no two of them are the same.                           *)
LEMMA NamedIs ==
  /\ DOMAIN T!Named = {8, 9, 10, 12, 13}
  /\ \A c \in DOMAIN T!Named : T!Named[c] \notin {34, 92, 47, 117}
  /\ \A c, d \in DOMAIN T!Named : T!Named[c] = T!Named[d] => c = d
BY DEF T!Named

(* What is written of a string is the string or what is before a zero.     *)
LEMMA WrittenIs ==
  ASSUME string \in Seq(Nat)
  PROVE  T!Written \in Seq(Nat) /\ Len(T!Written) <= Len(string)
<1>1. CASE form = "C" /\ T!Contains(string, 0)
  <2> DEFINE I == {i \in 1 .. Len(string) : string[i] = 0}  k == Min(I)
  <2>1. PICK j \in I : TRUE
    BY <1>1 DEF T!Contains
  <2>2. k \in I
    <3>1. I \in SUBSET Nat /\ I # {}
      BY <2>1
    <3> HIDE DEF I
    <3>2. PICK x \in I : \A y \in I : ~ (<<y, x>> \in OpToRel(<,Nat))
      BY <3>1, WFMin, NatLessThanWellFounded
    <3>3. \A y \in I : ~(y < x)
      BY <3>1, <3>2 DEF OpToRel
    <3>4. x \in I /\ \A y \in I : x =< y
      BY <3>1, <3>3
    <3>5. Min(I) \in I
      BY <3>4 DEF Min
    <3> QED BY <3>5 DEF k
  <2>3. T!SelectInSeq(string, LAMBDA c : c = 0) = k
    BY <2>1, Zenon DEF T!SelectInSeq, T!Min, Min
  <2>4. T!Written = SubSeq(string, 1, k - 1)
    BY <1>1, <2>3 DEF T!Written, T!CString
  <2>5. k \in 1 .. Len(string) /\ Len(string) \in Nat
    BY <2>2
  <2> HIDE DEF k
  <2> QED BY <2>4, <2>5
<1>2. CASE ~(form = "C" /\ T!Contains(string, 0))
  BY <1>2 DEF T!Written, T!CString
<1> QED BY <1>1, <1>2

(* Division with rest, once and twice.                                     *)
LEMMA Parts64 ==
  ASSUME NEW n \in Nat
  PROVE  /\ n \div 64 \in Nat /\ n % 64 \in 0 .. 63 /\ n = 64 * (n \div 64) + (n % 64)
OBVIOUS
LEMMA Div4096 == \A n \in Nat : n \div 4096 = (n \div 64) \div 64
BY SMT
LEMMA Div262144 == \A n \in Nat : n \div 262144 = (n \div 64) \div 4096
BY SMT

(* The UTF-8 of a code point is that code point's.                         *)
LEMMA Utf8Is ==
  ASSUME NEW n \in Nat
  PROVE  T!Utf8(n) \in Seq(Nat) /\ T!CodePointIn(T!Utf8(n)) = n
<1> DEFINE a == n \div 64  r == n % 64  b == a \div 64  q == a % 64  c == b \div 64  p == b % 64
           u == T!Utf8(n)
           one == u = <<n>>  two == u = <<192 + a, 128 + r>>
           three == u = <<224 + b, 128 + q, 128 + r>>
           four == u = <<240 + c, 128 + p, 128 + q, 128 + r>>
<1>1. a \in Nat /\ r \in 0 .. 63 /\ n = 64 * a + r
  BY Parts64
<1>2. b \in Nat /\ q \in 0 .. 63 /\ a = 64 * b + q
  <2> HIDE DEF a
  <2> QED BY <1>1, Parts64
<1>3. c \in Nat /\ p \in 0 .. 63 /\ b = 64 * c + p
  <2> HIDE DEF b
  <2> QED BY <1>2, Parts64
<1>4. n \div 4096 = b /\ n \div 262144 = c
  <2>1. n \div 262144 = a \div 4096
    BY SMT, Div262144
  <2>2. a \div 4096 = (a \div 64) \div 64
    BY ONLY <1>1, Div4096, SMT
  <2>3. n \div 4096 = (n \div 64) \div 64
    BY SMT, Div4096
  <2> QED BY <2>1, <2>2, <2>3, SMT
<1>5. T!Trail(n) = 128 + r /\ T!Trail(a) = 128 + q /\ T!Trail(b) = 128 + p
  BY DEF T!Trail
<1>6. one \/ two \/ three \/ four
  <2>1. \/ u = <<n>>
        \/ u = <<192 + a, T!Trail(n)>>
        \/ u = <<224 + (n \div 4096), T!Trail(a), T!Trail(n)>>
        \/ u = <<240 + (n \div 262144), T!Trail(n \div 4096), T!Trail(a), T!Trail(n)>>
    BY SMT DEF T!Utf8
  <2> QED BY ONLY <1>4, <1>5, <2>1
<1> HIDE DEF a, r, b, q, c, p, u
<1>7. CASE one
  BY <1>7 DEF u, T!CodePointIn
<1>8. CASE two
  <2>1. /\ Len(u) = 2 /\ u[1] = 192 + a /\ u[2] = 128 + r /\ u \in Seq(Nat)
    BY <1>1, <1>8
  <2>2. T!CodePointIn(u) = (u[1] - 192) * 64 + (u[2] - 128)
    BY <2>1 DEF T!CodePointIn
  <2> QED BY <1>1, <2>1, <2>2 DEF u
<1>9. CASE three
  <2>1. /\ Len(u) = 3 /\ u[1] = 224 + b /\ u[2] = 128 + q /\ u[3] = 128 + r /\ u \in Seq(Nat)
    BY <1>1, <1>2, <1>9
  <2>2. T!CodePointIn(u) = ((u[1] - 224) * 64 + (u[2] - 128)) * 64 + (u[3] - 128)
    BY <2>1 DEF T!CodePointIn
  <2> QED BY <1>1, <1>2, <2>1, <2>2 DEF u
<1>10. CASE four
  <2>1. /\ Len(u) = 4 /\ u[1] = 240 + c /\ u[2] = 128 + p /\ u[3] = 128 + q /\ u[4] = 128 + r
        /\ u \in Seq(Nat)
    BY <1>1, <1>2, <1>3, <1>10
  <2>2. T!CodePointIn(u) = (((u[1] - 240) * 64 + (u[2] - 128)) * 64 + (u[3] - 128)) * 64
                             + (u[4] - 128)
    BY <2>1 DEF T!CodePointIn
  <2>3. T!CodePointIn(u) = ((c * 64 + p) * 64 + q) * 64 + r
    <3>1. u[1] - 240 = c /\ u[2] - 128 = p /\ u[3] - 128 = q /\ u[4] - 128 = r
      BY <1>1, <1>2, <1>3, <2>1
    <3> QED BY <2>2, <3>1
  <2>4. c * 64 + p = b /\ b * 64 + q = a /\ a * 64 + r = n
    BY <1>1, <1>2, <1>3
  <2> QED BY <2>1, <2>3, <2>4 DEF u
<1> HIDE DEF one, two, three, four
<1> QED BY ONLY <1>6, <1>7, <1>8, <1>9, <1>10

(* In every text that is scanned: the scanner and the decoder stand at     *)
(* boundaries, and the token ends at one, at the quote that opened it.  Of *)
(* the two texts that EscapesAreDecoded is about, also what they become.   *)
TokenOK == text \in Seq(Nat) /\ Len(text) \in Nat /\ Len(text) >= 1 /\ text[1] \in {34, 39}
CodePointAt(i) == text[i] - 256
OneEscape  == Len(text) = 5 /\ T!UnicodeAt(2)
TwoEscapes == /\ Len(text) = 8 /\ T!UnicodeAt(2) /\ T!UnicodeAt(5)
              /\ T!HighSurrogate(CodePointAt(4))
OneDecoded == \/ pos = 1 /\ decoded = <<>>
              \/ pos = 4 /\ decoded = T!Utf8(CodePointAt(4))
TwoDecoded == \/ pos = 1 /\ decoded = <<>>
              \/ pos = 7 /\ decoded = T!Utf8(T!Pair(CodePointAt(4), CodePointAt(7)))
EscapesOK == (OneEscape => OneDecoded) /\ (TwoEscapes => TwoDecoded)
Spanned  == end \in 1 .. Len(text) - 1 /\ pos \in 1 .. end
WritingOK == /\ form \in {"N", "C"} /\ pos \in 0 .. Len(T!Written)
             /\ decoded = <<>> /\ end = 0
ScanningOK == /\ pos \in 0 .. Len(text) /\ decoded = <<>> /\ end = 0
              /\ pos = 0 \/ pos = Len(text) \/ Boundary(text, pos)
DecodingOK == /\ Spanned /\ Boundary(text, pos) /\ Boundary(text, end)
              /\ text[end + 1] = text[1] /\ EscapesOK
DoneOK == Spanned /\ EscapesOK /\ (OneEscape \/ TwoEscapes => pos # 1)
RefusedOK == pos \in 0 .. Len(text) /\ end \in 0 .. Len(text) - 1
TokenInv == /\ TokenOK /\ decoded \in Seq(Nat)
            /\ form \in {"N", "C", "none"} /\ (form # "none" => string \in Strings)
            /\ \/ pc = "write"   /\ WritingOK
               \/ pc = "scan"    /\ ScanningOK
               \/ pc = "decode"  /\ DecodingOK
               \/ pc = "done"    /\ DoneOK
               \/ pc = "refused" /\ RefusedOK

(* What is left of a token.                                                *)
LEMMA RestIs ==
  ASSUME TokenOK, Spanned
  PROVE  /\ Len(T!Rest) = end - pos
         /\ \A k \in 1 .. end - pos : T!Rest[k] = text[pos + k] /\ text[pos + k] \in Nat
BY DEF TokenOK, Spanned, T!Rest

(* Where a token may begin.                                                *)
LEMMA TokenStarts ==
  ASSUME TokenOK
  PROVE  Boundary(text, 1)
<1>1. text[1] # T!Backslash
  BY DEF TokenOK, T!Backslash
<1> QED BY <1>1, PlainBoundary

(* Writing: more characters, and the quote at the end.                     *)
LEMMA TokenWrite ==
  ASSUME TokenInv, T!WriteCharacter \/ T!FinishWriting
  PROVE  TokenInv'
<1>1. pc = "write" /\ WritingOK /\ TokenOK /\ string \in Seq(Nat)
  BY StringsAssumption DEF TokenInv, T!WriteCharacter, T!FinishWriting, WritingOK
<1>2. CASE T!WriteCharacter
  <2>0. T!Written \in Seq(Nat)
    BY <1>1, WrittenIs, Zenon
  <2>1. T!Written \in Seq(Nat) /\ pos + 1 \in 1 .. Len(T!Written)
    <3>1. pos \in 0 .. Len(T!Written) /\ pos < Len(T!Written)
      BY <1>1, <1>2, Zenon DEF T!WriteCharacter, WritingOK
    <3> QED BY ONLY <2>0, <3>1
  <2>2. T!Escaped(T!Written[pos + 1]) \in Seq(Nat)
    <3>1. T!Written[pos + 1] \in Nat
      BY ONLY <2>1
    <3> QED BY ONLY <3>1, EscapedIs
  <2>3. TokenOK'
    BY <1>1, <1>2, <2>2 DEF T!WriteCharacter, TokenOK
  <2>4. T!Written' = T!Written
    BY <1>2 DEF T!WriteCharacter, T!Written
  <2>5. WritingOK'
    BY <1>1, <1>2, <2>1, <2>4 DEF WritingOK, T!WriteCharacter
  <2> QED BY <1>2, <2>3, <2>5 DEF TokenInv, T!WriteCharacter
<1>3. CASE T!FinishWriting
  <2>1. TokenOK'
    BY <1>1, <1>3 DEF T!FinishWriting, TokenOK, T!Quote
  <2>2. ScanningOK'
    BY <1>1, <1>3, <2>1 DEF WritingOK, ScanningOK, T!FinishWriting, TokenOK
  <2> QED BY <1>3, <2>1, <2>2 DEF TokenInv, T!FinishWriting
<1> QED BY <1>2, <1>3

(* Scanning: from one boundary to the next, to the closing quote or to the *)
(* end of the text.                                                        *)
LEMMA TokenScan ==
  ASSUME TokenInv, T!Scan \/ T!EndOfToken \/ T!NoToken
  PROVE  TokenInv'
<1> DEFINE s == T!Start
<1>1. pc = "scan" /\ ScanningOK /\ TokenOK
  BY DEF TokenInv, T!Scan, T!EndOfToken, T!NoToken
<1>2. s \in 1 .. Len(text) /\ Len(text) \in Nat /\ (s < Len(text) => Boundary(text, s))
  BY <1>1, TokenStarts DEF ScanningOK, TokenOK, T!Start
<1>3. CASE T!Scan
  <2>1. pos' = T!Passed(s) /\ s < Len(text)
    BY <1>3 DEF T!Scan
  <2>2. ScanningOK'
    <3> HIDE DEF s
    <3>1. CASE text[s + 1] = T!Backslash
      <4>1. pos' = IF s + 1 = Len(text) THEN s + 1 ELSE (s + 1) + 1
        BY <2>1, <3>1 DEF T!Passed, T!GetNextChar
      <4>2. Boundary(text, s + 2)
        BY <1>2, <2>1, <3>1, NextBoundary
      <4>3. pos' \in 0 .. Len(text) /\ (pos' = Len(text) \/ Boundary(text, pos'))
        BY <1>2, <2>1, <4>1, <4>2
      <4> QED BY <1>1, <1>3, <4>3 DEF ScanningOK, T!Scan
    <3>2. CASE text[s + 1] # T!Backslash
      <4>1. pos' = s + 1 /\ Boundary(text, s + 1)
        BY <1>2, <2>1, <3>2, NextBoundary DEF T!Passed
      <4> QED BY <1>1, <1>2, <1>3, <2>1, <4>1 DEF ScanningOK, T!Scan
    <3> QED BY <3>1, <3>2
  <2> QED BY <1>1, <1>3, <2>2 DEF TokenInv, T!Scan, TokenOK
<1>4. CASE T!EndOfToken
  <2>1. /\ end' = s /\ pos' = 1 /\ text' = text /\ decoded' = <<>>
        /\ text[s + 1] = text[1] /\ s < Len(text)
    BY <1>1, <1>4 DEF T!EndOfToken, ScanningOK
  <2>2. Boundary(text, s) /\ Boundary(text, 1)
    BY <1>1, <1>2, <2>1, TokenStarts
  <2>3. DecodingOK'
    <3> HIDE DEF s
    <3>1. Spanned'
      BY <1>2, <2>1 DEF Spanned
    <3>2. EscapesOK'
      BY <2>1 DEF EscapesOK, OneDecoded, TwoDecoded
    <3> QED BY <2>1, <2>2, <3>1, <3>2 DEF DecodingOK
  <2> QED BY <1>1, <1>4, <2>3 DEF TokenInv, T!EndOfToken, TokenOK
<1>5. CASE T!NoToken
  <2>1. RefusedOK'
    BY <1>1, <1>5 DEF RefusedOK, ScanningOK, T!NoToken, TokenOK
  <2> QED BY <1>1, <1>5, <2>1 DEF TokenInv, T!NoToken, TokenOK
<1> QED BY <1>3, <1>4, <1>5

(* A step of the decoder that takes n characters, up to a boundary within  *)
(* the token; of the two texts, all of the escape or both.                 *)
Taking(n, chars) ==
  /\ n \in Nat /\ n >= 1 /\ pos + n <= end /\ chars \in Seq(Nat) /\ Boundary(text, pos + n)
  /\ OneEscape /\ pos = 1  => n = 3 /\ chars = T!Utf8(CodePointAt(4))
  /\ TwoEscapes /\ pos = 1 => n = 6 /\ chars = T!Utf8(T!Pair(CodePointAt(4), CodePointAt(7)))
LEMMA TokenTake ==
  ASSUME TokenInv, pc = "decode", NEW n, NEW chars, Taking(n, chars), T!Take(n, chars)
  PROVE  TokenInv'
<1>1. TokenOK /\ DecodingOK /\ decoded \in Seq(Nat)
  BY DEF TokenInv
<1>2. /\ pos' = pos + n /\ decoded' = decoded \o chars /\ pc' = "decode"
      /\ UNCHANGED <<string, form, text, end>>
  BY DEF T!Take
<1>3. Spanned' /\ Boundary(text, pos)' /\ decoded' \in Seq(Nat)
  BY <1>1, <1>2 DEF Taking, DecodingOK, Spanned
<1>4. ASSUME OneEscape PROVE OneDecoded'
  <2>1. CASE pos = 1
    <3>1. n = 3 /\ chars = T!Utf8(CodePointAt(4)) /\ decoded = <<>> /\ chars \in Seq(Nat)
      BY <1>1, <1>4, <2>1 DEF Taking, DecodingOK, EscapesOK, OneDecoded
    <3>2. decoded' = T!Utf8(CodePointAt(4)) /\ pos' = 4
      BY <1>2, <2>1, <3>1
    <3> QED BY <1>2, <3>2 DEF OneDecoded, CodePointAt
  <2>2. CASE pos = 4
    BY <1>1, <1>4, <2>2 DEF Taking, DecodingOK, Spanned, OneEscape
  <2> QED BY <1>1, <1>4, <2>1, <2>2 DEF DecodingOK, EscapesOK, OneDecoded
<1>5. ASSUME TwoEscapes PROVE TwoDecoded'
  <2>1. CASE pos = 1
    <3>1. /\ n = 6 /\ chars = T!Utf8(T!Pair(CodePointAt(4), CodePointAt(7))) /\ decoded = <<>>
          /\ chars \in Seq(Nat)
      BY <1>1, <1>5, <2>1 DEF Taking, DecodingOK, EscapesOK, TwoDecoded
    <3>2. decoded' = T!Utf8(T!Pair(CodePointAt(4), CodePointAt(7))) /\ pos' = 7
      BY <1>2, <2>1, <3>1
    <3> QED BY <1>2, <3>2 DEF TwoDecoded, CodePointAt
  <2>2. CASE pos = 7
    BY <1>1, <1>5, <2>2 DEF Taking, DecodingOK, Spanned, TwoEscapes
  <2> QED BY <1>1, <1>5, <2>1, <2>2 DEF DecodingOK, EscapesOK, TwoDecoded
<1>6. (OneEscape' <=> OneEscape) /\ (TwoEscapes' <=> TwoEscapes)
  BY <1>2 DEF OneEscape, TwoEscapes, T!UnicodeAt, CodePointAt
<1>7. DecodingOK'
  BY <1>1, <1>2, <1>3, <1>4, <1>5, <1>6 DEF DecodingOK, EscapesOK
<1> QED BY <1>1, <1>2, <1>3, <1>7 DEF TokenInv, TokenOK

(* A plain character, an escape of one letter, one of a code unit or a     *)
(* pair of them; what is refused stays where it is.                        *)
LEMMA TokenRefused ==
  ASSUME TokenInv, pc = "decode", T!Refuse
  PROVE  TokenInv'
<1>1. TokenOK /\ DecodingOK
  BY DEF TokenInv
<1>2. RefusedOK'
  BY <1>1 DEF RefusedOK, DecodingOK, Spanned, T!Refuse, TokenOK
<1> QED BY <1>1, <1>2 DEF TokenInv, T!Refuse, TokenOK

LEMMA TokenPlain ==
  ASSUME TokenInv, T!DecodePlain
  PROVE  TokenInv'
<1>1. TokenOK /\ DecodingOK /\ pc = "decode" /\ pos # end
  BY DEF TokenInv, T!DecodePlain
<1>2. /\ pos + 1 <= end /\ T!Rest[1] = text[pos + 1] /\ text[pos + 1] \in Nat /\ pos \in Nat
      /\ text[pos + 1] # T!Backslash /\ T!Take(1, <<T!Rest[1]>>)
  BY <1>1, RestIs DEF DecodingOK, Spanned, T!DecodePlain
<1>3. Taking(1, <<T!Rest[1]>>)
  <2>1. Boundary(text, pos + 1)
    BY <1>1, <1>2, NextBoundary DEF DecodingOK
  <2>2. pos # 1 \/ ~T!UnicodeAt(2)
    BY <1>2 DEF T!UnicodeAt
  <2> QED BY <1>2, <2>1, <2>2 DEF Taking, OneEscape, TwoEscapes
<1> QED BY <1>1, <1>2, <1>3, TokenTake

LEMMA TokenEscape ==
  ASSUME TokenInv, T!DecodeEscape
  PROVE  TokenInv'
<1>1. TokenOK /\ DecodingOK /\ pc = "decode" /\ pos # end /\ T!Rest[1] = T!Backslash
  BY DEF TokenInv, T!DecodeEscape
<1>2. Len(T!Rest) = end - pos /\ T!Rest[1] = text[pos + 1] /\ pos \in Nat /\ end \in Nat
  BY <1>1, RestIs DEF DecodingOK, Spanned
<1>3. ASSUME Len(T!Rest) >= 2, T!Rest[2] # T!LetterU, NEW c \in Nat, T!Take(2, <<c>>)
      PROVE  TokenInv'
  <2>1. T!Rest[2] = text[pos + 2] /\ pos + 2 <= end
    BY <1>1, <1>2, <1>3, RestIs DEF DecodingOK
  <2>2. Boundary(text, pos + 2)
    BY <1>1, <1>2, NextBoundary DEF DecodingOK
  <2>3. pos # 1 \/ ~T!UnicodeAt(2)
    BY <1>3, <2>1 DEF T!UnicodeAt
  <2>4. Taking(2, <<c>>)
    BY <1>3, <2>1, <2>2, <2>3 DEF Taking, OneEscape, TwoEscapes
  <2> QED BY <1>1, <1>3, <2>4, TokenTake
<1>4. CASE T!Refuse
  BY <1>1, <1>4, TokenRefused
<1>5. CASE Len(T!Rest) >= 2 /\ T!Rest[2] \in {T!Quote, T!Backslash, T!Solidus}
             /\ T!Take(2, <<T!Rest[2]>>)
  <2>1. T!Rest[2] \in Nat /\ T!Rest[2] # T!LetterU
    BY <1>5 DEF T!Quote, T!Backslash, T!Solidus, T!LetterU
  <2> QED BY <1>3, <1>5, <2>1
<1>6. ASSUME Len(T!Rest) >= 2, NEW c \in DOMAIN T!Named, T!Rest[2] = T!Named[c],
             T!Take(2, <<c>>)
      PROVE  TokenInv'
  <2>1. c \in Nat /\ T!Rest[2] # T!LetterU
    BY <1>6, NamedIs DEF T!LetterU
  <2> QED BY <1>3, <1>6, <2>1
<1> QED BY <1>4, <1>5, <1>6 DEF T!DecodeEscape

(* Four digits of "\u": how many characters they are, and their number.    *)
LEMMA UnitDigitsAre ==
  ASSUME NEW i \in Nat, i >= 3, T!Digits(i), TokenOK, Spanned
  PROVE  /\ T!Width(i) \in {1, 4} /\ pos + (i - 1) + T!Width(i) <= end /\ T!Unit(i) \in Nat
         /\ Boundary(text, pos + (i - 1) + T!Width(i))
         /\ T!IsHex(text[pos + i]) => T!Width(i) = 1 /\ T!Unit(i) = text[pos + i] - 256
<1>1. /\ Len(T!Rest) = end - pos /\ pos \in Nat /\ end \in Nat /\ pos >= 1
      /\ \A k \in 1 .. end - pos : T!Rest[k] = text[pos + k] /\ text[pos + k] \in Nat
  BY RestIs DEF Spanned, TokenOK
<1>2. Len(T!Rest) >= i /\ T!Rest[i] = text[pos + i] /\ T!Rest[i] \in Nat
  BY <1>1 DEF T!Digits
<1>3. CASE T!IsHex(T!Rest[i])
  <2>1. T!Width(i) = 1 /\ T!Unit(i) = T!Rest[i] - 256 /\ T!Rest[i] >= 256
    BY <1>3 DEF T!Width, T!Unit, T!IsHex
  <2>2. pos + (i - 1) + T!Width(i) = pos + i /\ pos + i \in Nat /\ pos + i >= 1
    BY <1>1, <2>1
  <2>3. Boundary(text, pos + i)
    BY <1>2, <2>1, <2>2, PlainBoundary DEF T!Backslash
  <2> QED BY <1>1, <1>2, <2>1, <2>2, <2>3
<1>4. CASE ~T!IsHex(T!Rest[i])
  <2>1. T!Spelled(i) /\ T!Width(i) = 4
    BY <1>4 DEF T!Digits, T!Width
  <2>2. /\ Len(T!Rest) >= i + 3
        /\ \A k \in 0 .. 3 : T!DigitValue[T!Rest[i + k]] \in Nat /\ T!Rest[i + k] # T!Backslash
    <3>1. \A c \in DOMAIN T!DigitValue : T!DigitValue[c] \in Nat /\ c # T!Backslash
      BY DEF T!DigitValue, T!Backslash
    <3>2. \A k \in 0 .. 3 : i + k \in i .. i + 3
      OBVIOUS
    <3> QED BY <2>1, <3>1, <3>2 DEF T!Spelled
  <2>3. T!Unit(i) \in Nat
    <3>1. T!Unit(i) = ((T!DigitValue[T!Rest[i + 0]] * 16 + T!DigitValue[T!Rest[i + 1]]) * 16
                         + T!DigitValue[T!Rest[i + 2]]) * 16 + T!DigitValue[T!Rest[i + 3]]
      BY <1>4, Zenon DEF T!Unit
    <3>2. /\ T!DigitValue[T!Rest[i + 0]] \in Nat /\ T!DigitValue[T!Rest[i + 1]] \in Nat
          /\ T!DigitValue[T!Rest[i + 2]] \in Nat /\ T!DigitValue[T!Rest[i + 3]] \in Nat
      BY <2>2
    <3>3. \A a, b, c, d \in Nat : ((a * 16 + b) * 16 + c) * 16 + d \in Nat
      OBVIOUS
    <3> QED BY ONLY <3>1, <3>2, <3>3
  <2>4. /\ pos + (i - 1) + T!Width(i) = pos + (i + 3) /\ pos + (i + 3) \in Nat
        /\ pos + (i + 3) >= 1 /\ pos + (i + 3) <= end /\ i + 3 \in 1 .. end - pos
    BY <1>1, <2>1, <2>2
  <2>5. text[pos + (i + 3)] # T!Backslash
    BY <1>1, <2>2, <2>4
  <2>6. Boundary(text, pos + (i + 3))
    BY <2>4, <2>5, PlainBoundary
  <2> QED BY <1>2, <1>4, <2>1, <2>3, <2>4, <2>6
<1> QED BY <1>3, <1>4

LEMMA TokenUnicode ==
  ASSUME TokenInv, T!DecodeUnicode
  PROVE  TokenInv'
<1> DEFINE n == T!Unit(3)
           l == 2 + T!Width(3)
           m == T!Unit(l + 3)
           far == l + 2 + T!Width(l + 3)
<1>1. /\ TokenOK /\ DecodingOK /\ pc = "decode" /\ T!Rest[1] = T!Backslash
      /\ T!Rest[2] = T!LetterU /\ Len(T!Rest) >= 2 /\ Spanned
  BY DEF TokenInv, T!DecodeUnicode, DecodingOK
<1>2. pos \in Nat /\ pos >= 1 /\ end \in Nat /\ end <= Len(text) - 1
  BY <1>1 DEF Spanned, TokenOK
<1>3. CASE T!Refuse
  BY <1>1, <1>3, TokenRefused
<1>4. ASSUME T!Digits(3)
      PROVE  /\ n \in Nat /\ l \in {3, 6} /\ pos + l <= end /\ Boundary(text, pos + l)
             /\ pos = 1 /\ (OneEscape \/ TwoEscapes) => l = 3 /\ n = CodePointAt(4)
  <2>1. /\ T!Width(3) \in {1, 4} /\ pos + (3 - 1) + T!Width(3) <= end /\ n \in Nat
        /\ Boundary(text, pos + (3 - 1) + T!Width(3))
        /\ T!IsHex(text[pos + 3]) => T!Width(3) = 1 /\ n = text[pos + 3] - 256
    <3> HIDE DEF n
    <3> QED BY <1>1, <1>4, UnitDigitsAre DEF n
  <2>2. pos + (3 - 1) + T!Width(3) = pos + l
    BY <1>2, <2>1
  <2>3. pos = 1 /\ (OneEscape \/ TwoEscapes) => T!IsHex(text[pos + 3]) /\ pos + 3 = 4
    BY DEF OneEscape, TwoEscapes, T!UnicodeAt
  <2> HIDE DEF n
  <2> QED BY <1>2, <2>1, <2>2, <2>3 DEF CodePointAt
<1> HIDE DEF n
<1>5. CASE T!Digits(3) /\ ~T!HighSurrogate(n) /\ T!Take(l, T!Utf8(n))
  <2>1. T!Utf8(n) \in Seq(Nat)
    BY <1>4, <1>5, Utf8Is
  <2>2. TwoEscapes => pos # 1
    BY <1>4, <1>5 DEF TwoEscapes
  <2>3. Taking(l, T!Utf8(n))
    <3> HIDE DEF l
    <3> QED BY <1>2, <1>4, <1>5, <2>1, <2>2 DEF Taking
  <2> QED BY <1>1, <1>5, <2>3, TokenTake
<1>6. CASE T!Digits(3) /\ T!Digits(l + 3) /\ T!Take(far, T!Utf8(T!Pair(n, m)))
  <2>1. l + 3 \in Nat /\ l + 3 >= 3 /\ (l + 3) - 1 = l + 2
    BY <1>4, <1>6
  <2>2. /\ T!Width(l + 3) \in {1, 4} /\ pos + ((l + 3) - 1) + T!Width(l + 3) <= end /\ m \in Nat
        /\ Boundary(text, pos + ((l + 3) - 1) + T!Width(l + 3))
        /\ T!IsHex(text[pos + (l + 3)]) => T!Width(l + 3) = 1 /\ m = text[pos + (l + 3)] - 256
    <3> DEFINE i == l + 3
    <3> HIDE DEF l, i
    <3> QED BY <1>1, <1>6, <2>1, UnitDigitsAre DEF i
  <2>3. /\ far \in Nat /\ far >= 1 /\ pos + far <= end
        /\ pos + ((l + 3) - 1) + T!Width(l + 3) = pos + far /\ far > 5
    <3>1. l \in {3, 6}
      BY <1>4, <1>6
    <3> HIDE DEF l
    <3> QED BY <1>2, <2>2, <3>1
  <2>4. T!Utf8(T!Pair(n, m)) \in Seq(Nat)
    <3>1. T!Pair(n, m) \in Nat
      <4> HIDE DEF n, m
      <4> QED BY <1>4, <1>6, <2>2, SMT DEF T!Pair
    <3> QED BY <3>1, Utf8Is
  <2>5. OneEscape => pos # 1
    <3> HIDE DEF far
    <3> QED BY <1>2, <2>3 DEF OneEscape
  <2>6. TwoEscapes /\ pos = 1 => far = 6 /\ n = CodePointAt(4) /\ m = CodePointAt(7)
    <3> HAVE TwoEscapes /\ pos = 1
    <3>1. l = 3 /\ n = CodePointAt(4)
      BY <1>4, <1>6
    <3>2. T!IsHex(text[7]) /\ pos + (l + 3) = 7
      BY <3>1 DEF TwoEscapes, T!UnicodeAt
    <3> HIDE DEF m
    <3> QED BY <2>2, <3>1, <3>2 DEF CodePointAt
  <2> HIDE DEF m
  <2>7. Taking(far, T!Utf8(T!Pair(n, m)))
    <3> HIDE DEF far
    <3> QED BY <2>2, <2>3, <2>4, <2>5, <2>6 DEF Taking
  <2> QED BY <1>1, <1>6, <2>7, TokenTake
<1> QED BY <1>3, <1>5, <1>6 DEF T!DecodeUnicode, n

LEMMA TokenDone ==
  ASSUME TokenInv, T!FinishDecoding
  PROVE  TokenInv'
<1>1. TokenOK /\ DecodingOK /\ pc = "decode" /\ (pos # end => T!Rest[1] = T!Quote)
  BY DEF TokenInv, T!FinishDecoding
<1>2. ASSUME T!UnicodeAt(2), pos = 1 PROVE FALSE
  <2>1. text[2] = 92 /\ text[1] # 92 /\ text[end + 1] = text[1]
    BY <1>1, <1>2 DEF T!UnicodeAt, TokenOK, T!Backslash, DecodingOK
  <2>2. end # 1
    BY <2>1
  <2>3. T!Rest[1] = text[1 + 1]
    BY <1>1, <1>2, <2>2, RestIs DEF DecodingOK, Spanned
  <2> QED BY <1>1, <1>2, <2>1, <2>2, <2>3 DEF T!Quote
<1>3. DoneOK
  BY <1>1, <1>2 DEF DoneOK, DecodingOK, OneEscape, TwoEscapes
<1>4. DoneOK'
  BY <1>3 DEF DoneOK, Spanned, EscapesOK, OneEscape, TwoEscapes, OneDecoded, TwoDecoded,
              CodePointAt, T!UnicodeAt, T!FinishDecoding
<1> QED BY <1>1, <1>4 DEF TokenInv, TokenOK, T!FinishDecoding

LEMMA TokenStep == TokenInv /\ T!Next => TokenInv'
BY TokenWrite, TokenScan, TokenPlain, TokenEscape, TokenUnicode, TokenDone DEF T!Next

LEMMA TokenAtFirst == T!Init => TokenInv
<1> HAVE T!Init
<1>1. CASE string \in Strings /\ form \in {"N", "C"} /\ text = <<T!Quote>> /\ pc = "write"
  <2>1. TokenOK
    BY <1>1 DEF TokenOK, T!Quote
  <2>2. WritingOK
    <3>1. T!Written \in Seq(Nat)
      BY <1>1, StringsAssumption, WrittenIs
    <3> QED BY <1>1, <3>1 DEF WritingOK, T!Init
  <2> QED BY <1>1, <2>1, <2>2 DEF TokenInv, T!Init
<1>2. CASE text \in Tokens /\ pc = "scan" /\ form = "none"
  <2>1. TokenOK
    BY <1>2, TokensAssumption DEF TokenOK
  <2> QED BY <1>2, <2>1 DEF TokenInv, ScanningOK, TokenOK, T!Init
<1> QED BY <1>1, <1>2 DEF T!Init

(* Which gives what JsonText says of tokens.                               *)
LEMMA TokensAreRead == TokenInv => T!TypeOK /\ T!EscapesAreWhole /\ T!EscapesAreDecoded
<1> HAVE TokenInv
<1>1. T!TypeOK
  <2>1. CASE pc = "write"
    <3>1. string \in Seq(Nat) /\ WritingOK /\ TokenOK
      BY <2>1, StringsAssumption DEF TokenInv, WritingOK
    <3>2. Len(T!Written) <= Len(string) /\ Len(T!Written) \in Nat /\ Len(string) \in Nat
      BY <3>1, WrittenIs
    <3> QED BY <2>1, <3>1, <3>2 DEF TokenInv, WritingOK, TokenOK, T!TypeOK
  <2>2. CASE pc # "write"
    BY <2>2 DEF TokenInv, TokenOK, ScanningOK, DecodingOK, DoneOK, RefusedOK, Spanned, T!TypeOK
  <2> QED BY <2>1, <2>2
<1>2. T!EscapesAreWhole
  <2> SUFFICES ASSUME pc = "decode", pos # end, T!Rest[1] = T!Backslash
               PROVE  Len(T!Rest) >= 2
    BY DEF T!EscapesAreWhole
  <2>1. TokenOK /\ DecodingOK
    BY DEF TokenInv
  <2>2. Len(T!Rest) = end - pos /\ T!Rest[1] = text[pos + 1] /\ pos \in Nat /\ end \in Nat
        /\ pos < end
    BY <2>1, RestIs DEF DecodingOK, Spanned
  <2>3. ~Boundary(text, pos + 1) /\ Boundary(text, end)
    BY <2>1, <2>2, NextBoundary DEF DecodingOK
  <2>4. end # pos + 1
    BY <2>3
  <2> QED BY <2>2, <2>4
<1>3. T!EscapesAreDecoded
  <2> SUFFICES ASSUME pc = "done" PROVE T!EscapesAreDecoded
    BY DEF T!EscapesAreDecoded
  <2>1. TokenOK /\ DoneOK
    BY DEF TokenInv
  <2>2. ASSUME OneEscape PROVE T!Hex(T!CodePointIn(decoded)) = text[4]
    <3>1. decoded = T!Utf8(CodePointAt(4))
      BY <2>1, <2>2 DEF DoneOK, EscapesOK, OneDecoded
    <3>2. text[4] \in Nat /\ text[4] >= 256
      <4>1. 4 \in 1 .. Len(text) /\ 2 + 2 = 4
        BY <2>2 DEF OneEscape
      <4>2. text[4] \in Nat
        BY <2>1, <4>1 DEF TokenOK
      <4>3. text[2 + 2] >= 256
        BY <2>2 DEF OneEscape, T!UnicodeAt, T!IsHex
      <4> QED BY ONLY <4>1, <4>2, <4>3
    <3>3. CodePointAt(4) \in Nat /\ 256 + CodePointAt(4) = text[4]
      BY <3>2 DEF CodePointAt
    <3> QED BY <3>1, <3>3, Utf8Is DEF T!Hex
  <2>3. ASSUME TwoEscapes, text[7] - 256 \in 56320 .. 57343
        PROVE  T!CodePointIn(decoded) - 65536
                 = (text[4] - T!Hex(55296)) * 1024 + (text[7] - T!Hex(56320))
    <3> DEFINE n == CodePointAt(4)  m == CodePointAt(7)
    <3>1. decoded = T!Utf8(T!Pair(n, m))
      BY <2>1, <2>3, SMT DEF DoneOK, EscapesOK, TwoDecoded
    <3>2. n \in 55296 .. 56319 /\ m \in 56320 .. 57343
      BY <2>3, SMT DEF TwoEscapes, T!HighSurrogate, CodePointAt
    <3>3. text[4] \in Nat /\ text[7] \in Nat
      <4>1. 4 \in 1 .. Len(text) /\ 7 \in 1 .. Len(text)
        BY <2>3, SMT DEF TwoEscapes
      <4>2. text \in Seq(Nat)
        BY <2>1 DEF TokenOK
      <4> QED BY ONLY <4>1, <4>2
    <3>4. text[4] = n + 256 /\ text[7] = m + 256
      BY <3>3, SMT DEF CodePointAt
    <3> HIDE DEF n, m
    <3>5. T!Pair(n, m) \in Nat /\ T!Pair(n, m) - 65536 = (n - 55296) * 1024 + (m - 56320)
      <4>1. n % 1024 = n - 55296 /\ m % 1024 = m - 56320
        BY <3>2, SMT
      <4> QED BY <3>2, <4>1, SMT DEF T!Pair
    <3>6. T!CodePointIn(decoded) = T!Pair(n, m)
      BY <3>1, <3>5, Utf8Is, SMT
    <3>7. text[4] - T!Hex(55296) = n - 55296 /\ text[7] - T!Hex(56320) = m - 56320
      BY <3>2, <3>4, SMT DEF T!Hex
    <3> QED BY <3>5, <3>6, <3>7, SMT
  <2> QED BY <2>2, <2>3, SMT DEF T!EscapesAreDecoded, OneEscape, TwoEscapes, CodePointAt
<1> QED BY <1>1, <1>2, <1>3

(* What is written of a string, told by where each of its characters lies: *)
(* what is quoted of the i-th ends at o[i].                                *)
Lies(t, n, e) == \A k \in 1 .. Len(e) : t[n + k] = e[k]
Laid(t, w, n, o) ==
  /\ o \in [0 .. n -> Nat \ {0}] /\ o[0] = 1
  /\ \A i \in 0 .. n - 1 : /\ o[i] < o[n] /\ o[i + 1] = o[i] + Len(T!Escaped(w[i + 1]))
                           /\ Lies(t, o[i], T!Escaped(w[i + 1]))
Quoted(w, o) == /\ Laid(text, w, Len(w), o) /\ Len(text) = o[Len(w)] + 1
                /\ text[Len(text)] = 34 /\ text[1] = 34
QuotedWriting  == \E o : Laid(text, T!Written, pos, o) /\ Len(text) = o[pos] /\ text[1] = 34
Midway(w, i) == i < Len(w) /\ Escapes3(w[i + 1], T!Escaped(w[i + 1]))
QuotedScanning ==
  \E o : /\ Quoted(T!Written, o)
         /\ \/ pos = 0
            \/ \E i \in 0 .. Len(T!Written) : pos = o[i] \/ (pos = o[i] + 2 /\ Midway(T!Written, i))
QuotedDecoding ==
  \E o : /\ Quoted(T!Written, o) /\ end = o[Len(T!Written)]
         /\ \E i \in 0 .. Len(T!Written) : pos = o[i] /\ decoded = SubSeq(T!Written, 1, i)
QuotedInv ==
  form # "none" =>
    \/ pc = "write"  /\ QuotedWriting
    \/ pc = "scan"   /\ QuotedScanning
    \/ pc = "decode" /\ QuotedDecoding
    \/ pc = "done"   /\ decoded = T!Written

(* The character after the i-th: where it lies and what it looks like.     *)
Follows(o, i, n, c, e) ==
  /\ c \in Nat /\ e \in Seq(Nat) /\ Len(e) \in 1 .. 3
  /\ Escapes1(c, e) \/ Escapes2(c, e) \/ Escapes3(c, e)
  /\ o[i] \in Nat /\ o[i] >= 1 /\ o[i + 1] = o[i] + Len(e)
  /\ o[i + 1] <= o[n] /\ o[n] \in Nat /\ Len(text) = o[n] + 1
  /\ \A k \in 1 .. Len(e) : text[o[i] + k] = e[k]
LEMMA NextQuoted ==
  ASSUME NEW w \in Seq(Nat), NEW o, NEW i \in 0 .. Len(w), i # Len(w), Quoted(w, o),
         text \in Seq(Nat)
  PROVE  Follows(o, i, Len(w), w[i + 1], T!Escaped(w[i + 1]))
<1> DEFINE c == w[i + 1]  e == T!Escaped(c)  n == Len(w)
<1>1. n \in Nat /\ i \in 0 .. n - 1 /\ i + 1 \in 0 .. n /\ i + 1 \in 1 .. n /\ n \in 0 .. n
      /\ i \in 0 .. n
  OBVIOUS
<1>2. c \in Nat
  BY <1>1
<1>3. e \in Seq(Nat) /\ (Escapes1(c, e) \/ Escapes2(c, e) \/ Escapes3(c, e))
  BY <1>2, EscapedIs
<1>4. Len(e) \in 1 .. 3
  BY <1>3 DEF Escapes1, Escapes2, Escapes3
<1>5. /\ o \in [0 .. n -> Nat \ {0}] /\ o[i + 1] = o[i] + Len(e) /\ Lies(text, o[i], e)
      /\ \A j \in 0 .. n - 1 : o[j] < o[n]
  BY <1>1 DEF Quoted, Laid
<1>6. o[i] \in Nat /\ o[i] >= 1 /\ o[n] \in Nat /\ o[i + 1] \in Nat
  <2> HIDE DEF c, e, n
  <2>1. \A j \in 0 .. n : o[j] \in Nat \ {0}
    BY ONLY <1>5
  <2> QED BY ONLY <1>1, <2>1
<1>7. o[i + 1] <= o[n]
  <2>1. CASE i + 1 = n
    BY <1>6, <2>1
  <2>2. CASE i + 1 # n
    <3>1. i + 1 \in 0 .. n - 1
      BY <1>1, <2>2
    <3>2. o[i + 1] < o[n]
      BY <1>5, <3>1
    <3> QED BY <1>6, <3>2
  <2> QED BY <2>1, <2>2
<1>8. Len(text) = o[n] + 1
  BY DEF Quoted
<1> HIDE DEF c, e, n
<1>9. \A k \in 1 .. Len(e) : text[o[i] + k] = e[k]
  BY <1>5 DEF Lies
<1>10. Follows(o, i, n, c, e)
  BY <1>2, <1>3, <1>4, <1>5, <1>6, <1>7, <1>8, <1>9, Zenon DEF Follows
<1> QED BY <1>10 DEF c, e, n

(* One more character is written after the others.                         *)
LEMMA OneMoreLaid ==
  ASSUME NEW w, NEW t \in Seq(Nat), NEW n \in Nat, NEW o, Laid(t, w, n, o), Len(t) = o[n],
         NEW e \in Seq(Nat), e = T!Escaped(w[n + 1]), Len(e) >= 1
  PROVE  \E p : Laid(t \o e, w, n + 1, p) /\ Len(t \o e) = p[n + 1]
<1> DEFINE p == [j \in 0 .. n + 1 |-> IF j = n + 1 THEN o[n] + Len(e) ELSE o[j]]  u == t \o e
<1>1. /\ o \in [0 .. n -> Nat \ {0}] /\ o[0] = 1
      /\ \A i \in 0 .. n - 1 : /\ o[i] < o[n] /\ o[i + 1] = o[i] + Len(T!Escaped(w[i + 1]))
                               /\ Lies(t, o[i], T!Escaped(w[i + 1]))
  BY DEF Laid
<1>2. \A j \in 0 .. n : j \in 0 .. n + 1 /\ j # n + 1 /\ p[j] = o[j] /\ o[j] \in Nat \ {0}
  BY <1>1
<1>3. p[n + 1] = o[n] + Len(e) /\ Len(e) \in Nat /\ n \in 0 .. n /\ n + 1 \in 0 .. n + 1
  OBVIOUS
<1>4. p \in [0 .. n + 1 -> Nat \ {0}]
  <2>1. o[n] \in Nat \ {0}
    BY <1>2, <1>3
  <2>2. o[n] + Len(e) \in Nat \ {0}
    BY <1>3, <2>1
  <2>3. \A j \in 0 .. n + 1 : j = n + 1 \/ j \in 0 .. n
    OBVIOUS
  <2> QED BY <1>2, <2>2, <2>3
<1>5. p[0] = 1 /\ Len(u) = o[n] + Len(e) /\ o[n] \in Nat
  <2>1. 0 \in 0 .. n
    OBVIOUS
  <2>2. p[0] = 1
    BY <1>1, <1>2, <2>1
  <2>3. Len(u) = Len(t) + Len(e)
    <3>1. t \in Seq(Nat) /\ e \in Seq(Nat)
      OBVIOUS
    <3> QED BY ONLY <3>1
  <2>4. o[n] \in Nat /\ Len(t) = o[n]
    BY <1>2, <1>3
  <2> QED BY ONLY <2>2, <2>3, <2>4
<1>6. /\ \A k \in 1 .. Len(t) : u[k] = t[k]
      /\ \A k \in 1 .. Len(e) : u[Len(t) + k] = e[k]
  <2> HIDE DEF p
  <2>1. t \in Seq(Nat) /\ e \in Seq(Nat) /\ Len(t) \in Nat /\ Len(e) \in Nat
    OBVIOUS
  <2>2. \A x \in 1 .. Len(t) + Len(e) : u[x] = IF x <= Len(t) THEN t[x] ELSE e[x - Len(t)]
    BY ONLY <2>1, ConcatProperties
  <2> HIDE DEF u
  <2>3. ASSUME NEW k \in 1 .. Len(e) PROVE u[Len(t) + k] = e[k]
    <3>1. /\ Len(t) + k \in 1 .. Len(t) + Len(e) /\ ~(Len(t) + k <= Len(t))
          /\ (Len(t) + k) - Len(t) = k
      BY ONLY <2>1, <2>3
    <3> QED BY ONLY <2>2, <3>1
  <2>4. ASSUME NEW k \in 1 .. Len(t) PROVE u[k] = t[k]
    <3>1. k \in 1 .. Len(t) + Len(e) /\ k <= Len(t)
      BY ONLY <2>1, <2>4
    <3> QED BY ONLY <2>2, <3>1
  <2> QED BY <2>3, <2>4
<1> HIDE DEF p, u
<1>7. ASSUME NEW i \in 0 .. n
      PROVE  /\ p[i] < p[n + 1] /\ p[i + 1] = p[i] + Len(T!Escaped(w[i + 1]))
             /\ Lies(u, p[i], T!Escaped(w[i + 1]))
  <2>1. CASE i = n
    <3>1. Lies(u, o[n], e)
      BY <1>6 DEF Lies
    <3>2. p[n] = o[n]
      BY <1>2, <1>3
    <3> QED BY <1>3, <1>5, <2>1, <3>1, <3>2
  <2>2. CASE i # n
    <3> DEFINE f == T!Escaped(w[i + 1])
    <3>1. i \in 0 .. n - 1 /\ i + 1 \in 0 .. n
      BY <2>2
    <3>2. /\ o[i] < o[n] /\ o[i + 1] = o[i] + Len(f) /\ Lies(t, o[i], f)
          /\ p[i] = o[i] /\ p[i + 1] = o[i + 1] /\ o[i] \in Nat /\ o[i + 1] \in Nat
      BY <1>1, <1>2, <3>1
    <3>3. o[i + 1] <= o[n]
      <4>1. i + 1 = n \/ i + 1 \in 0 .. n - 1
        BY <3>1
      <4>2. i + 1 \in 0 .. n - 1 => o[i + 1] < o[n]
        BY <1>1
      <4> QED BY <1>5, <3>2, <4>1, <4>2
    <3>4. p[i] < p[n + 1]
      BY <1>3, <1>5, <3>2
    <3> HIDE DEF f
    <3>5. Lies(u, o[i], f)
      <4> SUFFICES ASSUME NEW k \in 1 .. Len(f) PROVE u[o[i] + k] = f[k]
        BY DEF Lies
      <4>1. o[i] + k \in 1 .. o[i] + Len(f)
        <5>1. Len(f) \in Int
          BY <3>2, <1>5, <3>3
        <5> QED BY <3>2
      <4>2. o[i] + k \in 1 .. Len(t)
        BY <1>5, <3>2, <3>3, <4>1
      <4>3. u[o[i] + k] = t[o[i] + k]
        BY <1>6, <4>2
      <4> QED BY <3>2, <4>3 DEF Lies
    <3> QED BY <3>2, <3>4, <3>5 DEF f
  <2> QED BY <2>1, <2>2
<1>8. Laid(u, w, n + 1, p)
  <2>1. \A i \in 0 .. (n + 1) - 1 : i \in 0 .. n
    OBVIOUS
  <2> QED BY <1>4, <1>5, <1>7, <2>1 DEF Laid
<1>9. Len(u) = p[n + 1]
  BY <1>3, <1>5
<1> QED BY <1>8, <1>9 DEF u

(* The offsets stay when the steps of a reader change neither the string   *)
(* nor the text.                                                           *)
LEMMA QuotedStays ==
  ASSUME UNCHANGED <<string, form, text>>
  PROVE  T!Written' = T!Written /\ \A w, o : Quoted(w, o)' <=> Quoted(w, o)
BY DEF T!Written, Quoted

LEMMA QuotedWrite ==
  ASSUME TokenInv, QuotedInv, form # "none", T!WriteCharacter \/ T!FinishWriting
  PROVE  QuotedInv'
<1> DEFINE w == T!Written
<1>1. pc = "write" /\ WritingOK /\ TokenOK /\ string \in Seq(Nat) /\ QuotedWriting
  BY StringsAssumption DEF TokenInv, T!WriteCharacter, T!FinishWriting, WritingOK, QuotedInv
<1>2. w \in Seq(Nat) /\ w' = w /\ pos \in 0 .. Len(w) /\ pos \in Nat
  BY <1>1, WrittenIs DEF WritingOK, T!Written, T!WriteCharacter, T!FinishWriting
<1>3. PICK o : Laid(text, w, pos, o) /\ Len(text) = o[pos] /\ text[1] = 34
  BY <1>1 DEF QuotedWriting
<1>4. CASE T!WriteCharacter
  <2> DEFINE c == w[pos + 1]  e == T!Escaped(c)
  <2>1. pos + 1 \in 1 .. Len(w) /\ text' = text \o e /\ pos' = pos + 1 /\ pc' = "write"
    BY <1>1, <1>2, <1>4 DEF T!WriteCharacter
  <2>2. c \in Nat
    BY <1>2, <2>1
  <2>3. e \in Seq(Nat) /\ (Escapes1(c, e) \/ Escapes2(c, e) \/ Escapes3(c, e))
    BY <2>2, EscapedIs
  <2>4. Len(e) >= 1
    BY <2>3 DEF Escapes1, Escapes2, Escapes3
  <2>5. \E p : Laid(text \o e, w, pos + 1, p) /\ Len(text \o e) = p[pos + 1]
    BY <1>1, <1>2, <1>3, <2>3, <2>4, OneMoreLaid DEF TokenOK
  <2>6. (text \o e)[1] = 34
    <3> HIDE DEF e
    <3> QED BY <1>1, <1>3, <2>3 DEF TokenOK
  <2>7. \E p : Laid(text', w', pos', p) /\ Len(text') = p[pos'] /\ text'[1] = 34
    BY <1>2, <2>1, <2>5, <2>6
  <2>8. QuotedWriting'
    BY <2>7 DEF QuotedWriting
  <2> QED BY <2>1, <2>8 DEF QuotedInv
<1>5. CASE T!FinishWriting
  <2> DEFINE t == Append(text, 34)  n == Len(w)
  <2>1. pos = n /\ text' = t /\ pos' = 0 /\ pc' = "scan"
    BY <1>5 DEF T!FinishWriting, T!Quote
  <2>2. /\ Len(t) = o[n] + 1 /\ t[Len(t)] = 34 /\ t[1] = 34
        /\ \A k \in 1 .. Len(text) : t[k] = text[k]
    BY <1>1, <1>3, <2>1 DEF TokenOK
  <2>3. Laid(t, w, n, o)
    <3>1. ASSUME NEW i \in 0 .. n - 1 PROVE Lies(t, o[i], T!Escaped(w[i + 1]))
      <4> DEFINE e == T!Escaped(w[i + 1])
      <4>1. /\ o \in [0 .. n -> Nat \ {0}] /\ o[i + 1] = o[i] + Len(e) /\ Lies(text, o[i], e)
            /\ \A j \in 0 .. n - 1 : o[j] < o[n]
        BY <1>3, <2>1 DEF Laid
      <4>2. i + 1 \in 0 .. n /\ i \in 0 .. n /\ n \in 0 .. n
        BY <1>2
      <4>3. o[i] \in Nat /\ o[i + 1] \in Nat /\ o[n] \in Nat /\ o[i + 1] <= o[n]
        <5>1. i + 1 = n \/ i + 1 \in 0 .. n - 1
          BY <1>2
        <5> QED BY <4>1, <4>2, <5>1
      <4>4. w[i + 1] \in Nat
        BY <1>2
      <4>5. Len(e) \in Nat
        BY <4>4, EscapedIs
      <4> HIDE DEF e, t, n, w
      <4>6. ASSUME NEW k \in 1 .. Len(e) PROVE t[o[i] + k] = e[k]
        <5>1. o[i] + k \in 1 .. Len(text)
          BY <1>3, <2>1, <4>1, <4>3, <4>5
        <5> QED BY <2>2, <4>1, <5>1 DEF Lies
      <4>7. Lies(t, o[i], e)
        BY <4>6 DEF Lies
      <4> QED BY <4>7 DEF e
    <3> QED BY <1>3, <2>1, <3>1 DEF Laid
  <2>4. Quoted(w, o)'
    BY <1>2, <2>1, <2>2, <2>3 DEF Quoted
  <2>5. QuotedScanning'
    BY <1>2, <2>1, <2>4 DEF QuotedScanning
  <2> QED BY <2>1, <2>5 DEF QuotedInv
<1> QED BY <1>4, <1>5

(* The scanner passes over what is quoted of a character at a time, or in  *)
(* two steps, and stops where the last one ends.                           *)
LEMMA QuotedScan ==
  ASSUME TokenInv, QuotedInv, form # "none", T!Scan \/ T!EndOfToken \/ T!NoToken
  PROVE  QuotedInv'
<1> DEFINE w == T!Written  n == Len(w)  s == T!Start
<1>1. pc = "scan" /\ ScanningOK /\ TokenOK /\ string \in Seq(Nat) /\ QuotedScanning
  BY StringsAssumption DEF TokenInv, T!Scan, T!EndOfToken, T!NoToken, QuotedInv
<1>2. w \in Seq(Nat) /\ n \in Nat /\ text \in Seq(Nat) /\ decoded = <<>>
  BY <1>1, WrittenIs DEF TokenOK, ScanningOK
<1>3. PICK o : /\ Quoted(w, o)
               /\ \/ pos = 0
                  \/ \E i \in 0 .. n : pos = o[i] \/ (pos = o[i] + 2 /\ Midway(w, i))
  BY <1>1 DEF QuotedScanning
<1>4. o \in [0 .. n -> Nat \ {0}] /\ o[0] = 1 /\ Len(text) = o[n] + 1 /\ text[Len(text)] = 34
      /\ text[1] = 34
  BY <1>3 DEF Quoted, Laid
<1>5. w' = w /\ (Quoted(w, o)' <=> Quoted(w, o))
  BY QuotedStays DEF T!Scan, T!EndOfToken, T!NoToken
<1>6. \E i \in 0 .. n : s = o[i] \/ (s = o[i] + 2 /\ Midway(w, i))
  <2>1. CASE pos = 0
    <3>1. s = o[0] /\ 0 \in 0 .. n
      BY <1>2, <1>4, <2>1 DEF T!Start
    <3> QED BY <3>1
  <2>2. CASE pos # 0
    <3>1. s = pos
      BY <2>2 DEF T!Start
    <3> QED BY <1>3, <2>2, <3>1
  <2> QED BY <2>1, <2>2
<1>7. PICK i \in 0 .. n : s = o[i] \/ (s = o[i] + 2 /\ Midway(w, i))
  BY <1>6
<1> DEFINE c == w[i + 1]  e == T!Escaped(c)
<1>8. i # n => /\ c \in Nat /\ e \in Seq(Nat) /\ Len(e) \in 1 .. 3
               /\ Escapes1(c, e) \/ Escapes2(c, e) \/ Escapes3(c, e)
               /\ o[i] \in Nat /\ o[i] >= 1 /\ o[i + 1] = o[i] + Len(e)
               /\ o[i + 1] <= o[n] /\ o[n] \in Nat /\ Len(text) = o[n] + 1
               /\ \A k \in 1 .. Len(e) : text[o[i] + k] = e[k]
  <2>1. i # n => Follows(o, i, n, c, e)
    BY <1>2, <1>3, NextQuoted, Zenon
  <2> HIDE DEF c, e, n, w
  <2> QED BY <2>1, Zenon DEF Follows
<1>9. Midway(w, i) => i # n
  BY DEF Midway
<1>10. o[n] \in Nat /\ o[n] >= 1
  BY <1>2, <1>4
<1> HIDE DEF c, e, s, n, w
<1>11. ASSUME i # n
       PROVE  /\ s < Len(text) /\ text[s + 1] # 34
              /\ \E j \in 0 .. n : \/ T!Passed(s) = o[j]
                                   \/ (T!Passed(s) = o[j] + 2 /\ Midway(w, j))
  <2>1. i + 1 \in 0 .. n
    BY <1>2, <1>11
  <2>2. CASE s = o[i] /\ Escapes1(c, e)
    <3>1. text[s + 1] = c /\ Len(e) = 1 /\ c \notin {34, 92}
      BY <1>8, <1>11, <2>2 DEF Escapes1
    <3>2. T!Passed(s) = o[i + 1]
      BY <1>8, <1>11, <2>2, <3>1 DEF T!Passed, T!Backslash
    <3> QED BY <1>8, <1>11, <2>1, <2>2, <3>1, <3>2
  <2>3. CASE s = o[i] /\ (Escapes2(c, e) \/ Escapes3(c, e))
    <3>1. text[s + 1] = 92 /\ s + 1 < Len(text) /\ s + 2 <= Len(text)
      <4>1. Len(e) >= 2 /\ e[1] = 92 /\ 1 \in 1 .. Len(e)
        BY <2>3 DEF Escapes2, Escapes3
      <4>2. text[o[i] + 1] = e[1]
        BY <1>8, <1>11, <4>1
      <4>3. text[s + 1] = 92
        BY ONLY <2>3, <4>1, <4>2
      <4>4. o[i] \in Nat /\ o[i] + 2 <= o[n] /\ Len(text) = o[n] + 1 /\ o[n] \in Nat
        BY ONLY <1>8, <1>11, <4>1
      <4> QED BY ONLY <2>3, <4>3, <4>4
    <3>2. T!Passed(s) = (s + 1) + 1
      BY <3>1, <1>8, <1>11, <2>3 DEF T!Passed, T!GetNextChar, T!Backslash
    <3>3. CASE Escapes2(c, e)
      <4>1. T!Passed(s) = o[i + 1]
        BY <1>8, <1>11, <2>3, <3>2, <3>3 DEF Escapes2
      <4> QED BY <1>8, <1>11, <2>1, <2>3, <3>1, <4>1
    <3>4. CASE Escapes3(c, e)
      <4>1. T!Passed(s) = o[i] + 2
        BY <1>8, <1>11, <2>3, <3>2
      <4>2. Midway(w, i)
        BY <1>2, <1>11, <3>4 DEF Midway, e, c, n
      <4> QED BY <1>8, <1>11, <2>3, <3>1, <4>1, <4>2
    <3> QED BY <2>3, <3>3, <3>4
  <2>4. CASE (s = o[i] + 2 /\ Midway(w, i))
    <3>1. Escapes3(c, e)
      BY <2>4 DEF Midway, e, c
    <3>2. text[s + 1] = 256 + c /\ o[i + 1] = o[i] + 3
      <4>1. 3 \in 1 .. Len(e) /\ (o[i] + 2) + 1 = o[i] + 3
        BY <1>8, <1>11, <3>1 DEF Escapes3
      <4> QED BY <1>8, <1>11, <2>4, <3>1, <4>1 DEF Escapes3
    <3>3. T!Passed(s) = o[i + 1]
      BY <1>8, <1>11, <2>4, <3>2 DEF T!Passed, T!Backslash
    <3>4. /\ o[i] \in Nat /\ o[i + 1] <= o[n] /\ Len(text) = o[n] + 1 /\ o[n] \in Nat
          /\ c \in Nat
      BY ONLY <1>8, <1>11
    <3>5. s < Len(text) /\ text[s + 1] # 34
      BY ONLY <2>4, <3>2, <3>4
    <3> QED BY ONLY <2>1, <3>3, <3>5
  <2>5. Escapes1(c, e) \/ Escapes2(c, e) \/ Escapes3(c, e)
    BY <1>8, <1>11
  <2> QED BY ONLY <1>7, <2>2, <2>3, <2>4, <2>5
<1>12. i = n => s = o[n] /\ s < Len(text) /\ text[s + 1] = 34
  BY <1>4, <1>7, <1>9, <1>10
<1>13. CASE T!Scan
  <2>1. text[s + 1] # 34 /\ pos' = T!Passed(s) /\ pc' = "scan"
    BY <1>1, <1>4, <1>13 DEF T!Scan, s
  <2>2. \E j \in 0 .. n : pos' = o[j] \/ (pos' = o[j] + 2 /\ Midway(w, j))
    BY <1>11, <1>12, <2>1
  <2>3. QuotedScanning'
    BY <1>3, <1>5, <2>2 DEF QuotedScanning, w, n
  <2> QED BY <2>1, <2>3 DEF QuotedInv
<1>14. CASE T!EndOfToken
  <2>1. text[s + 1] = 34 /\ end' = s /\ pos' = 1 /\ pc' = "decode" /\ decoded' = <<>>
    BY <1>1, <1>2, <1>4, <1>14 DEF T!EndOfToken, s
  <2>2. end' = o[n] /\ pos' = o[0] /\ 0 \in 0 .. n
    BY <1>2, <1>4, <1>11, <1>12, <2>1
  <2>3. decoded' = SubSeq(w, 1, 0)
    BY <1>2, <2>1
  <2>4. QuotedDecoding'
    BY <1>3, <1>5, <2>2, <2>3 DEF QuotedDecoding, w, n
  <2> QED BY <2>1, <2>4 DEF QuotedInv
<1>15. CASE T!NoToken
  BY <1>11, <1>12, <1>15, <1>2 DEF T!NoToken, s
<1> QED BY <1>13, <1>14, <1>15

(* The decoder makes of what is quoted of a character that character.      *)
DecodesTo(w, o, i) ==
  /\ pc' = "decode" /\ UNCHANGED <<string, form, text, end>>
  /\ pos' = o[i + 1] /\ decoded' = Append(decoded, w[i + 1])
LEMMA QuotedCharacter ==
  ASSUME NEW w \in Seq(Nat), NEW o, NEW i \in 0 .. Len(w), i # Len(w), w = T!Written,
         Quoted(w, o), end = o[Len(w)], decoded = SubSeq(w, 1, i), DecodesTo(w, o, i),
         form # "none"
  PROVE  QuotedInv'
<1>1. i + 1 \in 0 .. Len(w) /\ Append(SubSeq(w, 1, i), w[i + 1]) = SubSeq(w, 1, i + 1)
  OBVIOUS
<1>2. w = T!Written' /\ Quoted(w, o)' /\ end' = o[Len(w)]
  BY QuotedStays DEF DecodesTo
<1>3. pos' = o[i + 1] /\ decoded' = SubSeq(w, 1, i + 1)
  BY <1>1 DEF DecodesTo
<1>4. QuotedDecoding'
  BY <1>1, <1>2, <1>3 DEF QuotedDecoding
<1> QED BY <1>4 DEF QuotedInv, DecodesTo

LEMMA QuotedDecode ==
  ASSUME TokenInv, QuotedInv, form # "none",
         T!DecodePlain \/ T!DecodeEscape \/ T!DecodeUnicode \/ T!FinishDecoding
  PROVE  QuotedInv'
<1> DEFINE w == T!Written  n == Len(w)
<1>1. /\ pc = "decode" /\ DecodingOK /\ TokenOK /\ string \in Seq(Nat) /\ QuotedDecoding
      /\ decoded \in Seq(Nat)
  BY StringsAssumption
     DEF TokenInv, T!DecodePlain, T!DecodeEscape, T!DecodeUnicode, T!FinishDecoding, QuotedInv
<1>2. w \in Seq(Nat) /\ n \in Nat /\ text \in Seq(Nat)
  BY <1>1, WrittenIs DEF TokenOK
<1>3. PICK o : /\ Quoted(w, o) /\ end = o[n]
               /\ \E i \in 0 .. n : pos = o[i] /\ decoded = SubSeq(w, 1, i)
  BY <1>1 DEF QuotedDecoding
<1>4. PICK i \in 0 .. n : pos = o[i] /\ decoded = SubSeq(w, 1, i)
  BY <1>3
<1> DEFINE c == w[i + 1]  e == T!Escaped(c)
<1>5. i # n => /\ c \in Nat /\ e \in Seq(Nat) /\ Len(e) \in 1 .. 3
               /\ Escapes1(c, e) \/ Escapes2(c, e) \/ Escapes3(c, e)
               /\ o[i] \in Nat /\ o[i] >= 1 /\ o[i + 1] = o[i] + Len(e)
               /\ o[i + 1] <= o[n] /\ o[n] \in Nat /\ Len(text) = o[n] + 1
               /\ \A k \in 1 .. Len(e) : text[o[i] + k] = e[k]
  <2>1. i # n => Follows(o, i, n, c, e)
    BY <1>2, <1>3, NextQuoted, Zenon
  <2> HIDE DEF c, e, n, w
  <2> QED BY <2>1, Zenon DEF Follows
<1>6. ASSUME i # n, DecodesTo(w, o, i) PROVE QuotedInv'
  BY <1>2, <1>3, <1>4, <1>6, QuotedCharacter
<1>7. /\ Len(T!Rest) = end - pos
      /\ \A k \in 1 .. end - pos : T!Rest[k] = text[pos + k] /\ text[pos + k] \in Nat
  BY <1>1, RestIs DEF DecodingOK
<1> HIDE DEF w, n, c, e
<1>8. i # n => /\ \A k \in 1 .. Len(e) : T!Rest[k] = e[k] /\ e[k] \in Nat
               /\ pos < end /\ Len(T!Rest) >= Len(e)
  <2> HAVE i # n
  <2>1. Len(e) \in 1 .. 3 /\ pos \in Nat /\ end \in Nat /\ pos + Len(e) <= end
    BY <1>3, <1>4, <1>5
  <2>2. ASSUME NEW k \in 1 .. Len(e) PROVE T!Rest[k] = e[k] /\ e[k] \in Nat
    <3>1. k \in 1 .. end - pos
      BY <2>1
    <3>2. T!Rest[k] = text[pos + k] /\ text[pos + k] \in Nat
      BY <1>7, <3>1
    <3> QED BY <1>4, <1>5, <3>2
  <2>3. pos < end /\ Len(T!Rest) >= Len(e)
    BY <1>7, <2>1
  <2> QED BY <2>2, <2>3
<1>9. i # n => /\ T!Rest[1] # 34
               /\ T!Rest[1] # 92 => Len(e) = 1 /\ T!Rest[1] = c
               /\ T!Rest[1] = 92 =>
                    \/ Len(e) = 2 /\ Len(T!Rest) >= 2 /\ T!Rest[2] # 117
                       /\ \/ c \in {34, 92} /\ T!Rest[2] = c
                          \/ c \in DOMAIN T!Named /\ T!Rest[2] = T!Named[c]
                    \/ Len(e) = 3 /\ Len(T!Rest) >= 3 /\ T!Rest[2] = 117 /\ c < 32
                       /\ T!Rest[3] = 256 + c
  <2> HAVE i # n
  <2>1. CASE Escapes1(c, e)
    <3>1. T!Rest[1] = c /\ Len(e) = 1 /\ c \notin {34, 92}
      BY <1>8, <2>1 DEF Escapes1
    <3> QED BY <3>1
  <2>2. CASE Escapes2(c, e)
    <3>1. /\ Len(e) = 2 /\ T!Rest[1] = 92 /\ T!Rest[2] = e[2] /\ Len(T!Rest) >= 2
      BY <1>8, <2>2 DEF Escapes2
    <3>2. c \in DOMAIN T!Named => T!Named[c] # 117
      BY NamedIs
    <3> QED BY <2>2, <3>1, <3>2 DEF Escapes2
  <2>3. CASE Escapes3(c, e)
    <3>1. /\ Len(e) = 3 /\ T!Rest[1] = 92 /\ T!Rest[2] = 117 /\ Len(T!Rest) >= 3
          /\ T!Rest[3] = 256 + c /\ c < 32
      BY <1>8, <2>3 DEF Escapes3
    <3> QED BY <3>1
  <2> QED BY <1>5, <2>1, <2>2, <2>3
<1>10. ASSUME i # n, NEW l \in 1 .. 3, l = Len(e), T!Take(l, <<c>>) PROVE QuotedInv'
  <2>1. pos' = o[i + 1] /\ decoded' = Append(decoded, c)
    BY <1>1, <1>4, <1>5, <1>10 DEF T!Take
  <2>2. DecodesTo(w, o, i)
    BY <1>1, <1>10, <2>1 DEF DecodesTo, T!Take, c
  <2> QED BY <1>6, <1>10, <2>2
<1>11. i = n => pos = end
  BY <1>3, <1>4
<1>12. CASE T!DecodePlain
  <2>1. i # n /\ T!Rest[1] # 92 /\ T!Take(1, <<T!Rest[1]>>)
    BY <1>11, <1>12 DEF T!DecodePlain, T!Backslash
  <2>2. Len(e) = 1 /\ T!Rest[1] = c
    BY <1>9, <2>1
  <2> QED BY <1>10, <2>1, <2>2
<1>13. CASE T!DecodeEscape
  <2>1. i # n /\ T!Rest[1] = 92
    BY <1>11, <1>13 DEF T!DecodeEscape, T!Backslash
  <2>2. Len(T!Rest) >= 2
    BY <1>9, <2>1
  <2>3. CASE T!Rest[2] = 117
    BY <1>13, <2>2, <2>3, NamedIs
       DEF T!DecodeEscape, T!Quote, T!Backslash, T!Solidus, T!LetterU
  <2>4. CASE T!Rest[2] # 117
    <3>1. /\ Len(e) = 2
          /\ \/ c \in {34, 92} /\ T!Rest[2] = c
             \/ c \in DOMAIN T!Named /\ T!Rest[2] = T!Named[c]
      BY <1>9, <2>1, <2>4
    <3>2. T!Take(2, <<c>>)
      <4>1. CASE c \in {34, 92} /\ T!Rest[2] = c
        BY <1>13, <2>2, <4>1, NamedIs
           DEF T!DecodeEscape, T!Quote, T!Backslash, T!Solidus, T!LetterU
      <4>2. CASE c \in DOMAIN T!Named /\ T!Rest[2] = T!Named[c]
        BY <1>13, <2>2, <4>2, NamedIs
           DEF T!DecodeEscape, T!Quote, T!Backslash, T!Solidus, T!LetterU
      <4> QED BY <3>1, <4>1, <4>2
    <3> QED BY <1>10, <2>1, <3>1, <3>2
  <2> QED BY <2>3, <2>4
<1>14. CASE T!DecodeUnicode
  <2>1. Len(T!Rest) >= 2 /\ T!Rest[1] = 92 /\ T!Rest[2] = 117
    BY <1>14 DEF T!DecodeUnicode, T!Backslash, T!LetterU
  <2>2. i # n
    BY <1>1, <1>7, <1>11, <2>1 DEF DecodingOK, Spanned
  <2>3. /\ Len(e) = 3 /\ Len(T!Rest) >= 3 /\ c < 32 /\ T!Rest[3] = 256 + c /\ c \in Nat
    BY <1>5, <1>9, <2>1, <2>2
  <2>4. T!Digits(3) /\ T!Unit(3) = c /\ 2 + T!Width(3) = 3
    BY <2>3 DEF T!Digits, T!IsHex, T!Unit, T!Width
  <2>5. ~T!HighSurrogate(c)
    BY <2>3, SMT DEF T!HighSurrogate
  <2>6. T!Utf8(c) = <<c>>
    BY <2>3, SMT DEF T!Utf8
  <2>7. T!Take(3, <<c>>)
    BY <1>14, <2>4, <2>5, <2>6, Zenon DEF T!DecodeUnicode
  <2> QED BY <1>10, <2>2, <2>3, <2>7
<1>15. CASE T!FinishDecoding
  <2>1. pc' = "done" /\ (pos # end => T!Rest[1] = 34) /\ UNCHANGED <<string, form, decoded>>
    BY <1>15 DEF T!FinishDecoding, T!Quote
  <2>2. i = n
    BY <1>8, <1>9, <2>1, <1>3, <1>4, <1>5
  <2>3. decoded = w
    BY <1>2, <1>4, <2>2 DEF n
  <2>4. w = T!Written'
    BY <2>1 DEF w, T!Written
  <2> QED BY <2>1, <2>3, <2>4 DEF QuotedInv
<1> QED BY <1>12, <1>13, <1>14, <1>15

LEMMA QuotedStep == TokenInv /\ QuotedInv /\ T!Next => QuotedInv'
<1> HAVE TokenInv /\ QuotedInv /\ T!Next
<1>1. CASE form = "none"
  <2>1. form' = form
    BY DEF T!Next, T!WriteCharacter, T!FinishWriting, T!Scan, T!EndOfToken, T!NoToken,
           T!DecodePlain, T!DecodeEscape, T!DecodeUnicode, T!FinishDecoding, T!Take, T!Refuse
  <2> QED BY <1>1, <2>1 DEF QuotedInv
<1>2. CASE form # "none"
  BY <1>2, QuotedWrite, QuotedScan, QuotedDecode DEF T!Next
<1> QED BY <1>1, <1>2

LEMMA QuotedAtFirst == T!Init => QuotedInv
<1> SUFFICES ASSUME T!Init, form # "none" PROVE QuotedInv
  BY DEF QuotedInv
<1>1. text = <<34>> /\ pos = 0 /\ pc = "write"
  BY DEF T!Init, T!Quote
<1> DEFINE o == [j \in 0 .. 0 |-> 1]
<1>2. Laid(text, T!Written, pos, o) /\ Len(text) = o[pos] /\ text[1] = 34
  BY <1>1 DEF Laid
<1> QED BY <1>1, <1>2 DEF QuotedInv, QuotedWriting

LEMMA QuotingIsRight == QuotedInv => T!QuotingIsUndone
BY DEF QuotedInv, T!QuotingIsUndone

(* Both invariants, of the behaviours about a string.                      *)
TextInv == part = "text" => TokenInv /\ QuotedInv
LEMMA TextInvariance == ProgramSpec => []TextInv
<1>1. ProgramInit => TextInv
  BY TokenAtFirst, QuotedAtFirst DEF ProgramInit, ScalarsInit, TextInv
<1>2. TextInv /\ [ProgramNext]_programVars => TextInv'
  <2> SUFFICES ASSUME part = "text", TokenInv, QuotedInv, [ProgramNext]_programVars
               PROVE  TokenInv' /\ QuotedInv'
    BY DEF TextInv, ProgramNext, programVars
  <2>1. CASE T!Next
    BY <2>1, TokenStep, QuotedStep
  <2>2. CASE UNCHANGED <<string, form, text, pos, end, decoded, pc>>
    <3>1. TokenInv'
      BY <2>2 DEF TokenInv, TokenOK, WritingOK, ScanningOK, DecodingOK, DoneOK, RefusedOK, Spanned,
             EscapesOK, OneEscape, TwoEscapes, OneDecoded, TwoDecoded, CodePointAt, T!UnicodeAt,
             T!Written
    <3>2. QuotedInv'
      BY <2>2 DEF QuotedInv, QuotedWriting, QuotedScanning, QuotedDecoding, Quoted, T!Written
    <3> QED BY <3>1, <3>2
  <2>3. T!Next \/ UNCHANGED <<string, form, text, pos, end, decoded, pc>>
    BY DEF ProgramNext, ScalarsNext, programVars, textVars
  <2> QED BY <2>1, <2>2, <2>3
<1> QED
  BY <1>1, <1>2, PTL DEF ProgramSpec

(***************************************************************************)
(* Whatever strings are written and whatever texts are read: every quoted  *)
(* string is read back as it was (a name as its C string), no token ends   *)
(* within an escape, and an escaped character, of the 65536 or of a pair,  *)
(* comes out as the UTF-8 of its code point.                               *)
(***************************************************************************)
THEOREM StringsRead == ProgramSpec => []StringsAreRead
<1>1. TextInv => StringsAreRead
  BY TokensAreRead, QuotingIsRight DEF TextInv, StringsAreRead, OfText
<1> QED
  BY <1>1, TextInvariance, PTL
-----------------------------------------------------------------------------
(* The settings of a reader: which conversion each has, what setDefaults() *)
(* and strictMode() set, and what the modes of a reader are.               *)
LEMMA ReaderSettings ==
  /\ DOMAIN S!ReaderTable = S!ReaderFlags \cup {"collectComments", "stackLimit"}
  /\ \A n \in S!ReaderFlags \cup {"collectComments"} : S!ReaderTable[n] = "bool"
  /\ S!ReaderTable["stackLimit"] = "int"
  /\ DOMAIN S!ReaderDefaults = DOMAIN S!ReaderTable
  /\ \A n \in S!ReaderFlags : S!ReaderDefaults[n] = S!OurDefaults[n]
  /\ S!ReaderDefaults["collectComments"] = "true" /\ S!ReaderDefaults["stackLimit"] = "1000"
  /\ DOMAIN S!ReaderStrict = S!ReaderFlags \cup {"stackLimit"}
  /\ \A n \in S!ReaderFlags : S!ReaderStrict[n] = S!OurStrict[n]
  /\ S!ReaderStrict["stackLimit"] = "1000"
BY DEF S!ReaderTable, S!ReaderDefaults, S!ReaderStrict, S!On, S!Put, S!ReaderFlags,
       S!OurDefaults, S!OurStrict, S!Features

(* The modes: a flag is "true" or "false".                                 *)
LEMMA ReaderModes ==
  /\ S!OurDefaults = [n \in S!ReaderFlags \cup {"stackLimit"} |-> S!OurDefaults[n]]
  /\ S!OurStrict = [n \in S!ReaderFlags \cup {"stackLimit"} |-> S!OurStrict[n]]
  /\ \A n \in S!ReaderFlags : /\ S!OurDefaults[n] \in {"true", "false"}
                              /\ S!OurStrict[n] \in {"true", "false"}
  /\ S!OurDefaults["stackLimit"] = "1000" /\ S!OurStrict["stackLimit"] = "1000"
  /\ "stackLimit" \notin S!ReaderFlags /\ "collectComments" \notin S!ReaderFlags
BY DEF S!OurDefaults, S!OurStrict, S!Features, S!ReaderFlags

(* The settings of a writer.                                               *)
LEMMA WriterSettings ==
  /\ DOMAIN S!WriterTable = S!WriterFlags \cup {"indentation", "commentStyle", "precision"}
  /\ \A n \in S!WriterFlags : S!WriterTable[n] = "bool" /\ S!WriterDefaults[n] = "false"
  /\ S!WriterTable["indentation"] = "text" /\ S!WriterDefaults["indentation"] = "text:tab"
  /\ S!WriterTable["commentStyle"] = "style" /\ S!WriterDefaults["commentStyle"] = "text:All"
  /\ S!WriterTable["precision"] = "precision" /\ S!WriterDefaults["precision"] = "17"
  /\ S!WriterDefaults = [n \in DOMAIN S!WriterTable |-> S!WriterDefaults[n]]
BY DEF S!WriterTable, S!WriterDefaults, S!Put, S!WriterFlags

(* What the conversions make of what a mode sets.                          *)
LEMMA SettingsConvert ==
  /\ \A v \in {"true", "false"} : S!Convert("bool", v) = v
  /\ S!Convert("int", "1000") = "1000"
  /\ S!Convert("text", "text:tab") = "text:tab"
  /\ S!Convert("style", "text:All") = "text:All"
  /\ S!Convert("precision", "17") = "17"
BY DEF S!Convert, S!AsBool, S!AsInt, S!AsText, S!AsCommentStyle, S!AsPrecision, S!Numbers

(* A setting that a mode puts is found as the mode has it.                 *)
LEMMA PutLooksUp ==
  ASSUME NEW mode, settings' = S!Put(settings, mode), NEW n \in DOMAIN mode
  PROVE  S!Lookup(n)' = mode[n]
BY DEF S!Put, S!Lookup

(* setDefaults() of a reader.                                              *)
LEMMA ReaderDefaultsDecide ==
  S!SetDefaults /\ builder = "reader" =>
    S!Of(S!Converted') = S!OurDefaults /\ S!Converted'["collectComments"] = "true"
<1> HAVE S!SetDefaults /\ builder = "reader"
<1>1. settings' = S!Put(settings, S!ReaderDefaults) /\ builder' = "reader"
  BY DEF S!SetDefaults, S!Defaults
<1>2. \A n \in DOMAIN S!ReaderTable : S!Lookup(n)' = S!ReaderDefaults[n]
  BY <1>1, PutLooksUp, ReaderSettings
<1>3. S!Table' = S!ReaderTable
  BY <1>1 DEF S!Table
<1>4. S!Converted' = [n \in DOMAIN S!ReaderTable |->
                        S!Convert(S!ReaderTable[n], S!ReaderDefaults[n])]
  BY <1>2, <1>3 DEF S!Converted
<1> DEFINE c == S!Converted'
<1>5. /\ DOMAIN c = S!ReaderFlags \cup {"collectComments", "stackLimit"}
      /\ \A n \in S!ReaderFlags \cup {"stackLimit"} : c[n] = S!OurDefaults[n]
      /\ c["collectComments"] = "true"
  BY <1>4, ReaderSettings, ReaderModes, SettingsConvert
<1> HIDE DEF c
<1>6. S!Of(c) = S!OurDefaults
  BY <1>5, ReaderModes DEF S!Of
<1> QED BY <1>5, <1>6 DEF c

(* setDefaults() of a writer.                                              *)
LEMMA WriterDefaultsDecide ==
  S!SetDefaults /\ builder # "reader" => S!Converted' = S!WriterDefaults
<1> HAVE S!SetDefaults /\ builder # "reader"
<1>1. settings' = S!Put(settings, S!WriterDefaults) /\ builder' # "reader"
  BY DEF S!SetDefaults, S!Defaults
<1>2. \A n \in DOMAIN S!WriterTable : S!Lookup(n)' = S!WriterDefaults[n]
  BY <1>1, PutLooksUp, WriterSettings
<1>3. S!Table' = S!WriterTable
  BY <1>1 DEF S!Table
<1>4. S!Converted' = [n \in DOMAIN S!WriterTable |->
                        S!Convert(S!WriterTable[n], S!WriterDefaults[n])]
  BY <1>2, <1>3 DEF S!Converted
<1>5. \A n \in DOMAIN S!WriterTable :
        S!Convert(S!WriterTable[n], S!WriterDefaults[n]) = S!WriterDefaults[n]
  BY WriterSettings, SettingsConvert
<1> QED BY <1>4, <1>5, WriterSettings

(* strictMode().                                                           *)
LEMMA StrictDecides ==
  S!StrictMode => /\ S!Of(S!Converted') = S!OurStrict
                  /\ S!Converted'["collectComments"] = S!Converted["collectComments"]
<1> HAVE S!StrictMode
<1>1. settings' = S!Put(settings, S!ReaderStrict) /\ builder' = "reader" /\ builder = "reader"
  BY DEF S!StrictMode, S!Strict
<1>2. /\ \A n \in S!ReaderFlags \cup {"stackLimit"} : S!Lookup(n)' = S!ReaderStrict[n]
      /\ S!Lookup("collectComments")' = S!Lookup("collectComments")
  <2>1. \A n : /\ DOMAIN S!Put(settings, S!ReaderStrict) = DOMAIN settings \cup DOMAIN S!ReaderStrict
               /\ n \in DOMAIN S!ReaderStrict
                    => S!Put(settings, S!ReaderStrict)[n] = S!ReaderStrict[n]
               /\ n \in DOMAIN settings \ DOMAIN S!ReaderStrict
                    => S!Put(settings, S!ReaderStrict)[n] = settings[n]
    BY DEF S!Put
  <2>2. ASSUME NEW n \in S!ReaderFlags \cup {"stackLimit"} PROVE S!Lookup(n)' = S!ReaderStrict[n]
    BY <1>1, <2>1, ReaderSettings DEF S!Lookup
  <2>3. "collectComments" \notin DOMAIN S!ReaderStrict
    BY ReaderSettings, ReaderModes
  <2>4. "collectComments" \in DOMAIN settings' <=> "collectComments" \in DOMAIN settings
    BY <1>1, <2>1, <2>3
  <2>5. S!Lookup("collectComments")' = S!Lookup("collectComments")
    BY <1>1, <2>1, <2>3, <2>4 DEF S!Lookup
  <2> QED BY <2>2, <2>5
<1>3. S!Table' = S!ReaderTable /\ S!Table = S!ReaderTable
  BY <1>1 DEF S!Table
<1> DEFINE c == S!Converted'
<1>4. /\ DOMAIN c = DOMAIN S!ReaderTable
      /\ \A n \in DOMAIN S!ReaderTable : c[n] = S!Convert(S!ReaderTable[n], S!Lookup(n)')
  BY <1>3 DEF S!Converted
<1>5. S!Converted["collectComments"] = S!Convert("bool", S!Lookup("collectComments"))
  BY <1>3, ReaderSettings DEF S!Converted
<1> HIDE DEF c
<1>6. /\ \A n \in S!ReaderFlags \cup {"stackLimit"} : c[n] = S!OurStrict[n]
      /\ c["collectComments"] = S!Converted["collectComments"]
  BY <1>2, <1>4, <1>5, ReaderSettings, ReaderModes, SettingsConvert
<1>7. S!Of(c) = S!OurStrict
  BY <1>4, <1>6, ReaderSettings, ReaderModes DEF S!Of
<1> QED BY <1>6, <1>7 DEF c

(***************************************************************************)
(* Whatever a program set, misspelled or removed before, with any values,  *)
(* strictMode() leaves a builder that makes the reader of strict mode, and *)
(* setDefaults() one that makes the default reader or writer.              *)
(***************************************************************************)
THEOREM DecidingModes == ProgramSpec => ModesDecide
<1>1. S!ModeDecides
  BY ReaderDefaultsDecide, WriterDefaultsDecide, StrictDecides DEF S!ModeDecides
<1> QED BY <1>1, PTL DEF ModesDecide, ProgramSpec

-----------------------------------------------------------------------------
(* Paths: functions by recursion up to n, decimals, and what is printed.   *)
LEMMA InductionUpTo ==
  ASSUME NEW n \in Nat, NEW Z, 0 \in Z, \A k \in 0 .. n - 1 : k \in Z => k + 1 \in Z
  PROVE  \A k \in 0 .. n : k \in Z
<1> DEFINE Y == {k \in Nat : k <= n => k \in Z}
<1>1. 0 \in Y
  OBVIOUS
<1>2. ASSUME NEW k \in Y PROVE k + 1 \in Y
  OBVIOUS
<1> HIDE DEF Y
<1>3. Y = Nat
  <2>1. Y \in SUBSET Nat
    BY DEF Y
  <2> QED BY <1>1, <1>2, <2>1, SetInduction
<1> QED BY <1>3 DEF Y

LEMMA RecursionUpTo ==
  ASSUME NEW n \in Nat, NEW Y, NEW a \in Y, NEW h \in [0 .. n - 1 -> [Y -> Y]]
  PROVE  \E f \in [0 .. n -> Y] : IsPrefixOf(f, a, h, n)
<1> DEFINE g == [k \in Nat |-> IF k < n THEN h[k] ELSE [y \in Y |-> y]]
<1>1. g \in [Nat -> [Y -> Y]] /\ \A k \in 0 .. n - 1 : g[k] = h[k]
  OBVIOUS
<1> HIDE DEF g
<1>2. PICK f \in [Nat -> Y] : RecursiveFrom(f, a, g)
  BY <1>1, Recursion, Zenon
<1> DEFINE e == [k \in 0 .. n |-> f[k]]
<1>3. e \in [0 .. n -> Y]
  OBVIOUS
<1>4. IsPrefixOf(e, a, h, n)
  <2>1. e[0] = a
    BY <1>2 DEF RecursiveFrom
  <2>2. ASSUME NEW k \in 0 .. n - 1 PROVE e[k + 1] = h[k][e[k]]
    <3>1. k \in Nat /\ k \in 0 .. n /\ k + 1 \in 0 .. n
      OBVIOUS
    <3>2. f[k + 1] = g[k][f[k]]
      BY <1>2, <3>1 DEF RecursiveFrom
    <3> QED BY <1>1, <3>1, <3>2
  <2> QED BY <2>1, <2>2 DEF IsPrefixOf
<1> HIDE DEF e
<1> QED BY <1>3, <1>4

(* The digits are distinct, and stand for their places.                    *)
DigitSet == {"0", "1", "2", "3", "4", "5", "6", "7", "8", "9"}
LEMMA DigitsAre ==
  /\ ToSet(P!Digits) = DigitSet
  /\ \A c \in DigitSet : P!DigitOf(c) \in 0 .. 9
  /\ \A d \in 0 .. 9 : P!Digit(d) \in DigitSet /\ P!DigitOf(P!Digit(d)) = d
<1>1. DOMAIN P!Digits = 1 .. 10 /\ \A i \in 1 .. 10 : P!Digits[i] \in DigitSet
  BY DEF P!Digits, DigitSet
<1>2. \A i, j \in 1 .. 10 : P!Digits[i] = P!Digits[j] => i = j
  BY DEF P!Digits
<1>3. \A c \in DigitSet : \E i \in 1 .. 10 : P!Digits[i] = c
  <2>1. /\ P!Digits[1] = "0" /\ P!Digits[2] = "1" /\ P!Digits[3] = "2" /\ P!Digits[4] = "3"
        /\ P!Digits[5] = "4" /\ P!Digits[6] = "5" /\ P!Digits[7] = "6" /\ P!Digits[8] = "7"
        /\ P!Digits[9] = "8" /\ P!Digits[10] = "9"
    BY DEF P!Digits
  <2> HIDE DEF P!Digits
  <2> QED BY <2>1 DEF DigitSet
<1>4. ToSet(P!Digits) = DigitSet
  BY <1>1, <1>3 DEF ToSet
<1>5. ASSUME NEW c \in DigitSet
      PROVE  P!DigitOf(c) + 1 \in 1 .. 10 /\ P!Digits[P!DigitOf(c) + 1] = c
  <2> DEFINE i == CHOOSE i \in DOMAIN P!Digits : P!Digits[i] = c
  <2>1. i \in 1 .. 10 /\ P!Digits[i] = c
    BY <1>1, <1>3
  <2>2. P!DigitOf(c) = i - 1
    BY DEF P!DigitOf
  <2> HIDE DEF i
  <2> QED BY <2>1, <2>2
<1>6. ASSUME NEW c \in DigitSet PROVE P!DigitOf(c) \in 0 .. 9
  <2>1. P!DigitOf(c) \in Int
    <3> DEFINE i == CHOOSE i \in DOMAIN P!Digits : P!Digits[i] = c
    <3>1. i \in 1 .. 10
      BY <1>1, <1>3
    <3>2. P!DigitOf(c) = i - 1
      BY DEF P!DigitOf
    <3> HIDE DEF i
    <3> QED BY <3>1, <3>2
  <2> QED BY <1>5, <2>1
<1>7. ASSUME NEW d \in 0 .. 9 PROVE P!Digit(d) \in DigitSet /\ P!DigitOf(P!Digit(d)) = d
  <2>1. d + 1 \in 1 .. 10 /\ P!Digit(d) = P!Digits[d + 1]
    BY DEF P!Digit
  <2>2. P!Digit(d) \in DigitSet
    BY <1>1, <2>1
  <2>3. P!DigitOf(P!Digit(d)) + 1 = d + 1
    BY <1>2, <1>5, <2>1, <2>2
  <2> QED BY <1>6, <2>2, <2>3
<1> QED BY <1>4, <1>6, <1>7

(* The value of digits, one by one, in an ArrayIndex.                      *)
AfterDigit(x, d) == (10 * x + d) % (MaxArrayIndex + 1)
LEMMA AfterDigitIs ==
  ASSUME NEW x \in Nat, NEW d \in 0 .. 9
  PROVE  /\ AfterDigit(x, d) \in 0 .. MaxArrayIndex /\ AfterDigit(x, d) \in Nat
         /\ 10 * x + d <= MaxArrayIndex => AfterDigit(x, d) = 10 * x + d
<1>1. MaxArrayIndex \in Nat
  BY PathsAssumption
<1> DEFINE y == 10 * x + d
<1>2. y \in Nat
  OBVIOUS
<1> HIDE DEF y
<1>3. y % (MaxArrayIndex + 1) \in 0 .. MaxArrayIndex /\ (y <= MaxArrayIndex => y % (MaxArrayIndex + 1) = y)
  BY <1>1, <1>2
<1> QED BY <1>3 DEF AfterDigit, y

CountsTo(s, f) == /\ f \in [0 .. Len(s) -> Nat] /\ f[0] = 0
                  /\ \A k \in 0 .. Len(s) - 1 : f[k + 1] = AfterDigit(f[k], P!DigitOf(s[k + 1]))
LEMMA NumberIs ==
  ASSUME NEW s \in Seq(DigitSet)
  PROVE  \E f : CountsTo(s, f) /\ P!NumberOf(s) = f[Len(s)]
<1> DEFINE n == Len(s)
           h == [k \in 0 .. n - 1 |-> [x \in Nat |-> AfterDigit(x, P!DigitOf(s[k + 1]))]]
           D(g) == [k \in 0 .. n |-> IF k = 0 THEN 0 ELSE AfterDigit(g[k - 1], P!DigitOf(s[k]))]
<1>1. n \in Nat /\ \A k \in 0 .. n - 1 : P!DigitOf(s[k + 1]) \in 0 .. 9
  <2>1. \A k \in 0 .. n - 1 : s[k + 1] \in DigitSet
    OBVIOUS
  <2> QED BY <2>1, DigitsAre
<1>2. PICK f \in [0 .. n -> Nat] : IsPrefixOf(f, 0, h, n)
  <2>1. h \in [0 .. n - 1 -> [Nat -> Nat]]
    BY <1>1, AfterDigitIs
  <2>2. 0 \in Nat
    OBVIOUS
  <2> HIDE DEF h, n
  <2> QED BY <1>1, <2>1, <2>2, RecursionUpTo, Zenon
<1>3. f[0] = 0 /\ \A k \in 0 .. n - 1 : f[k + 1] = AfterDigit(f[k], P!DigitOf(s[k + 1]))
  <2>1. \A k \in 0 .. n - 1 : f[k] \in Nat
    BY <1>1
  <2> QED BY <1>2, <2>1 DEF IsPrefixOf
<1>4. \A k \in 0 .. n : k = 0 \/ (k - 1 \in 0 .. n - 1 /\ k = (k - 1) + 1)
  OBVIOUS
<1>5. f = D(f)
  <2> HIDE DEF n
  <2>1. \A k \in 0 .. n : f[k] = IF k = 0 THEN 0 ELSE AfterDigit(f[k - 1], P!DigitOf(s[k]))
    BY <1>3, <1>4
  <2> QED BY <2>1
<1> DEFINE g == CHOOSE g : g = D(g)
<1>6. g = D(g)
  <2> HIDE DEF D
  <2> QED BY <1>5
<1>7. P!NumberOf(s) = g[n]
  BY DEF P!NumberOf, AfterDigit
<1> HIDE DEF g
<1>8. \A k \in 0 .. n : k \in {l \in 0 .. n : g[l] = f[l]}
  <2> DEFINE Z == {l \in 0 .. n : g[l] = f[l]}
  <2>1. 0 \in Z
    BY <1>1, <1>3, <1>6
  <2>2. ASSUME NEW k \in 0 .. n - 1, k \in Z PROVE k + 1 \in Z
    <3>1. k + 1 \in 0 .. n /\ k + 1 # 0 /\ (k + 1) - 1 = k
      BY <1>1
    <3>2. g[k + 1] = AfterDigit(g[k], P!DigitOf(s[k + 1]))
      BY <1>6, <3>1
    <3> QED BY <1>3, <2>2, <3>1, <3>2
  <2> HIDE DEF Z, n
  <2> QED BY <1>1, <2>1, <2>2, InductionUpTo, Zenon DEF Z
<1>9. CountsTo(s, f)
  BY <1>3 DEF CountsTo
<1>10. g[n] = f[n]
  <2>1. n \in 0 .. n
    BY <1>1
  <2> HIDE DEF n
  <2> QED BY <1>8, <2>1
<1> QED BY <1>7, <1>9, <1>10

LEMMA NumberAppend ==
  ASSUME NEW s \in Seq(DigitSet), NEW c \in DigitSet
  PROVE  /\ P!NumberOf(s) \in Nat
         /\ P!NumberOf(Append(s, c)) = AfterDigit(P!NumberOf(s), P!DigitOf(c))
<1> DEFINE n == Len(s)  t == Append(s, c)
<1>1. n \in Nat /\ t \in Seq(DigitSet) /\ Len(t) = n + 1 /\ t[n + 1] = c
      /\ \A k \in 0 .. n - 1 : t[k + 1] = s[k + 1]
  OBVIOUS
<1>2. PICK f : CountsTo(s, f) /\ P!NumberOf(s) = f[n]
  BY NumberIs
<1>3. PICK g : CountsTo(t, g) /\ P!NumberOf(t) = g[n + 1]
  <2> HIDE DEF t
  <2>1. \E g : CountsTo(t, g) /\ P!NumberOf(t) = g[Len(t)]
    BY <1>1, NumberIs
  <2> QED BY <1>1, <2>1
<1> HIDE DEF n, t
<1>4. \A k \in 0 .. n : k \in {l \in 0 .. n : g[l] = f[l]}
  <2> DEFINE Z == {l \in 0 .. n : g[l] = f[l]}
  <2>1. 0 \in Z
    BY <1>1, <1>2, <1>3 DEF CountsTo
  <2>2. ASSUME NEW k \in 0 .. n - 1, k \in Z PROVE k + 1 \in Z
    <3>1. k + 1 \in 0 .. n /\ k \in 0 .. Len(t) - 1 /\ k \in 0 .. Len(s) - 1
      BY <1>1 DEF n
    <3>2. g[k + 1] = AfterDigit(g[k], P!DigitOf(t[k + 1])) /\ f[k + 1] = AfterDigit(f[k], P!DigitOf(s[k + 1]))
      BY <1>2, <1>3, <3>1 DEF CountsTo
    <3> QED BY <1>1, <2>2, <3>1, <3>2
  <2> HIDE DEF Z
  <2> QED BY <1>1, <2>1, <2>2, InductionUpTo, Zenon DEF Z
<1>5. g[n] = f[n] /\ f[n] \in Nat
  <2>1. n \in 0 .. n /\ f \in [0 .. n -> Nat]
    BY <1>1, <1>2 DEF CountsTo, n
  <2> QED BY <1>4, <2>1
<1>6. g[n + 1] = AfterDigit(g[n], P!DigitOf(t[n + 1]))
  <2>1. n \in 0 .. Len(t) - 1
    BY <1>1
  <2> QED BY <1>3, <2>1 DEF CountsTo
<1>7. P!NumberOf(t) = AfterDigit(P!NumberOf(s), P!DigitOf(c))
  BY <1>1, <1>2, <1>3, <1>5, <1>6
<1> QED BY <1>2, <1>5, <1>7 DEF t

LEMMA NumberIsIndex ==
  ASSUME NEW s \in Seq(DigitSet)
  PROVE  P!NumberOf(s) \in 0 .. MaxArrayIndex
<1>1. PICK f : CountsTo(s, f) /\ P!NumberOf(s) = f[Len(s)]
  BY NumberIs
<1>2. CASE Len(s) = 0
  <2>1. f[0] = 0
    BY <1>1 DEF CountsTo
  <2> QED BY <1>1, <1>2, <2>1, PathsAssumption
<1>3. CASE Len(s) # 0
  <2> DEFINE k == Len(s) - 1
  <2>1. k \in 0 .. Len(s) - 1 /\ k \in 0 .. Len(s) /\ k + 1 = Len(s)
    BY <1>3
  <2> HIDE DEF k
  <2>2. f[k + 1] = AfterDigit(f[k], P!DigitOf(s[k + 1])) /\ f[k] \in Nat
    BY <1>1, <2>1 DEF CountsTo
  <2>3. P!DigitOf(s[k + 1]) \in 0 .. 9
    <3>1. s[k + 1] \in DigitSet
      BY <2>1
    <3> QED BY <3>1, DigitsAre
  <2>4. f[k + 1] \in 0 .. MaxArrayIndex
    BY <2>2, <2>3, AfterDigitIs
  <2> QED BY <1>1, <2>1, <2>4
<1> QED BY <1>2, <1>3

LEMMA NumberOfNone == P!NumberOf(<<>>) = 0
<1>1. <<>> \in Seq(DigitSet) /\ Len(<<>>) = 0
  OBVIOUS
<1>2. PICK f : CountsTo(<<>>, f) /\ P!NumberOf(<<>>) = f[0]
  BY <1>1, NumberIs
<1> QED BY <1>2 DEF CountsTo

(* The decimals of n, from those of smaller numbers.                       *)
DecimalFrom(d, n) == IF n < 10 THEN <<P!Digit(n)>> ELSE Append(d[n \div 10], P!Digit(n % 10))
LEMMA DecimalIs ==
  \A n \in Nat : P!Decimal[n] = DecimalFrom(P!Decimal, n)
<1> DEFINE Y == [Nat -> Seq(DigitSet)]
           a == [n \in Nat |-> <<"0">>]
           G(d, n) == [m \in Nat |-> IF m = n THEN DecimalFrom(d, n) ELSE d[m]]
           h == [n \in Nat |-> [d \in Y |-> G(d, n)]]
           D(d) == [n \in Nat |-> DecimalFrom(d, n)]
<1>0. \A n \in Nat : n \div 10 \in Nat /\ n % 10 \in 0 .. 9 /\ (n >= 10 => n \div 10 < n)
  OBVIOUS
<1>1. ASSUME NEW n \in Nat, NEW d \in Y PROVE DecimalFrom(d, n) \in Seq(DigitSet)
  <2>1. CASE n < 10
    <3>0. n \in 0 .. 9
      BY <2>1
    <3>1. P!Digit(n) \in DigitSet
      BY <3>0, DigitsAre
    <3> QED BY <2>1, <3>1 DEF DecimalFrom
  <2>2. CASE ~(n < 10)
    <3>1. P!Digit(n % 10) \in DigitSet /\ n \div 10 \in Nat
      BY <1>0, DigitsAre
    <3>2. d[n \div 10] \in Seq(DigitSet)
      BY <3>1
    <3> QED BY <2>2, <3>1, <3>2 DEF DecimalFrom
  <2> QED BY <2>1, <2>2
<1>2. a \in Y
  <2>1. <<"0">> \in Seq(DigitSet)
    BY DEF DigitSet
  <2> QED BY <2>1
<1>3. h \in [Nat -> [Y -> Y]]
  <2>1. ASSUME NEW n \in Nat, NEW d \in Y PROVE G(d, n) \in Y
    <3>1. \A m \in Nat : d[m] \in Seq(DigitSet)
      OBVIOUS
    <3>2. DecimalFrom(d, n) \in Seq(DigitSet)
      BY <1>1
    <3> QED BY <3>1, <3>2
  <2> HIDE DEF G, Y
  <2> QED BY <2>1
<1>4. PICK f \in [Nat -> Y] : RecursiveFrom(f, a, h)
  <2> HIDE DEF Y, a, h
  <2> QED BY <1>2, <1>3, Recursion, Zenon
<1>5. \A n \in Nat : f[n] \in Y /\ f[n + 1] = G(f[n], n)
  <2>1. \A n \in Nat : f[n] \in Y /\ h[n][f[n]] = G(f[n], n)
    OBVIOUS
  <2>2. \A n \in Nat : f[n + 1] = h[n][f[n]]
    BY <1>4 DEF RecursiveFrom
  <2> HIDE DEF G, h, Y
  <2> QED BY <2>1, <2>2
<1> HIDE DEF a, h, Y
<1>6. \A n, m \in Nat : /\ m # n => f[n + 1][m] = f[n][m]
                        /\ f[n + 1][n] = DecimalFrom(f[n], n)
  <2> TAKE n \in Nat, m \in Nat
  <2>1. f[n + 1] = G(f[n], n)
    BY <1>5
  <2>2. \A d : G(d, n)[n] = DecimalFrom(d, n) /\ (m # n => G(d, n)[m] = d[m])
    OBVIOUS
  <2> HIDE DEF G
  <2> QED BY <2>1, <2>2
\* A number's decimals do not change once they are there.
<1>7. ASSUME NEW n \in Nat, NEW k \in Nat, k > n PROVE f[k][n] = f[n + 1][n]
  <2> DEFINE Z == {j \in Nat : f[n + 1 + j][n] = f[n + 1][n]}
  <2>1. 0 \in Z
    OBVIOUS
  <2>2. ASSUME NEW j \in Z PROVE j + 1 \in Z
    <3>1. n + 1 + j \in Nat /\ n # n + 1 + j /\ n + 1 + (j + 1) = (n + 1 + j) + 1
      OBVIOUS
    <3>2. f[(n + 1 + j) + 1][n] = f[n + 1 + j][n]
      BY <1>6, <3>1
    <3> QED BY <3>1, <3>2
  <2>3. Z \in SUBSET Nat
    OBVIOUS
  <2> HIDE DEF Z
  <2>4. Z = Nat
    BY <2>1, <2>2, <2>3, SetInduction
  <2>5. k - (n + 1) \in Nat /\ n + 1 + (k - (n + 1)) = k
    BY <1>7
  <2>6. k - (n + 1) \in Z
    BY <2>4, <2>5
  <2> QED BY <2>5, <2>6 DEF Z
<1> DEFINE e == [n \in Nat |-> f[n + 1][n]]
<1>8. \A n \in Nat : e[n] = DecimalFrom(e, n)
  <2> TAKE n \in Nat
  <2>1. e[n] = DecimalFrom(f[n], n)
    BY <1>6
  <2>2. n >= 10 => f[n][n \div 10] = e[n \div 10]
    <3>1. n >= 10 => f[n][n \div 10] = f[(n \div 10) + 1][n \div 10]
      BY <1>0, <1>7
    <3> QED BY <1>0, <3>1
  <2> HIDE DEF e
  <2> QED BY <2>1, <2>2 DEF DecimalFrom
<1>9. e = D(e)
  <2> DEFINE x == D(e)
  <2>1. \A n \in Nat : x[n] = e[n]
    BY <1>8
  <2>2. e = [n \in Nat |-> e[n]] /\ x = [n \in Nat |-> x[n]]
    OBVIOUS
  <2> HIDE DEF e, x
  <2>3. e = x
    BY <2>1, <2>2
  <2> QED BY <2>3 DEF x
<1>10. P!Decimal = D(P!Decimal)
  <2>1. P!Decimal = CHOOSE d : d = D(d)
    BY DEF P!Decimal, DecimalFrom
  <2> HIDE DEF D, e
  <2> QED BY <1>9, <2>1
<1> QED BY <1>10

(* The decimals of an ArrayIndex are digits, and are read as that number.  *)
LEMMA DecimalIsRead ==
  \A n \in Nat : /\ P!Decimal[n] \in Seq(DigitSet) /\ Len(P!Decimal[n]) >= 1
                 /\ n <= MaxArrayIndex => P!NumberOf(P!Decimal[n]) = n
<1> DEFINE Right(n) == /\ P!Decimal[n] \in Seq(DigitSet) /\ Len(P!Decimal[n]) >= 1
                       /\ n <= MaxArrayIndex => P!NumberOf(P!Decimal[n]) = n
           Z == {k \in Nat : \A n \in 0 .. k : Right(n)}
<1>1. ASSUME NEW n \in Nat, \A m \in Nat : m < n => Right(m) PROVE Right(n)
  <2>1. CASE n < 10
    <3>0. n \in 0 .. 9
      BY <2>1
    <3>1. P!Digit(n) \in DigitSet /\ P!DigitOf(P!Digit(n)) = n
      BY <3>0, DigitsAre
    <3>2. P!Decimal[n] = <<P!Digit(n)>>
      BY <2>1, DecimalIs DEF DecimalFrom
    <3>3. <<P!Digit(n)>> = Append(<<>>, P!Digit(n)) /\ <<>> \in Seq(DigitSet)
      OBVIOUS
    <3>4. n <= MaxArrayIndex => P!NumberOf(P!Decimal[n]) = n
      <4>1. P!NumberOf(Append(<<>>, P!Digit(n))) = AfterDigit(P!NumberOf(<<>>), P!DigitOf(P!Digit(n)))
        BY <3>1, <3>3, NumberAppend
      <4>2. n <= MaxArrayIndex => AfterDigit(0, n) = n
        <5>1. 0 \in Nat /\ 10 * 0 + n = n
          OBVIOUS
        <5> QED BY <3>0, <5>1, AfterDigitIs
      <4> QED BY <3>1, <3>2, <3>3, <4>1, <4>2, NumberOfNone
    <3> QED BY <3>1, <3>2, <3>4
  <2>2. CASE ~(n < 10)
    <3> DEFINE m == n \div 10  c == P!Digit(n % 10)
    <3>1. m \in Nat /\ m < n /\ n % 10 \in 0 .. 9 /\ n = 10 * m + (n % 10)
      BY <2>2
    <3>2. c \in DigitSet /\ P!DigitOf(c) = n % 10
      BY <3>1, DigitsAre
    <3>3. P!Decimal[n] = Append(P!Decimal[m], c)
      BY <2>2, DecimalIs DEF DecimalFrom
    <3>4. Right(m)
      BY <1>1, <3>1
    <3> HIDE DEF m, c
    <3>5. ASSUME n <= MaxArrayIndex PROVE P!NumberOf(P!Decimal[n]) = n
      <4>1. P!NumberOf(Append(P!Decimal[m], c)) = AfterDigit(P!NumberOf(P!Decimal[m]), P!DigitOf(c))
        BY <3>2, <3>4, NumberAppend
      <4>2. m <= MaxArrayIndex
        BY <3>1, <3>5, PathsAssumption
      <4>3. AfterDigit(m, n % 10) = n
        <5>1. 10 * m + (n % 10) <= MaxArrayIndex
          BY <3>1, <3>5
        <5> QED BY <3>1, <5>1, AfterDigitIs
      <4> QED BY <3>2, <3>3, <3>4, <4>1, <4>2, <4>3
    <3> QED BY <3>2, <3>3, <3>4, <3>5
  <2> QED BY <2>1, <2>2
<1> HIDE DEF Right
<1>2. 0 \in Z
  <2>1. Right(0)
    BY <1>1
  <2> QED BY <2>1
<1>3. ASSUME NEW k \in Z PROVE k + 1 \in Z
  <2>1. k + 1 \in Nat /\ \A m \in Nat : m < k + 1 => Right(m)
    OBVIOUS
  <2>2. Right(k + 1)
    BY <1>1, <2>1
  <2> QED BY <2>1, <2>2
<1>4. Z = Nat
  <2>1. Z \in SUBSET Nat
    OBVIOUS
  <2> HIDE DEF Z
  <2> QED BY <1>2, <1>3, <2>1, SetInduction
<1>5. \A n \in Nat : Right(n)
  <2> TAKE n \in Nat
  <2>1. n \in Z /\ n \in 0 .. n
    BY <1>4
  <2> QED BY <2>1
<1> QED BY <1>5 DEF Right

LEMMA SomeCharacters ==
  /\ "." \in Characters /\ "[" \in Characters /\ "]" \in Characters /\ "%" \in Characters
  /\ DigitSet \subseteq Characters
BY PathsAssumption, DigitsAre

(* What an element of a documented path is.                                *)
LEMMA PathElementIs ==
  ASSUME NEW e \in P!Elements
  PROVE  \/ e = <<"key">> \/ e = <<"index">>
         \/ \E s \in Seq(Characters) : e = <<"key", s>> /\ P!IsName(s)
         \/ \E m \in 0 .. MaxArrayIndex : e = <<"index", m>>
<1>1. CASE e \in {<<"key">>, <<"index">>}
  BY <1>1
<1>2. CASE e \in {x \in P!Args : x[1] = "key" => P!IsName(x[2])}
  <2>1. e \in P!Args /\ (e[1] = "key" => P!IsName(e[2]))
    BY <1>2
  <2>2. CASE e \in {"key"} \X Seq(Characters)
    BY <2>1, <2>2
  <2>3. CASE e \in {"index"} \X (0 .. MaxArrayIndex)
    BY <2>3
  <2> QED BY <2>1, <2>2, <2>3 DEF P!Args
<1> QED BY <1>1, <1>2 DEF P!Elements

(* How it is written.                                                      *)
LEMMA OneCharacter ==
  \A c \in Characters : <<c>> \in Seq(Characters) /\ Len(<<c>>) = 1 /\ <<c>>[1] = c
OBVIOUS

LEMMA Prefixed ==
  ASSUME NEW w \in Seq(Characters), NEW c \in Characters
  PROVE  /\ <<c>> \o w \in Seq(Characters) /\ Len(<<c>> \o w) = Len(w) + 1 /\ (<<c>> \o w)[1] = c
         /\ \A j \in 1 .. Len(w) : (<<c>> \o w)[j + 1] = w[j]
OBVIOUS

LEMMA Bracketed ==
  ASSUME NEW w \in Seq(Characters), NEW c \in Characters, NEW d \in Characters
  PROVE  /\ <<c>> \o w \o <<d>> \in Seq(Characters) /\ Len(<<c>> \o w \o <<d>>) = Len(w) + 2
         /\ (<<c>> \o w \o <<d>>)[1] = c /\ (<<c>> \o w \o <<d>>)[Len(w) + 2] = d
         /\ \A j \in 1 .. Len(w) : (<<c>> \o w \o <<d>>)[j + 1] = w[j]
<1> DEFINE u == <<c>> \o w
<1>1. /\ u \in Seq(Characters) /\ Len(u) = Len(w) + 1 /\ u[1] = c /\ Len(w) \in Nat
      /\ \A j \in 1 .. Len(w) : u[j + 1] = w[j]
  OBVIOUS
<1> HIDE DEF u
<1>2. /\ u \o <<d>> \in Seq(Characters) /\ Len(u \o <<d>>) = Len(u) + 1 /\ (u \o <<d>>)[Len(u) + 1] = d
      /\ \A j \in 1 .. Len(u) : (u \o <<d>>)[j] = u[j]
  BY <1>1
<1>3. \A j \in 1 .. Len(w) : j + 1 \in 1 .. Len(u)
  BY <1>1
<1>4. 1 \in 1 .. Len(u)
  BY <1>1
<1>5. (u \o <<d>>)[Len(w) + 2] = d
  <2>1. Len(u) + 1 = Len(w) + 2
    BY <1>1
  <2> QED BY <1>2, <2>1
<1> QED BY <1>1, <1>2, <1>3, <1>4, <1>5 DEF u

LEMMA ElementWritten ==
  ASSUME NEW e \in P!Elements
  PROVE  /\ e[1] \in {"key", "index"}
         /\ P!Written(e) \in Seq(Characters) /\ Len(P!Written(e)) \in Nat /\ Len(P!Written(e)) >= 1
         /\ P!IsParameter(e) => P!Written(e) = <<"%">>
         /\ (~P!IsParameter(e) /\ e[1] = "key") =>
              e = P!Key(P!Written(e)) /\ P!IsName(P!Written(e))
         /\ (~P!IsParameter(e) /\ e[1] = "index") =>
              \E m \in 0 .. MaxArrayIndex : e = P!Index(m) /\ P!Written(e) = P!Decimal[m]
<1>0. <<"%">> \in Seq(Characters) /\ Len(<<"%">>) = 1
  BY SomeCharacters, OneCharacter
<1>1. CASE e = <<"key">>
  BY <1>0, <1>1 DEF P!Written, P!IsParameter
<1>2. CASE e = <<"index">>
  BY <1>0, <1>2 DEF P!Written, P!IsParameter
<1>3. ASSUME NEW s \in Seq(Characters), e = <<"key", s>>, P!IsName(s)
      PROVE  /\ Len(e) = 2 /\ e[1] = "key" /\ P!Written(e) = s /\ Len(s) \in Nat /\ Len(s) >= 1
  BY <1>3 DEF P!Written, P!IsParameter, P!IsName
<1>4. ASSUME NEW m \in 0 .. MaxArrayIndex, e = <<"index", m>>
      PROVE  /\ Len(e) = 2 /\ e[1] = "index" /\ P!Written(e) = P!Decimal[m]
             /\ P!Decimal[m] \in Seq(Characters) /\ Len(P!Decimal[m]) >= 1
  <2>1. Len(e) = 2 /\ e[1] = "index" /\ P!Written(e) = P!Decimal[m]
    BY <1>4 DEF P!Written, P!IsParameter
  <2>2. m \in Nat
    BY PathsAssumption
  <2>3. P!Decimal[m] \in Seq(DigitSet) /\ Len(P!Decimal[m]) >= 1
    BY <2>2, DecimalIsRead
  <2>4. P!Decimal[m] \in Seq(Characters)
    BY <2>3, SomeCharacters
  <2> QED BY <2>1, <2>3, <2>4
<1>5. CASE \E s \in Seq(Characters) : e = <<"key", s>> /\ P!IsName(s)
  BY <1>3, <1>5 DEF P!IsParameter, P!Key
<1>6. CASE \E m \in 0 .. MaxArrayIndex : e = <<"index", m>>
  BY <1>4, <1>6 DEF P!IsParameter, P!Index
<1> QED BY <1>1, <1>2, <1>5, <1>6, PathElementIs

(* What is printed of an element: what is written, in brackets or after a  *)
(* separator.                                                              *)
ElementReads(path, i, w, t) ==
  /\ t \in Seq(Characters) /\ Len(t) \in Nat /\ Len(t) >= 1
  /\ path[i][1] = "index" =>
       /\ Len(t) = Len(w) + 2 /\ t[1] = "[" /\ t[Len(w) + 2] = "]"
       /\ \A j \in 1 .. Len(w) : t[j + 1] = w[j]
  /\ (path[i][1] = "key" /\ i = 1) => t = w
  /\ (path[i][1] = "key" /\ i # 1) =>
       /\ Len(t) = Len(w) + 1 /\ t[1] = "."
       /\ \A j \in 1 .. Len(w) : t[j + 1] = w[j]
LEMMA PathElementText ==
  ASSUME NEW path \in Seq(P!Elements), NEW i \in 1 .. Len(path)
  PROVE  ElementReads(path, i, P!Written(path[i]), P!Element(path, i))
<1> DEFINE w == P!Written(path[i])  t == P!Element(path, i)
<1>0. /\ path[i][1] \in {"key", "index"}
      /\ w \in Seq(Characters) /\ Len(w) \in Nat /\ Len(w) >= 1
  <2>1. path[i] \in P!Elements
    OBVIOUS
  <2> QED BY <2>1, ElementWritten
<1> HIDE DEF w, t
<1>1. ASSUME path[i][1] = "index" PROVE ElementReads(path, i, w, t)
  <2>1. t = <<"[">> \o w \o <<"]">>
    BY <1>1 DEF P!Element, w, t
  <2>2. /\ t \in Seq(Characters) /\ Len(t) = Len(w) + 2 /\ t[1] = "[" /\ t[Len(w) + 2] = "]"
        /\ \A j \in 1 .. Len(w) : t[j + 1] = w[j]
    BY ONLY <1>0, <2>1, SomeCharacters, Bracketed
  <2> QED BY <1>0, <1>1, <2>2 DEF ElementReads
<1>2. ASSUME path[i][1] = "key" /\ i = 1 PROVE ElementReads(path, i, w, t)
  <2>1. <<>> \o w = w
    BY <1>0
  <2>2. t = w
    BY <1>2, <2>1 DEF P!Element, w, t
  <2> QED BY <1>0, <1>2, <2>2 DEF ElementReads
<1>3. ASSUME path[i][1] = "key" /\ i # 1 PROVE ElementReads(path, i, w, t)
  <2>1. t = <<".">> \o w
    BY <1>3 DEF P!Element, w, t
  <2>2. /\ t \in Seq(Characters) /\ Len(t) = Len(w) + 1 /\ t[1] = "."
        /\ \A j \in 1 .. Len(w) : t[j + 1] = w[j]
    BY ONLY <1>0, <2>1, SomeCharacters, Prefixed
  <2> QED BY <1>0, <1>3, <2>2 DEF ElementReads
<1>4. ElementReads(path, i, w, t)
  BY <1>0, <1>1, <1>2, <1>3
<1> QED BY <1>4 DEF w, t

(* A path is printed element after element.                                *)
PrintsTo(path, f) ==
  /\ f \in [0 .. Len(path) -> Seq(Characters)] /\ f[0] = <<".">>
  /\ \A k \in 0 .. Len(path) - 1 : f[k + 1] = f[k] \o P!Element(path, k + 1)
LEMMA PrintedIs ==
  ASSUME NEW path \in Seq(P!Elements)
  PROVE  \E f : PrintsTo(path, f) /\ P!Printed(path) = f[Len(path)]
<1> DEFINE n == Len(path)  Y == Seq(Characters)
           h == [k \in 0 .. n - 1 |-> [x \in Y |-> x \o P!Element(path, k + 1)]]
           D(g) == [k \in 0 .. n |-> IF k = 0 THEN <<".">> ELSE g[k - 1] \o P!Element(path, k)]
<1>1. n \in Nat /\ \A k \in 0 .. n - 1 : P!Element(path, k + 1) \in Y
  <2>1. \A k \in 0 .. n - 1 : k + 1 \in 1 .. n
    OBVIOUS
  <2> QED BY <2>1, PathElementText DEF ElementReads
<1>2. <<".">> \in Y
  BY SomeCharacters, OneCharacter
<1>3. PICK f \in [0 .. n -> Y] : IsPrefixOf(f, <<".">>, h, n)
  <2>1. \A x, y \in Y : x \o y \in Y
    OBVIOUS
  <2>2. h \in [0 .. n - 1 -> [Y -> Y]]
    <3> HIDE DEF n, Y
    <3> QED BY <1>1, <2>1
  <2> HIDE DEF h, n, Y
  <2> QED BY <1>1, <1>2, <2>2, RecursionUpTo, Zenon
<1>4. f[0] = <<".">> /\ \A k \in 0 .. n - 1 : f[k + 1] = f[k] \o P!Element(path, k + 1)
  <2>1. \A k \in 0 .. n - 1 : f[k] \in Y
    BY <1>1
  <2> HIDE DEF Y, n
  <2> QED BY <1>3, <2>1 DEF IsPrefixOf
<1>5. \A k \in 0 .. n : k = 0 \/ (k - 1 \in 0 .. n - 1 /\ k = (k - 1) + 1)
  OBVIOUS
<1>6. f = D(f)
  <2> HIDE DEF n, Y
  <2>1. \A k \in 0 .. n : f[k] = IF k = 0 THEN <<".">> ELSE f[k - 1] \o P!Element(path, k)
    BY <1>4, <1>5
  <2> QED BY <2>1
<1> DEFINE g == CHOOSE g : g = D(g)
<1>7. g = D(g)
  <2> HIDE DEF D
  <2> QED BY <1>6
<1>8. P!Printed(path) = g[n]
  BY DEF P!Printed
<1> HIDE DEF g
<1>9. \A k \in 0 .. n : k \in {l \in 0 .. n : g[l] = f[l]}
  <2> DEFINE Z == {l \in 0 .. n : g[l] = f[l]}
  <2>1. 0 \in Z
    BY <1>1, <1>4, <1>7
  <2>2. ASSUME NEW k \in 0 .. n - 1, k \in Z PROVE k + 1 \in Z
    <3>1. k + 1 \in 0 .. n /\ k + 1 # 0 /\ (k + 1) - 1 = k
      BY <1>1
    <3>2. g[k + 1] = g[k] \o P!Element(path, k + 1)
      BY <1>7, <3>1
    <3> QED BY <1>4, <2>2, <3>1, <3>2
  <2> HIDE DEF Z, n
  <2> QED BY <1>1, <2>1, <2>2, InductionUpTo, Zenon DEF Z
<1>10. PrintsTo(path, f)
  BY <1>4 DEF PrintsTo
<1>11. g[n] = f[n]
  <2>1. n \in 0 .. n
    BY <1>1
  <2> HIDE DEF n
  <2> QED BY <1>9, <2>1
<1> QED BY <1>8, <1>10, <1>11

(* The first k elements are printed as the beginning.                      *)
LEMMA PrintedBegins ==
  ASSUME NEW path \in Seq(P!Elements), NEW f, PrintsTo(path, f), NEW k \in 0 .. Len(path)
  PROVE  P!Printed(SubSeq(path, 1, k)) = f[k]
<1> DEFINE q == SubSeq(path, 1, k)
<1>1. q \in Seq(P!Elements) /\ Len(q) = k /\ k \in Nat /\ \A i \in 1 .. k : q[i] = path[i]
  OBVIOUS
<1> HIDE DEF q
<1>2. PICK g : PrintsTo(q, g) /\ P!Printed(q) = g[k]
  BY <1>1, PrintedIs
<1>3. \A i \in 0 .. k : i \in {l \in 0 .. k : g[l] = f[l]}
  <2> DEFINE Z == {l \in 0 .. k : g[l] = f[l]}
  <2>1. 0 \in Z
    <3>1. g[0] = f[0]
      BY <1>2 DEF PrintsTo
    <3> QED BY <1>1, <3>1
  <2>2. ASSUME NEW i \in 0 .. k - 1, i \in Z PROVE i + 1 \in Z
    <3>1. i + 1 \in 0 .. k /\ i \in 0 .. Len(q) - 1 /\ i \in 0 .. Len(path) - 1 /\ i + 1 \in 1 .. k
      BY <1>1
    <3>2. P!Element(q, i + 1) = P!Element(path, i + 1)
      BY <1>1, <3>1 DEF P!Element
    <3>3. g[i + 1] = g[i] \o P!Element(q, i + 1)
      BY <1>2, <3>1 DEF PrintsTo
    <3>4. f[i + 1] = f[i] \o P!Element(path, i + 1)
      BY <3>1 DEF PrintsTo
    <3> QED BY <2>2, <3>1, <3>2, <3>3, <3>4
  <2> HIDE DEF Z
  <2> QED BY <1>1, <2>1, <2>2, InductionUpTo, Zenon DEF Z
<1> QED BY <1>1, <1>2, <1>3 DEF q

(* Where the elements are in what is printed.                              *)
Places(path, t, o) ==
  /\ o \in [0 .. Len(path) -> Nat \ {0}] /\ o[0] = 1 /\ o[Len(path)] = Len(t)
  /\ t \in Seq(Characters) /\ t[1] = "."
  /\ \A k \in 0 .. Len(path) - 1 :
       /\ o[k + 1] = o[k] + Len(P!Element(path, k + 1)) /\ o[k] < o[k + 1] /\ o[k + 1] <= Len(t)
       /\ \A j \in 1 .. Len(P!Element(path, k + 1)) : t[o[k] + j] = P!Element(path, k + 1)[j]
LEMMA PrintedPlaces ==
  ASSUME NEW path \in Seq(P!Elements)
  PROVE  \E o : /\ Places(path, P!Printed(path), o)
                /\ \A k \in 0 .. Len(path) : o[k] = Len(P!Printed(SubSeq(path, 1, k)))
<1> DEFINE n == Len(path)  E(k) == P!Element(path, k)
<1>1. PICK f : PrintsTo(path, f) /\ P!Printed(path) = f[n]
  BY PrintedIs
<1>2. n \in Nat /\ \A k \in 0 .. n - 1 : E(k + 1) \in Seq(Characters) /\ Len(E(k + 1)) >= 1
  <2>1. \A k \in 0 .. n - 1 : k + 1 \in 1 .. n
    OBVIOUS
  <2> QED BY <2>1, PathElementText DEF ElementReads
<1>3. /\ \A k \in 0 .. n : f[k] \in Seq(Characters)
      /\ f[0] = <<".">> /\ \A k \in 0 .. n - 1 : f[k + 1] = f[k] \o E(k + 1)
  BY <1>1 DEF PrintsTo
<1> HIDE DEF n, E
<1>4. ASSUME NEW k \in 0 .. n - 1
      PROVE  /\ Len(f[k + 1]) = Len(f[k]) + Len(E(k + 1))
             /\ \A j \in 1 .. Len(E(k + 1)) : f[k + 1][Len(f[k]) + j] = E(k + 1)[j]
             /\ \A j \in 1 .. Len(f[k]) : f[k + 1][j] = f[k][j]
  <2>1. k \in 0 .. n
    BY <1>2
  <2> DEFINE a == f[k]  b == E(k + 1)
  <2>2. a \in Seq(Characters) /\ b \in Seq(Characters) /\ f[k + 1] = a \o b
    BY <1>2, <1>3, <2>1
  <2> HIDE DEF a, b
  <2>3. /\ Len(a \o b) = Len(a) + Len(b)
        /\ \A j \in 1 .. Len(b) : (a \o b)[Len(a) + j] = b[j]
        /\ \A j \in 1 .. Len(a) : (a \o b)[j] = a[j]
    BY ONLY <2>2
  <2> QED BY <2>2, <2>3 DEF a, b
\* What is printed stays.
<1>5. ASSUME NEW k \in 0 .. n
      PROVE  Len(f[k]) <= Len(f[n]) /\ \A j \in 1 .. Len(f[k]) : f[n][j] = f[k][j]
  <2> DEFINE Z == {d \in 0 .. n - k : /\ Len(f[k]) <= Len(f[k + d])
                                      /\ \A j \in 1 .. Len(f[k]) : f[k + d][j] = f[k][j]}
  <2>1. Len(f[k]) \in Nat /\ k + 0 = k /\ n - k \in Nat /\ 0 \in 0 .. n - k
    BY <1>2, <1>3
  <2>2. 0 \in Z
    BY <2>1
  <2>3. ASSUME NEW d \in 0 .. n - k - 1, d \in Z PROVE d + 1 \in Z
    <3>1. k + d \in 0 .. n - 1 /\ k + (d + 1) = (k + d) + 1 /\ d + 1 \in 0 .. n - k
          /\ k + d \in 0 .. n
      BY <1>2
    <3>2. Len(f[k + d]) \in Nat /\ Len(E((k + d) + 1)) \in Nat
      BY <1>2, <1>3, <3>1
    <3>3. Len(f[k]) <= Len(f[k + d]) /\ \A j \in 1 .. Len(f[k]) : f[k + d][j] = f[k][j]
      BY <2>3
    <3>4. Len(f[(k + d) + 1]) = Len(f[k + d]) + Len(E((k + d) + 1))
      BY <1>4, <3>1
    <3>5. \A j \in 1 .. Len(f[k]) : f[(k + d) + 1][j] = f[k][j]
      <4>1. \A j \in 1 .. Len(f[k]) : j \in 1 .. Len(f[k + d])
        BY <2>1, <3>2, <3>3
      <4>2. \A j \in 1 .. Len(f[k + d]) : f[(k + d) + 1][j] = f[k + d][j]
        BY <1>4, <3>1
      <4> QED BY <3>3, <4>1, <4>2
    <3>6. Len(f[k]) <= Len(f[(k + d) + 1])
      <4> DEFINE a == Len(f[k])  b == Len(f[k + d])  c == Len(E((k + d) + 1))
      <4>1. a \in Nat /\ b \in Nat /\ c \in Nat /\ a <= b
        BY <2>1, <3>2, <3>3
      <4>2. Len(f[(k + d) + 1]) = b + c
        BY <3>4
      <4> HIDE DEF a, b, c
      <4>3. a <= b + c
        BY <4>1
      <4> QED BY <4>2, <4>3 DEF a
    <3> QED BY <3>1, <3>5, <3>6
  <2>4. n - k \in 0 .. n - k /\ k + (n - k) = n
    BY <1>2
  <2> HIDE DEF Z
  <2>5. n - k \in Z
    <3> DEFINE m == n - k
    <3>1. m \in Nat /\ m \in 0 .. m /\ \A d \in 0 .. m - 1 : d \in Z => d + 1 \in Z
      BY <2>1, <2>3, <2>4
    <3> HIDE DEF m
    <3>2. m \in Z
      BY <2>2, <3>1, InductionUpTo
    <3> QED BY <3>2 DEF m
  <2> QED BY <2>4, <2>5 DEF Z
<1> DEFINE o == [k \in 0 .. n |-> Len(f[k])]  t == P!Printed(path)
<1>6. \A k \in 0 .. n : o[k] = Len(f[k]) /\ o[k] \in Nat
  BY <1>3
<1>7. ASSUME NEW k \in 0 .. n PROVE o[k] = Len(P!Printed(SubSeq(path, 1, k)))
  <2>1. P!Printed(SubSeq(path, 1, k)) = f[k]
    BY <1>1, PrintedBegins DEF n
  <2> QED BY <1>6, <2>1
<1>8. t = f[n] /\ o[n] = Len(t) /\ t \in Seq(Characters) /\ o[0] = 1 /\ f[0][1] = "." /\ t[1] = "."
  <2>1. n \in 0 .. n /\ 0 \in 0 .. n
    BY <1>2
  <2>2. o[0] = 1 /\ Len(f[0]) = 1 /\ f[0][1] = "."
    <3>1. Len(f[0]) = 1 /\ f[0][1] = "."
      BY <1>3, SomeCharacters, OneCharacter
    <3> QED BY <1>6, <2>1, <3>1
  <2>3. f[n][1] = f[0][1]
    <3>1. 1 \in 1 .. Len(f[0])
      BY <2>2
    <3> QED BY <1>5, <2>1, <3>1
  <2> QED BY <1>1, <1>3, <1>6, <2>1, <2>2, <2>3
<1> HIDE DEF o, t
<1>9. ASSUME NEW k \in 0 .. n - 1
      PROVE  /\ o[k + 1] = o[k] + Len(E(k + 1)) /\ o[k] < o[k + 1] /\ o[k + 1] <= Len(t)
             /\ \A j \in 1 .. Len(E(k + 1)) : t[o[k] + j] = E(k + 1)[j]
  <2>1. k \in 0 .. n /\ k + 1 \in 0 .. n /\ n \in 0 .. n
    BY <1>2
  <2>2. o[k + 1] = o[k] + Len(E(k + 1)) /\ o[k] = Len(f[k]) /\ o[k] \in Nat
        /\ Len(f[k + 1]) = o[k + 1]
    BY <1>4, <1>6, <2>1
  <2>3. Len(E(k + 1)) \in Nat /\ Len(E(k + 1)) >= 1
    BY <1>2
  <2>4. o[k + 1] <= Len(t)
    BY <1>5, <1>6, <1>8, <2>1
  <2>5. ASSUME NEW j \in 1 .. Len(E(k + 1)) PROVE t[o[k] + j] = E(k + 1)[j]
    <3>1. o[k] + j \in 1 .. Len(f[k + 1])
      BY <2>2, <2>3
    <3>2. f[n][o[k] + j] = f[k + 1][o[k] + j]
      BY <1>5, <2>1, <3>1
    <3> QED BY <1>4, <1>8, <2>2, <3>2
  <2>6. o[k] < o[k + 1]
    <3> DEFINE a == o[k]  b == o[k + 1]  c == Len(E(k + 1))
    <3>1. a \in Nat /\ c \in Nat /\ c >= 1 /\ b = a + c
      BY <2>2, <2>3
    <3> HIDE DEF a, b, c
    <3>2. a < b
      BY <3>1
    <3> QED BY <3>2 DEF a, b
  <2> QED BY <2>2, <2>4, <2>5, <2>6
<1>10. o \in [0 .. n -> Nat \ {0}]
  <2>1. ASSUME NEW k \in 0 .. n PROVE o[k] >= 1
    <3>1. n \in Nat
      BY <1>2
    <3>2. CASE k = 0
      BY <1>8, <3>2
    <3>3. CASE k # 0
      <4>1. k - 1 \in 0 .. n - 1 /\ (k - 1) + 1 = k /\ k - 1 \in 0 .. n
        BY <3>1, <3>3
      <4>2. o[k - 1] < o[k] /\ o[k - 1] \in Nat /\ o[k] \in Nat
        BY <1>6, <1>9, <4>1
      <4> QED BY <4>2
    <3> QED BY <3>2, <3>3
  <2>2. \A k \in 0 .. n : o[k] \in Nat \ {0}
    BY <1>6, <2>1
  <2>3. o = [k \in 0 .. n |-> o[k]]
    BY DEF o
  <2> QED BY <2>2, <2>3
<1>11. Places(path, t, o)
  BY <1>8, <1>9, <1>10 DEF Places, n, E
<1> QED BY <1>7, <1>11 DEF t, n

(* Looking for a character: the first place there is one.                  *)
LEMMA LeastIn ==
  ASSUME NEW Z \in SUBSET Nat, Z # {}
  PROVE  \E x \in Z : \A y \in Z : x <= y
<1>1. PICK x \in Z : \A y \in Z : ~ (<<y, x>> \in OpToRel(<,Nat))
  BY WFMin, NatLessThanWellFounded
<1>2. \A y \in Z : ~(y < x)
  BY <1>1 DEF OpToRel
<1>3. \A y \in Z : x <= y
  BY <1>2
<1> QED BY <1>3

LEMMA LeastFrom ==
  ASSUME NEW i \in Nat, NEW n \in Nat, i <= n, NEW Z, n \in Z
  PROVE  \E j \in i .. n : j \in Z /\ \A k \in i .. j - 1 : k \notin Z
<1> DEFINE Y == {j \in i .. n : j \in Z}
<1>1. Y \in SUBSET Nat /\ Y # {}
  OBVIOUS
<1> HIDE DEF Y
<1>2. PICK x \in Y : \A y \in Y : x <= y
  BY <1>1, LeastIn
<1> QED BY <1>2 DEF Y

LEMMA TextAt ==
  ASSUME text \in Seq(Characters), NEW i \in Nat
  PROVE  /\ i < Len(text) => P!At(i) = text[i + 1] /\ P!At(i) \in Characters
         /\ i >= Len(text) => P!At(i) = "NUL"
BY DEF P!At

LEMMA FirstInIs ==
  ASSUME text \in Seq(Characters), NEW i \in 0 .. Len(text), NEW C
  PROVE  /\ P!FirstIn(i, C) \in i .. Len(text)
         /\ P!FirstIn(i, C) = Len(text) \/ P!At(P!FirstIn(i, C)) \in C
         /\ \A k \in i .. P!FirstIn(i, C) - 1 : P!At(k) \notin C
<1> DEFINE n == Len(text)  Z == {j \in i .. n : j = n \/ P!At(j) \in C}
<1>1. n \in Nat /\ i \in Nat /\ i <= n /\ n \in Z
  OBVIOUS
<1>2. PICK j \in i .. n : j \in Z /\ \A k \in i .. j - 1 : k \notin Z
  <2> HIDE DEF n, Z
  <2> QED BY <1>1, LeastFrom
<1>3. \A k \in i .. j - 1 : P!At(k) \notin C
  BY <1>1, <1>2
<1> QED BY <1>2, <1>3 DEF P!FirstIn

LEMMA AfterDigitsIs ==
  ASSUME text \in Seq(Characters), NEW i \in 0 .. Len(text)
  PROVE  /\ P!AfterDigits(i) \in i .. Len(text)
         /\ P!At(P!AfterDigits(i)) \notin DigitSet
         /\ \A k \in i .. P!AfterDigits(i) - 1 : P!At(k) \in DigitSet
<1> DEFINE n == Len(text)  Z == {j \in i .. n : P!At(j) \notin DigitSet}
<1>1. n \in Nat /\ i \in Nat /\ i <= n /\ n \in Z
  BY DEF P!At, DigitSet
<1>2. PICK j \in i .. n : j \in Z /\ \A k \in i .. j - 1 : k \notin Z
  <2> HIDE DEF n, Z
  <2> QED BY <1>1, LeastFrom
<1>3. \A k \in i .. j - 1 : P!At(k) \in DigitSet
  BY <1>1, <1>2
<1>4. ToSet(P!Digits) = DigitSet
  BY DigitsAre
<1>5. \E l \in i .. n : /\ P!At(l) \notin ToSet(P!Digits)
                        /\ \A k \in i .. l - 1 : P!At(k) \in ToSet(P!Digits)
  BY <1>2, <1>3, <1>4
<1>6. /\ P!AfterDigits(i) \in i .. n
      /\ P!At(P!AfterDigits(i)) \notin ToSet(P!Digits)
      /\ \A k \in i .. P!AfterDigits(i) - 1 : P!At(k) \in ToSet(P!Digits)
  BY <1>5 DEF P!AfterDigits, P!ToSet, ToSet
<1> QED BY <1>4, <1>6

(* They are where the text says.                                           *)
LEMMA AfterDigitsAt ==
  ASSUME text \in Seq(Characters), NEW i \in 0 .. Len(text), NEW j \in i .. Len(text),
         P!At(j) \notin DigitSet, \A k \in i .. j - 1 : P!At(k) \in DigitSet
  PROVE  P!AfterDigits(i) = j
<1> DEFINE d == P!AfterDigits(i)
<1>1. d \in i .. Len(text) /\ P!At(d) \notin DigitSet /\ \A k \in i .. d - 1 : P!At(k) \in DigitSet
  BY AfterDigitsIs
<1> HIDE DEF d
<1>2. ~(d < j)
  <2>1. d < j => d \in i .. j - 1
    BY <1>1
  <2> QED BY <1>1, <2>1
<1>3. ~(j < d)
  <2>1. j < d => j \in i .. d - 1
    BY <1>1
  <2> QED BY <1>1, <2>1
<1> QED BY <1>1, <1>2, <1>3 DEF d

LEMMA FirstInAt ==
  ASSUME text \in Seq(Characters), NEW i \in 0 .. Len(text), NEW j \in i .. Len(text), NEW C,
         j = Len(text) \/ P!At(j) \in C, \A k \in i .. j - 1 : P!At(k) \notin C
  PROVE  P!FirstIn(i, C) = j
<1> DEFINE d == P!FirstIn(i, C)
<1>1. /\ d \in i .. Len(text)
      /\ d = Len(text) \/ P!At(d) \in C
      /\ \A k \in i .. d - 1 : P!At(k) \notin C
  BY FirstInIs
<1> HIDE DEF d
<1>2. Len(text) \in Nat
  OBVIOUS
<1>3. ~(d < j)
  <2>1. ASSUME d < j PROVE d \in i .. j - 1 /\ d # Len(text)
    BY <1>1, <1>2, <2>1
  <2> QED BY <1>1, <2>1
<1>4. ~(j < d)
  <2>1. ASSUME j < d PROVE j \in i .. d - 1 /\ j # Len(text)
    BY <1>1, <1>2, <2>1
  <2> QED BY <1>1, <2>1
<1>5. d = j
  BY <1>1, <1>2, <1>3, <1>4
<1> QED BY <1>5 DEF d

(* How many parameters the first elements take.                            *)
LEMMA TakenIs ==
  ASSUME NEW path \in Seq(P!Elements)
  PROVE  /\ P!Taken(path, 0) = 0
         /\ \A k \in 0 .. Len(path) : P!Taken(path, k) \in Nat
         /\ \A k \in 0 .. Len(path) - 1 :
              P!Taken(path, k + 1) = P!Taken(path, k) + IF P!IsParameter(path[k + 1]) THEN 1 ELSE 0
<1> DEFINE Z(k) == {j \in 1 .. k : P!IsParameter(path[j])}
<1>1. ASSUME NEW k PROVE P!Taken(path, k) = Cardinality(Z(k))
  BY DEF P!Taken, P!Cardinality, Cardinality
<1>2. Z(0) = {}
  OBVIOUS
<1>3. ASSUME NEW k \in Nat PROVE IsFiniteSet(Z(k))
  <2>1. Z(k) \in SUBSET (1 .. k)
    OBVIOUS
  <2>2. IsFiniteSet(1 .. k)
    BY FS_Interval
  <2> HIDE DEF Z
  <2> QED BY <2>1, <2>2, FS_Subset
<1>4. ASSUME NEW k \in Nat
      PROVE  Z(k + 1) = IF P!IsParameter(path[k + 1]) THEN Z(k) \cup {k + 1} ELSE Z(k)
  OBVIOUS
<1>5. \A k \in Nat : k + 1 \notin Z(k)
  OBVIOUS
<1> HIDE DEF Z
<1>6. P!Taken(path, 0) = 0
  BY <1>1, <1>2, FS_EmptySet
<1>7. ASSUME NEW k \in Nat PROVE Cardinality(Z(k)) \in Nat
  BY <1>3, FS_CardinalityType
<1>8. ASSUME NEW k \in Nat
      PROVE  Cardinality(Z(k + 1)) = Cardinality(Z(k)) + IF P!IsParameter(path[k + 1]) THEN 1 ELSE 0
  <2>1. CASE P!IsParameter(path[k + 1])
    <3>1. Cardinality(Z(k) \cup {k + 1}) = Cardinality(Z(k)) + 1
      BY <1>3, <1>5, FS_AddElement
    <3>2. Z(k + 1) = Z(k) \cup {k + 1}
      BY <1>4, <2>1
    <3> QED BY <2>1, <3>1, <3>2
  <2>2. CASE ~P!IsParameter(path[k + 1])
    <3>1. Z(k + 1) = Z(k)
      BY <1>4, <2>2
    <3> QED BY <1>7, <2>2, <3>1
  <2> QED BY <2>1, <2>2
<1>9. \A k \in 0 .. Len(path) : P!Taken(path, k) \in Nat
  BY <1>1, <1>7
<1>10. ASSUME NEW k \in 0 .. Len(path) - 1
       PROVE  P!Taken(path, k + 1) = P!Taken(path, k) + IF P!IsParameter(path[k + 1]) THEN 1 ELSE 0
  <2>1. k \in Nat
    OBVIOUS
  <2>2. P!Taken(path, k) = Cardinality(Z(k)) /\ P!Taken(path, k + 1) = Cardinality(Z(k + 1))
    BY <1>1
  <2> QED BY <1>8, <2>1, <2>2
<1> QED BY <1>6, <1>9, <1>10

LEMMA PieceIs ==
  ASSUME NEW t \in Seq(Characters), NEW w \in Seq(Characters), NEW b \in Nat,
         b + Len(w) <= Len(t), \A j \in 1 .. Len(w) : t[b + j] = w[j]
  PROVE  SubSeq(t, b + 1, b + Len(w)) = w
<1> DEFINE u == SubSeq(t, b + 1, b + Len(w))
<1>1. Len(w) \in Nat /\ Len(t) \in Nat
  OBVIOUS
<1>2. u \in Seq(Characters) /\ Len(u) = Len(w) /\ \A j \in 1 .. Len(w) : u[j] = t[b + j]
  BY <1>1
<1> HIDE DEF u
<1>3. u = w
  BY <1>1, <1>2
<1> QED BY <1>3 DEF u

(* What a path means, argument by argument.                                *)
LEMMA MeaningIs ==
  ASSUME NEW path \in Seq(P!Elements), in \in Seq(P!Args), P!Given(path)
  PROVE  /\ P!Meaning(path) \in Seq(P!Args) /\ Len(P!Meaning(path)) = Len(path)
         /\ \A k \in 0 .. Len(path) - 1 :
              IF P!IsParameter(path[k + 1])
              THEN /\ P!Taken(path, k) < Len(in) /\ P!Taken(path, k + 1) = P!Taken(path, k) + 1
                   /\ in[P!Taken(path, k) + 1][1] = path[k + 1][1]
                   /\ P!Meaning(path)[k + 1] = in[P!Taken(path, k) + 1]
              ELSE P!Meaning(path)[k + 1] = path[k + 1] /\ P!Taken(path, k + 1) = P!Taken(path, k)
<1> DEFINE n == Len(path)  M == P!Meaning(path)
<1>1. n \in Nat /\ Len(in) \in Nat /\ DOMAIN path = 1 .. n
  OBVIOUS
<1>2. DOMAIN M = 1 .. n
  BY <1>1 DEF P!Meaning
<1>3. ASSUME NEW i \in 1 .. n
      PROVE  M[i] = IF P!IsParameter(path[i]) THEN in[P!Taken(path, i)] ELSE path[i]
  BY <1>1 DEF P!Meaning
<1> HIDE DEF M
<1>4. ASSUME NEW i \in 1 .. n, P!IsParameter(path[i])
      PROVE  P!Taken(path, i) <= Len(in) /\ in[P!Taken(path, i)][1] = path[i][1]
  BY <1>1, <1>4 DEF P!Given
<1>5. ASSUME NEW k \in 0 .. n - 1
      PROVE  /\ k + 1 \in 1 .. n /\ P!Taken(path, k) \in Nat
             /\ P!Taken(path, k + 1) = P!Taken(path, k) + IF P!IsParameter(path[k + 1]) THEN 1 ELSE 0
  <2>1. k \in 0 .. n /\ k + 1 \in 1 .. n
    BY <1>1
  <2> QED BY <2>1, TakenIs
<1>6. ASSUME NEW k \in 0 .. n - 1
      PROVE  IF P!IsParameter(path[k + 1])
             THEN /\ P!Taken(path, k) < Len(in) /\ P!Taken(path, k + 1) = P!Taken(path, k) + 1
                  /\ in[P!Taken(path, k) + 1][1] = path[k + 1][1]
                  /\ M[k + 1] = in[P!Taken(path, k) + 1]
             ELSE M[k + 1] = path[k + 1] /\ P!Taken(path, k + 1) = P!Taken(path, k)
  <2>1. CASE P!IsParameter(path[k + 1])
    <3>1. P!Taken(path, k + 1) = P!Taken(path, k) + 1 /\ P!Taken(path, k) \in Nat /\ k + 1 \in 1 .. n
      BY <1>5, <2>1
    <3>2. P!Taken(path, k + 1) <= Len(in) /\ in[P!Taken(path, k + 1)][1] = path[k + 1][1]
      BY <1>4, <2>1, <3>1
    <3>3. M[k + 1] = in[P!Taken(path, k + 1)]
      BY <1>3, <2>1, <3>1
    <3>4. P!Taken(path, k) < Len(in)
      BY <1>1, <3>1, <3>2
    <3> QED BY <2>1, <3>1, <3>2, <3>3, <3>4
  <2>2. CASE ~P!IsParameter(path[k + 1])
    BY <1>3, <1>5, <2>2
  <2> QED BY <2>1, <2>2
<1>7. ASSUME NEW i \in 1 .. n PROVE M[i] \in P!Args
  <2>1. i - 1 \in 0 .. n - 1 /\ (i - 1) + 1 = i
    BY <1>1
  <2>2. CASE P!IsParameter(path[i])
    <3>1. P!Taken(path, i - 1) \in Nat /\ P!Taken(path, i - 1) < Len(in)
          /\ M[i] = in[P!Taken(path, i - 1) + 1]
      BY <1>5, <1>6, <2>1, <2>2
    <3>2. P!Taken(path, i - 1) + 1 \in 1 .. Len(in)
      BY <1>1, <3>1
    <3> QED BY <3>1, <3>2
  <2>3. CASE ~P!IsParameter(path[i])
    <3>1. M[i] = path[i] /\ path[i] \in P!Elements
      BY <1>3, <2>3
    <3>2. path[i] # <<"key">> /\ path[i] # <<"index">>
      <4>1. Len(<<"key">>) = 1 /\ Len(<<"index">>) = 1 /\ Len(path[i]) # 1
        BY <2>3 DEF P!IsParameter
      <4> QED BY <4>1
    <3>3. path[i] \in P!Args
      BY <3>1, <3>2 DEF P!Elements
    <3> QED BY <3>1, <3>3
  <2> QED BY <2>2, <2>3
<1>8. M \in Seq(P!Args) /\ Len(M) = n
  <2>1. M = [i \in 1 .. n |-> M[i]]
    BY <1>1, <1>2 DEF M, P!Meaning
  <2>2. M \in [1 .. n -> P!Args]
    BY <1>7, <2>1
  <2> QED BY <1>1, <2>2
<1> QED BY <1>6, <1>8 DEF M

LEMMA OneMore ==
  ASSUME NEW C, NEW m \in Seq(C), NEW k \in 0 .. Len(m) - 1
  PROVE  Append(SubSeq(m, 1, k), m[k + 1]) = SubSeq(m, 1, k + 1)
<1> DEFINE a == Append(SubSeq(m, 1, k), m[k + 1])  b == SubSeq(m, 1, k + 1)
<1>1. Len(m) \in Nat /\ k \in Nat /\ m[k + 1] \in C /\ SubSeq(m, 1, k) \in Seq(C)
  OBVIOUS
<1>2. a \in Seq(C) /\ Len(a) = k + 1 /\ \A i \in 1 .. k + 1 : a[i] = m[i]
  BY <1>1
<1>3. b \in Seq(C) /\ Len(b) = k + 1 /\ \A i \in 1 .. k + 1 : b[i] = m[i]
  BY <1>1
<1> HIDE DEF a, b
<1>4. a = b
  BY <1>1, <1>2, <1>3
<1> QED BY <1>4 DEF a, b

(* Reading a path: which handler reads a character.                        *)
LEMMA CharacterRead ==
  ASSUME P!Next, pc = "makePath", text \in Seq(Characters), current \in Nat, current < Len(text)
  PROVE  /\ UNCHANGED <<text, in, root, before, node, it, pc>>
         /\ P!At(current) = "[" => P!ReadIndex
         /\ P!At(current) = "%" => P!ReadParameter
         /\ P!At(current) \in {".", "]"} => P!SkipSeparator
         /\ P!At(current) \notin {"[", "%", ".", "]"} => P!ReadName
<1>1. P!ReadIndex \/ P!ReadParameter \/ P!SkipSeparator \/ P!ReadName
  <2>1. ~P!Begin("make") /\ ~P!Begin("resolve")
    BY DEF P!Begin
  <2>2. ~P!Make /\ ~P!MakeEnds /\ ~P!Resolve /\ ~P!ResolveEnds
    BY DEF P!Make, P!MakeEnds, P!Resolve, P!ResolveEnds, P!Going
  <2> QED BY <2>1, <2>2 DEF P!Next
<1>2. /\ P!ReadIndex => P!At(current) = "["
      /\ P!ReadParameter => P!At(current) = "%"
      /\ P!SkipSeparator => P!At(current) \in {".", "]"}
      /\ P!ReadName => P!At(current) \notin {"[", "%", ".", "]"}
  BY DEF P!ReadIndex, P!ReadParameter, P!SkipSeparator, P!ReadName
<1>3. UNCHANGED <<text, in, root, before, node, it, pc>>
  BY <1>1 DEF P!ReadIndex, P!ReadParameter, P!SkipSeparator, P!ReadName, P!Reading
<1> QED BY <1>1, <1>2, <1>3

(* So much of a documented path has been read: k elements, and c           *)
(* characters.                                                             *)
Here(path, o, k, c) ==
  \/ c = o[k]
  \/ c = 0 /\ k = 0
  \/ c = o[k] + 1 /\ 0 < k /\ k < Len(path) /\ path[k + 1][1] = "key"
  \/ c = o[k] - 1 /\ 0 < k /\ path[k] = <<"index">>
ReadingIs(path, o, k) ==
  /\ path \in Seq(P!Elements) /\ Places(path, text, o) /\ P!Given(path) /\ in \in Seq(P!Args)
  /\ k \in 0 .. Len(path) /\ current \in Nat
  /\ args = SubSeq(P!Meaning(path), 1, k) /\ taken = P!Taken(path, k)
\* After a step, l elements have been.
ReadIsNow(path, o, l) ==
  /\ l \in 0 .. Len(path) /\ args' = SubSeq(P!Meaning(path), 1, l) /\ taken' = P!Taken(path, l)
  /\ Here(path, o, l, current')

(* What the next element means, given what is read.                        *)
LEMMA ElementMeans ==
  ASSUME NEW path, NEW o, NEW k, ReadingIs(path, o, k), k < Len(path),
         NEW M, M = P!Meaning(path)
  PROVE  /\ Append(args, M[k + 1]) = SubSeq(M, 1, k + 1)
         /\ IF P!IsParameter(path[k + 1])
            THEN /\ taken < Len(in) /\ P!Taken(path, k + 1) = taken + 1
                 /\ in[taken + 1][1] = path[k + 1][1] /\ M[k + 1] = in[taken + 1]
            ELSE M[k + 1] = path[k + 1] /\ P!Taken(path, k + 1) = taken
<1>1. /\ path \in Seq(P!Elements) /\ P!Given(path) /\ in \in Seq(P!Args)
      /\ k \in 0 .. Len(path) - 1 /\ args = SubSeq(M, 1, k) /\ taken = P!Taken(path, k)
  BY DEF ReadingIs
<1>2. /\ M \in Seq(P!Args) /\ Len(M) = Len(path)
      /\ \A l \in 0 .. Len(path) - 1 :
            IF P!IsParameter(path[l + 1])
            THEN /\ P!Taken(path, l) < Len(in) /\ P!Taken(path, l + 1) = P!Taken(path, l) + 1
                 /\ in[P!Taken(path, l) + 1][1] = path[l + 1][1]
                 /\ M[l + 1] = in[P!Taken(path, l) + 1]
            ELSE M[l + 1] = path[l + 1] /\ P!Taken(path, l + 1) = P!Taken(path, l)
  BY <1>1, MeaningIs, Zenon
<1>3. Append(SubSeq(M, 1, k), M[k + 1]) = SubSeq(M, 1, k + 1)
  BY <1>1, <1>2, OneMore
<1> QED BY <1>1, <1>2, <1>3

(* A parameter is there, and of the kind it has to be.                     *)
LEMMA ParameterRead ==
  ASSUME NEW path, NEW o, NEW k, ReadingIs(path, o, k), k < Len(path), P!IsParameter(path[k + 1]),
         P!AddPathInArg(path[k + 1][1])
  PROVE  args' = SubSeq(P!Meaning(path), 1, k + 1) /\ taken' = P!Taken(path, k + 1)
BY ElementMeans DEF P!AddPathInArg

(* What is not a parameter means itself.                                   *)
LEMMA ArgumentRead ==
  ASSUME NEW path, NEW o, NEW k, ReadingIs(path, o, k), k < Len(path), ~P!IsParameter(path[k + 1]),
         args' = Append(args, path[k + 1]), taken' = taken
  PROVE  args' = SubSeq(P!Meaning(path), 1, k + 1) /\ taken' = P!Taken(path, k + 1)
BY ElementMeans

(* Where an element is in the text.                                        *)
LEMMA PathElementAt ==
  ASSUME NEW path \in Seq(P!Elements), NEW o, Places(path, text, o), NEW k \in 0 .. Len(path) - 1,
         NEW w, w = P!Written(path[k + 1])
  PROVE  /\ text \in Seq(Characters) /\ Len(text) \in Nat
         /\ o[k] \in Nat /\ o[k] >= 1 /\ o[k + 1] \in Nat /\ o[k] < o[k + 1] /\ o[k + 1] <= Len(text)
         /\ path[k + 1][1] \in {"key", "index"}
         /\ w \in Seq(Characters) /\ Len(w) \in Nat /\ Len(w) >= 1
         /\ path[k + 1][1] = "index" =>
              /\ o[k + 1] = o[k] + Len(w) + 2 /\ text[o[k] + 1] = "[" /\ text[o[k + 1]] = "]"
              /\ \A j \in 1 .. Len(w) : text[o[k] + 1 + j] = w[j]
         /\ (path[k + 1][1] = "key" /\ k = 0) =>
              o[k + 1] = o[k] + Len(w) /\ \A j \in 1 .. Len(w) : text[o[k] + j] = w[j]
         /\ (path[k + 1][1] = "key" /\ k # 0) =>
              /\ o[k + 1] = o[k] + Len(w) + 1 /\ text[o[k] + 1] = "."
              /\ \A j \in 1 .. Len(w) : text[o[k] + 1 + j] = w[j]
<1> DEFINE t == P!Element(path, k + 1)
<1>0. k \in Nat /\ k + 1 \in 1 .. Len(path) /\ k \in 0 .. Len(path) /\ k + 1 \in 0 .. Len(path)
      /\ path[k + 1] \in P!Elements
  OBVIOUS
<1>1. path[k + 1][1] \in {"key", "index"} /\ w \in Seq(Characters) /\ Len(w) \in Nat /\ Len(w) >= 1
  BY <1>0, ElementWritten
<1>2. /\ t \in Seq(Characters) /\ Len(t) \in Nat /\ Len(t) >= 1
      /\ path[k + 1][1] = "index" =>
           /\ Len(t) = Len(w) + 2 /\ t[1] = "[" /\ t[Len(w) + 2] = "]"
           /\ \A j \in 1 .. Len(w) : t[j + 1] = w[j]
      /\ (path[k + 1][1] = "key" /\ k + 1 = 1) => t = w
      /\ (path[k + 1][1] = "key" /\ k + 1 # 1) =>
           /\ Len(t) = Len(w) + 1 /\ t[1] = "."
           /\ \A j \in 1 .. Len(w) : t[j + 1] = w[j]
  <2>1. ElementReads(path, k + 1, w, t)
    BY <1>0, PathElementText
  <2> HIDE DEF t
  <2> QED BY <2>1 DEF ElementReads
<1> HIDE DEF t
<1>3. /\ o[k] \in Nat /\ o[k] >= 1 /\ o[k + 1] \in Nat /\ o[k] < o[k + 1] /\ o[k + 1] <= Len(text)
      /\ o[k + 1] = o[k] + Len(t) /\ \A j \in 1 .. Len(t) : text[o[k] + j] = t[j]
      /\ text \in Seq(Characters) /\ Len(text) \in Nat
  <2>1. /\ o \in [0 .. Len(path) -> Nat \ {0}] /\ text \in Seq(Characters)
        /\ o[k + 1] = o[k] + Len(t) /\ o[k] < o[k + 1] /\ o[k + 1] <= Len(text)
        /\ \A j \in 1 .. Len(t) : text[o[k] + j] = t[j]
    BY DEF Places, t
  <2>2. o[k] \in Nat \ {0} /\ o[k + 1] \in Nat \ {0} /\ Len(text) \in Nat
    BY <1>0, <2>1
  <2> QED BY <2>1, <2>2
<1>4. \A a, j \in Nat : a + (j + 1) = a + 1 + j
  OBVIOUS
<1> SUFFICES
         /\ path[k + 1][1] = "index" =>
              /\ o[k + 1] = o[k] + Len(w) + 2 /\ text[o[k] + 1] = "[" /\ text[o[k + 1]] = "]"
              /\ \A j \in 1 .. Len(w) : text[o[k] + 1 + j] = w[j]
         /\ (path[k + 1][1] = "key" /\ k = 0) =>
              o[k + 1] = o[k] + Len(w) /\ \A j \in 1 .. Len(w) : text[o[k] + j] = w[j]
         /\ (path[k + 1][1] = "key" /\ k # 0) =>
              /\ o[k + 1] = o[k] + Len(w) + 1 /\ text[o[k] + 1] = "."
              /\ \A j \in 1 .. Len(w) : text[o[k] + 1 + j] = w[j]
  BY <1>1, <1>3, Zenon
<1>5. ASSUME path[k + 1][1] = "index"
      PROVE  /\ o[k + 1] = o[k] + Len(w) + 2 /\ text[o[k] + 1] = "[" /\ text[o[k + 1]] = "]"
             /\ \A j \in 1 .. Len(w) : text[o[k] + 1 + j] = w[j]
  <2>1. /\ Len(t) = Len(w) + 2 /\ t[1] = "[" /\ t[Len(w) + 2] = "]"
        /\ \A j \in 1 .. Len(w) : t[j + 1] = w[j]
    BY <1>2, <1>5
  <2>2. o[k + 1] = o[k] + Len(w) + 2 /\ 1 \in 1 .. Len(t) /\ Len(w) + 2 \in 1 .. Len(t)
        /\ o[k] + (Len(w) + 2) = o[k + 1] /\ \A j \in 1 .. Len(w) : j + 1 \in 1 .. Len(t)
    BY <1>1, <1>2, <1>3, <2>1
  <2>3. text[o[k] + 1] = "["
    BY <1>3, <2>1, <2>2
  <2>4. text[o[k + 1]] = "]"
    <3>1. text[o[k] + (Len(w) + 2)] = t[Len(w) + 2]
      BY <1>3, <2>2
    <3> QED BY <2>1, <2>2, <3>1
  <2>5. ASSUME NEW j \in 1 .. Len(w) PROVE text[o[k] + 1 + j] = w[j]
    <3>1. text[o[k] + (j + 1)] = t[j + 1]
      BY <1>3, <2>2
    <3>2. o[k] + (j + 1) = o[k] + 1 + j
      <4>1. j \in Nat
        BY <1>1
      <4> QED BY <1>3, <1>4, <4>1, Zenon
    <3> QED BY <2>1, <3>1, <3>2
  <2> QED BY <2>2, <2>3, <2>4, <2>5
<1>6. ASSUME path[k + 1][1] = "key", k = 0
      PROVE  o[k + 1] = o[k] + Len(w) /\ \A j \in 1 .. Len(w) : text[o[k] + j] = w[j]
  <2>1. t = w
    BY <1>2, <1>6
  <2> QED BY <1>1, <1>3, <1>6, <2>1
<1>7. ASSUME path[k + 1][1] = "key", k # 0
      PROVE  /\ o[k + 1] = o[k] + Len(w) + 1 /\ text[o[k] + 1] = "."
             /\ \A j \in 1 .. Len(w) : text[o[k] + 1 + j] = w[j]
  <2>1. /\ Len(t) = Len(w) + 1 /\ t[1] = "."
        /\ \A j \in 1 .. Len(w) : t[j + 1] = w[j]
    BY <1>0, <1>2, <1>7
  <2>2. o[k + 1] = o[k] + Len(w) + 1 /\ 1 \in 1 .. Len(t)
        /\ \A j \in 1 .. Len(w) : j + 1 \in 1 .. Len(t)
    BY <1>1, <1>2, <1>3, <2>1
  <2>3. text[o[k] + 1] = "."
    BY <1>3, <2>1, <2>2
  <2>5. ASSUME NEW j \in 1 .. Len(w) PROVE text[o[k] + 1 + j] = w[j]
    <3>1. text[o[k] + (j + 1)] = t[j + 1]
      BY <1>3, <2>2
    <3>2. o[k] + (j + 1) = o[k] + 1 + j
      <4>1. j \in Nat
        BY <1>1
      <4> QED BY <1>3, <1>4, <4>1, Zenon
    <3> QED BY <2>1, <3>1, <3>2
  <2> QED BY <2>2, <2>3, <2>5
<1> QED BY <1>5, <1>6, <1>7, Zenon

(* A name, or the parameter for one, is read.                              *)
LEMMA KeyRead ==
  ASSUME NEW path, NEW o, NEW k, ReadingIs(path, o, k), k < Len(path), path[k + 1][1] = "key",
         P!Next, pc = "makePath", NEW w, w = P!Written(path[k + 1]), o[k + 1] = current + Len(w),
         \A j \in 1 .. Len(w) : text[current + j] = w[j]
  PROVE  ReadIsNow(path, o, k + 1)
<1>0. /\ path \in Seq(P!Elements) /\ Places(path, text, o) /\ k \in 0 .. Len(path) - 1 /\ k \in Nat
      /\ current \in Nat /\ path[k + 1] \in P!Elements /\ k + 1 \in 0 .. Len(path)
  BY DEF ReadingIs
<1>1. /\ text \in Seq(Characters) /\ Len(text) \in Nat /\ o[k + 1] \in Nat /\ o[k + 1] <= Len(text)
      /\ w \in Seq(Characters) /\ Len(w) \in Nat /\ Len(w) >= 1
  BY <1>0, PathElementAt, Zenon
<1>2. current < Len(text) /\ current + 1 <= o[k + 1]
  BY <1>0, <1>1
<1>3. ASSUME NEW j \in 1 .. Len(w)
      PROVE  (current - 1) + j \in Nat /\ (current - 1) + j < Len(text) /\ P!At((current - 1) + j) = w[j]
  <2>1. (current - 1) + j \in Nat /\ (current - 1) + j < Len(text)
        /\ ((current - 1) + j) + 1 = current + j
    BY <1>0, <1>1
  <2>2. P!At((current - 1) + j) = text[((current - 1) + j) + 1]
    BY <1>1, <2>1, TextAt
  <2> QED BY <2>1, <2>2
<1>4. P!At(current) = w[1]
  <2>1. 1 \in 1 .. Len(w) /\ (current - 1) + 1 = current
    BY <1>0, <1>1
  <2> QED BY <1>3, <2>1
<1>5. /\ UNCHANGED <<text, in, root, before, node, it, pc>>
      /\ P!At(current) = "%" => P!ReadParameter
      /\ P!At(current) \notin {"[", "%", ".", "]"} => P!ReadName
  BY <1>0, <1>1, <1>2, CharacterRead
<1>6. CASE P!IsParameter(path[k + 1])
  <2>1. w = <<"%">>
    BY <1>0, <1>6, ElementWritten
  <2>2. Len(w) = 1 /\ w[1] = "%"
    BY <2>1, SomeCharacters, OneCharacter
  <2>3. P!AddPathInArg("key") /\ current' = current + 1
    BY <1>4, <1>5, <2>2 DEF P!ReadParameter
  <2>4. args' = SubSeq(P!Meaning(path), 1, k + 1) /\ taken' = P!Taken(path, k + 1)
    <3>1. P!AddPathInArg(path[k + 1][1])
      BY <2>3
    <3> QED BY <1>6, <3>1, ParameterRead
  <2>5. Here(path, o, k + 1, current')
    BY <2>2, <2>3 DEF Here
  <2> QED BY <1>0, <2>4, <2>5 DEF ReadIsNow
<1>7. CASE ~P!IsParameter(path[k + 1])
  <2>1. path[k + 1] = P!Key(w) /\ P!IsName(w)
    BY <1>0, <1>7, ElementWritten
  <2>2. w[1] \notin {"%", "]"} /\ \A j \in 1 .. Len(w) : w[j] \notin {"[", ".", "NUL"}
    <3>1. DOMAIN w = 1 .. Len(w)
      BY <1>1
    <3> QED BY <2>1, <3>1 DEF P!IsName
  <2>3. P!ReadName
    <3>1. 1 \in 1 .. Len(w)
      BY <1>1
    <3> QED BY <1>4, <1>5, <2>2, <3>1
  <2>4. P!NameEnd(current) = o[k + 1]
    <3>1. \A i \in current .. o[k + 1] - 1 : P!At(i) \notin {"[", ".", "NUL"}
      <4>1. ASSUME NEW i \in current .. o[k + 1] - 1 PROVE P!At(i) \notin {"[", ".", "NUL"}
        <5>1. i - current + 1 \in 1 .. Len(w) /\ (current - 1) + (i - current + 1) = i
          BY <1>0, <1>1
        <5> QED BY <1>3, <2>2, <5>1
      <4> QED BY <4>1
    <3>2. o[k + 1] = Len(text) \/ P!At(o[k + 1]) \in {"[", ".", "NUL"}
      <4>1. CASE k + 1 = Len(path)
        BY <1>0, <4>1 DEF Places
      <4>2. CASE k + 1 # Len(path)
        <5>1. k + 1 \in 0 .. Len(path) - 1 /\ k + 1 # 0
          BY <1>0, <4>2
        <5>2. text[o[k + 1] + 1] \in {"[", "."} /\ o[k + 1] < Len(text)
          <6> DEFINE l == k + 1  v == P!Written(path[l + 1])
          <6>1. l \in 0 .. Len(path) - 1 /\ l # 0 /\ v = P!Written(path[l + 1])
            BY <5>1
          <6> HIDE DEF l, v
          <6>2. /\ path[l + 1][1] \in {"key", "index"} /\ o[l] \in Nat /\ o[l + 1] \in Nat
                /\ o[l] < o[l + 1] /\ o[l + 1] <= Len(text)
                /\ path[l + 1][1] = "index" => text[o[l] + 1] = "["
                /\ (path[l + 1][1] = "key" /\ l # 0) => text[o[l] + 1] = "."
            BY <1>0, <6>1, PathElementAt
          <6>3. text[o[l] + 1] \in {"[", "."} /\ o[l] < Len(text)
            BY <1>1, <6>1, <6>2
          <6> QED BY <6>3 DEF l
        <5>3. P!At(o[k + 1]) = text[o[k + 1] + 1]
          BY <1>1, <5>2, TextAt
        <5> QED BY <5>2, <5>3
      <4> QED BY <4>1, <4>2
    <3>3. current \in 0 .. Len(text) /\ o[k + 1] \in current .. Len(text)
      BY <1>0, <1>1, <1>2
    <3> QED BY <1>1, <3>1, <3>2, <3>3, FirstInAt DEF P!NameEnd
  <2>5. SubSeq(text, current + 1, o[k + 1]) = w
    BY <1>0, <1>1, PieceIs
  <2>6. args' = Append(args, path[k + 1]) /\ current' = o[k + 1] /\ taken' = taken
    BY <2>1, <2>3, <2>4, <2>5 DEF P!ReadName
  <2>7. args' = SubSeq(P!Meaning(path), 1, k + 1) /\ taken' = P!Taken(path, k + 1)
    BY <1>7, <2>6, ArgumentRead
  <2>8. Here(path, o, k + 1, current')
    BY <2>6 DEF Here
  <2> QED BY <1>0, <2>7, <2>8 DEF ReadIsNow
<1> QED BY <1>6, <1>7

(* An index, or the parameter for one, is read.                            *)
LEMMA IndexRead ==
  ASSUME NEW path, NEW o, NEW k, ReadingIs(path, o, k), k < Len(path), path[k + 1][1] = "index",
         P!Next, pc = "makePath", current = o[k]
  PROVE  ReadIsNow(path, o, k + 1)
<1> DEFINE w == P!Written(path[k + 1])
<1>0. /\ path \in Seq(P!Elements) /\ Places(path, text, o) /\ k \in 0 .. Len(path) - 1 /\ k \in Nat
      /\ current \in Nat /\ path[k + 1] \in P!Elements /\ k + 1 \in 0 .. Len(path)
      /\ w = P!Written(path[k + 1])
  BY DEF ReadingIs
<1> HIDE DEF w
<1>1. /\ text \in Seq(Characters) /\ Len(text) \in Nat /\ o[k + 1] \in Nat /\ o[k + 1] <= Len(text)
      /\ w \in Seq(Characters) /\ Len(w) \in Nat /\ Len(w) >= 1
      /\ o[k + 1] = current + Len(w) + 2 /\ text[current + 1] = "[" /\ text[o[k + 1]] = "]"
      /\ \A j \in 1 .. Len(w) : text[current + 1 + j] = w[j]
  BY <1>0, PathElementAt
<1>2. current \in Nat /\ Len(w) \in Nat /\ Len(w) >= 1 /\ Len(text) \in Nat
      /\ o[k + 1] = current + Len(w) + 2 /\ o[k + 1] <= Len(text)
  BY <1>0, <1>1
<1>3. current < Len(text) /\ current + 1 + Len(w) < Len(text) /\ current + 1 < Len(text)
  BY <1>2
<1>4. ASSUME NEW j \in 1 .. Len(w) PROVE P!At(current + j) = w[j]
  <2>1. current + j \in Nat /\ current + j < Len(text) /\ (current + j) + 1 = current + 1 + j
    BY ONLY <1>2, <1>4
  <2>2. P!At(current + j) = text[(current + j) + 1]
    BY <1>1, <2>1, TextAt
  <2> QED BY <1>1, <2>1, <2>2
<1>5. P!At(current) = "[" /\ P!At(current + 1) = w[1] /\ P!At(current + 1 + Len(w)) = "]"
  <2>1. 1 \in 1 .. Len(w)
    BY <1>1
  <2>2. P!At(current) = text[current + 1]
    BY <1>0, <1>1, <1>3, TextAt
  <2>3. P!At(current + 1 + Len(w)) = text[o[k + 1]]
    <3> DEFINE i == current + 1 + Len(w)
    <3>1. i \in Nat /\ i < Len(text) /\ i + 1 = o[k + 1]
      BY ONLY <1>2
    <3> HIDE DEF i
    <3>2. P!At(i) = text[i + 1]
      BY <1>1, <3>1, TextAt
    <3> QED BY <3>1, <3>2 DEF i
  <2> QED BY <1>1, <1>4, <2>1, <2>2, <2>3
<1>6. /\ UNCHANGED <<text, in, root, before, node, it, pc>>
      /\ P!ReadIndex
  BY <1>0, <1>1, <1>3, <1>5, CharacterRead
<1>7. CASE P!IsParameter(path[k + 1])
  <2>1. w = <<"%">> /\ path[k + 1] = <<"index">>
    <3>1. w = <<"%">>
      BY <1>0, <1>7, ElementWritten
    <3>2. path[k + 1] = <<"index">>
      <4>1. Len(path[k + 1]) = 1 /\ path[k + 1] # <<"key">>
        BY <1>7 DEF P!IsParameter
      <4>2. \A x, y : Len(<<x, y>>) = 2
        OBVIOUS
      <4> QED BY <1>0, <4>1, <4>2, PathElementIs
    <3> QED BY <3>1, <3>2
  <2>2. Len(w) = 1 /\ w[1] = "%"
    BY <2>1, SomeCharacters, OneCharacter
  <2>3. P!AddPathInArg("index") /\ current' = (current + 1) + 1
    <3>1. P!At(current + 1) = "%" /\ current + 1 # Len(text)
      BY <1>0, <1>3, <1>5, <2>2
    <3> QED BY <1>6, <3>1 DEF P!ReadIndex
  <2>4. args' = SubSeq(P!Meaning(path), 1, k + 1) /\ taken' = P!Taken(path, k + 1)
    <3>1. P!AddPathInArg(path[k + 1][1])
      BY <2>3
    <3> QED BY <1>7, <3>1, ParameterRead
  <2>5. Here(path, o, k + 1, current')
    <3>1. current' = o[k + 1] - 1 /\ 0 < k + 1
      BY <1>0, <1>1, <2>2, <2>3
    <3> QED BY <2>1, <3>1 DEF Here
  <2> QED BY <1>0, <2>4, <2>5 DEF ReadIsNow
<1>8. CASE ~P!IsParameter(path[k + 1])
  <2>1. PICK m \in 0 .. MaxArrayIndex : path[k + 1] = P!Index(m) /\ w = P!Decimal[m]
    BY <1>0, <1>8, ElementWritten
  <2>2. w \in Seq(DigitSet) /\ P!NumberOf(w) = m
    <3>1. m \in Nat /\ m <= MaxArrayIndex
      BY PathsAssumption
    <3> QED BY <2>1, <3>1, DecimalIsRead
  <2>3. \A j \in 1 .. Len(w) : w[j] \in DigitSet
    BY <1>1, <2>2
  <2> DEFINE i == current + 1  e == i + Len(w)
  <2>4. i \in Nat /\ i \in 0 .. Len(text) /\ e \in i .. Len(text) /\ e # Len(text) /\ e + 1 = o[k + 1]
        /\ e <= Len(text) /\ P!At(e) = "]" /\ \A j \in 1 .. Len(w) : text[i + j] = w[j]
    <3>1. i \in Nat /\ i \in 0 .. Len(text) /\ e \in i .. Len(text) /\ e # Len(text)
          /\ e + 1 = o[k + 1] /\ e <= Len(text)
      BY ONLY <1>2
    <3>2. P!At(e) = "]" /\ \A j \in 1 .. Len(w) : text[i + j] = w[j]
      BY <1>1, <1>5
    <3> QED BY <3>1, <3>2
  <2>5. P!At(i) # "%"
    <3>1. 1 \in 1 .. Len(w)
      BY <1>1
    <3> QED BY <1>5, <2>3, <3>1 DEF DigitSet
  <2>6. P!AfterDigits(i) = e
    <3>1. ASSUME NEW l \in i .. e - 1 PROVE P!At(l) \in DigitSet
      <4>1. l - current \in 1 .. Len(w) /\ current + (l - current) = l
        BY ONLY <1>2, <3>1
      <4> QED BY <1>4, <2>3, <4>1
    <3>2. P!At(e) \notin DigitSet
      BY <2>4 DEF DigitSet
    <3> HIDE DEF i, e
    <3> QED BY <1>1, <2>4, <3>1, <3>2, AfterDigitsAt
  <2>7. SubSeq(text, i + 1, e) = w
    <3> HIDE DEF i
    <3> QED BY <1>1, <2>4, PieceIs
  <2> HIDE DEF e
  <2>8. args' = Append(args, path[k + 1]) /\ taken' = taken /\ current' = o[k + 1]
    BY <1>6, <2>1, <2>2, <2>4, <2>5, <2>6, <2>7 DEF P!ReadIndex
  <2>9. args' = SubSeq(P!Meaning(path), 1, k + 1) /\ taken' = P!Taken(path, k + 1)
    BY <1>8, <2>8, ArgumentRead
  <2>10. Here(path, o, k + 1, current')
    BY <2>8 DEF Here
  <2> QED BY <1>0, <2>9, <2>10 DEF ReadIsNow
<1> QED BY <1>7, <1>8

(* A separator is skipped.                                                 *)
LEMMA SeparatorRead ==
  ASSUME NEW path, NEW o, NEW k, ReadingIs(path, o, k), P!SkipSeparator,
         Here(path, o, k, current + 1)
  PROVE  ReadIsNow(path, o, k)
BY DEF ReadingIs, ReadIsNow, P!SkipSeparator

LEMMA ReadStep ==
  ASSUME NEW path, NEW o, NEW k, ReadingIs(path, o, k), Here(path, o, k, current),
         current < Len(text), P!Next, pc = "makePath"
  PROVE  \E l : ReadIsNow(path, o, l)
<1>0. /\ path \in Seq(P!Elements) /\ Places(path, text, o) /\ k \in 0 .. Len(path) /\ k \in Nat
      /\ Len(path) \in Nat /\ current \in Nat /\ text \in Seq(Characters) /\ Len(text) \in Nat
      /\ o[0] = 1 /\ o[Len(path)] = Len(text) /\ text[1] = "."
  BY DEF ReadingIs, Places
<1>1. P!At(current) = text[current + 1]
  BY <1>0, TextAt
<1>2. P!At(current) \in {".", "]"} => P!SkipSeparator
  BY <1>0, CharacterRead
<1>3. CASE current = 0 /\ k = 0
  <2>1. P!SkipSeparator
    BY <1>0, <1>1, <1>2, <1>3
  <2>2. Here(path, o, k, current + 1)
    BY <1>0, <1>3 DEF Here
  <2> QED BY <2>1, <2>2, SeparatorRead
<1>4. CASE current = o[k] - 1 /\ 0 < k /\ path[k] = <<"index">>
  <2>1. text[o[k]] = "]" /\ o[k] \in Nat
    <3> DEFINE l == k - 1  v == P!Written(path[l + 1])
    <3>1. l \in 0 .. Len(path) - 1 /\ v = P!Written(path[l + 1]) /\ l + 1 = k
      BY <1>0, <1>4
    <3>2. path[k][1] = "index"
      BY <1>4
    <3> HIDE DEF l, v
    <3>3. o[l + 1] \in Nat /\ (path[l + 1][1] = "index" => text[o[l + 1]] = "]")
      BY <1>0, <3>1, PathElementAt
    <3> QED BY <3>1, <3>2, <3>3
  <2>2. current + 1 = o[k]
    BY <1>0, <1>4, <2>1
  <2>3. P!SkipSeparator
    BY <1>1, <1>2, <2>1, <2>2
  <2>4. Here(path, o, k, current + 1)
    BY <2>2 DEF Here
  <2> QED BY <2>3, <2>4, SeparatorRead
<1>5. ASSUME k < Len(path)
      PROVE  LET w == P!Written(path[k + 1]) IN
             /\ o[k] \in Nat /\ path[k + 1][1] \in {"key", "index"} /\ Len(w) \in Nat
             /\ (path[k + 1][1] = "key" /\ k = 0) =>
                  o[k + 1] = o[k] + Len(w) /\ \A j \in 1 .. Len(w) : text[o[k] + j] = w[j]
             /\ (path[k + 1][1] = "key" /\ k # 0) =>
                  /\ o[k + 1] = o[k] + Len(w) + 1 /\ text[o[k] + 1] = "."
                  /\ \A j \in 1 .. Len(w) : text[o[k] + 1 + j] = w[j]
  <2> DEFINE v == P!Written(path[k + 1])
  <2>1. k \in 0 .. Len(path) - 1 /\ v = P!Written(path[k + 1])
    BY <1>0, <1>5
  <2> HIDE DEF v
  <2> QED BY <1>0, <2>1, PathElementAt
<1>6. CASE current = o[k] + 1 /\ 0 < k /\ k < Len(path) /\ path[k + 1][1] = "key"
  <2> DEFINE w == P!Written(path[k + 1])
  <2>1. o[k + 1] = current + Len(w) /\ \A j \in 1 .. Len(w) : text[current + j] = w[j]
    BY <1>0, <1>5, <1>6
  <2> HIDE DEF w
  <2>2. ReadIsNow(path, o, k + 1)
    BY <1>6, <2>1, KeyRead DEF w
  <2> QED BY <2>2
<1>7. CASE current = o[k]
  <2>1. k < Len(path)
    BY <1>0, <1>7
  <2>2. CASE path[k + 1][1] = "index"
    BY <1>7, <2>1, <2>2, IndexRead
  <2>3. CASE path[k + 1][1] = "key" /\ k = 0
    <3> DEFINE w == P!Written(path[k + 1])
    <3>1. o[k + 1] = current + Len(w) /\ \A j \in 1 .. Len(w) : text[current + j] = w[j]
      BY <1>5, <1>7, <2>1, <2>3
    <3> HIDE DEF w
    <3>2. ReadIsNow(path, o, k + 1)
      BY <2>1, <2>3, <3>1, KeyRead DEF w
    <3> QED BY <3>2
  <2>4. CASE path[k + 1][1] = "key" /\ k # 0
    <3>1. P!SkipSeparator
      BY <1>1, <1>2, <1>5, <1>7, <2>1, <2>4
    <3>2. Here(path, o, k, current + 1)
      BY <1>0, <1>7, <2>1, <2>4 DEF Here
    <3> QED BY <3>1, <3>2, SeparatorRead
  <2> QED BY <1>5, <2>1, <2>2, <2>3, <2>4
<1> QED BY <1>3, <1>4, <1>6, <1>7 DEF Here

(* At the end of the text all of its elements have been read.              *)
LEMMA ReadToTheEnd ==
  ASSUME NEW path \in Seq(P!Elements), NEW o, Places(path, text, o), NEW k \in 0 .. Len(path),
         NEW c, c = Len(text), Here(path, o, k, c)
  PROVE  k = Len(path)
<1>0. k \in Nat /\ Len(path) \in Nat /\ Len(text) \in Nat /\ o[0] = 1 /\ o[Len(path)] = Len(text)
  BY DEF Places
<1>1. SUFFICES ASSUME k < Len(path) PROVE FALSE
  BY <1>0
<1> DEFINE w == P!Written(path[k + 1])
<1>2. k \in 0 .. Len(path) - 1 /\ w = P!Written(path[k + 1])
  BY <1>0, <1>1
<1> HIDE DEF w
<1>3. /\ o[k] \in Nat /\ o[k] >= 1 /\ o[k + 1] \in Nat /\ o[k] < o[k + 1] /\ o[k + 1] <= Len(text)
      /\ Len(w) \in Nat /\ Len(w) >= 1
      /\ (path[k + 1][1] = "key" /\ k # 0) => o[k + 1] = o[k] + Len(w) + 1
  BY <1>2, PathElementAt
<1>4. o[k] + 1 < o[k + 1] \/ ~(path[k + 1][1] = "key" /\ 0 < k)
  BY <1>0, <1>3
<1> QED BY <1>0, <1>3, <1>4 DEF Here

(* What is read of every documented path.                                  *)
LEMMA DocumentedPlaces ==
  ASSUME NEW path \in Documented
  PROVE  /\ path \in Seq(P!Elements) /\ P!Texted[path] = P!Printed(path)
         /\ \E o : /\ Places(path, P!Printed(path), o)
                   /\ \A k \in 0 .. Len(path) : o[k] = Len(P!Printed(SubSeq(path, 1, k)))
BY PathsAssumption, PrintedPlaces DEF P!Texted

LEMMA BetweenIsHere ==
  ASSUME NEW path, NEW o, NEW k, o[k] = Len(P!Printed(SubSeq(path, 1, k)))
  PROVE  /\ P!Between(path, k) <=> Here(path, o, k, current)
         /\ P!Between(path, k)' <=> Here(path, o, k, current')
BY DEF P!Between, Here

LEMMA ReadingBegins ==
  ASSUME P!Init
  PROVE  P!ReadingOK
<1> SUFFICES ASSUME NEW path \in Documented, P!Given(path)
             PROVE  \E k \in 0 .. Len(path) :
                      /\ args = SubSeq(P!Meaning(path), 1, k) /\ taken = P!Taken(path, k)
                      /\ P!Between(path, k)
  BY DEF P!ReadingOK
<1>1. path \in Seq(P!Elements) /\ Len(path) \in Nat /\ 0 \in 0 .. Len(path)
  BY DocumentedPlaces
<1>2. taken = P!Taken(path, 0)
  BY <1>1, TakenIs DEF P!Init
<1>3. args = SubSeq(P!Meaning(path), 1, 0)
  <2>1. args = <<>>
    BY DEF P!Init
  <2>2. \A m : SubSeq(m, 1, 0) = <<>>
    OBVIOUS
  <2> QED BY <2>1, <2>2
<1>4. P!Between(path, 0)
  BY DEF P!Between, P!Init
<1> QED BY <1>1, <1>2, <1>3, <1>4

LEMMA ReadingGoesOn ==
  ASSUME P!TypeOK, P!ReadingOK, P!Next
  PROVE  P!ReadingOK'
<1>1. SUFFICES ASSUME pc' = "makePath", NEW path \in Documented,
                      P!Texted[path] = text', P!Given(path)'
               PROVE  \E k \in 0 .. Len(path) :
                        /\ args' = SubSeq(P!Meaning(path)', 1, k) /\ taken' = P!Taken(path, k)
                        /\ P!Between(path, k)'
  BY DEF P!ReadingOK
<1>2. /\ text \in Seq(Characters) /\ Len(text) \in Nat /\ current \in Nat /\ in \in Seq(P!Args)
  BY DEF P!TypeOK
<1>3. pc = "makePath" /\ current < Len(text)
  <2>1. ~P!Begin("make") /\ ~P!Begin("resolve")
    BY <1>1 DEF P!Begin
  <2>2. ~P!Make /\ ~P!MakeEnds /\ ~P!Resolve /\ ~P!ResolveEnds
    BY <1>1 DEF P!Make, P!MakeEnds, P!Resolve, P!ResolveEnds, P!Going
  <2>3. P!ReadIndex \/ P!ReadParameter \/ P!SkipSeparator \/ P!ReadName
    BY <2>1, <2>2 DEF P!Next
  <2> QED
    BY <2>3 DEF P!ReadIndex, P!ReadParameter, P!SkipSeparator, P!ReadName, P!Reading
<1>4. text' = text /\ in' = in
  BY <1>2, <1>3, CharacterRead
<1>5. P!Given(path) /\ P!Meaning(path)' = P!Meaning(path) /\ P!Texted[path] = text
  BY <1>1, <1>4 DEF P!Given, P!Meaning
<1>6. PICK k \in 0 .. Len(path) : /\ args = SubSeq(P!Meaning(path), 1, k) /\ taken = P!Taken(path, k)
                                  /\ P!Between(path, k)
  BY <1>3, <1>5 DEF P!ReadingOK
<1>7. PICK o : /\ Places(path, text, o)
               /\ \A l \in 0 .. Len(path) : o[l] = Len(P!Printed(SubSeq(path, 1, l)))
  BY <1>5, DocumentedPlaces
<1>8. ReadingIs(path, o, k)
  <2>1. path \in Seq(P!Elements)
    BY DocumentedPlaces
  <2> QED BY <1>2, <1>5, <1>6, <1>7, <2>1 DEF ReadingIs
<1>9. Here(path, o, k, current)
  BY <1>6, <1>7, BetweenIsHere
<1>10. PICK l : ReadIsNow(path, o, l)
  BY <1>3, <1>8, <1>9, ReadStep
<1>11. l \in 0 .. Len(path) /\ P!Between(path, l)'
  BY <1>7, <1>10, BetweenIsHere DEF ReadIsNow
<1> QED BY <1>5, <1>10, <1>11 DEF ReadIsNow

LEMMA PathIsRead ==
  ASSUME P!TypeOK, P!ReadingOK
  PROVE  P!SyntaxIsRead
<1> SUFFICES ASSUME pc = "makePath", current = Len(text), NEW path \in Documented,
                    P!Texted[path] = text, P!Given(path)
             PROVE  args = P!Meaning(path)
  BY DEF P!SyntaxIsRead
<1>1. PICK k \in 0 .. Len(path) : /\ args = SubSeq(P!Meaning(path), 1, k)
                                  /\ P!Between(path, k)
  BY DEF P!ReadingOK
<1>2. PICK o : /\ Places(path, text, o)
               /\ \A l \in 0 .. Len(path) : o[l] = Len(P!Printed(SubSeq(path, 1, l)))
  BY DocumentedPlaces
<1>3. path \in Seq(P!Elements) /\ in \in Seq(P!Args)
  BY DocumentedPlaces DEF P!TypeOK
<1>4. Here(path, o, k, current)
  BY <1>1, <1>2, BetweenIsHere
<1>5. k = Len(path)
  BY <1>2, <1>3, <1>4, ReadToTheEnd
<1>6. P!Meaning(path) \in Seq(P!Args) /\ Len(P!Meaning(path)) = Len(path)
  BY <1>3, MeaningIs
<1>7. \A m \in Seq(P!Args) : SubSeq(m, 1, Len(m)) = m
  OBVIOUS
<1> QED BY <1>1, <1>5, <1>6, <1>7

(* What is read is arguments.                                              *)
LEMMA ArgsAre ==
  /\ \A m \in 0 .. MaxArrayIndex : P!Index(m) \in P!Args
  /\ \A s \in Seq(Characters) : P!Key(s) \in P!Args
  /\ \A a \in P!Args : /\ a[1] = "index" => a[2] \in Nat
                       /\ P!Container(a) # "null"
BY PathsAssumption DEF P!Args, P!Index, P!Key, P!Container

LEMMA ParameterTyped ==
  ASSUME P!TypeOK, NEW kind, P!AddPathInArg(kind)
  PROVE  taken' \in 0 .. Len(in) /\ args' \in Seq(P!Args)
<1>0. taken \in 0 .. Len(in) /\ args \in Seq(P!Args) /\ in \in Seq(P!Args)
  BY DEF P!TypeOK
<1>1. CASE args' = args /\ taken' = taken
  BY <1>0, <1>1
<1>2. CASE args' = Append(args, in[taken + 1]) /\ taken' = taken + 1 /\ taken < Len(in)
  <2>1. taken + 1 \in 1 .. Len(in) /\ taken + 1 \in 0 .. Len(in)
    BY <1>0, <1>2
  <2>2. in[taken + 1] \in P!Args
    BY <1>0, <2>1
  <2>3. args' \in Seq(P!Args)
    BY <1>0, <1>2, <2>2
  <2> QED BY <1>2, <2>1, <2>3
<1> QED BY <1>1, <1>2 DEF P!AddPathInArg

LEMMA IndexTyped ==
  ASSUME P!TypeOK, P!ReadIndex
  PROVE  current' \in 0 .. Len(text) /\ taken' \in 0 .. Len(in) /\ args' \in Seq(P!Args)
<1> DEFINE i == current + 1
           e == IF P!At(i) = "%" THEN i ELSE P!AfterDigits(i)
<1>0. /\ text \in Seq(Characters) /\ Len(text) \in Nat /\ current \in 0 .. Len(text)
      /\ in \in Seq(P!Args) /\ Len(in) \in Nat /\ taken \in 0 .. Len(in) /\ args \in Seq(P!Args)
      /\ current < Len(text) /\ i \in 0 .. Len(text)
  BY DEF P!TypeOK, P!ReadIndex, P!Reading
<1>1. /\ P!AfterDigits(i) \in i .. Len(text)
      /\ \A k \in i .. P!AfterDigits(i) - 1 : P!At(k) \in DigitSet
  <2> HIDE DEF i
  <2> QED BY <1>0, AfterDigitsIs
<1>2. e \in i .. Len(text)
  BY <1>0, <1>1
<1>3. current' = IF e = Len(text) THEN e ELSE e + 1
  BY DEF P!ReadIndex
<1>4. current' \in 0 .. Len(text)
  <2> HIDE DEF e
  <2> QED BY <1>0, <1>2, <1>3
<1>5. CASE P!At(i) = "%"
  <2>1. P!AddPathInArg("index")
    BY <1>5 DEF P!ReadIndex
  <2>2. taken' \in 0 .. Len(in) /\ args' \in Seq(P!Args)
    BY <2>1, ParameterTyped
  <2> QED BY <1>4, <2>2
<1>6. CASE P!At(i) # "%"
  <2> DEFINE u == SubSeq(text, i + 1, e)
  <2>1. args' = Append(args, P!Index(P!NumberOf(u))) /\ taken' = taken
    BY <1>6 DEF P!ReadIndex
  <2>2. e = P!AfterDigits(i) /\ i \in Nat /\ e \in Nat /\ e <= Len(text)
    BY <1>0, <1>1, <1>6
  <2> HIDE DEF e, i
  <2>3. \A k \in i + 1 .. e : text[k] \in DigitSet
    <3>1. ASSUME NEW k \in i + 1 .. e PROVE text[k] \in DigitSet
      <4>1. k - 1 \in i .. e - 1 /\ k - 1 \in Nat /\ k - 1 < Len(text) /\ (k - 1) + 1 = k
        BY <1>0, <2>2
      <4>2. P!At(k - 1) = text[(k - 1) + 1]
        BY <1>0, <4>1, TextAt
      <4> QED BY <1>1, <2>2, <4>1, <4>2
    <3> QED BY <3>1
  <2>4. u \in Seq(DigitSet)
    BY <1>0, <2>2, <2>3
  <2> HIDE DEF u
  <2>5. P!Index(P!NumberOf(u)) \in P!Args
    BY <2>4, NumberIsIndex, ArgsAre
  <2> QED BY <1>0, <1>4, <2>1, <2>5
<1> QED BY <1>5, <1>6

LEMMA NameTyped ==
  ASSUME P!TypeOK, P!ReadName
  PROVE  current' \in 0 .. Len(text) /\ taken' \in 0 .. Len(in) /\ args' \in Seq(P!Args)
<1> DEFINE e == P!NameEnd(current)
<1>0. /\ text \in Seq(Characters) /\ Len(text) \in Nat /\ current \in 0 .. Len(text)
      /\ taken \in 0 .. Len(in) /\ args \in Seq(P!Args)
  BY DEF P!TypeOK
<1>1. e \in current .. Len(text)
  BY <1>0, FirstInIs DEF P!NameEnd
<1>2. /\ args' = Append(args, P!Key(SubSeq(text, current + 1, e)))
      /\ current' = e /\ taken' = taken
  BY DEF P!ReadName
<1> HIDE DEF e
<1>3. SubSeq(text, current + 1, e) \in Seq(Characters)
  BY <1>0, <1>1
<1>4. P!Key(SubSeq(text, current + 1, e)) \in P!Args
  BY <1>3, ArgsAre
<1> QED BY <1>0, <1>1, <1>2, <1>4

(* Values are put only where there is room for them.                       *)
LEMMA TreeGrows ==
  ASSUME NEW t, P!IsTree(t), NEW n \in DOMAIN t, NEW a \in P!Args,
         t[n] \in {"null", P!Container(a)},
         NEW r, r = [p \in DOMAIN t \cup {Append(n, a)} |->
                       IF p = n THEN P!Container(a) ELSE IF p \in DOMAIN t THEN t[p] ELSE "null"]
  PROVE  P!IsTree(r)
<1> DEFINE c == Append(n, a)
<1>0. /\ t = [p \in DOMAIN t |-> t[p]]
      /\ DOMAIN t \subseteq Seq(P!Args) /\ <<>> \in DOMAIN t /\ n \in Seq(P!Args) /\ Len(n) \in Nat
      /\ \A p \in DOMAIN t : \A k \in 0 .. Len(p) - 1 :
           SubSeq(p, 1, k) \in DOMAIN t /\ t[SubSeq(p, 1, k)] = P!Container(p[k + 1])
  BY DEF P!IsTree
<1>1. /\ c \in Seq(P!Args) /\ Len(c) = Len(n) + 1 /\ c[Len(n) + 1] = a
      /\ \A k \in 1 .. Len(n) : c[k] = n[k]
      /\ \A k \in 0 .. Len(n) - 1 : SubSeq(c, 1, k) = SubSeq(n, 1, k)
      /\ SubSeq(c, 1, Len(n)) = n
  <2>1. c \in Seq(P!Args) /\ Len(c) = Len(n) + 1 /\ c[Len(n) + 1] = a
        /\ \A k \in 1 .. Len(n) : c[k] = n[k]
    BY <1>0
  <2> HIDE DEF c
  <2>2. ASSUME NEW k \in 0 .. Len(n) - 1 PROVE SubSeq(c, 1, k) = SubSeq(n, 1, k)
    <3>1. Len(SubSeq(c, 1, k)) = k /\ Len(SubSeq(n, 1, k)) = k
          /\ SubSeq(c, 1, k) \in Seq(P!Args) /\ SubSeq(n, 1, k) \in Seq(P!Args)
      BY <1>0, <2>1
    <3>2. \A j \in 1 .. k : SubSeq(c, 1, k)[j] = SubSeq(n, 1, k)[j]
      BY <1>0, <2>1
    <3> QED BY <3>1, <3>2
  <2>3. SubSeq(c, 1, Len(n)) = n
    <3> DEFINE q == SubSeq(c, 1, Len(n))
    <3>1. Len(q) = Len(n) /\ q \in Seq(P!Args)
      BY <1>0, <2>1
    <3>2. \A j \in 1 .. Len(n) : q[j] = n[j]
      BY <1>0, <2>1
    <3> HIDE DEF q
    <3>3. q = n
      BY <1>0, <3>1, <3>2
    <3> QED BY <3>3 DEF q
  <2> QED BY <2>1, <2>2, <2>3
<1>2. DOMAIN r = DOMAIN t \cup {c}
  OBVIOUS
<1>3. r[n] = P!Container(a) /\ \A p \in DOMAIN t : p # n => r[p] = t[p]
  OBVIOUS
<1> HIDE DEF c
<1>4. ASSUME NEW p \in DOMAIN t, NEW k \in 0 .. Len(p) - 1
      PROVE  SubSeq(p, 1, k) \in DOMAIN r /\ r[SubSeq(p, 1, k)] = P!Container(p[k + 1])
  <2> DEFINE q == SubSeq(p, 1, k)
  <2>1. q \in DOMAIN t /\ t[q] = P!Container(p[k + 1])
    BY <1>0
  <2>2. P!Container(p[k + 1]) # "null"
    <3>1. p \in Seq(P!Args) /\ k + 1 \in 1 .. Len(p)
      BY <1>0
    <3>2. p[k + 1] \in P!Args
      BY <3>1
    <3> QED BY <3>2, ArgsAre
  <2> HIDE DEF q
  <2>3. r[q] = P!Container(p[k + 1])
    BY <1>3, <2>1, <2>2
  <2> QED BY <1>2, <2>1, <2>3 DEF q
<1>5. ASSUME NEW k \in 0 .. Len(c) - 1
      PROVE  SubSeq(c, 1, k) \in DOMAIN r /\ r[SubSeq(c, 1, k)] = P!Container(c[k + 1])
  <2>0. Len(c) = Len(n) + 1 /\ Len(n) \in Nat
    BY <1>0, <1>1
  <2>1. CASE k = Len(n)
    <3>1. SubSeq(c, 1, k) = n /\ c[k + 1] = a
      BY <1>1, <2>1
    <3> QED BY <1>2, <1>3, <3>1
  <2>2. CASE k # Len(n)
    <3>1. k \in 0 .. Len(n) - 1 /\ k + 1 \in 1 .. Len(n)
      BY ONLY <1>5, <2>0, <2>2
    <3>2. SubSeq(n, 1, k) \in DOMAIN r /\ r[SubSeq(n, 1, k)] = P!Container(n[k + 1])
      BY <1>4, <3>1
    <3>3. SubSeq(c, 1, k) = SubSeq(n, 1, k) /\ c[k + 1] = n[k + 1]
      BY <1>1, <3>1
    <3> QED BY <3>2, <3>3
  <2> QED BY <2>1, <2>2
<1>6. DOMAIN r \subseteq Seq(P!Args) /\ <<>> \in DOMAIN r
  BY <1>0, <1>1, <1>2
<1>7. \A p \in DOMAIN r : \A k \in 0 .. Len(p) - 1 :
        SubSeq(p, 1, k) \in DOMAIN r /\ r[SubSeq(p, 1, k)] = P!Container(p[k + 1])
  BY <1>2, <1>4, <1>5
<1>8. r = [p \in DOMAIN r |-> r[p]]
  OBVIOUS
<1> QED BY <1>6, <1>7, <1>8 DEF P!IsTree

(* make() goes on from a value that is null or what the argument needs.    *)
LEMMA MadeOn ==
  ASSUME P!TypeOK, P!StepsOK, P!Make, pc' = "make"
  PROVE  /\ node \in DOMAIN root /\ it \in 0 .. Len(args) - 1 /\ P!Arg \in P!Args
         /\ root[node] \in {"null", P!Container(P!Arg)}
         /\ root' = [p \in DOMAIN root \cup {Append(node, P!Arg)} |->
                       IF p = node THEN P!Container(P!Arg)
                       ELSE IF p \in DOMAIN root THEN root[p] ELSE "null"]
         /\ node' = Append(node, P!Arg) /\ it' = it + 1
         /\ node = SubSeq(args, 1, it) /\ Append(node, P!Arg) = SubSeq(args, 1, it + 1)
<1>1. pc = "make" /\ it < Len(args)
  BY DEF P!Make, P!Going
<1>2. node = SubSeq(args, 1, it) /\ node \in DOMAIN root
  BY <1>1 DEF P!StepsOK, P!MakingOK
<1>3. args \in Seq(P!Args) /\ it \in 0 .. Len(args) - 1
  BY <1>1 DEF P!TypeOK
<1>4. P!Arg = args[it + 1] /\ P!Arg \in P!Args
  BY <1>3 DEF P!Arg
<1>5. Append(node, P!Arg) = SubSeq(args, 1, it + 1)
  BY <1>2, <1>3, <1>4, OneMore
<1>6. /\ root[node] \in {"null", P!Container(P!Arg)}
      /\ root' = [p \in DOMAIN root \cup {Append(node, P!Arg)} |->
                    IF p = node THEN P!Container(P!Arg)
                    ELSE IF p \in DOMAIN root THEN root[p] ELSE "null"]
      /\ node' = Append(node, P!Arg) /\ it' = it + 1
  BY <1>1 DEF P!Make, P!Fresh
<1> QED BY <1>2, <1>3, <1>4, <1>5, <1>6

LEMMA MakingTyped ==
  ASSUME P!TypeOK, P!StepsOK, P!Make
  PROVE  P!IsTree(root') /\ it' \in 0 .. Len(args)
<1>1. CASE pc' = "make"
  <2>1. P!IsTree(root')
    BY <1>1, MadeOn, TreeGrows DEF P!TypeOK
  <2>2. it' \in 0 .. Len(args)
    BY <1>1, MadeOn DEF P!TypeOK
  <2> QED BY <2>1, <2>2
<1>2. CASE pc' # "make"
  BY <1>2 DEF P!Make, P!Going, P!TypeOK
<1> QED BY <1>1, <1>2

LEMMA TypesStay ==
  ASSUME P!TypeOK, P!StepsOK, P!Next
  PROVE  P!TypeOK'
<1>0. /\ text \in Seq(Characters) /\ Len(text) \in Nat /\ current \in 0 .. Len(text)
      /\ in \in Seq(P!Args) /\ Len(in) \in Nat /\ taken \in 0 .. Len(in) /\ args \in Seq(P!Args)
      /\ P!IsTree(root) /\ it \in 0 .. Len(args) /\ Len(args) \in Nat
      /\ pc \in {"makePath", "make", "made", "thrown", "resolve", "found", "default"}
  BY DEF P!TypeOK
<1>1. CASE P!ReadIndex \/ P!ReadName
  <2>1. current' \in 0 .. Len(text) /\ taken' \in 0 .. Len(in) /\ args' \in Seq(P!Args)
    BY <1>1, IndexTyped, NameTyped
  <2>2. /\ UNCHANGED <<text, in, root, before, node, it, pc>>
        /\ \E a : args' = Append(args, a) \/ args' = args
    BY <1>1 DEF P!ReadIndex, P!ReadName, P!Reading, P!AddPathInArg
  <2>3. it' \in 0 .. Len(args')
    BY <1>0, <2>1, <2>2
  <2> QED BY <1>0, <2>1, <2>2, <2>3 DEF P!TypeOK
<1>2. CASE P!ReadParameter
  <2>1. /\ UNCHANGED <<text, in, root, before, node, it, pc>> /\ current' = current + 1
        /\ current < Len(text) /\ P!AddPathInArg("key")
    BY <1>2 DEF P!ReadParameter, P!Reading
  <2>2. taken' \in 0 .. Len(in) /\ args' \in Seq(P!Args)
    BY <2>1, ParameterTyped
  <2>3. \E a : args' = Append(args, a) \/ args' = args
    BY <2>1 DEF P!AddPathInArg
  <2>4. it' \in 0 .. Len(args') /\ current' \in 0 .. Len(text)
    BY <1>0, <2>1, <2>2, <2>3
  <2> QED BY <1>0, <2>1, <2>2, <2>4 DEF P!TypeOK
<1>3. CASE P!SkipSeparator
  <2>1. /\ UNCHANGED <<text, in, root, before, node, it, pc, args, taken>>
        /\ current' = current + 1 /\ current < Len(text)
    BY <1>3 DEF P!SkipSeparator, P!Reading
  <2> QED BY <1>0, <2>1 DEF P!TypeOK
<1>4. CASE P!Begin("make") \/ P!Begin("resolve")
  <2>1. /\ UNCHANGED <<text, current, in, taken, args, root>> /\ it' = 0
        /\ pc' \in {"make", "resolve"}
    BY <1>4 DEF P!Begin
  <2> QED BY <1>0, <2>1 DEF P!TypeOK
<1>5. CASE P!Make
  <2>1. /\ UNCHANGED <<text, current, in, taken, args>> /\ pc' \in {"make", "thrown"}
    BY <1>5 DEF P!Make, P!Going
  <2>2. P!IsTree(root') /\ it' \in 0 .. Len(args)
    BY <1>5, MakingTyped
  <2> QED BY <1>0, <2>1, <2>2 DEF P!TypeOK
<1>6. CASE P!MakeEnds \/ P!ResolveEnds
  <2>1. UNCHANGED <<text, current, in, taken, args, root, it>> /\ pc' \in {"made", "found"}
    BY <1>6 DEF P!MakeEnds, P!ResolveEnds, P!Going
  <2> QED BY <1>0, <2>1 DEF P!TypeOK
<1>7. CASE P!Resolve
  <2>1. /\ UNCHANGED <<text, current, in, taken, args, root>> /\ pc' \in {"resolve", "default"}
        /\ it < Len(args) /\ it' \in {it, it + 1}
    BY <1>7 DEF P!Resolve, P!Going
  <2> QED BY <1>0, <2>1 DEF P!TypeOK
<1> QED BY <1>1, <1>2, <1>3, <1>4, <1>5, <1>6, <1>7 DEF P!Next

(* make() changes nothing, or leaves a null to go on from.                 *)
LEMMA MakingStays ==
  ASSUME P!TypeOK, P!StepsOK, P!Make, pc' = "make"
  PROVE  P!MakingOK'
<1> DEFINE a == P!Arg  c == Append(node, a)
<1>1. /\ node \in DOMAIN root /\ it \in 0 .. Len(args) - 1 /\ a \in P!Args
      /\ root[node] \in {"null", P!Container(a)}
      /\ root' = [p \in DOMAIN root \cup {c} |->
                    IF p = node THEN P!Container(a) ELSE IF p \in DOMAIN root THEN root[p] ELSE "null"]
      /\ node' = c
  BY MadeOn
<1>2. pc = "make" /\ before' = before
  BY DEF P!Make, P!Going
<1>3. /\ DOMAIN before \subseteq DOMAIN root
      /\ \A p \in DOMAIN before : before[p] # "null" => root[p] = before[p]
      /\ root = before \/ root[node] = "null"
  BY <1>2 DEF P!StepsOK, P!MakingOK
<1>4. c # node /\ Len(c) = Len(node) + 1 /\ c[Len(node) + 1] = a /\ SubSeq(c, 1, Len(node)) = node
      /\ Len(node) \in Nat
  <2>1. node \in Seq(P!Args)
    BY <1>1 DEF P!TypeOK, P!IsTree
  <2>2. c \in Seq(P!Args) /\ Len(c) = Len(node) + 1 /\ c[Len(node) + 1] = a
        /\ \A j \in 1 .. Len(node) : c[j] = node[j]
    BY <1>1, <2>1
  <2> HIDE DEF c
  <2> DEFINE q == SubSeq(c, 1, Len(node))
  <2>3. q \in Seq(P!Args) /\ Len(q) = Len(node) /\ \A j \in 1 .. Len(node) : q[j] = node[j]
    BY <2>1, <2>2
  <2> HIDE DEF q
  <2>4. q = node
    BY <2>1, <2>3
  <2> QED BY <2>1, <2>2, <2>4 DEF q
<1>5. P!Container(a) # "null"
  BY <1>1, ArgsAre
<1> HIDE DEF a, c
<1>6. c \in DOMAIN root => root[node] = P!Container(a)
  <2>1. ASSUME c \in DOMAIN root PROVE root[SubSeq(c, 1, Len(node))] = P!Container(c[Len(node) + 1])
    <3>1. Len(node) \in 0 .. Len(c) - 1
      BY <1>4
    <3> QED BY <2>1, <3>1 DEF P!TypeOK, P!IsTree
  <2> QED BY <1>4, <2>1
<1>7. node' \in DOMAIN root' /\ DOMAIN before' \subseteq DOMAIN root'
  BY <1>1, <1>2, <1>3
<1>8. ASSUME NEW p \in DOMAIN before, before[p] # "null" PROVE root'[p] = before[p]
  BY <1>1, <1>3, <1>8
<1>9. root' = before' \/ root'[node'] = "null"
  <2>1. CASE c \in DOMAIN root
    <3>1. root[node] = P!Container(a) /\ root = before
      BY <1>3, <1>5, <1>6, <2>1
    <3>2. DOMAIN root \cup {c} = DOMAIN root
      BY <2>1
    <3>3. root' = [p \in DOMAIN root |-> root[p]]
      BY <1>1, <3>1, <3>2
    <3>4. root = [p \in DOMAIN root |-> root[p]]
      BY DEF P!TypeOK, P!IsTree
    <3> QED BY <1>2, <3>1, <3>3, <3>4
  <2>2. CASE c \notin DOMAIN root
    BY <1>1, <1>4, <2>2
  <2> QED BY <2>1, <2>2
<1> QED BY <1>2, <1>7, <1>8, <1>9 DEF P!MakingOK

(* What resolve() looks up at each step.                                   *)
LEMMA ResolvedOn ==
  ASSUME P!TypeOK, P!StepsOK, P!Resolve
  PROVE  /\ node = SubSeq(args, 1, it) /\ it \in 0 .. Len(args) - 1 /\ P!Arg \in P!Args
         /\ Append(node, P!Arg) = SubSeq(args, 1, it + 1)
<1>1. pc = "resolve" /\ it < Len(args)
  BY DEF P!Resolve, P!Going
<1>2. node = SubSeq(args, 1, it)
  BY <1>1 DEF P!StepsOK
<1>3. args \in Seq(P!Args) /\ it \in 0 .. Len(args) - 1
  BY <1>1 DEF P!TypeOK
<1>4. P!Arg = args[it + 1] /\ P!Arg \in P!Args
  BY <1>3 DEF P!Arg
<1>5. Append(node, P!Arg) = SubSeq(args, 1, it + 1)
  BY <1>2, <1>3, <1>4, OneMore
<1> QED BY <1>2, <1>3, <1>4, <1>5

LEMMA StepsStay ==
  ASSUME P!TypeOK, P!StepsOK, P!Next
  PROVE  P!StepsOK'
<1>1. CASE P!ReadIndex \/ P!ReadParameter \/ P!SkipSeparator \/ P!ReadName
  <2>1. pc' = "makePath"
    BY <1>1 DEF P!ReadIndex, P!ReadParameter, P!SkipSeparator, P!ReadName, P!Reading
  <2> QED BY <2>1 DEF P!StepsOK
<1>2. CASE P!Begin("make") \/ P!Begin("resolve")
  <2>1. node' = <<>> /\ it' = 0 /\ before' = root /\ root' = root /\ args' = args
    BY <1>2 DEF P!Begin
  <2>2. node' = SubSeq(args', 1, it')
    <3>1. \A m : SubSeq(m, 1, 0) = <<>>
      OBVIOUS
    <3> QED BY <2>1, <3>1
  <2>3. P!MakingOK'
    BY <2>1 DEF P!MakingOK, P!TypeOK, P!IsTree
  <2> QED BY <2>2, <2>3 DEF P!StepsOK
<1>3. CASE P!Make
  <2>1. CASE pc' = "make"
    <3>1. node' = SubSeq(args', 1, it')
      BY <1>3, <2>1, MadeOn DEF P!Make, P!Going
    <3>2. P!MakingOK'
      BY <1>3, <2>1, MakingStays
    <3> QED BY <2>1, <3>1, <3>2 DEF P!StepsOK
  <2>2. CASE pc' = "thrown"
    BY <2>2 DEF P!StepsOK
  <2>3. pc' \in {"make", "thrown"}
    BY <1>3 DEF P!Make, P!Going
  <2> QED BY <2>1, <2>2, <2>3
<1>4. CASE P!MakeEnds \/ P!ResolveEnds
  <2>1. pc' \in {"made", "found"}
    BY <1>4 DEF P!MakeEnds, P!ResolveEnds
  <2> QED BY <2>1 DEF P!StepsOK
<1>5. CASE P!Resolve
  <2>1. CASE pc' = "resolve"
    <3>1. node' = Append(node, P!Arg) /\ it' = it + 1 /\ args' = args
      BY <1>5, <2>1 DEF P!Resolve, P!Going
    <3>2. node' = SubSeq(args', 1, it')
      BY <1>5, <3>1, ResolvedOn
    <3> QED BY <2>1, <3>2 DEF P!StepsOK
  <2>2. CASE pc' = "default"
    BY <2>2 DEF P!StepsOK
  <2>3. pc' \in {"resolve", "default"}
    BY <1>5 DEF P!Resolve, P!Going
  <2> QED BY <2>1, <2>2, <2>3
<1> QED BY <1>1, <1>2, <1>3, <1>4, <1>5 DEF P!Next

(* Where make() throws it has changed nothing.                             *)
LEMMA AllOrNothing ==
  ASSUME P!StepsOK, P!MakeIsAllOrNothing, P!Next
  PROVE  P!MakeIsAllOrNothing'
<1> SUFFICES ASSUME pc' = "thrown" PROVE root' = before'
  BY DEF P!MakeIsAllOrNothing
<1>1. P!Make /\ pc = "make" /\ root[node] # "null" /\ root' = root /\ before' = before
  BY DEF P!Next, P!Make, P!MakeEnds, P!Resolve, P!ResolveEnds, P!Going, P!Begin,
         P!ReadIndex, P!ReadParameter, P!SkipSeparator, P!ReadName, P!Reading
<1>2. root = before
  BY <1>1 DEF P!StepsOK, P!MakingOK
<1> QED BY <1>1, <1>2

(* What is there is found: where a step of resolve() fails there is        *)
(* nothing at the end of the path.                                         *)
LEMMA NothingThere ==
  ASSUME P!TypeOK, P!StepsOK, P!Resolve, pc' = "default"
  PROVE  args \notin DOMAIN root
<1> DEFINE a == P!Arg  c == Append(node, a)
<1>1. /\ node = SubSeq(args, 1, it) /\ it \in 0 .. Len(args) - 1 /\ a \in P!Args /\ a = args[it + 1]
      /\ c = SubSeq(args, 1, it + 1)
  BY ResolvedOn DEF P!Arg
<1>2. args \in Seq(P!Args) /\ Len(args) \in Nat /\ it \in Nat
  BY <1>1 DEF P!TypeOK
<1>3. ~ /\ P!Type(node) = P!Container(a)
        /\ IF a[1] = "index" THEN P!IsValidIndex(node, a[2]) ELSE c \in DOMAIN root
  BY DEF P!Resolve, P!Going
<1> SUFFICES ASSUME args \in DOMAIN root PROVE FALSE
  OBVIOUS
<1>4. node \in DOMAIN root /\ root[node] = P!Container(a)
  BY <1>1 DEF P!TypeOK, P!IsTree
<1>5. P!Type(node) = P!Container(a)
  BY <1>4 DEF P!Type
<1>6. c \in DOMAIN root
  <2>1. CASE it + 1 = Len(args)
    <3>1. SubSeq(args, 1, Len(args)) = args
      BY <1>2
    <3> QED BY <1>1, <2>1, <3>1
  <2>2. CASE it + 1 # Len(args)
    <3>1. it + 1 \in 0 .. Len(args) - 1
      BY <1>1, <1>2, <2>2
    <3> QED BY <1>1, <3>1 DEF P!TypeOK, P!IsTree
  <2> QED BY <2>1, <2>2
<1>7. CASE a[1] # "index"
  BY <1>3, <1>5, <1>6, <1>7
<1>8. CASE a[1] = "index"
  <2>1. node \in Seq(P!Args) /\ Len(c) = Len(node) + 1 /\ c[Len(c)] = a
        /\ SubSeq(c, 1, Len(node)) = node
    BY <1>1, <1>2
  <2>2. P!IsPrefix(node, c)
    BY <2>1 DEF P!IsPrefix
  <2>3. c \in P!Children(node)
    BY <1>6, <2>1, <2>2 DEF P!Children
  <2>4. P!Last(c) = a /\ a[2] \in Nat
    BY <1>1, <1>8, <2>1, ArgsAre DEF P!Last
  <2>5. P!IsValidIndex(node, a[2])
    BY <2>3, <2>4 DEF P!IsValidIndex
  <2> QED BY <1>3, <1>5, <1>8, <2>5
<1> QED BY <1>7, <1>8

LEMMA MadeIsFound ==
  ASSUME P!TypeOK, P!StepsOK, P!WhatIsMadeIsFound, P!Next
  PROVE  P!WhatIsMadeIsFound'
<1>1. ASSUME pc' = "made"
      PROVE  /\ args' \in DOMAIN root'
             /\ \A p \in DOMAIN before' : before'[p] # "null" => root'[p] = before'[p]
  <2>1. P!MakeEnds
    BY <1>1 DEF P!Next, P!Make, P!MakeEnds, P!Resolve, P!ResolveEnds, P!Going, P!Begin,
                P!ReadIndex, P!ReadParameter, P!SkipSeparator, P!ReadName, P!Reading
  <2>2. pc = "make" /\ it = Len(args) /\ args' = args /\ root' = root /\ before' = before
    BY <2>1 DEF P!MakeEnds, P!Going
  <2>3. node = SubSeq(args, 1, it) /\ P!MakingOK
    BY <2>2 DEF P!StepsOK
  <2>4. SubSeq(args, 1, Len(args)) = args
    BY DEF P!TypeOK
  <2> QED BY <2>2, <2>3, <2>4 DEF P!MakingOK
<1>2. ASSUME pc' = "default" PROVE args' \notin DOMAIN root'
  <2>1. P!Resolve
    BY <1>2 DEF P!Next, P!Make, P!MakeEnds, P!Resolve, P!ResolveEnds, P!Going, P!Begin,
                P!ReadIndex, P!ReadParameter, P!SkipSeparator, P!ReadName, P!Reading
  <2>2. args' = args /\ root' = root
    BY <2>1 DEF P!Resolve, P!Going
  <2> QED BY <1>2, <2>1, <2>2, NothingThere
<1> QED BY <1>1, <1>2 DEF P!WhatIsMadeIsFound

(* Paths begin, and go on.                                                 *)
LEMMA PathsBegin ==
  ASSUME P!Init
  PROVE  P!IInv
<1>1. P!TypeOK
  <2>1. P!IsTree(root) /\ in \in Seq(P!Args)
    BY PathsAssumption DEF P!Init
  <2>2. text \in Seq(Characters)
    <3>1. CASE text \in Odd
      BY <3>1, PathsAssumption
    <3>2. ASSUME NEW path \in Documented, text = P!Printed(path) PROVE text \in Seq(Characters)
      BY <3>2, DocumentedPlaces DEF Places
    <3> QED BY <3>1, <3>2 DEF P!Init, P!Texts
  <2>3. current = 0 /\ taken = 0 /\ args = <<>> /\ it = 0 /\ pc = "makePath"
    BY DEF P!Init
  <2>4. current \in 0 .. Len(text) /\ taken \in 0 .. Len(in) /\ args \in Seq(P!Args)
        /\ it \in 0 .. Len(args)
    BY <2>1, <2>2, <2>3
  <2> QED BY <2>1, <2>2, <2>3, <2>4 DEF P!TypeOK
<1>2. P!StepsOK /\ P!MakeIsAllOrNothing /\ P!WhatIsMadeIsFound
  BY DEF P!Init, P!StepsOK, P!MakeIsAllOrNothing, P!WhatIsMadeIsFound
<1> QED BY <1>1, <1>2, ReadingBegins DEF P!IInv

LEMMA PathsGoOn ==
  ASSUME P!IInv, P!Next
  PROVE  P!IInv'
BY TypesStay, StepsStay, ReadingGoesOn, AllOrNothing, MadeIsFound DEF P!IInv

LEMMA PathsStay ==
  ASSUME P!IInv, UNCHANGED <<text, pathVars, pc>>
  PROVE  P!IInv'
<1>1. /\ text' = text /\ current' = current /\ in' = in /\ taken' = taken /\ args' = args
      /\ root' = root /\ before' = before /\ node' = node /\ it' = it /\ pc' = pc
  BY DEF pathVars
<1>2. P!TypeOK'
  BY <1>1 DEF P!IInv, P!TypeOK
<1>3. P!StepsOK'
  BY <1>1 DEF P!IInv, P!StepsOK, P!MakingOK
<1>4. P!ReadingOK'
  <2>1. \A path : /\ P!Given(path)' <=> P!Given(path) /\ P!Meaning(path)' = P!Meaning(path)
                  /\ \A k : P!Between(path, k)' <=> P!Between(path, k)
    BY <1>1 DEF P!Given, P!Meaning, P!Between
  <2> QED BY <1>1, <2>1 DEF P!IInv, P!ReadingOK
<1>5. P!MakeIsAllOrNothing' /\ P!WhatIsMadeIsFound'
  BY <1>1 DEF P!IInv, P!MakeIsAllOrNothing, P!WhatIsMadeIsFound
<1> QED BY <1>2, <1>3, <1>4, <1>5 DEF P!IInv

(* The invariant of the part of the programs that follows a path.          *)
PathInvariant == part = "path" => P!IInv

(***************************************************************************)
(* class Path does what its paths say: of any text in its documented       *)
(* syntax, with the parameters it takes, makePath() makes the arguments it *)
(* means; make() creates all of what they name or, meeting a value of      *)
(* another type, has changed nothing; and resolve() finds what is there.   *)
(***************************************************************************)
THEOREM PathsFollowed == ProgramSpec => []PathsAreFollowed
<1>1. ProgramInit => PathInvariant
  <2>1. ASSUME ProgramInit, part = "path" PROVE P!Init
    BY <2>1 DEF ProgramInit, ScalarsInit
  <2> QED BY <2>1, PathsBegin DEF PathInvariant
<1>2. PathInvariant /\ [ProgramNext]_programVars => PathInvariant'
  <2> SUFFICES ASSUME PathInvariant, [ProgramNext]_programVars, part' = "path"
               PROVE  P!IInv'
    BY DEF PathInvariant
  <2>1. part = "path" /\ P!IInv
    BY DEF PathInvariant, ProgramNext, programVars
  <2>2. CASE ProgramNext
    <3>1. P!Next
      BY <2>1, <2>2 DEF ProgramNext, ScalarsNext
    <3> QED BY <2>1, <3>1, PathsGoOn
  <2>3. CASE UNCHANGED programVars
    <3>1. UNCHANGED <<text, pathVars, pc>>
      BY <2>3 DEF programVars, textVars
    <3> QED BY <2>1, <3>1, PathsStay
  <2> QED BY <2>2, <2>3
<1>3. PathInvariant => PathsAreFollowed
  BY PathIsRead DEF PathInvariant, PathsAreFollowed, P!IInv
<1> QED BY <1>1, <1>2, <1>3, PTL DEF ProgramSpec

(***************************************************************************)
(* THE ORDER OF VALUES.  Less and Equal are what their definitions say: a  *)
(* value is a finite tree, so that comparing two values asks only about    *)
(* values nested less deep.                                                *)
(***************************************************************************)
Relations == [Ordered -> [Ordered -> BOOLEAN]]
Upto(n) == {v \in Ordered : Nesting[v] < n}
AgreeUpto(f, g, n) == \A v, w \in Upto(n) : f[v][w] = g[v][w]

LEMMA NestingTyped == \A v \in Ordered : Nesting[v] \in Nat
BY OrderedAssumption DEF O!AreTrees

(* A definition that asks only about what is nested less deep than the two *)
(* values it relates defines a relation.                                   *)
LEMMA RelationExists ==
  ASSUME NEW h \in [Relations -> Relations],
         \A f, g \in Relations : \A n \in Nat :
           AgreeUpto(f, g, n) => AgreeUpto(h[f], h[g], n + 1)
  PROVE  \E f \in Relations : h[f] = f
<1> DEFINE a == [v \in Ordered |-> [w \in Ordered |-> FALSE]]
           hs == [n \in Nat |-> h]
<1>1. a \in Relations /\ hs \in [Nat -> [Relations -> Relations]]
  BY DEF Relations
<1> HIDE DEF a
<1>2. PICK F \in [Nat -> Relations] : RecursiveFrom(F, a, hs)
  BY <1>1, Recursion, Zenon
<1>3. \A n \in Nat : F[n] \in Relations /\ F[n + 1] = h[F[n]]
  BY <1>2 DEF RecursiveFrom
<1> DEFINE Z == {n \in Nat : \A m \in Nat : m >= n => AgreeUpto(F[m], F[n], n)}
<1>4. 0 \in Z
  BY NestingTyped DEF AgreeUpto, Upto
<1>5. ASSUME NEW n \in Z PROVE n + 1 \in Z
  <2>1. ASSUME NEW m \in Nat, m >= n + 1 PROVE AgreeUpto(F[m], F[n + 1], n + 1)
    <3>1. m - 1 \in Nat /\ m - 1 >= n /\ (m - 1) + 1 = m /\ n \in Nat
      BY <2>1
    <3>2. AgreeUpto(F[m - 1], F[n], n)
      BY <3>1
    <3>3. F[m] = h[F[m - 1]] /\ F[n + 1] = h[F[n]]
      BY <1>3, <3>1
    <3> HIDE DEF Z
    <3> QED BY <1>3, <3>1, <3>2, <3>3
  <2> QED BY <2>1
<1> HIDE DEF Z
<1>6. Z = Nat
  BY <1>4, <1>5, SetInduction DEF Z
<1>7. \A n, m \in Nat : m >= n => AgreeUpto(F[m], F[n], n)
  BY <1>6 DEF Z
<1> DEFINE DepthOf(v, w) == IF Nesting[v] < Nesting[w] THEN Nesting[w] ELSE Nesting[v]
           f == [v \in Ordered |-> [w \in Ordered |-> F[DepthOf(v, w) + 1][v][w]]]
<1>8. \A v, w \in Ordered : /\ DepthOf(v, w) \in Nat
                            /\ \A n \in Nat : v \in Upto(n) /\ w \in Upto(n) <=> DepthOf(v, w) < n
  BY NestingTyped DEF Upto
<1> HIDE DEF DepthOf
<1>9. ASSUME NEW v \in Ordered, NEW w \in Ordered PROVE F[DepthOf(v, w) + 1][v][w] \in BOOLEAN
  BY <1>3, <1>8 DEF Relations
<1>10. f \in Relations
  BY <1>9 DEF Relations
<1>11. \A v, w \in Ordered : f[v][w] = F[DepthOf(v, w) + 1][v][w]
  OBVIOUS
<1> HIDE DEF f
<1>12. ASSUME NEW n \in Nat PROVE AgreeUpto(f, F[n], n)
  <2>1. ASSUME NEW v \in Upto(n), NEW w \in Upto(n) PROVE f[v][w] = F[n][v][w]
    <3>1. v \in Ordered /\ w \in Ordered
      BY DEF Upto
    <3> DEFINE k == DepthOf(v, w) + 1
    <3>2. k \in Nat /\ n >= k /\ v \in Upto(k) /\ w \in Upto(k)
      BY <1>8, <3>1
    <3>3. f[v][w] = F[k][v][w]
      BY <1>11, <3>1
    <3> HIDE DEF k
    <3>4. AgreeUpto(F[n], F[k], k)
      BY <1>7, <3>2
    <3> QED BY <3>2, <3>3, <3>4 DEF AgreeUpto
  <2> QED BY <2>1 DEF AgreeUpto
<1>13. ASSUME NEW v \in Ordered, NEW w \in Ordered PROVE h[f][v][w] = f[v][w]
  <2> DEFINE n == DepthOf(v, w)
  <2>1. n \in Nat /\ v \in Upto(n + 1) /\ w \in Upto(n + 1) /\ n + 1 \in Nat
    BY <1>8
  <2>2. f[v][w] = F[n + 1][v][w]
    BY <1>11
  <2> HIDE DEF n
  <2>3. F[n] \in Relations /\ F[n + 1] = h[F[n]]
    BY <1>3, <2>1
  <2>4. AgreeUpto(h[f], h[F[n]], n + 1)
    BY <1>10, <1>12, <2>1, <2>3
  <2> QED BY <2>1, <2>2, <2>3, <2>4 DEF AgreeUpto
<1>14. h[f] \in Relations
  BY <1>10
<1>15. h[f] = f
  BY <1>10, <1>13, <1>14 DEF Relations
<1> QED BY <1>10, <1>15

IsContainer(v) == v.type \in {"array", "object"}

(* What is in a container is a value, nested less deep.                    *)
LEMMA HeldIsLess ==
  ASSUME NEW n \in Nat, NEW v \in Upto(n + 1), IsContainer(v)
  PROVE  /\ v.of \in Seq([key : IF v.type = "array" THEN Nat ELSE O!Bytes, value : Ordered])
         /\ \A i \in DOMAIN v.of : v.of[i].value \in Upto(n)
<1>0. v \in Ordered /\ Nesting[v] < n + 1
  BY DEF Upto
<1>1. O!IsTyped(v) /\ \A w \in O!Held(v) : Nesting[w] < Nesting[v]
  BY <1>0, OrderedAssumption DEF O!AreTrees
<1>2. v.of \in Seq([key : IF v.type = "array" THEN Nat ELSE O!Bytes, value : Ordered])
  BY <1>1 DEF O!IsTyped, O!MapOf, IsContainer
<1>3. ASSUME NEW i \in DOMAIN v.of PROVE v.of[i].value \in Upto(n)
  <2>1. v.of[i] \in [key : IF v.type = "array" THEN Nat ELSE O!Bytes, value : Ordered]
    BY <1>2, ElementOfSeq, LenProperties
  <2>2. v.of[i].value \in Ordered
    BY <2>1
  <2>3. v.of[i].value \in O!Held(v)
    BY DEF O!Held, IsContainer
  <2> QED BY <1>0, <1>1, <2>2, <2>3, NestingTyped DEF Upto
<1> QED BY <1>2, <1>3

LEMMA LessAsksWithin ==
  ASSUME NEW f, NEW g, NEW n \in Nat, AgreeUpto(f, g, n),
         NEW v \in Upto(n + 1), NEW w \in Upto(n + 1)
  PROVE  O!ValueLess(v, w, f) <=> O!ValueLess(v, w, g)
<1>1. ASSUME IsContainer(v), v.type = w.type, Len(v.of) = Len(w.of)
      PROVE  O!MapLess(v.type, v.of, w.of, f) <=> O!MapLess(v.type, v.of, w.of, g)
  <2>1. IsContainer(w)
    BY <1>1 DEF IsContainer
  <2>2. DOMAIN v.of = DOMAIN w.of /\ DOMAIN v.of = 1 .. Len(v.of) /\ Len(v.of) \in Nat
    BY <1>1, <2>1, HeldIsLess, LenProperties
  <2>3. \A i \in DOMAIN v.of : v.of[i].value \in Upto(n) /\ w.of[i].value \in Upto(n)
    BY <1>1, <2>1, <2>2, HeldIsLess
  <2>4. \A i \in DOMAIN v.of :
          /\ O!PairLess(v.type, v.of[i], w.of[i], f) <=> O!PairLess(v.type, v.of[i], w.of[i], g)
          /\ O!PairLess(v.type, w.of[i], v.of[i], f) <=> O!PairLess(v.type, w.of[i], v.of[i], g)
    BY <2>3 DEF O!PairLess, AgreeUpto
  <2>5. \A i \in DOMAIN v.of : \A j \in 1 .. i - 1 : j \in DOMAIN v.of
    BY <2>2
  <2> QED BY <2>4, <2>5 DEF O!MapLess
<1>2. CASE v.type = w.type /\ IsContainer(v)
  BY <1>1, <1>2 DEF O!ValueLess, IsContainer
<1>3. CASE ~(v.type = w.type /\ IsContainer(v))
  BY <1>3 DEF O!ValueLess, IsContainer
<1> QED BY <1>2, <1>3

LEMMA EqualAsksWithin ==
  ASSUME NEW f, NEW g, NEW n \in Nat, AgreeUpto(f, g, n),
         NEW v \in Upto(n + 1), NEW w \in Upto(n + 1)
  PROVE  O!ValueEqual(v, w, f) <=> O!ValueEqual(v, w, g)
<1>1. ASSUME IsContainer(v), v.type = w.type, Len(v.of) = Len(w.of)
      PROVE  O!MapEqual(v.type, v.of, w.of, f) <=> O!MapEqual(v.type, v.of, w.of, g)
  <2>1. IsContainer(w)
    BY <1>1 DEF IsContainer
  <2>2. DOMAIN v.of = DOMAIN w.of
    BY <1>1, <2>1, HeldIsLess, LenProperties
  <2>3. \A i \in DOMAIN v.of : v.of[i].value \in Upto(n) /\ w.of[i].value \in Upto(n)
    BY <1>1, <2>1, <2>2, HeldIsLess
  <2>4. \A i \in DOMAIN v.of : f[v.of[i].value][w.of[i].value] = g[v.of[i].value][w.of[i].value]
    BY <2>3 DEF AgreeUpto
  <2> QED BY <2>4 DEF O!MapEqual
<1>2. CASE v.type = w.type /\ IsContainer(v)
  <2>1. CASE Len(v.of) = Len(w.of)
    BY <1>1, <1>2, <2>1 DEF O!ValueEqual, IsContainer
  <2>2. CASE Len(v.of) # Len(w.of)
    BY <1>2, <2>2 DEF O!ValueEqual, IsContainer, O!MapEqual
  <2> QED BY <2>1, <2>2
<1>3. CASE ~(v.type = w.type /\ IsContainer(v))
  BY <1>3 DEF O!ValueEqual, IsContainer
<1> QED BY <1>2, <1>3

LEMMA LessIs ==
  O!Less \in Relations /\ \A v, w \in Ordered : O!Less[v][w] = O!ValueLess(v, w, O!Less)
<1> DEFINE D(f) == [v \in Ordered |-> [w \in Ordered |-> O!ValueLess(v, w, f)]]
           h == [f \in Relations |-> D(f)]
<1>1. \A f : \A v, w \in Ordered : O!ValueLess(v, w, f) \in BOOLEAN
  <2>1. ASSUME NEW f, NEW v \in Ordered, NEW w \in Ordered PROVE O!ValueLess(v, w, f) \in BOOLEAN
    <3>1. O!IsTyped(v)
      BY OrderedAssumption DEF O!AreTrees
    <3> QED BY <3>1 DEF O!ValueLess, O!IsTyped, O!BytesLess, O!MapLess
  <2> QED BY <2>1
<1>2. \A f : D(f) \in Relations
  BY <1>1 DEF Relations
<1>3. h \in [Relations -> Relations]
  BY <1>2
<1>4. ASSUME NEW f \in Relations, NEW g \in Relations, NEW n \in Nat, AgreeUpto(f, g, n)
      PROVE  AgreeUpto(h[f], h[g], n + 1)
  <2>1. ASSUME NEW v \in Upto(n + 1), NEW w \in Upto(n + 1) PROVE h[f][v][w] = h[g][v][w]
    <3>1. v \in Ordered /\ w \in Ordered
      BY DEF Upto
    <3>2. h[f][v][w] = O!ValueLess(v, w, f) /\ h[g][v][w] = O!ValueLess(v, w, g)
      BY <3>1
    <3> HIDE DEF h
    <3> QED BY <1>1, <1>4, <3>1, <3>2, LessAsksWithin
  <2> HIDE DEF h
  <2> QED BY <2>1 DEF AgreeUpto
<1>5. PICK f \in Relations : h[f] = f
  <2> HIDE DEF h
  <2> QED BY <1>3, <1>4, RelationExists
<1>6. f = D(f)
  BY <1>5
<1>7. O!Less = CHOOSE g : g = D(g)
  BY DEF O!Less
<1> HIDE DEF D, h
<1>8. O!Less = D(O!Less)
  BY <1>6, <1>7
<1>9. O!Less \in Relations
  BY <1>2, <1>8
<1> QED
  <2> USE DEF D
  <2>1. ASSUME NEW v \in Ordered, NEW w \in Ordered PROVE D(O!Less)[v][w] = O!ValueLess(v, w, O!Less)
    OBVIOUS
  <2> HIDE DEF D
  <2> QED BY <1>8, <1>9, <2>1

LEMMA EqualIs ==
  O!Equal \in Relations /\ \A v, w \in Ordered : O!Equal[v][w] = O!ValueEqual(v, w, O!Equal)
<1> DEFINE D(f) == [v \in Ordered |-> [w \in Ordered |-> O!ValueEqual(v, w, f)]]
           h == [f \in Relations |-> D(f)]
<1>1. \A f : \A v, w \in Ordered : O!ValueEqual(v, w, f) \in BOOLEAN
  <2>1. ASSUME NEW f, NEW v \in Ordered, NEW w \in Ordered PROVE O!ValueEqual(v, w, f) \in BOOLEAN
    <3>1. O!IsTyped(v)
      BY OrderedAssumption DEF O!AreTrees
    <3> QED BY <3>1 DEF O!ValueEqual, O!IsTyped, O!BytesEqual, O!MapEqual
  <2> QED BY <2>1
<1>2. \A f : D(f) \in Relations
  BY <1>1 DEF Relations
<1>3. h \in [Relations -> Relations]
  BY <1>2
<1>4. ASSUME NEW f \in Relations, NEW g \in Relations, NEW n \in Nat, AgreeUpto(f, g, n)
      PROVE  AgreeUpto(h[f], h[g], n + 1)
  <2>1. ASSUME NEW v \in Upto(n + 1), NEW w \in Upto(n + 1) PROVE h[f][v][w] = h[g][v][w]
    <3>1. v \in Ordered /\ w \in Ordered
      BY DEF Upto
    <3>2. h[f][v][w] = O!ValueEqual(v, w, f) /\ h[g][v][w] = O!ValueEqual(v, w, g)
      BY <3>1
    <3> HIDE DEF h
    <3> QED BY <1>1, <1>4, <3>1, <3>2, EqualAsksWithin
  <2> HIDE DEF h
  <2> QED BY <2>1 DEF AgreeUpto
<1>5. PICK f \in Relations : h[f] = f
  <2> HIDE DEF h
  <2> QED BY <1>3, <1>4, RelationExists
<1>6. f = D(f)
  BY <1>5
<1>7. O!Equal = CHOOSE g : g = D(g)
  BY DEF O!Equal
<1> HIDE DEF D, h
<1>8. O!Equal = D(O!Equal)
  BY <1>6, <1>7
<1>9. O!Equal \in Relations
  BY <1>2, <1>8
<1> QED
  <2> USE DEF D
  <2>1. ASSUME NEW v \in Ordered, NEW w \in Ordered PROVE D(O!Equal)[v][w] = O!ValueEqual(v, w, O!Equal)
    OBVIOUS
  <2> HIDE DEF D
  <2> QED BY <1>8, <1>9, <2>1

(***************************************************************************)
(* Strict total orders, and the lexicographic order of sequences.          *)
(***************************************************************************)
StrictTotal(Y, r) ==
  /\ \A x, y \in Y : ~(r[x][y] /\ r[y][x]) /\ (x = y \/ r[x][y] \/ r[y][x])
  /\ \A x, y, z \in Y : r[x][y] /\ r[y][z] => r[x][z]
FirstLess(r, s, t, i) == i \in DOMAIN s /\ i \in DOMAIN t /\ r[s[i]][t[i]]
                         /\ \A j \in 1 .. i - 1 : s[j] = t[j]
LexLess(r, s, t) == \/ \E i \in Nat : FirstLess(r, s, t, i)
                    \/ Len(s) < Len(t) /\ \A j \in DOMAIN s : s[j] = t[j]

LEMMA SeqDomain ==
  ASSUME NEW Y, NEW s \in Seq(Y)
  PROVE  /\ Len(s) \in Nat /\ DOMAIN s = 1 .. Len(s)
         /\ \A i \in Nat : i \in DOMAIN s <=> 1 <= i /\ i <= Len(s)
         /\ \A i \in DOMAIN s : i \in Nat /\ s[i] \in Y
OBVIOUS

LEMMA NeverLessThanItself ==
  ASSUME NEW Y, NEW r, StrictTotal(Y, r), NEW x \in Y
  PROVE  ~r[x][x]
BY DEF StrictTotal

LEMMA BeforeOneWay ==
  ASSUME NEW Y, NEW r, StrictTotal(Y, r), NEW s \in Seq(Y), NEW t \in Seq(Y),
         LexLess(r, s, t), LexLess(r, t, s)
  PROVE  FALSE
<1>1. ASSUME NEW u \in Seq(Y), NEW w \in Seq(Y), NEW i \in Nat, FirstLess(r, u, w, i) PROVE u[i] # w[i]
  BY <1>1, SeqDomain, NeverLessThanItself DEF FirstLess
<1>2. ASSUME NEW i \in Nat, FirstLess(r, s, t, i), NEW k \in Nat, FirstLess(r, t, s, k) PROVE FALSE
  <2>1. i \in Nat /\ k \in Nat /\ 1 <= i /\ 1 <= k
    BY <1>2, SeqDomain DEF FirstLess
  <2>2. CASE i < k
    <3>1. i \in 1 .. k - 1
      BY <2>1, <2>2
    <3> QED BY <1>1, <1>2, <3>1 DEF FirstLess
  <2>3. CASE k < i
    <3>1. k \in 1 .. i - 1
      BY <2>1, <2>3
    <3> QED BY <1>1, <1>2, <3>1 DEF FirstLess
  <2>4. CASE i = k
    BY <1>2, <2>4, SeqDomain DEF FirstLess, StrictTotal
  <2> QED BY <2>1, <2>2, <2>3, <2>4
<1>3. ASSUME NEW u \in Seq(Y), NEW w \in Seq(Y), NEW i \in Nat, FirstLess(r, u, w, i),
             \/ \A j \in DOMAIN u : u[j] = w[j]
             \/ \A j \in DOMAIN w : w[j] = u[j]
      PROVE  FALSE
  BY <1>1, <1>3 DEF FirstLess
<1>4. CASE \E i \in Nat : FirstLess(r, s, t, i)
  BY <1>2, <1>3, <1>4 DEF LexLess
<1>5. CASE \E i \in Nat : FirstLess(r, t, s, i)
  BY <1>2, <1>3, <1>5 DEF LexLess
<1>6. CASE Len(s) < Len(t) /\ Len(t) < Len(s)
  BY <1>6, SeqDomain
<1> QED BY <1>4, <1>5, <1>6 DEF LexLess

LEMMA BeforeOneOrOther ==
  ASSUME NEW Y, NEW r, StrictTotal(Y, r), NEW s \in Seq(Y), NEW t \in Seq(Y)
  PROVE  s = t \/ LexLess(r, s, t) \/ LexLess(r, t, s)
<1> DEFINE Z == {i \in Nat : i \in DOMAIN s /\ i \in DOMAIN t /\ s[i] # t[i]}
<1>1. CASE Z # {}
  <2>1. PICK i \in Z : \A k \in Z : i <= k
    <3>1. Z \in SUBSET Nat
      OBVIOUS
    <3> HIDE DEF Z
    <3> QED BY <1>1, <3>1, LeastIn
  <2>2. i \in Nat /\ i \in DOMAIN s /\ i \in DOMAIN t /\ s[i] # t[i]
    OBVIOUS
  <2>3. ASSUME NEW j \in 1 .. i - 1 PROVE s[j] = t[j]
    <3>1. j \in Nat /\ j < i /\ j \in DOMAIN s /\ j \in DOMAIN t
      BY <2>2, SeqDomain
    <3>2. j \notin Z
      BY <2>1, <2>2, <3>1
    <3> QED BY <3>1, <3>2
  <2>4. r[s[i]][t[i]] \/ r[t[i]][s[i]]
    BY <2>2, SeqDomain DEF StrictTotal
  <2> HIDE DEF Z
  <2>5. FirstLess(r, s, t, i) \/ FirstLess(r, t, s, i)
    BY <2>2, <2>3, <2>4 DEF FirstLess
  <2> QED BY <2>2, <2>5 DEF LexLess
<1>2. CASE Z = {}
  <2>1. \A j \in Nat : j \in DOMAIN s /\ j \in DOMAIN t => s[j] = t[j]
    BY <1>2
  <2>2. Len(s) \in Nat /\ Len(t) \in Nat
    BY SeqDomain
  <2>3. CASE Len(s) < Len(t)
    <3>1. \A j \in DOMAIN s : j \in Nat /\ j \in DOMAIN t
      BY <2>2, <2>3, SeqDomain
    <3>2. \A j \in DOMAIN s : s[j] = t[j]
      BY <2>1, <3>1
    <3> QED BY <2>3, <3>2 DEF LexLess
  <2>4. CASE Len(t) < Len(s)
    <3>1. \A j \in DOMAIN t : j \in Nat /\ j \in DOMAIN s
      BY <2>2, <2>4, SeqDomain
    <3>2. \A j \in DOMAIN t : t[j] = s[j]
      BY <2>1, <3>1
    <3> QED BY <2>4, <3>2 DEF LexLess
  <2>5. CASE Len(s) = Len(t)
    <3>1. \A j \in 1 .. Len(s) : s[j] = t[j]
      BY <2>1, <2>5, SeqDomain
    <3> HIDE DEF Z
    <3>2. s = t
      BY <2>5, <3>1, SeqEqual
    <3> QED BY <3>2
  <2> QED BY <2>2, <2>3, <2>4, <2>5
<1> QED BY <1>1, <1>2

LEMMA BeforeFollows ==
  ASSUME NEW Y, NEW r, StrictTotal(Y, r), NEW s \in Seq(Y), NEW t \in Seq(Y), NEW u \in Seq(Y),
         LexLess(r, s, t), LexLess(r, t, u)
  PROVE  LexLess(r, s, u)
<1>0. Len(s) \in Nat /\ Len(t) \in Nat /\ Len(u) \in Nat
  BY SeqDomain
<1>1. ASSUME NEW i \in Nat, FirstLess(r, s, t, i), NEW k \in Nat, FirstLess(r, t, u, k)
      PROVE  LexLess(r, s, u)
  <2>0. 1 <= i /\ i <= Len(s) /\ i <= Len(t) /\ 1 <= k /\ k <= Len(t) /\ k <= Len(u)
    BY <1>1, SeqDomain DEF FirstLess
  <2>1. CASE i < k
    <3>1. i \in 1 .. k - 1 /\ i <= Len(u)
      BY <1>0, <2>0, <2>1
    <3>2. i \in DOMAIN u /\ t[i] = u[i]
      BY <1>1, <2>0, <3>1, SeqDomain DEF FirstLess
    <3>3. \A j \in 1 .. i - 1 : j \in 1 .. k - 1
      BY <2>1
    <3>4. FirstLess(r, s, u, i)
      BY <1>1, <3>2, <3>3 DEF FirstLess
    <3> QED BY <3>4 DEF LexLess
  <2>2. CASE k < i
    <3>1. k \in 1 .. i - 1 /\ k <= Len(s)
      BY <1>0, <2>0, <2>2
    <3>2. k \in DOMAIN s /\ s[k] = t[k]
      BY <1>1, <2>0, <3>1, SeqDomain DEF FirstLess
    <3>3. \A j \in 1 .. k - 1 : j \in 1 .. i - 1
      BY <2>2
    <3>4. FirstLess(r, s, u, k)
      BY <1>1, <3>2, <3>3 DEF FirstLess
    <3> QED BY <3>4 DEF LexLess
  <2>3. CASE i = k
    <3>1. r[s[i]][u[i]]
      BY <1>1, <2>3, SeqDomain DEF FirstLess, StrictTotal
    <3>2. FirstLess(r, s, u, i)
      BY <1>1, <2>3, <3>1 DEF FirstLess
    <3> QED BY <3>2 DEF LexLess
  <2> QED BY <2>1, <2>2, <2>3
<1>2. ASSUME NEW i \in Nat, FirstLess(r, s, t, i), Len(t) < Len(u), \A j \in DOMAIN t : t[j] = u[j]
      PROVE  LexLess(r, s, u)
  <2>1. 1 <= i /\ i <= Len(t) /\ i \in DOMAIN u /\ t[i] = u[i]
    BY <1>0, <1>2, SeqDomain DEF FirstLess
  <2>2. \A j \in 1 .. i - 1 : j \in DOMAIN t
    BY <1>0, <2>1, SeqDomain
  <2>3. FirstLess(r, s, u, i)
    BY <1>2, <2>1, <2>2 DEF FirstLess
  <2> QED BY <2>3 DEF LexLess
<1>3. ASSUME Len(s) < Len(t), \A j \in DOMAIN s : s[j] = t[j], NEW k \in Nat, FirstLess(r, t, u, k)
      PROVE  LexLess(r, s, u)
  <2>0. 1 <= k /\ k <= Len(t) /\ k <= Len(u)
    BY <1>3, SeqDomain DEF FirstLess
  <2>1. CASE k <= Len(s)
    <3>1. k \in DOMAIN s /\ s[k] = t[k] /\ \A j \in 1 .. k - 1 : j \in DOMAIN s
      BY <1>0, <1>3, <2>0, <2>1, SeqDomain
    <3>2. FirstLess(r, s, u, k)
      BY <1>3, <3>1 DEF FirstLess
    <3> QED BY <3>2 DEF LexLess
  <2>2. CASE k > Len(s)
    <3>1. Len(s) < Len(u) /\ \A j \in DOMAIN s : j \in 1 .. k - 1
      BY <1>0, <2>0, <2>2, SeqDomain
    <3>2. \A j \in DOMAIN s : s[j] = u[j]
      BY <1>3, <3>1 DEF FirstLess
    <3> QED BY <3>1, <3>2 DEF LexLess
  <2> QED BY <1>0, <2>1, <2>2
<1>4. ASSUME Len(s) < Len(t), \A j \in DOMAIN s : s[j] = t[j],
             Len(t) < Len(u), \A j \in DOMAIN t : t[j] = u[j]
      PROVE  LexLess(r, s, u)
  <2>1. Len(s) < Len(u) /\ \A j \in DOMAIN s : j \in DOMAIN t
    BY <1>0, <1>4, SeqDomain
  <2> QED BY <1>4, <2>1 DEF LexLess
<1> QED BY <1>1, <1>2, <1>3, <1>4 DEF LexLess

LEMMA SequencesOrdered ==
  ASSUME NEW Y, NEW r, StrictTotal(Y, r), NEW Z, Z \subseteq Seq(Y), NEW b,
         \A s, t \in Z : b[s][t] <=> LexLess(r, s, t)
  PROVE  StrictTotal(Z, b)
BY BeforeOneWay, BeforeOneOrOther, BeforeFollows DEF StrictTotal

(* memcmp finds the first byte that differs.                               *)
ByteOrder == [b \in 0 .. 255 |-> [c \in 0 .. 255 |-> b < c]]
BytesOrder == [s \in O!Bytes |-> [t \in O!Bytes |-> O!BytesLess(s, t)]]

LEMMA MemcmpIs ==
  ASSUME NEW s \in O!Bytes, NEW t \in O!Bytes, NEW n \in Nat, n <= Len(s), n <= Len(t)
  PROVE  /\ O!Memcmp(s, t, n) < 0 <=> \E i \in 1 .. n : s[i] < t[i] /\ \A j \in 1 .. i - 1 : s[j] = t[j]
         /\ O!Memcmp(s, t, n) = 0 <=> \A j \in 1 .. n : s[j] = t[j]
<1> DEFINE D == O!FirstDifference(s, t, n)
<1>1. Len(s) \in Nat /\ Len(t) \in Nat /\ \A i \in 1 .. n : s[i] \in Int /\ t[i] \in Int
  <2>1. Len(s) \in Nat /\ Len(t) \in Nat
    BY SeqDomain DEF O!Bytes
  <2>2. ASSUME NEW i \in 1 .. n PROVE s[i] \in 0 .. 255 /\ t[i] \in 0 .. 255
    <3>1. i \in DOMAIN s /\ i \in DOMAIN t
      BY <2>1, SeqDomain DEF O!Bytes
    <3> QED BY <3>1, SeqDomain DEF O!Bytes
  <2>3. \A b \in 0 .. 255 : b \in Int
    OBVIOUS
  <2>4. ASSUME NEW i \in 1 .. n PROVE s[i] \in Int /\ t[i] \in Int
    BY <2>2, <2>3
  <2> QED BY <2>1, <2>4
<1>2. ASSUME NEW i \in 1 .. n
      PROVE  SubSeq(s, 1, i - 1) = SubSeq(t, 1, i - 1) <=> \A j \in 1 .. i - 1 : s[j] = t[j]
  <2>1. /\ SubSeq(s, 1, i - 1) = [j \in 1 .. i - 1 |-> s[j]]
        /\ SubSeq(t, 1, i - 1) = [j \in 1 .. i - 1 |-> t[j]]
    BY <1>1 DEF O!Bytes
  <2> QED BY <2>1
<1>3. \A i \in Nat : i \in D <=> i \in 1 .. n /\ s[i] # t[i] /\ \A j \in 1 .. i - 1 : s[j] = t[j]
  BY <1>2 DEF O!FirstDifference
<1>4. \A i \in D : i \in 1 .. n /\ i \in Nat
  BY DEF O!FirstDifference
<1>5. D = {} <=> \A j \in 1 .. n : s[j] = t[j]
  <2>1. ASSUME NEW k \in 1 .. n, s[k] # t[k] PROVE D # {}
    <3> DEFINE Z == {i \in 1 .. n : s[i] # t[i]}
    <3>1. Z \in SUBSET Nat /\ Z # {}
      BY <2>1
    <3>2. PICK i \in Z : \A j \in Z : i <= j
      <4> HIDE DEF Z
      <4> QED BY <3>1, LeastIn
    <3>3. i \in Nat /\ i \in 1 .. n /\ s[i] # t[i] /\ \A j \in 1 .. i - 1 : s[j] = t[j]
      BY <3>2
    <3> HIDE DEF D
    <3> QED BY <1>3, <3>3
  <2> HIDE DEF D
  <2> QED BY <1>3, <1>4, <2>1
<1> HIDE DEF D
<1>6. CASE D = {}
  <2>1. O!Memcmp(s, t, n) = 0
    BY <1>6 DEF D, O!Memcmp
  <2> QED BY <1>1, <1>5, <1>6, <2>1
<1>7. CASE D # {}
  <2> DEFINE i == CHOOSE j \in D : TRUE
  <2>1. i \in D
    BY <1>7
  <2>2. O!Memcmp(s, t, n) = s[i] - t[i]
    BY <1>7 DEF D, O!Memcmp
  <2> HIDE DEF i
  <2>3. i \in 1 .. n /\ s[i] # t[i] /\ \A j \in 1 .. i - 1 : s[j] = t[j]
    BY <1>3, <1>4, <2>1
  <2>4. s[i] \in Int /\ t[i] \in Int
    BY <1>1, <2>3
  <2>5. O!Memcmp(s, t, n) # 0 /\ (O!Memcmp(s, t, n) < 0 <=> s[i] < t[i])
    <3>1. \A b, c \in Int : b # c => b - c # 0 /\ (b - c < 0 <=> b < c)
      OBVIOUS
    <3> QED BY <2>2, <2>3, <2>4, <3>1
  <2>6. ASSUME NEW k \in 1 .. n, s[k] < t[k], \A j \in 1 .. k - 1 : s[j] = t[j] PROVE k = i
    <3>1. s[k] # t[k]
      <4>1. \A b, c \in Int : b < c => b # c
        OBVIOUS
      <4> QED BY <1>1, <2>6, <4>1
    <3>2. ~(i \in 1 .. k - 1) /\ ~(k \in 1 .. i - 1)
      BY <2>3, <2>6, <3>1
    <3> QED BY <2>3, <3>2
  <2>7. ~\A j \in 1 .. n : s[j] = t[j]
    BY <2>3
  <2>8. O!Memcmp(s, t, n) < 0 <=> \E k \in 1 .. n : s[k] < t[k] /\ \A j \in 1 .. k - 1 : s[j] = t[j]
    BY <2>3, <2>5, <2>6
  <2> QED BY <2>5, <2>7, <2>8
<1> QED BY <1>6, <1>7

LEMMA BytesLessIs ==
  ASSUME NEW s \in O!Bytes, NEW t \in O!Bytes
  PROVE  O!BytesLess(s, t) <=> LexLess(ByteOrder, s, t)
<1> DEFINE n == O!Smaller(Len(s), Len(t))
<1>1. Len(s) \in Nat /\ Len(t) \in Nat /\ \A i \in Nat : /\ i \in DOMAIN s <=> 1 <= i /\ i <= Len(s)
                                                        /\ i \in DOMAIN t <=> 1 <= i /\ i <= Len(t)
  BY SeqDomain DEF O!Bytes
<1>2. /\ n \in Nat /\ n <= Len(s) /\ n <= Len(t)
      /\ \A i \in Nat : i \in 1 .. n <=> i \in DOMAIN s /\ i \in DOMAIN t
  BY <1>1 DEF O!Smaller
<1>3. Len(s) < Len(t) => n = Len(s)
  BY <1>1 DEF O!Smaller
<1>4. O!BytesLess(s, t) <=> \/ O!Memcmp(s, t, n) < 0
                            \/ O!Memcmp(s, t, n) = 0 /\ Len(s) < Len(t)
  BY DEF O!BytesLess
<1> HIDE DEF n
<1>5. \A i \in Nat : FirstLess(ByteOrder, s, t, i) <=>
                       i \in 1 .. n /\ s[i] < t[i] /\ \A j \in 1 .. i - 1 : s[j] = t[j]
  <2>1. \A i \in 1 .. n : i \in Nat /\ s[i] \in 0 .. 255 /\ t[i] \in 0 .. 255
    BY <1>2, SeqDomain DEF O!Bytes
  <2>2. \A i \in 1 .. n : ByteOrder[s[i]][t[i]] <=> s[i] < t[i]
    BY <2>1 DEF ByteOrder
  <2> QED BY <1>2, <2>2 DEF FirstLess
<1>6. O!Memcmp(s, t, n) < 0 <=> \E i \in Nat : FirstLess(ByteOrder, s, t, i)
  <2>1. O!Memcmp(s, t, n) < 0 <=> \E i \in 1 .. n : s[i] < t[i] /\ \A j \in 1 .. i - 1 : s[j] = t[j]
    BY <1>2, MemcmpIs
  <2>2. \A i \in 1 .. n : i \in Nat
    OBVIOUS
  <2> QED BY <1>5, <2>1, <2>2
<1>7. Len(s) < Len(t) => (O!Memcmp(s, t, n) = 0 <=> \A j \in DOMAIN s : s[j] = t[j])
  <2>1. O!Memcmp(s, t, n) = 0 <=> \A j \in 1 .. n : s[j] = t[j]
    BY <1>2, MemcmpIs
  <2>2. Len(s) < Len(t) => DOMAIN s = 1 .. n
    BY <1>3, SeqDomain DEF O!Bytes
  <2> QED BY <2>1, <2>2
<1> QED BY <1>4, <1>6, <1>7 DEF LexLess

LEMMA BytesOrdered == StrictTotal(O!Bytes, BytesOrder)
<1>1. StrictTotal(0 .. 255, ByteOrder)
  <2>1. \A b, c \in 0 .. 255 : ByteOrder[b][c] <=> b < c
    BY DEF ByteOrder
  <2>2. \A b \in 0 .. 255 : b \in Int
    OBVIOUS
  <2>3. ASSUME NEW b \in 0 .. 255, NEW c \in 0 .. 255
        PROVE  ~(ByteOrder[b][c] /\ ByteOrder[c][b]) /\ (b = c \/ ByteOrder[b][c] \/ ByteOrder[c][b])
    <3>1. b \in Int /\ c \in Int
      BY <2>2
    <3>2. ~(b < c /\ c < b) /\ (b = c \/ b < c \/ c < b)
      BY <3>1
    <3>3. (ByteOrder[b][c] <=> b < c) /\ (ByteOrder[c][b] <=> c < b)
      BY <2>1, Zenon
    <3> QED BY <3>2, <3>3, Zenon
  <2>4. ASSUME NEW b \in 0 .. 255, NEW c \in 0 .. 255, NEW d \in 0 .. 255,
               ByteOrder[b][c], ByteOrder[c][d]
        PROVE  ByteOrder[b][d]
    <3>1. b \in Int /\ c \in Int /\ d \in Int
      BY <2>2
    <3>2. b < c /\ c < d => b < d
      BY <3>1
    <3>3. /\ ByteOrder[b][c] <=> b < c
          /\ ByteOrder[c][d] <=> c < d
          /\ ByteOrder[b][d] <=> b < d
      BY <2>1, Zenon
    <3> QED BY <2>4, <3>2, <3>3, Zenon
  <2> QED BY <2>3, <2>4 DEF StrictTotal
<1>2. \A s, t \in O!Bytes : BytesOrder[s][t] <=> LexLess(ByteOrder, s, t)
  BY BytesLessIs DEF BytesOrder
<1>3. O!Bytes \subseteq Seq(0 .. 255)
  BY DEF O!Bytes
<1> QED BY <1>1, <1>2, <1>3, SequencesOrdered

LEMMA BytesEqualIs ==
  ASSUME NEW s \in O!Bytes, NEW t \in O!Bytes
  PROVE  O!BytesEqual(s, t) <=> s = t
<1>1. Len(s) \in Nat /\ Len(t) \in Nat
  BY SeqDomain DEF O!Bytes
<1>2. Len(s) = Len(t) => (O!Memcmp(s, t, Len(s)) = 0 <=> \A j \in 1 .. Len(s) : s[j] = t[j])
  BY <1>1, MemcmpIs
<1>3. Len(s) = Len(t) /\ (\A j \in 1 .. Len(s) : s[j] = t[j]) => s = t
  BY SeqEqual DEF O!Bytes
<1> QED BY <1>2, <1>3 DEF O!BytesEqual

(* The keys of a map, and its entries: by key, then by value.              *)
KeysOf(type) == IF type = "array" THEN Nat ELSE O!Bytes
KeyOrder(type) == [k \in KeysOf(type) |-> [l \in KeysOf(type) |-> O!KeyLess(type, k, l)]]

LEMMA KeysOrdered == \A type : StrictTotal(KeysOf(type), KeyOrder(type))
<1>1. ASSUME NEW type, type = "array" PROVE StrictTotal(KeysOf(type), KeyOrder(type))
  <2>1. KeysOf(type) = Nat /\ \A k, l \in Nat : KeyOrder(type)[k][l] <=> k < l
    BY <1>1 DEF KeysOf, KeyOrder, O!KeyLess
  <2> QED BY <2>1 DEF StrictTotal
<1>2. ASSUME NEW type, type # "array" PROVE StrictTotal(KeysOf(type), KeyOrder(type))
  <2>1. KeysOf(type) = O!Bytes /\ \A k, l \in O!Bytes : KeyOrder(type)[k][l] <=> O!BytesLess(k, l)
    BY <1>2 DEF KeysOf, KeyOrder, O!KeyLess
  <2>2. KeyOrder(type) = BytesOrder
    BY <1>2 DEF KeysOf, KeyOrder, O!KeyLess, BytesOrder
  <2> QED BY <2>1, <2>2, BytesOrdered
<1> QED BY <1>1, <1>2

Entries(type, V) == [key : KeysOf(type), value : V]
EntryOrder(type, V, r) ==
  [p \in Entries(type, V) |-> [q \in Entries(type, V) |-> O!PairLess(type, p, q, r)]]

LEMMA EntriesOrdered ==
  ASSUME NEW type, NEW V, NEW r, StrictTotal(V, r)
  PROVE  StrictTotal(Entries(type, V), EntryOrder(type, V, r))
<1> DEFINE K == KeysOf(type)
           k == KeyOrder(type)
           E == Entries(type, V)
           o == EntryOrder(type, V, r)
<1>1. \A p \in E : p.key \in K /\ p.value \in V
  BY DEF Entries
<1>2. \A p, q \in E : o[p][q] <=> k[p.key][q.key] \/ (~k[q.key][p.key] /\ r[p.value][q.value])
  BY <1>1 DEF EntryOrder, O!PairLess, KeyOrder
<1>3. \A p, q \in E : p.key = q.key /\ p.value = q.value => p = q
  BY DEF Entries
<1>4. StrictTotal(K, k)
  BY KeysOrdered
<1> HIDE DEF K, k, E, o
<1>5. \A x, y \in K : ~k[x][y] /\ ~k[y][x] => x = y
  BY <1>4 DEF StrictTotal
<1>6. \A x \in K : ~k[x][x]
  BY <1>4 DEF StrictTotal
<1>7. \A p, q \in E : o[p][q] <=> k[p.key][q.key] \/ (p.key = q.key /\ r[p.value][q.value])
  <2>1. \A x, y \in K : k[x][y] => ~k[y][x]
    BY <1>4 DEF StrictTotal
  <2> QED BY <1>1, <1>2, <1>5, <1>6, <2>1
<1>8. ASSUME NEW p \in E, NEW q \in E
      PROVE  ~(o[p][q] /\ o[q][p]) /\ (p = q \/ o[p][q] \/ o[q][p])
  <2>1. /\ ~(k[p.key][q.key] /\ k[q.key][p.key])
        /\ p.key = q.key \/ k[p.key][q.key] \/ k[q.key][p.key]
        /\ ~(r[p.value][q.value] /\ r[q.value][p.value])
        /\ p.value = q.value \/ r[p.value][q.value] \/ r[q.value][p.value]
    BY <1>1, <1>4 DEF StrictTotal
  <2> QED BY <1>1, <1>3, <1>6, <1>7, <2>1
<1>9. ASSUME NEW p \in E, NEW q \in E, NEW u \in E, o[p][q], o[q][u] PROVE o[p][u]
  <2>1. /\ k[p.key][q.key] /\ k[q.key][u.key] => k[p.key][u.key]
        /\ r[p.value][q.value] /\ r[q.value][u.value] => r[p.value][u.value]
    BY <1>1, <1>4 DEF StrictTotal
  <2> QED BY <1>7, <1>9, <2>1
<1>10. StrictTotal(E, o)
  BY <1>8, <1>9 DEF StrictTotal
<1> QED BY <1>10 DEF E, o

(* Of maps, the shorter first, and then the first entry that differs.      *)
MapOrder(type, V, r) ==
  [m \in Seq(Entries(type, V)) |-> [k \in Seq(Entries(type, V)) |->
     Len(m) < Len(k) \/ (Len(m) = Len(k) /\ O!MapLess(type, m, k, r))]]

LEMMA MapLessIs ==
  ASSUME NEW type, NEW V, NEW r, StrictTotal(V, r),
         NEW m \in Seq(Entries(type, V)), NEW k \in Seq(Entries(type, V)), Len(m) = Len(k)
  PROVE  O!MapLess(type, m, k, r) <=> LexLess(EntryOrder(type, V, r), m, k)
<1> DEFINE E == Entries(type, V)
           o == EntryOrder(type, V, r)
<1>1. StrictTotal(E, o)
  BY EntriesOrdered
<1>2. \A p, q \in E : o[p][q] <=> O!PairLess(type, p, q, r)
  BY DEF EntryOrder
<1> HIDE DEF E, o
<1>3. \A p, q \in E : ~O!PairLess(type, p, q, r) /\ ~O!PairLess(type, q, p, r) <=> p = q
  BY <1>1, <1>2 DEF StrictTotal
<1>4. m \in Seq(E) /\ k \in Seq(E)
  BY DEF E
<1>5. DOMAIN m = DOMAIN k /\ \A i \in DOMAIN m : i \in Nat /\ m[i] \in E /\ k[i] \in E
  BY <1>4, SeqDomain
<1>6. \A i \in DOMAIN m : \A j \in 1 .. i - 1 : j \in DOMAIN m
  BY <1>4, SeqDomain
<1>7. \A i \in DOMAIN m :
        FirstLess(o, m, k, i) <=>
          /\ O!PairLess(type, m[i], k[i], r)
          /\ \A j \in 1 .. i - 1 : ~O!PairLess(type, m[j], k[j], r) /\ ~O!PairLess(type, k[j], m[j], r)
  <2>1. ASSUME NEW i \in DOMAIN m
        PROVE  /\ o[m[i]][k[i]] <=> O!PairLess(type, m[i], k[i], r)
               /\ \A j \in 1 .. i - 1 :
                    m[j] = k[j] <=> ~O!PairLess(type, m[j], k[j], r) /\ ~O!PairLess(type, k[j], m[j], r)
    BY <1>2, <1>3, <1>5, <1>6
  <2> QED BY <1>5, <2>1 DEF FirstLess
<1>8. O!MapLess(type, m, k, r) <=> \E i \in Nat : FirstLess(o, m, k, i)
  <2>1. \A i : FirstLess(o, m, k, i) => i \in DOMAIN m
    BY DEF FirstLess
  <2> QED BY <1>5, <1>7, <2>1 DEF O!MapLess
<1>9. ~(Len(m) < Len(k))
  BY <1>4, SeqDomain
<1>10. O!MapLess(type, m, k, r) <=> LexLess(o, m, k)
  BY <1>8, <1>9 DEF LexLess
<1> QED BY <1>10 DEF o

LEMMA MapsOrdered ==
  ASSUME NEW type, NEW V, NEW r, StrictTotal(V, r)
  PROVE  StrictTotal(Seq(Entries(type, V)), MapOrder(type, V, r))
<1> DEFINE E == Entries(type, V)
           o == EntryOrder(type, V, r)
           b == MapOrder(type, V, r)
<1>1. StrictTotal(E, o)
  BY EntriesOrdered
<1>2. \A m, k \in Seq(E) : b[m][k] <=> Len(m) < Len(k) \/ (Len(m) = Len(k) /\ LexLess(o, m, k))
  <2>1. \A m, k \in Seq(E) : b[m][k] <=> Len(m) < Len(k) \/ (Len(m) = Len(k) /\ O!MapLess(type, m, k, r))
    BY DEF MapOrder
  <2>2. \A m, k \in Seq(E) : Len(m) = Len(k) => (O!MapLess(type, m, k, r) <=> LexLess(o, m, k))
    BY MapLessIs
  <2> HIDE DEF b, o, E
  <2> QED BY <2>1, <2>2
<1> HIDE DEF E, o, b
<1>3. \A m \in Seq(E) : Len(m) \in Nat
  OBVIOUS
<1>4. ASSUME NEW m \in Seq(E), NEW k \in Seq(E)
      PROVE  ~(b[m][k] /\ b[k][m]) /\ (m = k \/ b[m][k] \/ b[k][m])
  <2>1. CASE Len(m) = Len(k)
    <3>1. (b[m][k] <=> LexLess(o, m, k)) /\ (b[k][m] <=> LexLess(o, k, m))
      BY <1>2, <1>3, <2>1
    <3> QED BY <1>1, <3>1, BeforeOneWay, BeforeOneOrOther
  <2>2. CASE Len(m) # Len(k)
    BY <1>2, <1>3, <2>2
  <2> QED BY <2>1, <2>2
<1>5. ASSUME NEW m \in Seq(E), NEW k \in Seq(E), NEW l \in Seq(E), b[m][k], b[k][l] PROVE b[m][l]
  <2>1. CASE Len(m) = Len(k) /\ Len(k) = Len(l)
    <3>1. LexLess(o, m, k) /\ LexLess(o, k, l)
      BY <1>2, <1>3, <1>5, <2>1
    <3> QED BY <1>1, <1>2, <2>1, <3>1, BeforeFollows
  <2>2. CASE ~(Len(m) = Len(k) /\ Len(k) = Len(l))
    <3>1. Len(m) <= Len(k) /\ Len(k) <= Len(l)
      BY <1>2, <1>3, <1>5
    <3>2. Len(m) < Len(l)
      BY <1>3, <2>2, <3>1
    <3> QED BY <1>2, <3>2
  <2> QED BY <2>1, <2>2
<1>6. StrictTotal(Seq(E), b)
  BY <1>4, <1>5 DEF StrictTotal
<1> QED BY <1>6 DEF E, b

(* Values that differ in what they hold are ordered as what they hold.     *)
LEMMA ByWhatIsHeld ==
  ASSUME NEW U, NEW r, NEW type, NEW M, NEW b, StrictTotal(M, b),
         \A v \in U : v = [type |-> type, of |-> v.of] /\ v.of \in M,
         \A v, w \in U : r[v][w] <=> b[v.of][w.of]
  PROVE  StrictTotal(U, r)
<1>1. \A v, w \in U : v.of = w.of => v = w
  OBVIOUS
<1> QED BY <1>1 DEF StrictTotal

(* The types are told apart by their numbers.                              *)
LEMMA TypeNumbers ==
  ASSUME NEW v \in Ordered
  PROVE  /\ O!TypeNumber(v) \in 1 .. 8
         /\ O!TypeOrder[O!TypeNumber(v)] = v.type
<1>1. O!IsTyped(v)
  BY OrderedAssumption DEF O!AreTrees
<1>2. v.type \in {"null", "int", "uint", "real", "string", "boolean", "array", "object"}
  BY <1>1 DEF O!IsTyped
<1>3. DOMAIN O!TypeOrder = 1 .. 8
  BY DEF O!TypeOrder
<1>4. \E i \in DOMAIN O!TypeOrder : O!TypeOrder[i] = v.type
  <2>1. /\ O!TypeOrder[1] = "null" /\ O!TypeOrder[2] = "int" /\ O!TypeOrder[3] = "uint"
        /\ O!TypeOrder[4] = "real" /\ O!TypeOrder[5] = "string" /\ O!TypeOrder[6] = "boolean"
        /\ O!TypeOrder[7] = "array" /\ O!TypeOrder[8] = "object"
    BY DEF O!TypeOrder
  <2>2. \A i \in {1, 2, 3, 4, 5, 6, 7, 8} : i \in DOMAIN O!TypeOrder
    BY <1>3
  <2> HIDE DEF O!TypeOrder
  <2> QED BY <1>2, <2>1, <2>2
<1> QED BY <1>3, <1>4 DEF O!TypeNumber

OfType(n, type) == {v \in Upto(n) : v.type = type}

LEMMA ContainersOrdered ==
  ASSUME NEW n \in Nat, StrictTotal(Upto(n), O!Less), NEW type \in {"array", "object"}
  PROVE  StrictTotal(OfType(n + 1, type), O!Less)
<1> DEFINE U == OfType(n + 1, type)
           M == Seq(Entries(type, Upto(n)))
           b == MapOrder(type, Upto(n), O!Less)
<1>1. StrictTotal(M, b)
  BY MapsOrdered
<1>2. ASSUME NEW v \in U PROVE v = [type |-> type, of |-> v.of] /\ v.of \in M
  <2>1. v \in Upto(n + 1) /\ v.type = type /\ v \in Ordered /\ IsContainer(v)
    BY DEF OfType, Upto, IsContainer
  <2>2. v = [type |-> type, of |-> v.of]
    BY <2>1, OrderedAssumption DEF O!AreTrees
  <2>3. /\ v.of \in Seq([key : KeysOf(type), value : Ordered])
        /\ \A i \in DOMAIN v.of : v.of[i].value \in Upto(n)
    BY <2>1, HeldIsLess DEF KeysOf
  <2>4. ASSUME NEW i \in DOMAIN v.of PROVE v.of[i] \in Entries(type, Upto(n))
    <3>1. v.of[i] \in [key : KeysOf(type), value : Ordered]
      BY <2>3, SeqDomain
    <3> QED BY <2>3, <3>1 DEF Entries
  <2>5. v.of \in M
    <3>1. DOMAIN v.of = 1 .. Len(v.of) /\ Len(v.of) \in Nat /\ v.of = [i \in 1 .. Len(v.of) |-> v.of[i]]
      BY <2>3
    <3> QED BY <2>4, <3>1
  <2> QED BY <2>2, <2>5
<1>3. ASSUME NEW v \in U, NEW w \in U PROVE O!Less[v][w] <=> b[v.of][w.of]
  <2>1. v \in Ordered /\ w \in Ordered /\ v.type = type /\ w.type = type
    BY DEF OfType, Upto
  <2>2. O!Less[v][w] <=> O!ValueLess(v, w, O!Less)
    BY <2>1, LessIs
  <2>3. ~(O!TypeNumber(v) < O!TypeNumber(w))
    <3>1. O!TypeNumber(v) = O!TypeNumber(w)
      BY <2>1 DEF O!TypeNumber
    <3> QED BY <2>1, <3>1, TypeNumbers
  <2>4. O!ValueLess(v, w, O!Less) <=>
          \/ Len(v.of) < Len(w.of)
          \/ Len(v.of) = Len(w.of) /\ O!MapLess(type, v.of, w.of, O!Less)
    BY <2>1, <2>3 DEF O!ValueLess
  <2>5. v.of \in M /\ w.of \in M
    BY <1>2
  <2> QED BY <2>2, <2>4, <2>5 DEF MapOrder
<1> HIDE DEF U, M, b
<1>4. StrictTotal(U, O!Less)
  BY <1>1, <1>2, <1>3, ByWhatIsHeld
<1> QED BY <1>4 DEF U

LEMMA ScalarsOrdered ==
  ASSUME NEW n \in Nat,
         NEW type \in {"null", "int", "uint", "real", "string", "boolean"}
  PROVE  StrictTotal(OfType(n, type), O!Less)
<1> DEFINE U == OfType(n, type)
<1>1. ASSUME NEW v \in U, NEW w \in U
      PROVE  /\ O!Less[v][w] <=> CASE type = "null"   -> FALSE
                                   [] type = "string" -> O!BytesLess(v.of, w.of)
                                   [] OTHER           -> v.of < w.of
             /\ v = [type |-> type, of |-> v.of]
             /\ O!IsTyped(v) /\ v.type = type
  <2>1. v \in Ordered /\ w \in Ordered /\ v.type = type /\ w.type = type
    BY DEF OfType, Upto
  <2>2. O!Less[v][w] <=> O!ValueLess(v, w, O!Less)
    BY <2>1, LessIs
  <2>3. ~(O!TypeNumber(v) < O!TypeNumber(w))
    <3>1. O!TypeNumber(v) = O!TypeNumber(w)
      BY <2>1 DEF O!TypeNumber
    <3> QED BY <2>1, <3>1, TypeNumbers
  <2>4. O!ValueLess(v, w, O!Less) <=> CASE type = "null"   -> FALSE
                                        [] type = "string" -> O!BytesLess(v.of, w.of)
                                        [] OTHER           -> v.of < w.of
    BY <2>1, <2>3 DEF O!ValueLess
  <2>5. v = [type |-> type, of |-> v.of] /\ O!IsTyped(v)
    BY <2>1, OrderedAssumption DEF O!AreTrees
  <2> QED BY <2>1, <2>2, <2>4, <2>5
<1> HIDE DEF U
<1>2. CASE type = "null"
  <2>1. \A v, w \in U : v = w /\ ~O!Less[v][w]
    BY <1>1, <1>2 DEF O!IsTyped
  <2> QED BY <2>1 DEF U, StrictTotal
<1>3. CASE type = "string"
  <2>1. \A v \in U : v = [type |-> type, of |-> v.of] /\ v.of \in O!Bytes
    BY <1>1, <1>3 DEF O!IsTyped
  <2>2. \A v, w \in U : O!Less[v][w] <=> BytesOrder[v.of][w.of]
    BY <1>1, <1>3, <2>1 DEF BytesOrder
  <2>3. StrictTotal(U, O!Less)
    BY <2>1, <2>2, BytesOrdered, ByWhatIsHeld
  <2> QED BY <2>3 DEF U
<1>4. CASE type \in {"int", "uint", "real", "boolean"}
  <2> DEFINE b == [i \in Int |-> [j \in Int |-> i < j]]
  <2>1. \A v \in U : v = [type |-> type, of |-> v.of] /\ v.of \in Int
    BY <1>1, <1>4 DEF O!IsTyped
  <2>2. \A i, j \in Int : b[i][j] <=> i < j
    OBVIOUS
  <2> HIDE DEF b
  <2>3. \A v, w \in U : O!Less[v][w] <=> v.of < w.of
    BY <1>1, <1>4
  <2>4. \A v, w \in U : O!Less[v][w] <=> b[v.of][w.of]
    BY <2>1, <2>2, <2>3
  <2>5. StrictTotal(Int, b)
    BY <2>2 DEF StrictTotal
  <2>6. StrictTotal(U, O!Less)
    BY <2>1, <2>4, <2>5, ByWhatIsHeld
  <2> QED BY <2>6 DEF U
<1> QED BY <1>2, <1>3, <1>4

LEMMA LevelOrdered ==
  ASSUME NEW n \in Nat, StrictTotal(Upto(n), O!Less)
  PROVE  StrictTotal(Upto(n + 1), O!Less)
<1> DEFINE U == Upto(n + 1)
           TypeOf(v) == O!TypeNumber(v)
<1>1. \A v \in U : v \in Ordered /\ TypeOf(v) \in Int
  BY TypeNumbers DEF Upto
<1>2. \A v, w \in U : v.type = w.type <=> TypeOf(v) = TypeOf(w)
  <2>1. \A v, w \in U : TypeOf(v) = TypeOf(w) => v.type = w.type
    BY <1>1, TypeNumbers
  <2>2. \A v, w \in U : v.type = w.type => TypeOf(v) = TypeOf(w)
    BY DEF O!TypeNumber
  <2> QED BY <2>1, <2>2
<1>3. \A v \in U : StrictTotal(OfType(n + 1, v.type), O!Less)
  <2>1. ASSUME NEW v \in U PROVE StrictTotal(OfType(n + 1, v.type), O!Less)
    <3>1. O!IsTyped(v)
      BY <1>1, OrderedAssumption DEF O!AreTrees
    <3>2. v.type \in {"null", "int", "uint", "real", "string", "boolean", "array", "object"}
      BY <3>1 DEF O!IsTyped
    <3>3. n + 1 \in Nat
      OBVIOUS
    <3>4. CASE v.type \in {"array", "object"}
      BY <3>4, ContainersOrdered
    <3>5. CASE v.type \in {"null", "int", "uint", "real", "string", "boolean"}
      BY <3>3, <3>5, ScalarsOrdered
    <3> QED BY <3>2, <3>4, <3>5
  <2> QED BY <2>1
<1>4. ASSUME NEW v \in U, NEW w \in U, v.type # w.type PROVE O!Less[v][w] <=> TypeOf(v) < TypeOf(w)
  BY <1>1, <1>4, LessIs DEF O!ValueLess
<1>5. ASSUME NEW v \in U, NEW w \in U, TypeOf(v) < TypeOf(w) PROVE O!Less[v][w]
  BY <1>1, <1>5, LessIs DEF O!ValueLess
<1>6. \A v, w \in U : v.type = w.type => v \in OfType(n + 1, w.type)
  BY DEF OfType
<1> HIDE DEF U, TypeOf
<1>7. ASSUME NEW v \in U, NEW w \in U
      PROVE  /\ ~(O!Less[v][w] /\ O!Less[w][v])
             /\ v = w \/ O!Less[v][w] \/ O!Less[w][v]
  <2>1. CASE v.type = w.type
    BY <1>3, <1>6, <2>1 DEF StrictTotal
  <2>2. CASE v.type # w.type
    <3>1. (O!Less[v][w] <=> TypeOf(v) < TypeOf(w)) /\ (O!Less[w][v] <=> TypeOf(w) < TypeOf(v)) /\ TypeOf(v) # TypeOf(w)
      BY <1>2, <1>4, <2>2
    <3> QED BY <1>1, <3>1
  <2> QED BY <2>1, <2>2
<1>8. ASSUME NEW v \in U, NEW w \in U, NEW u \in U, O!Less[v][w], O!Less[w][u]
      PROVE  O!Less[v][u]
  <2>1. CASE v.type = w.type /\ w.type = u.type
    <3>1. v \in OfType(n + 1, v.type) /\ w \in OfType(n + 1, v.type) /\ u \in OfType(n + 1, v.type)
      BY <1>6, <2>1
    <3> QED BY <1>3, <1>8, <3>1 DEF StrictTotal
  <2>2. CASE ~(v.type = w.type /\ w.type = u.type)
    <3>1. TypeOf(v) = TypeOf(w) \/ TypeOf(v) < TypeOf(w)
      BY <1>2, <1>4, <1>8
    <3>2. TypeOf(w) = TypeOf(u) \/ TypeOf(w) < TypeOf(u)
      BY <1>2, <1>4, <1>8
    <3>3. ~(TypeOf(v) = TypeOf(w) /\ TypeOf(w) = TypeOf(u))
      BY <1>2, <2>2
    <3>4. TypeOf(v) < TypeOf(u)
      BY <1>1, <3>1, <3>2, <3>3
    <3> QED BY <1>5, <3>4
  <2> QED BY <2>1, <2>2
<1>9. StrictTotal(U, O!Less)
  BY <1>7, <1>8 DEF StrictTotal
<1> QED BY <1>9 DEF U

LEMMA ValuesOrdered == StrictTotal(Ordered, O!Less)
<1> DEFINE Z == {n \in Nat : StrictTotal(Upto(n), O!Less)}
<1>1. 0 \in Z
  BY NestingTyped DEF StrictTotal, Upto
<1>2. \A n \in Z : n + 1 \in Z
  BY LevelOrdered
<1> HIDE DEF Z
<1>3. Z = Nat
  BY <1>1, <1>2, SetInduction DEF Z
<1>4. \A n \in Nat : StrictTotal(Upto(n), O!Less)
  BY <1>3 DEF Z
<1>5. ASSUME NEW x \in Ordered, NEW y \in Ordered, NEW z \in Ordered
      PROVE  \E n \in Nat : x \in Upto(n) /\ y \in Upto(n) /\ z \in Upto(n)
  <2> DEFINE n == Nesting[x] + Nesting[y] + Nesting[z] + 1
  <2>1. Nesting[x] \in Nat /\ Nesting[y] \in Nat /\ Nesting[z] \in Nat
    BY NestingTyped
  <2>2. n \in Nat /\ Nesting[x] < n /\ Nesting[y] < n /\ Nesting[z] < n
    BY <2>1
  <2> HIDE DEF n
  <2> QED BY <2>2 DEF Upto
<1> QED BY <1>4, <1>5 DEF StrictTotal

(* operator== holds of a value and itself only.                            *)
LEMMA EqualValues ==
  ASSUME NEW n \in Nat, \A v, w \in Upto(n) : O!Equal[v][w] <=> v = w
  PROVE  \A v, w \in Upto(n + 1) : O!Equal[v][w] <=> v = w
<1> TAKE v \in Upto(n + 1), w \in Upto(n + 1)
<1>1. v \in Ordered /\ w \in Ordered
  BY DEF Upto
<1>2. O!Equal[v][w] <=> O!ValueEqual(v, w, O!Equal)
  BY <1>1, EqualIs
<1>3. /\ v = [type |-> v.type, of |-> v.of] /\ O!IsTyped(v)
      /\ w = [type |-> w.type, of |-> w.of] /\ O!IsTyped(w)
  BY <1>1, OrderedAssumption DEF O!AreTrees
<1>4. v = w <=> v.type = w.type /\ v.of = w.of
  BY <1>3
<1>5. ASSUME v.type = w.type PROVE O!ValueEqual(v, w, O!Equal) <=> v.of = w.of
  <2>1. CASE v.type = "null"
    BY <1>3, <1>5, <2>1 DEF O!ValueEqual, O!IsTyped
  <2>2. CASE v.type = "string"
    <3>1. v.of \in O!Bytes /\ w.of \in O!Bytes
      BY <1>3, <1>5, <2>2 DEF O!IsTyped
    <3>2. O!ValueEqual(v, w, O!Equal) <=> O!BytesEqual(v.of, w.of)
      BY <1>5, <2>2 DEF O!ValueEqual
    <3> QED BY <3>1, <3>2, BytesEqualIs
  <2>3. CASE IsContainer(v)
    <3> DEFINE type == v.type
               m == v.of
               k == w.of
    <3>0. IsContainer(w)
      BY <1>5, <2>3 DEF IsContainer
    <3>1. O!ValueEqual(v, w, O!Equal) <=> O!MapEqual(type, m, k, O!Equal)
      BY <1>5, <2>3 DEF O!ValueEqual, IsContainer
    <3>2. /\ m \in Seq([key : KeysOf(type), value : Ordered])
          /\ k \in Seq([key : KeysOf(type), value : Ordered])
          /\ \A i \in DOMAIN m : m[i].value \in Upto(n)
          /\ \A i \in DOMAIN k : k[i].value \in Upto(n)
      BY <1>5, <2>3, <3>0, HeldIsLess DEF KeysOf
    <3>3. type \in {"array", "object"}
      BY <2>3 DEF IsContainer
    <3> HIDE DEF type, m, k
    <3>4. ASSUME NEW x \in KeysOf(type), NEW y \in KeysOf(type)
          PROVE  O!KeyEqual(type, x, y) <=> x = y
      BY <3>3, BytesEqualIs DEF KeysOf, O!KeyEqual
    <3>5. ASSUME Len(m) = Len(k), NEW i \in DOMAIN m
          PROVE  /\ i \in DOMAIN k
                 /\ m[i] = k[i] <=> /\ O!KeyEqual(type, m[i].key, k[i].key)
                                    /\ O!Equal[m[i].value][k[i].value]
      <4>1. i \in DOMAIN k
        BY <3>2, <3>5, SeqDomain
      <4>2. /\ m[i] \in [key : KeysOf(type), value : Ordered]
            /\ k[i] \in [key : KeysOf(type), value : Ordered]
        BY <3>2, <3>5, <4>1, SeqDomain
      <4>3. m[i] = k[i] <=> m[i].key = k[i].key /\ m[i].value = k[i].value
        BY <4>2
      <4>4. O!Equal[m[i].value][k[i].value] <=> m[i].value = k[i].value
        BY <3>2, <3>5, <4>1
      <4>5. O!KeyEqual(type, m[i].key, k[i].key) <=> m[i].key = k[i].key
        BY <3>4, <4>2
      <4> QED BY <4>1, <4>3, <4>4, <4>5
    <3>6. O!MapEqual(type, m, k, O!Equal) <=> Len(m) = Len(k) /\ \A i \in DOMAIN m : m[i] = k[i]
      BY <3>5 DEF O!MapEqual
    <3>7. Len(m) = Len(k) /\ (\A i \in DOMAIN m : m[i] = k[i]) <=> m = k
      BY <3>2, SeqDomain, SeqEqual
    <3>8. O!MapEqual(type, m, k, O!Equal) <=> m = k
      BY <3>6, <3>7
    <3> QED BY <3>1, <3>8 DEF m, k
  <2>4. CASE v.type \in {"int", "uint", "real", "boolean"}
    BY <1>5, <2>4 DEF O!ValueEqual
  <2> QED BY <1>3, <2>1, <2>2, <2>3, <2>4 DEF O!IsTyped, IsContainer
<1>6. v.type # w.type => ~O!ValueEqual(v, w, O!Equal)
  BY DEF O!ValueEqual
<1> QED BY <1>2, <1>4, <1>5, <1>6

LEMMA EqualIsSame == \A v, w \in Ordered : O!Equal[v][w] <=> v = w
<1> DEFINE Z == {n \in Nat : \A v, w \in Upto(n) : O!Equal[v][w] <=> v = w}
<1>1. 0 \in Z
  BY NestingTyped DEF Upto
<1>2. \A n \in Z : n + 1 \in Z
  BY EqualValues
<1> HIDE DEF Z
<1>3. Z = Nat
  BY <1>1, <1>2, SetInduction DEF Z
<1>4. ASSUME NEW v \in Ordered, NEW w \in Ordered PROVE O!Equal[v][w] <=> v = w
  <2> DEFINE n == Nesting[v] + Nesting[w] + 1
  <2>1. Nesting[v] \in Nat /\ Nesting[w] \in Nat
    BY NestingTyped
  <2>2. n \in Nat /\ Nesting[v] < n /\ Nesting[w] < n
    BY <2>1
  <2> HIDE DEF n
  <2>3. v \in Upto(n) /\ w \in Upto(n)
    BY <2>2 DEF Upto
  <2> QED BY <1>3, <2>2, <2>3 DEF Z
<1> QED BY <1>4

LEMMA OneOfThree ==
  ASSUME NEW x \in Ordered, NEW y \in Ordered
  PROVE  ExactlyOne(x, y)
<1> DEFINE holds == {r \in {"<", ">", "=="} : CASE r = "<"  -> O!Less[x][y]
                                               [] r = ">"  -> O!Less[y][x]
                                               [] r = "==" -> O!Equal[x][y]}
<1>1. /\ ~(O!Less[x][y] /\ O!Less[y][x])
      /\ x = y \/ O!Less[x][y] \/ O!Less[y][x]
      /\ ~O!Less[x][x]
  BY ValuesOrdered DEF StrictTotal
<1>2. O!Equal[x][y] <=> x = y
  BY EqualIsSame
<1>3. \E r : holds = {r}
  <2>1. CASE x = y
    <3>1. holds = {"=="}
      BY <1>1, <1>2, <2>1
    <3> QED BY <3>1
  <2>2. CASE x # y /\ O!Less[x][y]
    <3>1. holds = {"<"}
      BY <1>1, <1>2, <2>2
    <3> QED BY <3>1
  <2>3. CASE x # y /\ O!Less[y][x]
    <3>1. holds = {">"}
      BY <1>1, <1>2, <2>3
    <3> QED BY <3>1
  <2> QED BY <1>1, <2>1, <2>2, <2>3
<1>4. Cardinality(holds) = 1
  <2> HIDE DEF holds
  <2> QED BY <1>3, FS_Singleton
<1>5. O!Compare(x, y) = 0 <=> x = y
  BY <1>1 DEF O!Compare
<1>6. O!Compare(x, y) = -O!Compare(y, x)
  BY <1>1 DEF O!Compare
<1> QED BY <1>4, <1>5, <1>6 DEF ExactlyOne

(* The values that are compared are any three, and stay.                   *)
TripleOK == part = "order" => triple \in Ordered \X Ordered \X Ordered

(***************************************************************************)
(* operator<, operator== and compare() make of the values (without NaN) a  *)
(* total order: of two, exactly one is the smaller or they are equal, and  *)
(* the order is transitive.  This is of values of any depth, with any      *)
(* numbers, strings and keys in them.                                      *)
(***************************************************************************)
THEOREM ValuesAreOrdered == ProgramSpec => []TotalOrder
<1>1. ProgramInit => TripleOK
  BY DEF ProgramInit, TripleOK, ScalarsInit
<1>2. TripleOK /\ [ProgramNext]_programVars => TripleOK'
  BY DEF TripleOK, ProgramNext, programVars
<1>3. TripleOK => TotalOrder
  <2> SUFFICES ASSUME TripleOK, part = "order" PROVE TotalOrder
    BY DEF TotalOrder
  <2>1. triple[1] \in Ordered /\ triple[2] \in Ordered /\ triple[3] \in Ordered
    BY DEF TripleOK
  <2>2. ExactlyOne(triple[1], triple[2])
    BY <2>1, OneOfThree
  <2>3. O!Less[triple[1]][triple[2]] /\ O!Less[triple[2]][triple[3]] => O!Less[triple[1]][triple[3]]
    BY <2>1, ValuesOrdered DEF StrictTotal
  <2> QED BY <2>2, <2>3 DEF TotalOrder
<1> QED BY <1>1, <1>2, <1>3, PTL DEF ProgramSpec
=============================================================================
