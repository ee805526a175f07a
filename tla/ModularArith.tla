---------------------------- MODULE ModularArith ----------------------------
(***************************************************************************)
(* Lemmas about numbers that the proofs of several components need and the *)
(* solver does not find by itself: % for any modulus, as rings, masks and  *)
(* pages are remainders in the models, and the least of a set.             *)
(***************************************************************************)
EXTENDS Integers, FiniteSetsExt, NaturalsInduction, WellFoundedInduction, TLAPS

\* Quotient and remainder.
LEMMA DivMod == ASSUME NEW m \in Nat \ {0}, NEW x \in Int
  PROVE  /\ x \div m \in Int /\ x % m \in 0 .. m - 1
         /\ x % m = x - m * (x \div m)
 BY SMT
\* The remainder is what is left of a multiple.
LEMMA ModUnique ==
  ASSUME NEW m \in Nat \ {0}, NEW q \in Int, NEW r \in 0 .. m - 1
  PROVE  (m * q + r) % m = r
 BY SMT
\* Below the modulus nothing is taken away.
LEMMA ModSmall == ASSUME NEW m \in Nat \ {0}, NEW r \in 0 .. m - 1 PROVE r % m = r
 BY SMT
\* Products of naturals.
LEMMA ProductNat == ASSUME NEW a \in Nat, NEW b \in Nat PROVE a * b \in Nat
 BY SMT
\* The ring laws, for products the solver takes as opaque.
LEMMA Distribute == ASSUME NEW a \in Int, NEW b \in Int, NEW c \in Int 
  PROVE /\ a * (b + c) = a * b + a * c /\ a * (b - c) = a * b - a * c /\ a * 1 = a
        /\ a * (b * c) = (a * b) * c /\ a * b = b * a /\ a * b \in Int
 BY SMT
\* The modulus itself.
LEMMA SelfMod ==
  ASSUME NEW m \in Nat \ {0}
  PROVE  m % m = 0
<1>1. m * 1 + 0 = m /\ 0 \in 0 .. m - 1
  OBVIOUS
<1>2. (m * 1 + 0) % m = 0
  BY <1>1, ModUnique
<1> QED BY <1>1, <1>2

\* Multiples of the modulus do not matter.
LEMMA ModShift ==
  ASSUME NEW m \in Nat \ {0}, NEW q \in Int, NEW x \in Int
  PROVE  (m * q + x) % m = x % m
<1> DEFINE d == x \div m
           r == x % m
           p == m * d
<1>1. d \in Int /\ r = x - p /\ r \in 0 .. m - 1
  BY DivMod
<1> HIDE DEF d, r
<1>2. p \in Int /\ m * q \in Int /\ m * (q + d) = m * q + p
  BY <1>1, Distribute
<1>3. (m * (q + d) + r) % m = r
  BY <1>1, ModUnique
<1> HIDE DEF p
<1>4. m * (q + d) + r = m * q + x
  BY <1>1, <1>2
<1> QED BY <1>3, <1>4 DEF r
\* One more, or back to zero.
LEMMA SuccMod ==
  ASSUME NEW m \in Nat \ {0}, NEW x \in Int
  PROVE  (x + 1) % m = IF x % m = m - 1 THEN 0 ELSE (x % m) + 1
<1> DEFINE d == x \div m
<1>1. d \in Int /\ x % m = x - m * d /\ x % m \in 0 .. m - 1
  BY DivMod
<1>2. m * d \in Int /\ m * (d + 1) = m * d + m
  BY <1>1, Distribute
<1> HIDE DEF d
<1>3. CASE x % m = m - 1
  <2>1. x + 1 = m * (d + 1) + 0
    BY <1>1, <1>2, <1>3
  <2>2. (m * (d + 1) + 0) % m = 0
    BY <1>1, ModUnique
  <2> QED BY <2>1, <2>2, <1>3
<1>4. CASE x % m # m - 1
  <2>1. x + 1 = m * d + ((x % m) + 1) /\ (x % m) + 1 \in 0 .. m - 1
    BY <1>1, <1>2, <1>4
  <2>2. (m * d + ((x % m) + 1)) % m = (x % m) + 1
    BY <1>1, <2>1, ModUnique
  <2> QED BY <2>1, <2>2, <1>4
<1> QED BY <1>3, <1>4

\* The remainder by a multiple of m tells the remainder by m.
LEMMA ModMod ==
  ASSUME NEW m \in Nat \ {0}, NEW n \in Nat \ {0}, n % m = 0, NEW x \in Int
  PROVE  (x % n) % m = x % m
<1> DEFINE k == n \div m
           d == x \div n
           r == x % n
           p == n * d
<1>1. k \in Int /\ n % m = n - m * k /\ m * k \in Int
  BY DivMod, Distribute
<1>2. d \in Int /\ r = x - p /\ r \in 0 .. n - 1
  BY DivMod
<1>3. n = m * k
  BY <1>1
<1> HIDE DEF k, d, r
<1>4. p = m * (k * d) /\ k * d \in Int /\ p \in Int
  BY <1>1, <1>2, <1>3, Distribute
<1>5. (m * (k * d) + r) % m = r % m
  <2>1. r \in Int
    BY <1>2
  <2> QED BY <1>4, <2>1, ModShift
<1> HIDE DEF p
<1>6. p + r = x
  BY <1>2, <1>4
<1> QED BY <1>4, <1>5, <1>6 DEF r

\* Counting on from a remainder.
LEMMA ModSucc ==
  ASSUME NEW m \in Nat \ {0}, NEW n \in Nat \ {0}, n % m = 0, NEW x \in Int
  PROVE  ((x + 1) % n) % m = ((x % m) + 1) % m
<1>1. ((x + 1) % n) % m = (x + 1) % m
  <2>1. x + 1 \in Int
    OBVIOUS
  <2> QED BY <2>1, ModMod
<1>2. x % m \in 0 .. m - 1
  BY DivMod
<1>3. (x % m) % m = x % m /\ x % m \in Int
  BY <1>2, ModSmall
<1>4. (x + 1) % m = IF x % m = m - 1 THEN 0 ELSE (x % m) + 1
  BY SuccMod
<1> DEFINE a == x % m
<1>5. (a + 1) % m = IF a % m = m - 1 THEN 0 ELSE (a % m) + 1
  <2>1. a \in Int
    BY <1>3
  <2> HIDE DEF a
  <2> QED BY <2>1, SuccMod
<1>6. a % m = a
  BY <1>3
<1>7. (x + 1) % m = IF a = m - 1 THEN 0 ELSE a + 1
  BY <1>4
<1> HIDE DEF a
<1>8. (a + 1) % m = (x + 1) % m
  BY <1>5, <1>6, <1>7
<1> QED BY <1>1, <1>8 DEF a

\* Below a multiple of m there is room for the rest of its m numbers.
LEMMA RoomForBlock ==
  ASSUME NEW m \in Nat \ {0}, NEW n \in Nat \ {0}, n % m = 0, NEW x \in 0 .. n - 1
  PROVE  x - (x % m) \in 0 .. n - m
<1> DEFINE k == n \div m
           d == x \div m
           p == m * d
           s == m * (k - d - 1)
<1>1. k \in Int /\ n % m = n - m * k /\ m * k \in Int
  BY DivMod, Distribute
<1>2. d \in Int /\ x % m = x - p /\ x % m \in 0 .. m - 1
  <2>1. x \in Int
    OBVIOUS
  <2> QED BY <2>1, DivMod
<1>3. p \in Int
  BY <1>2, Distribute
<1>4. s = m * k - p - m /\ s \in Int
  <2> HIDE DEF k, d
  <2>1. m * (k - d - 1) = m * (k - d) - m * 1 /\ m * (k - d) = m * k - m * d
    BY <1>1, <1>2, Distribute
  <2>2. m * 1 = m
    BY Distribute
  <2> QED BY <1>1, <1>2, <1>3, <2>1, <2>2
<1>5. k > d
  BY <1>1, <1>2, <1>3, <1>4, SMT
<1>6. s >= 0
  BY <1>1, <1>2, <1>5, ProductNat
<1>7. p >= 0
  BY <1>2, <1>3
<1> HIDE DEF p, s
<1> QED BY <1>1, <1>2, <1>3, <1>4, <1>6, <1>7

\* Less than is well founded, and so a set of naturals has a least element.
LEMMA LessThan == IsWellFoundedOn({p \in Nat \X Nat : p[1] < p[2]}, Nat)
  BY NatLessThanWellFounded DEF OpToRel

\* The least of a nonempty set of naturals is one of them.
LEMMA MinIs ==
  ASSUME NEW S, S \subseteq Nat, S # {}
  PROVE  Min(S) \in S /\ \A y \in S : Min(S) <= y
<1>1. PICK x \in S : \A y \in S : ~(<<y, x>> \in {p \in Nat \X Nat : p[1] < p[2]})
  BY LessThan, WFMin
<1>2. \A y \in S : x <= y
  <2> TAKE y \in S
  <2>1. x \in Nat /\ y \in Nat
    OBVIOUS
  <2>2. ~(y < x)
    <3>1. y < x => <<y, x>> \in {p \in Nat \X Nat : p[1] < p[2]}
      BY <2>1
    <3> QED BY <1>1, <3>1
  <2> QED BY <2>1, <2>2
<1>3. \E x2 \in S : \A y \in S : x2 <= y
  BY <1>2
<1> QED BY <1>3 DEF Min
=============================================================================
