------------------------- MODULE ArithmeticLemmas -------------------------
(***************************************************************************)
(* Facts about numbers that the proofs of several components rest on:      *)
(* quotients and remainders, the windows of w numbers from each multiple   *)
(* of w on, and induction.                                                 *)
(***************************************************************************)
EXTENDS Integers, NaturalsInduction, WellFoundedInduction, TLAPS

\* Division with a remainder.
LEMMA Division ==
  ASSUME NEW n \in Nat, NEW w \in Nat \ {0}
  PROVE  /\ n \div w \in Nat /\ n % w \in 0..(w - 1)
         /\ n = (n \div w) * w + (n % w)
  BY Z3

\* Multiples are in the order of their factors.
LEMMA Monotone ==
  ASSUME NEW a \in Int, NEW b \in Int, NEW w \in Nat, a <= b
  PROVE  a * w <= b * w
  BY Z3

\* Number m is in window a or a later one.
LEMMA WindowFrom ==
  ASSUME NEW m \in Nat, NEW w \in Nat \ {0}, NEW a \in Nat
  PROVE  a <= m \div w <=> a * w <= m
<1>1. /\ m \div w \in Nat /\ m % w \in 0..(w - 1)
      /\ m = (m \div w) * w + (m % w)
  BY Division, Zenon
<1>2. ASSUME a <= m \div w PROVE a * w <= m
  <2>1. a * w <= (m \div w) * w
    BY <1>1, <1>2, Monotone
  <2> QED
    BY <1>1, <2>1, Z3
<1>3. ASSUME m \div w < a PROVE m < a * w
  <2>1. ((m \div w) + 1) * w <= a * w
    BY <1>1, <1>3, Monotone
  <2>2. ((m \div w) + 1) * w = (m \div w) * w + w
    BY <1>1, Z3
  <2> QED
    BY <1>1, <2>1, <2>2, Z3
<1> QED
  BY <1>1, <1>2, <1>3, Z3

\* Number k is in window a.
LEMMA InWindow ==
  ASSUME NEW k \in Nat, NEW w \in Nat \ {0}, NEW a \in Nat, a * w <= k, k < (a + 1) * w
  PROVE  k \div w = a
<1>1. a <= k \div w
  BY WindowFrom
<1>2. ~(a + 1 <= k \div w)
  BY WindowFrom, Z3
<1> QED
  BY <1>1, <1>2, Division, Z3

\* The remainder, from quotient and remainder.
LEMMA Remainder ==
  ASSUME NEW n \in Nat, NEW d \in Nat, NEW w \in Nat \ {0}, NEW r \in 0..(w - 1),
         n = d * w + r
  PROVE  n % w = r
<1>1. d * w \in Nat /\ d * w <= n /\ (d + 1) * w = d * w + w
  BY Z3
<1>2. n < (d + 1) * w
  BY <1>1
<1>3. n \div w = d
  BY <1>1, <1>2, InWindow
<1>4. n = (n \div w) * w + (n % w) /\ n % w \in Nat
  BY Division
<1>5. n = d * w + (n % w)
  BY <1>3, <1>4, Zenon
<1> QED
  BY <1>1, <1>4, <1>5

\* Quotient and remainder of what is put together from them.
LEMMA Quotient ==
  ASSUME NEW a \in Nat, NEW w \in Nat \ {0}, NEW r \in 0..(w - 1)
  PROVE  (a * w + r) \div w = a /\ (a * w + r) % w = r
  BY Z3

\* A number without remainder.
LEMMA Multiple ==
  ASSUME NEW n \in Nat, NEW w \in Nat \ {0}, n % w = 0
  PROVE  n = (n \div w) * w /\ n \div w \in Nat
  BY Division, Z3

\* Being a multiple is transitive.
LEMMA MultipleOfMultiple ==
  ASSUME NEW n \in Nat, NEW k \in Nat \ {0}, NEW m \in Nat \ {0}, n % k = 0, k % m = 0
  PROVE  n % m = 0
<1>1. n = (n \div k) * k /\ n \div k \in Nat /\ k = (k \div m) * m /\ k \div m \in Nat
  BY Multiple
<1> DEFINE c == (n \div k) * (k \div m)
<1>2. c \in Nat /\ n = c * m + 0
  <2>1. \A a, b \in Nat : a * b \in Nat /\ a * (b * m) = (a * b) * m
    BY Z3
  <2>2. n = (n \div k) * ((k \div m) * m)
    BY <1>1
  <2> QED
    BY <1>1, <2>1, <2>2, SMTT(30)
<1> HIDE DEF c
<1> QED
  BY <1>2, Quotient, 0 \in 0..(m - 1)

\* One window more.
LEMMA OneMore == ASSUME NEW d \in Nat, NEW w \in Nat PROVE (d + 1) * w = d * w + w /\ d * w \in Nat
  BY Z3

\* A multiple is not less than its factor.
LEMMA AtLeast == ASSUME NEW d \in Nat, NEW w \in Nat \ {0} PROVE d <= d * w /\ d * w \in Nat
<1>1. 1 * d <= w * d
  BY Monotone
<1>2. d * w = w * d /\ 1 * d = d /\ d * w \in Nat
  BY Z3
<1> QED
  BY <1>1, <1>2

\* In the first window the remainder is the number.
LEMMA SmallRemainder == ASSUME NEW w \in Nat \ {0}, NEW d \in 0..(w - 1) PROVE d % w = d
<1>1. d \in Nat /\ 0 \in Nat /\ d = 0 * w + d
  OBVIOUS
<1> QED
  BY <1>1, Remainder

\* The second window begins at w.
LEMMA OneWhole == ASSUME NEW w \in Nat \ {0} PROVE w % w = 0
<1>1. w \in Nat /\ 1 \in Nat /\ 0 \in 0..(w - 1) /\ w = 1 * w + 0
  OBVIOUS
<1> QED
  BY <1>1, Remainder

\* The place in its window of the next number.
LEMMA NextPlace ==
  ASSUME NEW n \in Nat, NEW w \in Nat \ {0}
  PROVE  (n + 1) % w = IF n % w = w - 1 THEN 0 ELSE (n % w) + 1
<1> DEFINE d == n \div w
           r == n % w
<1>1. d \in Nat /\ r \in 0..(w - 1) /\ n = d * w + r
  BY Division, Zenon
<1> HIDE DEF d, r
<1>2. CASE r = w - 1
  <2>1. n + 1 = (d + 1) * w + 0 /\ n + 1 \in Nat /\ d + 1 \in Nat /\ 0 \in 0..(w - 1)
    BY <1>1, <1>2, Z3
  <2>2. (n + 1) % w = 0
    BY <2>1, Remainder
  <2> QED
    BY <1>2, <2>2 DEF r
<1>3. CASE r # w - 1
  <2>1. n + 1 = d * w + (r + 1) /\ r + 1 \in 0..(w - 1) /\ n + 1 \in Nat
    BY <1>1, <1>3
  <2>2. (n + 1) % w = r + 1
    BY <1>1, <2>1, Remainder
  <2> QED
    BY <1>3, <2>2 DEF r
<1> QED
  BY <1>2, <1>3

\* Induction, for a set of numbers: what is not in it has no least element.
LEMMA NatIn ==
  ASSUME NEW S, 0 \in S, \A n \in Nat : n \in S => n + 1 \in S
  PROVE  Nat \subseteq S
<1> SUFFICES ASSUME Nat \ S # {} PROVE FALSE
  OBVIOUS
<1>1. PICK x \in Nat \ S : \A y \in Nat \ S : ~(<<y, x>> \in OpToRel(<, Nat))
  BY NatLessThanWellFounded, WFMin
<1>2. \A y \in Nat \ S : ~(y < x)
  BY <1>1, Zenon DEF OpToRel
<1>3. x - 1 \in Nat /\ x - 1 < x
  OBVIOUS
<1>4. x - 1 \in S
  BY <1>2, <1>3
<1> QED
  BY <1>3, <1>4

\* A set of numbers has a least element.
LEMMA Least ==
  ASSUME NEW S, S \subseteq Nat, S # {}
  PROVE  \E x \in S : \A y \in S : x <= y
<1>1. PICK x \in S : \A y \in S : ~(<<y, x>> \in OpToRel(<, Nat))
  BY NatLessThanWellFounded, WFMin
<1>2. \A y \in S : ~(y < x)
  BY <1>1, Zenon DEF OpToRel
<1> QED
  BY <1>2
===========================================================================
