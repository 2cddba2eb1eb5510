--------------------------- MODULE LayoutProofs ---------------------------
(***************************************************************************)
(* Theorems about Layout, for any numbers of PEs and gangs that are        *)
(* squares, and any sizes of the matrix and its blocks.                    *)
(***************************************************************************)
EXTENDS Layout, ArithmeticLemmas, FiniteSetTheorems, FunctionTheorems, TLAPS

LEMMA SquareMonotone ==
  ASSUME NEW x \in Nat, NEW y \in Nat, x <= y
  PROVE  x * x <= y * y
<1>1. x * x <= y * x
  BY Monotone
<1>2. x * y <= y * y
  BY Monotone
<1>3. x * y = y * x /\ x * x \in Nat /\ y * y \in Nat /\ x * y \in Nat
  BY Z3
<1> QED
  BY <1>1, <1>2, <1>3

\* The root rounded down exists.
LEMMA RootIs ==
  ASSUME NEW n \in Nat
  PROVE  /\ Root(n) \in Nat
         /\ Root(n) * Root(n) <= n /\ n < (Root(n) + 1) * (Root(n) + 1)
<1> DEFINE S == {s \in Nat : n < (s + 1) * (s + 1)}
           P(r) == r * r <= n /\ n < (r + 1) * (r + 1)
<1>1. n \in S
  <2>1. 1 * (n + 1) <= (n + 1) * (n + 1)
    BY Monotone
  <2>2. 1 * (n + 1) = n + 1 /\ (n + 1) * (n + 1) \in Nat
    BY Z3
  <2> QED
    BY <2>1, <2>2
<1>2. PICK r \in S : \A y \in S : r <= y
  <2>1. S \subseteq Nat
    OBVIOUS
  <2> HIDE DEF S
  <2> QED
    BY <1>1, <2>1, Least, Zenon
<1>3. r \in 0..n /\ n < (r + 1) * (r + 1)
  BY <1>1, <1>2
<1>4. r * r <= n
  <2>1. CASE r = 0
    BY <2>1
  <2>2. CASE r # 0
    <3>1. r - 1 \in Nat /\ r - 1 \notin S /\ (r - 1) + 1 = r
      BY <1>2, <1>3, <2>2
    <3>2. ~(n < ((r - 1) + 1) * ((r - 1) + 1))
      BY <3>1
    <3>3. r * r \in Nat
      BY <1>3, Z3
    <3> QED
      BY <3>1, <3>2, <3>3
  <2> QED
    BY <2>1, <2>2
<1>5. P(r)
  BY <1>3, <1>4
<1>6. Root(n) \in 0..n /\ P(Root(n))
  <2>1. Root(n) = CHOOSE s \in 0..n : P(s)
    BY DEF Root
  <2> HIDE DEF P
  <2> QED
    BY <1>3, <1>5, <2>1, Zenon
<1> QED
  BY <1>6

LEMMA RootSquare ==
  ASSUME NEW r \in Nat
  PROVE  Root(r * r) = r
<1> DEFINE s == Root(r * r)
<1>1. r * r \in Nat
  BY Z3
<1>2. s \in Nat /\ s * s <= r * r /\ r * r < (s + 1) * (s + 1)
  BY <1>1, RootIs
<1> HIDE DEF s
<1>3. s * s \in Nat /\ (s + 1) * (s + 1) \in Nat /\ (r + 1) * (r + 1) \in Nat
      /\ (r + 1) * (r + 1) = ((r * r + r) + r) + 1
  BY <1>2, Z3
<1>4. ~(r + 1 <= s)
  <2>1. r + 1 <= s => (r + 1) * (r + 1) <= s * s
    BY <1>2, SquareMonotone
  <2> QED
    BY <1>1, <1>2, <1>3, <2>1
<1>5. ~(s + 1 <= r)
  <2>1. s + 1 <= r => (s + 1) * (s + 1) <= r * r
    BY <1>2, SquareMonotone
  <2> QED
    BY <1>1, <1>2, <1>3, <2>1
<1> QED
  BY <1>2, <1>4, <1>5 DEF s

\* A smaller pair with the same quotient of squares, unless a is a multiple of b.
LEMMA Descent ==
  ASSUME NEW a \in Int, NEW b \in Int, NEW k \in Int, NEW n \in Int, a * a = k * (b * b)
  PROVE  (k * b - n * a) * (k * b - n * a) = k * ((a - n * b) * (a - n * b))
<1>1. (k * b - n * a) * (k * b - n * a)
        = (k * (k * (b * b)) - 2 * (((k * n) * a) * b)) + (n * n) * (a * a)
  BY Z3
<1>2. k * ((a - n * b) * (a - n * b))
        = (k * (a * a) - 2 * (((k * n) * a) * b)) + (n * n) * (k * (b * b))
  BY Z3
<1> QED
  BY <1>1, <1>2, Zenon

LEMMA Cancel ==
  ASSUME NEW x \in Nat, NEW y \in Nat, NEW b \in Nat \ {0}, x * b = y * b
  PROVE  x = y
<1>1. (x * b + 0) \div b = x /\ (y * b + 0) \div b = y
  BY 0 \in 0..(b - 1), Quotient
<1> QED
  BY <1>1, Zenon

\* The quotient of two squares is a square.
LEMMA SquareQuotient ==
  ASSUME NEW a \in Nat, NEW b \in Nat \ {0}, NEW k \in Nat, a * a = k * (b * b)
  PROVE  \E n \in Nat : k = n * n
<1> DEFINE P(y) == \E x \in Nat : x * x = k * (y * y)
           S == {y \in Nat \ {0} : P(y)}
<1>1. S \subseteq Nat /\ b \in S
  OBVIOUS
<1>2. PICK y \in S : \A z \in S : y <= z
  <2> HIDE DEF S
  <2> QED
    BY <1>1, Least, Zenon
<1>3. PICK x \in Nat : x * x = k * (y * y)
  OBVIOUS
<1>4. y \in Nat \ {0} /\ \A z \in Nat \ {0} : P(z) => y <= z
  BY <1>2
<1> HIDE DEF S
<1> DEFINE n == x \div y
           r == x % y
<1>5. n \in Nat /\ r \in 0..(y - 1) /\ x = n * y + r
  BY <1>4, Division, Zenon
<1> HIDE DEF n, r
<1>6. r = 0
  <2> SUFFICES ASSUME r # 0 PROVE FALSE
    OBVIOUS
  <2>1. r \in Nat \ {0} /\ ~(y <= r) /\ n * y \in Nat
    BY <1>4, <1>5, OneMore
  <2>2. r = x - n * y
    BY <1>5, <2>1
  <2> DEFINE w == k * y - n * x
  <2>3. w * w = k * (r * r)
    BY <1>3, <1>4, <1>5, <2>2, Descent
  <2>4. w \in Int
    BY <1>4, <1>5, Z3
  <2> HIDE DEF w
  <2>5. (w \in Nat \/ -w \in Nat) /\ (-w) * (-w) = w * w
    BY <2>4, Z3
  <2>6. P(r)
    BY <2>3, <2>5
  <2> HIDE DEF P
  <2> QED
    BY <1>4, <2>1, <2>6, Zenon
<1>7. x = n * y
  BY <1>4, <1>5, <1>6, OneMore
<1>8. (n * n) * (y * y) = k * (y * y) /\ n * n \in Nat /\ y * y \in Nat /\ y * y > 0
  <2>1. (n * y) * (n * y) = (n * n) * (y * y) /\ n * n \in Nat /\ y * y \in Nat
    BY <1>4, <1>5, Z3
  <2>2. y <= y * y
    BY <1>4, AtLeast
  <2> QED
    BY <1>3, <1>4, <1>7, <2>1, <2>2
<1>9. k = n * n
  BY <1>8, y * y \in Nat \ {0}, Cancel
<1> QED
  BY <1>5, <1>9
---------------------------------------------------------------------------
\* Numbers of two digits are compared digit by digit.
LEMMA Digits ==
  ASSUME NEW b \in Nat \ {0}, NEW s \in Nat, NEW f \in 0..(b - 1), NEW q \in Nat, NEW e \in 0..(b - 1)
  PROVE  /\ s * b + f < q * b + e <=> s < q \/ (s = q /\ f < e)
         /\ s * b + f = q * b + e <=> s = q /\ f = e
<1>1. s * b \in Nat /\ (s + 1) * b = s * b + b /\ q * b \in Nat /\ (q + 1) * b = q * b + b
  BY OneMore
<1>2. CASE s < q
  <2>1. (s + 1) * b <= q * b
    BY <1>2, Monotone
  <2> QED
    BY <1>1, <1>2, <2>1
<1>3. CASE q < s
  <2>1. (q + 1) * b <= s * b
    BY <1>3, Monotone
  <2> QED
    BY <1>1, <1>3, <2>1
<1>4. CASE s = q
  BY <1>1, <1>4
<1> QED
  BY <1>2, <1>3, <1>4

\* GlobalRow, for blocks of b dealt out to R places.
Row(b, R, x, r) == ((r \div b) * R + x) * b + (r % b)

\* numroc, by the digits of n: n \div b = u * R + v, and e is left.
Blocks(n, b, x, R, u, v, e) ==
  /\ n = (u * R + v) * b + e /\ u * R + v \in Nat
  /\ n \div b = u * R + v /\ n % b = e
  /\ x < v => numroc(n, b, x, R) = (u + 1) * b + 0
  /\ x = v => numroc(n, b, x, R) = u * b + e
  /\ x > v => numroc(n, b, x, R) = u * b + 0

LEMMA NumrocIs ==
  ASSUME NEW n \in Nat, NEW b \in Nat \ {0}, NEW R \in Nat \ {0}
  PROVE  \E u \in Nat, v \in 0..(R - 1), e \in 0..(b - 1) :
           \A x \in 0..(R - 1) : Blocks(n, b, x, R, u, v, e)
<1> DEFINE q == n \div b
           u == q \div R
           v == q % R
           e == n % b
<1>1. q \in Nat /\ e \in 0..(b - 1) /\ n = q * b + e
  BY Division, Zenon
<1>2. u \in Nat /\ v \in 0..(R - 1) /\ q = u * R + v
  BY <1>1, Division, Zenon
<1>3. \A x : numroc(n, b, x, R) = (u + (IF x < v THEN 1 ELSE 0)) * b + (IF x = v THEN e ELSE 0)
  BY DEF numroc
<1> HIDE DEF u, v, e
<1>4. ASSUME NEW x \in 0..(R - 1)
      PROVE  /\ x < v => numroc(n, b, x, R) = (u + 1) * b + 0
             /\ x = v => numroc(n, b, x, R) = u * b + e
             /\ x > v => numroc(n, b, x, R) = u * b + 0
  <2>1. CASE x < v
    <3>1. x # v /\ ~(x > v)
      BY <1>2, <2>1
    <3> QED
      BY <1>3, <2>1, <3>1, Zenon
  <2>2. CASE x = v
    <3>1. ~(x < v) /\ ~(x > v) /\ u + 0 = u
      BY <1>2, <2>2
    <3> QED
      BY <1>3, <2>2, <3>1, Zenon
  <2>3. CASE x > v
    <3>1. ~(x < v) /\ x # v /\ u + 0 = u
      BY <1>2, <2>3
    <3> QED
      BY <1>3, <2>3, <3>1, Zenon
  <2> QED
    BY <1>2, <2>1, <2>2, <2>3
<1>5. n = (u * R + v) * b + e /\ u * R + v \in Nat
  BY <1>1, <1>2, Zenon
<1>6. ASSUME NEW x \in 0..(R - 1) PROVE Blocks(n, b, x, R, u, v, e)
  BY <1>1, <1>2, <1>4, <1>5 DEF Blocks, e
<1> QED
  BY <1>1, <1>2, <1>6

\* What numroc counts and where the rows are agree.
LEMMA Dealt ==
  ASSUME NEW n \in Nat, NEW b \in Nat \ {0}, NEW R \in Nat \ {0}, NEW x \in 0..(R - 1), NEW r \in Nat
  PROVE  r < numroc(n, b, x, R) <=> Row(b, R, x, r) < n
<1> DEFINE s == r \div b
           f == r % b
           N == numroc(n, b, x, R)
<1>0. PICK u \in Nat, v \in 0..(R - 1), e \in 0..(b - 1) : Blocks(n, b, x, R, u, v, e)
  BY NumrocIs, Zenon
<1>1. s \in Nat /\ f \in 0..(b - 1) /\ r = s * b + f
  BY Division, Zenon
<1>2. /\ n = (u * R + v) * b + e /\ u * R + v \in Nat
      /\ x < v => N = (u + 1) * b + 0
      /\ x = v => N = u * b + e
      /\ x > v => N = u * b + 0
  BY <1>0 DEF Blocks
<1> DEFINE y == s * R + x
           q == u * R + v
<1>3. Row(b, R, x, r) = y * b + f
  BY DEF Row
<1>4. (y < q <=> s < u \/ (s = u /\ x < v)) /\ (y = q <=> s = u /\ x = v)
  BY <1>1, Digits
<1>5. y \in Nat /\ q \in Nat
  <2>1. s * R \in Nat
    BY <1>1, OneMore
  <2> QED
    BY <1>2, <2>1
<1> HIDE DEF s, f, N, y, q
<1>6. y * b + f < q * b + e <=> y < q \/ (y = q /\ f < e)
  BY <1>1, <1>5, Digits
<1>7. n = q * b + e
  BY <1>2 DEF q
<1>8. r < N <=> s < u \/ (s = u /\ (x < v \/ (x = v /\ f < e)))
  <2>1. CASE x < v
    <3>1. s * b + f < (u + 1) * b + 0 <=> s < u + 1 \/ (s = u + 1 /\ f < 0)
      BY <1>1, u + 1 \in Nat, 0 \in 0..(b - 1), Digits
    <3>2. (s < u + 1 \/ (s = u + 1 /\ f < 0)) <=> (s < u \/ s = u)
      BY <1>1
    <3>3. r < N <=> (s < u \/ s = u)
      BY <1>1, <1>2, <2>1, <3>1, <3>2, Zenon
    <3> QED
      BY <2>1, <3>3
  <2>2. CASE x = v
    <3>1. s * b + f < u * b + e <=> s < u \/ (s = u /\ f < e)
      BY <1>1, Digits
    <3>2. ~(x < v)
      BY <2>2
    <3> QED
      BY <1>1, <1>2, <2>2, <3>1, <3>2, Zenon
  <2>3. CASE x > v
    <3>1. s * b + f < u * b + 0 <=> s < u \/ (s = u /\ f < 0)
      BY <1>1, 0 \in 0..(b - 1), Digits
    <3>2. ~(f < 0) /\ ~(x < v) /\ x # v
      BY <1>1, <2>3
    <3> QED
      BY <1>1, <1>2, <2>3, <3>1, <3>2, Zenon
  <2> QED
    BY <2>1, <2>2, <2>3
<1>9. y * b + f < n <=> s < u \/ (s = u /\ (x < v \/ (x = v /\ f < e)))
  BY <1>4, <1>6, <1>7, Zenon
<1> QED
  BY <1>3, <1>8, <1>9, Zenon DEF N

\* Nobody has more than the first, and all have a row if there are enough blocks.
LEMMA NumrocBounds ==
  ASSUME NEW n \in Nat, NEW b \in Nat \ {0}, NEW R \in Nat \ {0}, NEW x \in 0..(R - 1)
  PROVE  /\ numroc(n, b, x, R) \in Nat
         /\ numroc(n, b, x, R) <= numroc(n, b, 0, R)
         /\ CeilDiv(n, b) >= R => numroc(n, b, x, R) >= 1
<1> DEFINE N(y) == numroc(n, b, y, R)
<1>1. PICK u \in Nat, v \in 0..(R - 1), e \in 0..(b - 1) :
        \A y \in 0..(R - 1) : Blocks(n, b, y, R, u, v, e)
  BY NumrocIs, Zenon
<1>2. ASSUME NEW y \in 0..(R - 1)
      PROVE  /\ y < v => N(y) = (u + 1) * b + 0
             /\ y = v => N(y) = u * b + e
             /\ y > v => N(y) = u * b + 0
  BY <1>1 DEF Blocks
<1>3. n = (u * R + v) * b + e /\ u * R + v \in Nat
  BY <1>1 DEF Blocks
<1>4. u * b \in Nat /\ (u + 1) * b = u * b + b
  BY OneMore
<1> HIDE DEF N
<1>5. ASSUME NEW y \in 0..(R - 1)
      PROVE  /\ N(y) \in Nat
             /\ y < v => N(y) = u * b + b
             /\ y = v => N(y) = u * b + e
             /\ y > v => N(y) = u * b
  BY <1>2, <1>4
<1>6. N(x) \in Nat /\ N(0) \in Nat /\ N(x) <= N(0)
  <2>1. 0 \in 0..(R - 1)
    OBVIOUS
  <2>2. CASE v = 0
    BY <1>4, <1>5, <2>1, <2>2
  <2>3. CASE v # 0
    BY <1>4, <1>5, <2>1, <2>3
  <2> QED
    BY <2>2, <2>3
<1>7. ASSUME CeilDiv(n, b) >= R PROVE N(x) >= 1
  <2> DEFINE q == u * R + v
  <2>1. n = q * b + e /\ q \in Nat /\ q + 1 \in Nat
    BY <1>3
  <2> HIDE DEF q
  <2>2. q * b \in Nat /\ (q + 1) * b = q * b + b
    BY <2>1, OneMore
  <2>3. CeilDiv(n, b) = IF e = 0 THEN q ELSE q + 1
    <3>1. CASE e = 0
      <4>1. n + b - 1 = q * b + (b - 1) /\ b - 1 \in 0..(b - 1)
        BY <2>1, <2>2, <3>1
      <4>2. (q * b + (b - 1)) \div b = q
        BY <2>1, <4>1, Quotient
      <4> QED
        BY <3>1, <4>1, <4>2, Zenon DEF CeilDiv
    <3>2. CASE e # 0
      <4>1. n + b - 1 = (q + 1) * b + (e - 1) /\ e - 1 \in 0..(b - 1)
        BY <2>1, <2>2, <3>2
      <4>2. ((q + 1) * b + (e - 1)) \div b = q + 1
        BY <2>1, <4>1, Quotient
      <4> QED
        BY <3>2, <4>1, <4>2, Zenon DEF CeilDiv
    <3> QED
      BY <3>1, <3>2
  <2>4. CASE u = 0
    <3>1. q = v
      BY <2>4 DEF q
    <3>2. u * b = 0
      BY <2>4
    <3>3. x <= v /\ (x = v => e > 0)
      BY <1>7, <2>3, <3>1
    <3> QED
      BY <1>5, <3>2, <3>3
  <2>5. CASE u # 0
    <3>1. u <= u * b
      BY AtLeast
    <3> QED
      BY <1>4, <1>5, <2>5, <3>1
  <2> QED
    BY <2>4, <2>5
<1> QED
  BY <1>6, <1>7 DEF N

\* The place of row g.
LEMMA PlaceOf ==
  ASSUME NEW b \in Nat \ {0}, NEW R \in Nat \ {0}, NEW g \in Nat
  PROVE  \E x \in 0..(R - 1), r \in 0..g : Row(b, R, x, r) = g
<1> DEFINE y == g \div b
           f == g % b
           x == y % R
           s == y \div R
           r == s * b + f
<1>1. y \in Nat /\ f \in 0..(b - 1) /\ g = y * b + f
  BY Division, Zenon
<1>2. s \in Nat /\ x \in 0..(R - 1) /\ y = s * R + x
  BY <1>1, Division, Zenon
<1> HIDE DEF y, f, x, s
<1>3. r \div b = s /\ r % b = f
  BY <1>1, <1>2, Quotient
<1>4. Row(b, R, x, r) = (s * R + x) * b + f
  BY <1>3, Zenon DEF Row
<1>5. Row(b, R, x, r) = g
  BY <1>1, <1>2, <1>4, Zenon
<1>6. s <= y
  <2>1. s <= s * R /\ s * R \in Nat
    BY <1>2, AtLeast
  <2> QED
    BY <1>2, <2>1
<1>7. s * b <= y * b /\ s * b \in Nat /\ y * b \in Nat
  BY <1>1, <1>2, <1>6, Monotone, OneMore
<1>8. r \in 0..g
  BY <1>1, <1>7
<1> HIDE DEF r
<1> QED
  BY <1>2, <1>5, <1>8

\* Different places are different rows.
LEMMA RowOnce ==
  ASSUME NEW b \in Nat \ {0}, NEW R \in Nat \ {0}
  PROVE  \A x, y \in 0..(R - 1) : \A r, s \in Nat :
           /\ Row(b, R, x, r) \in Nat
           /\ Row(b, R, x, r) = Row(b, R, y, s) => x = y /\ r = s
<1> TAKE x, y \in 0..(R - 1)
<1> TAKE r, s \in Nat
<1> DEFINE u == r \div b
           v == s \div b
           e == r % b
           f == s % b
           h == u * R + x
           k == v * R + y
<1>1. u \in Nat /\ e \in 0..(b - 1) /\ r = u * b + e /\ v \in Nat /\ f \in 0..(b - 1) /\ s = v * b + f
  BY Division, Zenon
<1>2. Row(b, R, x, r) = h * b + e /\ Row(b, R, y, s) = k * b + f
  BY DEF Row
<1> HIDE DEF u, v, e, f
<1>3. h = k <=> u = v /\ x = y
  BY <1>1, Digits
<1>4. h \in Nat /\ k \in Nat
  <2>1. u * R \in Nat /\ v * R \in Nat
    BY <1>1, OneMore
  <2> QED
    BY <2>1
<1> HIDE DEF h, k
<1>5. h * b + e = k * b + f <=> h = k /\ e = f
  BY <1>1, <1>4, Digits
<1>6. h * b \in Nat
  BY <1>4, OneMore
<1>7. Row(b, R, x, r) \in Nat
  BY <1>1, <1>2, <1>6
<1>8. ASSUME Row(b, R, x, r) = Row(b, R, y, s) PROVE x = y /\ r = s
  BY <1>1, <1>2, <1>3, <1>5, <1>8, Zenon
<1> QED
  BY <1>7, <1>8

PlacesOf(n, b, R) == {u \in (0..(R - 1)) \X (0..(n - 1)) : u[2] < numroc(n, b, u[1], R)}
RowsOf(n, b, R) == {Row(b, R, u[1], u[2]) : u \in PlacesOf(n, b, R)}

\* Every row falls to one place, and there are as many places as rows.
LEMMA DealtOut ==
  ASSUME NEW n \in Nat, NEW b \in Nat \ {0}, NEW R \in Nat \ {0}
  PROVE  /\ RowsOf(n, b, R) = 0..(n - 1)
         /\ Cardinality(PlacesOf(n, b, R)) = n
<1> DEFINE P == PlacesOf(n, b, R)
           F == [u \in P |-> Row(b, R, u[1], u[2])]
<1>1. ASSUME NEW u \in P PROVE u[1] \in 0..(R - 1) /\ u[2] \in Nat /\ u = <<u[1], u[2]>>
  BY DEF PlacesOf
<1>2. ASSUME NEW u \in P PROVE F[u] \in 0..(n - 1)
  <2>1. u[2] < numroc(n, b, u[1], R)
    BY DEF PlacesOf
  <2>2. Row(b, R, u[1], u[2]) < n
    BY <1>1, <2>1, Dealt
  <2>3. Row(b, R, u[1], u[2]) \in Nat
    BY <1>1, RowOnce
  <2> QED
    BY <2>2, <2>3
<1>3. ASSUME NEW u \in P, NEW w \in P, F[u] = F[w] PROVE u = w
  <2>1. Row(b, R, u[1], u[2]) = Row(b, R, w[1], w[2])
    BY <1>3
  <2>2. u[1] = w[1] /\ u[2] = w[2]
    <3>1. u[1] \in 0..(R - 1) /\ u[2] \in Nat /\ w[1] \in 0..(R - 1) /\ w[2] \in Nat
      BY <1>1
    <3>2. \A x, y \in 0..(R - 1) : \A r, s \in Nat :
            Row(b, R, x, r) = Row(b, R, y, s) => x = y /\ r = s
      BY RowOnce
    <3>3. \A r, s \in Nat :
            Row(b, R, u[1], r) = Row(b, R, w[1], s) => u[1] = w[1] /\ r = s
      BY <3>1, <3>2, Zenon
    <3> QED
      BY <2>1, <3>1, <3>3
  <2> QED
    BY <1>1, <2>2
<1>4. ASSUME NEW g \in 0..(n - 1) PROVE \E u \in P : F[u] = g
  <2>1. g \in Nat
    OBVIOUS
  <2>2. PICK x \in 0..(R - 1), r \in 0..g : Row(b, R, x, r) = g
    BY <2>1, PlaceOf, ZenonT(60)
  <2>3. r \in Nat /\ r \in 0..(n - 1) /\ g < n
    OBVIOUS
  <2>4. r < numroc(n, b, x, R)
    BY <2>2, <2>3, Dealt
  <2>5. <<x, r>> \in P /\ <<x, r>>[1] = x /\ <<x, r>>[2] = r
    BY <2>3, <2>4 DEF PlacesOf
  <2> QED
    BY <2>2, <2>5
<1>5. RowsOf(n, b, R) = 0..(n - 1)
  BY <1>2, <1>4 DEF RowsOf
<1>6. F \in Bijection(P, 0..(n - 1))
  <2>1. F \in [P -> 0..(n - 1)]
    BY <1>2
  <2>2. IsInjective(F)
    BY <1>3 DEF IsInjective
  <2> HIDE DEF F
  <2> QED
    BY <1>4, <2>1, <2>2 DEF Bijection, Injection, Surjection
<1>7. ExistsBijection(0..(n - 1), P)
  BY <1>6, Fun_ExistsBijSymmetric, Zenon DEF ExistsBijection
<1>8. IsFiniteSet(0..(n - 1)) /\ Cardinality(0..(n - 1)) = n
  <2>1. /\ IsFiniteSet(0..(n - 1))
        /\ Cardinality(0..(n - 1)) = IF 0 > n - 1 THEN 0 ELSE (n - 1) - 0 + 1
    BY FS_Interval
  <2> QED
    BY <2>1
<1>9. Cardinality(P) = n
  BY <1>7, <1>8, FS_Bijection
<1> QED
  BY <1>5, <1>9
---------------------------------------------------------------------------
\* What initialize makes sure of: numbers of PEs and gangs that are squares and
\* divide each other, and a block for every PE.
Accepted(c) ==
  /\ {c.no_pe, c.no_gang, c.no_pix, c.sblocksize, c.fblocksize} \subseteq Nat \ {0}
  /\ IsSquare(c.no_pe) /\ IsSquare(c.no_gang) /\ c.no_pe % c.no_gang = 0
  /\ CeilDiv(c.no_pix, c.sblocksize) * CeilDiv(c.no_pix, c.sblocksize) >= c.no_pe

LEMMA SquareOrder ==
  ASSUME NEW x \in Nat, NEW y \in Nat, x * x <= y * y
  PROVE  x <= y
<1> SUFFICES ASSUME y + 1 <= x PROVE FALSE
  OBVIOUS
<1>1. (y + 1) * (y + 1) <= x * x
  BY SquareMonotone
<1>2. (y + 1) * (y + 1) = ((y * y + y) + y) + 1 /\ y * y \in Nat /\ x * x \in Nat
  BY Z3
<1> QED
  BY <1>1, <1>2

LEMMA CeilNat == ASSUME NEW n \in Nat, NEW b \in Nat \ {0} PROVE CeilDiv(n, b) \in Nat
<1>1. n + b - 1 \in Nat
  OBVIOUS
<1> QED
  BY <1>1, Division DEF CeilDiv

\* A gang is a square of PEs, one of several gangs too: the quotient of two squares
\* is a square.
LEMMA GangSquare ==
  ASSUME NEW c, Accepted(c), NEW m \in {1, 2}
  PROVE  /\ no_pe_row(c, m) \in Nat \ {0}
         /\ gang_no_pe(c, m) = no_pe_row(c, m) * no_pe_row(c, m)
         /\ gang_no_pe(c, m) \in Nat \ {0}
         /\ CeilDiv(c.no_pix, c.sblocksize) >= no_pe_row(c, m)
<1> DEFINE C == CeilDiv(c.no_pix, c.sblocksize)
           P == c.no_pe
           G == c.no_gang
           k == P \div G
<1>1. P \in Nat \ {0} /\ G \in Nat \ {0} /\ C \in Nat /\ C * C >= P /\ P % G = 0
  BY CeilNat DEF Accepted
<1>2. PICK r \in 0..P : r * r = P
  BY DEF Accepted, IsSquare
<1>3. PICK s \in 0..G : s * s = G
  BY DEF Accepted, IsSquare
<1>4. r \in Nat \ {0} /\ s \in Nat \ {0}
  BY <1>1, <1>2, <1>3
<1>5. k \in Nat /\ P = k * G
  BY <1>1, Multiple, Zenon
<1> HIDE DEF C, P, G, k
<1>6. r <= C
  BY <1>1, <1>2, <1>4, SquareOrder
<1>7. PICK n \in Nat : k = n * n
  <2>1. r * r = k * (s * s)
    BY <1>2, <1>3, <1>5, Zenon
  <2> QED
    BY <1>4, <1>5, <2>1, SquareQuotient, ZenonT(60)
<1>8. k # 0 /\ k <= P /\ k \in Nat
  <2>1. k <= k * G
    BY <1>1, <1>5, AtLeast
  <2>2. 0 * G = 0
    BY <1>1
  <2> QED
    BY <1>1, <1>5, <2>1, <2>2
<1>9. n # 0 /\ n <= r
  <2>1. n <= r
    BY <1>2, <1>4, <1>7, <1>8, SquareOrder
  <2> QED
    BY <1>7, <1>8, <2>1
<1>10. CASE m = 1
  <2>1. gang_no_pe(c, m) = r * r
    BY <1>2, <1>10 DEF gang_no_pe, P
  <2>2. no_pe_row(c, m) = r
    BY <1>4, <2>1, RootSquare, Zenon DEF no_pe_row
  <2> QED
    BY <1>1, <1>2, <1>4, <1>6, <2>1, <2>2 DEF C
<1>11. CASE m = 2
  <2>1. gang_no_pe(c, m) = n * n
    BY <1>7, <1>11 DEF gang_no_pe, k, P, G
  <2>2. no_pe_row(c, m) = n
    BY <1>7, <2>1, RootSquare, Zenon DEF no_pe_row
  <2>3. n <= C
    BY <1>1, <1>4, <1>6, <1>9
  <2> QED
    BY <1>7, <1>8, <1>9, <2>1, <2>2, <2>3, SMTT(30) DEF C
<1> QED
  BY <1>10, <1>11

\* A PE has a row and a column in its gang.
LEMMA PEPlace ==
  ASSUME NEW c, Accepted(c), NEW m \in {1, 2}, NEW p \in Nat
  PROVE  /\ my_pe_row(c, m, p) \in 0..(no_pe_row(c, m) - 1)
         /\ my_pe_col(c, m, p) \in 0..(no_pe_row(c, m) - 1)
<1> DEFINE N == gang_no_pe(c, m)
           R == no_pe_row(c, m)
           q == p % N
<1>1. R \in Nat \ {0} /\ N \in Nat \ {0} /\ N = R * R
  BY GangSquare
<1>2. q \in 0..(N - 1) /\ q \in Nat
  <2>1. q \in 0..(N - 1)
    BY <1>1, Division, Zenon
  <2> HIDE DEF q, N
  <2> QED
    BY <1>1, <2>1
<1>3. q % R \in 0..(R - 1) /\ q \div R \in Nat
  BY <1>1, <1>2, Division, Zenon
<1>4. ~(R <= q \div R)
  <2>1. R <= q \div R <=> R * R <= q
    BY <1>1, <1>2, WindowFrom
  <2>2. ~(R * R <= q)
    BY <1>1, <1>2
  <2> QED
    BY <2>1, <2>2, Zenon
<1>5. q \div R \in 0..(R - 1)
  BY <1>1, <1>3, <1>4
<1> QED
  BY <1>3, <1>5 DEF my_pe_row, my_pe_col

\* PE 0 is in the first row and the first column.
LEMMA FirstPE ==
  ASSUME NEW c, Accepted(c), NEW m \in {1, 2}
  PROVE  my_pe_row(c, m, 0) = 0 /\ my_pe_col(c, m, 0) = 0
<1> DEFINE N == gang_no_pe(c, m)
           R == no_pe_row(c, m)
<1>1. R \in Nat \ {0} /\ N \in Nat \ {0}
  BY GangSquare
<1>2. 0 % N = 0 /\ 0 % R = 0
  BY <1>1, SmallRemainder
<1>3. 0 \div R = 0
  <2>1. 0 * R + 0 = 0 /\ 0 \in 0..(R - 1) /\ 0 \in Nat
    BY <1>1
  <2>2. (0 * R + 0) \div R = 0
    BY <1>1, <2>1, Quotient
  <2> QED
    BY <2>1, <2>2, Zenon
<1> QED
  BY <1>2, <1>3, Zenon DEF my_pe_row, my_pe_col

\* Every PE has a part of the matrix, and none has a larger one than PE 0.
LEMMA PartSize ==
  ASSUME NEW c, Accepted(c), NEW m \in {1, 2}, NEW p \in Nat
  PROVE  /\ my_no_elm(c, m, p) \in Nat \ {0}
         /\ my_no_elm(c, m, p) <= my_no_elm(c, m, 0)
<1> DEFINE R == no_pe_row(c, m)
           N(x) == Rows(c, m, x)
           x == my_pe_row(c, m, p)
           y == my_pe_col(c, m, p)
<1>1. R \in Nat \ {0} /\ CeilDiv(c.no_pix, c.sblocksize) >= R
  BY GangSquare
<1>2. x \in 0..(R - 1) /\ y \in 0..(R - 1)
  BY PEPlace
<1>3. c.no_pix \in Nat /\ c.sblocksize \in Nat \ {0}
  BY DEF Accepted
<1>4. \A z \in 0..(R - 1) : N(z) \in Nat /\ N(z) <= N(0) /\ N(z) >= 1
  BY <1>1, <1>3, NumrocBounds, Zenon DEF Rows
<1>5. my_no_elm(c, m, p) = N(x) * N(y) /\ my_no_elm(c, m, 0) = N(0) * N(0)
  BY FirstPE DEF my_no_elm
<1>6. 0 \in 0..(R - 1)
  BY <1>1
<1> HIDE DEF N, x, y, R
<1>7. N(x) \in Nat \ {0} /\ N(y) \in Nat \ {0} /\ N(x) <= N(0) /\ N(y) <= N(0) /\ N(0) \in Nat
  BY <1>2, <1>4, <1>6
<1>8. \A a, b, d \in Nat : a <= d /\ b <= d => a * b <= d * d /\ a * b \in Nat
  <2> TAKE a, b, d \in Nat
  <2> HAVE a <= d /\ b <= d
  <2>1. a * b <= d * b /\ b * d <= d * d
    BY Monotone
  <2>2. b * d = d * b /\ a * b \in Nat /\ b * d \in Nat /\ d * d \in Nat
    BY Z3
  <2> QED
    BY <2>1, <2>2
<1>9. N(x) <= N(x) * N(y)
  BY <1>7, AtLeast
<1> QED
  BY <1>5, <1>7, <1>8, <1>9

\* CeilDiv rounds up.
LEMMA CeilUp ==
  ASSUME NEW a \in Nat, NEW w \in Nat \ {0}
  PROVE  a <= CeilDiv(a, w) * w
<1> DEFINE n == a + w - 1
           q == n \div w
<1>1. n \in Nat
  OBVIOUS
<1>2. q \in Nat /\ n % w \in 0..(w - 1) /\ n = q * w + (n % w)
  BY <1>1, Division, Zenon
<1>3. q * w \in Nat
  BY <1>2, OneMore
<1>4. CeilDiv(a, w) = q
  BY DEF CeilDiv
<1> HIDE DEF q
<1>5. a <= q * w
  BY <1>2, <1>3
<1> QED
  BY <1>4, <1>5, Zenon

\* The room that the file has for the part of a PE of gang m.
LEMMA Offcount ==
  ASSUME NEW c, Accepted(c), NEW m \in {1, 2}
  PROVE  /\ offcount(c, m) \in Nat
         /\ my_no_elm(c, m, 0) <= offcount(c, m)
<1> DEFINE G == c.no_gang
           F == c.fblocksize
           e1 == my_no_elm(c, 1, 0)
           e2 == my_no_elm(c, 2, 0)
           M == mpeak(c)
           g == gfb(c)
           h == g * F
<1>1. G \in Nat \ {0} /\ F \in Nat \ {0}
  BY DEF Accepted
<1>2. e1 \in Nat /\ e2 \in Nat
  BY 1 \in {1, 2}, 2 \in {1, 2}, 0 \in Nat, PartSize
<1>3. M = (IF G * e1 > e2 THEN G * e1 ELSE e2) /\ g = CeilDiv(M, G * F)
  BY DEF mpeak, gfb
<1>4. offcount(c, m) = h * (IF m = 1 THEN 1 ELSE G)
  BY DEF offcount
<1> HIDE DEF G, F, e1, e2, M, g
<1>5. G * e1 \in Nat /\ G * e1 = e1 * G /\ G * F \in Nat /\ G * F = F * G
  BY <1>1, <1>2, Z3
<1>6. M \in Nat /\ e1 * G <= M /\ e2 <= M
  BY <1>2, <1>3, <1>5
<1>7. G * F \in Nat \ {0}
  <2>1. G <= G * F
    BY <1>1, AtLeast
  <2> QED
    BY <1>1, <1>5, <2>1
<1>8. M <= g * (G * F) /\ g \in Nat
  BY <1>3, <1>6, <1>7, CeilUp, CeilNat
<1>9. h \in Nat /\ g * (G * F) = h * G /\ h * G \in Nat
  BY <1>1, <1>8, Z3
<1> HIDE DEF h
<1>10. M <= h * G
  BY <1>8, <1>9, Zenon
<1>11. CASE m = 2
  <2>1. offcount(c, m) = h * G
    BY <1>4, <1>11
  <2>2. e2 <= h * G
    BY <1>2, <1>6, <1>9, <1>10
  <2> QED
    BY <1>9, <1>11, <2>1, <2>2 DEF e2
<1>12. CASE m = 1
  <2>1. offcount(c, m) = h
    BY <1>4, <1>9, <1>12
  <2>2. e1 <= h
    <3> SUFFICES ASSUME h + 1 <= e1 PROVE FALSE
      BY <1>2, <1>9
    <3>1. (h + 1) * G <= e1 * G
      BY <1>1, <1>2, <1>9, Monotone
    <3>2. (h + 1) * G = h * G + G
      BY <1>1, <1>9, OneMore
    <3>3. e1 * G \in Nat
      BY <1>5
    <3> QED
      BY <1>1, <1>6, <1>9, <1>10, <3>1, <3>2, <3>3
  <2> QED
    BY <1>9, <1>12, <2>1, <2>2 DEF e1
<1> QED
  BY <1>11, <1>12

\* For every command line that initialize accepts: each row and each column of the
\* matrix falls to exactly one row or column of PEs, and every PE's part fits into the
\* room that PE 0 has computed for it.
THEOREM LayoutSound ==
  ASSUME NEW c, Accepted(c)
  PROVE  Partition(c, 1) /\ Partition(c, 2) /\ Fits(c)
<1>1. ASSUME NEW m \in {1, 2} PROVE Partition(c, m)
  <2> DEFINE n == c.no_pix
             b == c.sblocksize
             R == no_pe_row(c, m)
             P == PlacesOf(n, b, R)
             row == [u \in P |-> Row(b, R, u[1], u[2])]
  <2>1. n \in Nat /\ b \in Nat \ {0} /\ R \in Nat \ {0}
    BY GangSquare DEF Accepted
  <2>2. RowsOf(n, b, R) = 0..(n - 1) /\ Cardinality(P) = n
    <3> HIDE DEF n, b, R
    <3> QED
      BY <2>1, DealtOut
  <2>3. {row[u] : u \in P} = RowsOf(n, b, R)
    BY DEF RowsOf
  <2>4. Partition(c, m) <=> {row[u] : u \in P} = 0..(n - 1) /\ Cardinality(P) = n
    BY DEF Partition, Rows, GlobalRow, Row, PlacesOf
  <2> HIDE DEF row, P
  <2> QED
    BY <2>2, <2>3, <2>4, Zenon
<1>2. ASSUME NEW p \in 0..(c.no_pe - 1), NEW m \in {1, 2}
      PROVE  my_no_elm(c, m, p) <= offcount(c, m)
  <2>1. p \in Nat
    BY DEF Accepted
  <2>2. my_no_elm(c, m, p) \in Nat /\ my_no_elm(c, m, p) <= my_no_elm(c, m, 0)
    BY <2>1, PartSize
  <2>3. my_no_elm(c, m, 0) \in Nat
    BY 0 \in Nat, PartSize
  <2>4. offcount(c, m) \in Nat /\ my_no_elm(c, m, 0) <= offcount(c, m)
    BY Offcount
  <2> QED
    BY <2>2, <2>3, <2>4
<1> QED
  BY <1>1, <1>2 DEF Fits
===========================================================================
