-------------------------- MODULE WExchangeProofs --------------------------
(***************************************************************************)
(* Theorems about WExchange, for any number of gangs, PEs and bins, both   *)
(* I/O modes and every interleaving of the PEs.                            *)
(***************************************************************************)
EXTENDS WExchange, ArithmeticLemmas, FiniteSetTheorems, TLAPS

LEMMA Sized ==
  ASSUME c \in Sizes
  PROVE  /\ no_gang \in Nat \ {0} /\ c.no_bin \in Nat \ {0} /\ c.gang_pe \in Nat \ {0}
         /\ c.no_bin % no_gang = 0 /\ c.IOMODE \in {"SYNC", "ASYNC"}
  BY SizeAssumption DEF no_gang

\* The number of turns, skipped ones included: the columns come in no_bin / no_gang
\* steps.
LEMMA Turns ==
  ASSUME c \in Sizes
  PROVE  /\ c.no_bin \div no_gang \in Nat
         /\ c.no_bin = (c.no_bin \div no_gang) * no_gang
         /\ bmax = (c.no_bin \div no_gang) * c.no_bin
         /\ bmax \in Nat
<1> DEFINE B == c.no_bin
           M == c.no_bin \div no_gang
<1>1. no_gang \in Nat \ {0} /\ B \in Nat \ {0} /\ B % no_gang = 0
  BY Sized
<1>2. M \in Nat /\ B = M * no_gang
  BY <1>1, Multiple, Zenon
<1> HIDE DEF B, M
<1>3. B * B = (M * B) * no_gang + 0 /\ M * B \in Nat
  <2>1. \A x, y, z \in Nat : (x * y) * z = (x * z) * y /\ x * z \in Nat
    BY Z3
  <2>2. (M * no_gang) * B = (M * B) * no_gang /\ M * B \in Nat
    BY <1>1, <1>2, <2>1
  <2>3. \A x \in Nat : x * no_gang + 0 = x * no_gang
    BY <1>1
  <2> QED
    BY <1>2, <2>2, <2>3, Zenon
<1>4. (B * B) \div no_gang = M * B
  <2>1. 0 \in 0..(no_gang - 1)
    BY <1>1
  <2>2. ((M * B) * no_gang + 0) \div no_gang = M * B
    BY <1>1, <1>3, <2>1, Quotient, Zenon
  <2> QED
    BY <1>3, <2>2, Zenon
<1> QED
  BY <1>2, <1>3, <1>4 DEF bmax, B, M

\* A turn is a column of blocks and a row.
LEMMA RowAndColumn ==
  ASSUME c \in Sizes, NEW b \in Nat
  PROVE  /\ br(b) \in 0..(c.no_bin - 1) /\ br(b) \in Nat
         /\ b \div c.no_bin \in Nat
         /\ b = (b \div c.no_bin) * c.no_bin + br(b)
         /\ bc(b) = (b \div c.no_bin) * no_gang
         /\ bc(b) \in Nat
<1>1. no_gang \in Nat \ {0} /\ c.no_bin \in Nat \ {0}
  BY Sized
<1>2. b \div c.no_bin \in Nat /\ b % c.no_bin \in 0..(c.no_bin - 1)
      /\ b = (b \div c.no_bin) * c.no_bin + (b % c.no_bin)
  BY <1>1, Division, Zenon
<1>3. \A x \in Nat : no_gang * x = x * no_gang /\ no_gang * x \in Nat
  BY <1>1, Z3
<1>4. b % c.no_bin \in Nat
  BY <1>1, <1>2
<1> QED
  BY <1>2, <1>3, <1>4, Zenon DEF br, bc

LEMMA TurnOf ==
  ASSUME c \in Sizes, NEW d \in Nat, NEW r \in 0..(c.no_bin - 1)
  PROVE  /\ d * c.no_bin + r \in Nat
         /\ (d * c.no_bin + r) \div c.no_bin = d
         /\ br(d * c.no_bin + r) = r
         /\ bc(d * c.no_bin + r) = d * no_gang
<1>1. no_gang \in Nat \ {0} /\ c.no_bin \in Nat \ {0}
  BY Sized
<1>2. (d * c.no_bin + r) \div c.no_bin = d /\ (d * c.no_bin + r) % c.no_bin = r
  BY <1>1, Quotient, SMTT(30)
<1>3. no_gang * d = d * no_gang
  BY <1>1, Z3
<1>4. d * c.no_bin + r \in Nat
  <2>1. d * c.no_bin \in Nat /\ r \in Nat
    BY <1>1, OneMore
  <2> QED
    BY <2>1
<1> QED
  BY <1>2, <1>3, <1>4, Zenon DEF br, bc

\* The turn before one that is not the first of its column.
LEMMA TurnBefore ==
  ASSUME c \in Sizes, NEW b \in Nat, br(b) > 0
  PROVE  b - 1 \in Nat /\ br(b - 1) = br(b) - 1 /\ bc(b - 1) = bc(b)
<1> DEFINE d == b \div c.no_bin
           r == br(b)
<1>1. d \in Nat /\ r \in 0..(c.no_bin - 1) /\ b = d * c.no_bin + r /\ bc(b) = d * no_gang
  BY RowAndColumn
<1>2. d * c.no_bin \in Nat /\ c.no_bin \in Nat
  BY <1>1, Sized, OneMore
<1> HIDE DEF d
<1>3. r > 0
  OBVIOUS
<1> HIDE DEF r
<1>4. b - 1 = d * c.no_bin + (r - 1) /\ r - 1 \in 0..(c.no_bin - 1) /\ b - 1 \in Nat
  BY <1>1, <1>2, <1>3
<1>5. br(d * c.no_bin + (r - 1)) = r - 1 /\ bc(d * c.no_bin + (r - 1)) = d * no_gang
  BY <1>1, <1>4, TurnOf
<1> QED
  BY <1>1, <1>4, <1>5, Zenon DEF r

\* In a turn that takes its matrix from the ring the row is not the first of its
\* column.
LEMMA RingRow ==
  ASSUME c \in Sizes, NEW b \in Nat, b < bmax, ~Skipped(b), br(b) % no_gang # 0
  PROVE  br(b) > bc(b)
<1>1. bc(b) = (b \div c.no_bin) * no_gang /\ b \div c.no_bin \in Nat /\ br(b) \in Nat /\ bc(b) \in Nat
  BY RowAndColumn
<1>2. no_gang \in Nat \ {0} /\ 0 \in 0..(no_gang - 1)
  BY Sized
<1>3. bc(b) % no_gang = 0
  <2>1. ((b \div c.no_bin) * no_gang + 0) % no_gang = 0
    BY <1>1, <1>2, Quotient
  <2>2. bc(b) = (b \div c.no_bin) * no_gang + 0
    BY <1>1
  <2> QED
    BY <2>1, <2>2, Zenon
<1>4. br(b) # bc(b)
  BY <1>3, Zenon
<1>5. ~(br(b) < bc(b))
  BY DEF Skipped, br, bc
<1> QED
  BY <1>1, <1>4, <1>5

\* Neither is the turn before such a turn skipped, nor is it in another column.
LEMMA SameColumn ==
  ASSUME c \in Sizes, NEW b \in Nat, b < bmax, br(b) > bc(b)
  PROVE  /\ b - 1 \in Nat /\ ~Skipped(b - 1)
         /\ br(b - 1) = br(b) - 1 /\ bc(b - 1) = bc(b)
<1>1. br(b) \in Nat /\ bc(b) \in Nat
  BY RowAndColumn
<1>2. b - 1 \in Nat /\ br(b - 1) = br(b) - 1 /\ bc(b - 1) = bc(b)
  BY <1>1, TurnBefore
<1>3. ~(br(b - 1) < bc(b - 1))
  BY <1>1, <1>2
<1>4. Skipped(b - 1) => br(b - 1) < bc(b - 1)
  BY DEF Skipped, br, bc
<1> QED
  BY <1>2, <1>3, <1>4

\* NextTurn is the next turn that is not skipped; there is one, the last turn or what
\* comes after it.
LEMMA NextIs ==
  ASSUME c \in Sizes, NEW b \in Nat, b <= bmax
  PROVE  /\ NextTurn(b) \in Nat /\ NextTurn(b) > b /\ ~Skipped(NextTurn(b))
         /\ \A k \in (b + 1)..(NextTurn(b) - 1) : Skipped(k)
         /\ b < bmax => NextTurn(b) <= bmax
         /\ b = bmax => NextTurn(b) = bmax + 1
<1> DEFINE S == {n \in (b + 1)..(bmax + 1) : ~Skipped(n)}
           P(n) == ~Skipped(n) /\ \A k \in (b + 1)..(n - 1) : Skipped(k)
<1>1. bmax \in Nat
  BY Turns
<1>2. ~Skipped(bmax) /\ ~Skipped(bmax + 1)
  BY <1>1 DEF Skipped
<1>3. S \subseteq Nat /\ bmax + 1 \in S
  BY <1>1, <1>2
<1>4. PICK n \in S : \A m \in S : n <= m
  <2> HIDE DEF S
  <2> QED
    BY <1>3, Least, Zenon
<1>5. n \in (b + 1)..(bmax + 1) /\ P(n)
  <2>1. n \in (b + 1)..(bmax + 1) /\ ~Skipped(n)
    OBVIOUS
  <2>2. ASSUME NEW k \in (b + 1)..(n - 1), ~Skipped(k) PROVE FALSE
    <3>1. k \in (b + 1)..(bmax + 1) /\ ~(n <= k)
      BY <1>1, <2>1
    <3> QED
      BY <1>4, <2>2, <3>1
  <2> QED
    BY <2>1, <2>2
<1> DEFINE t == NextTurn(b)
<1>6. t \in (b + 1)..(bmax + 1) /\ P(t)
  <2>1. t = CHOOSE m \in (b + 1)..(bmax + 1) : P(m)
    BY DEF NextTurn
  <2> HIDE DEF P, t
  <2> QED
    BY <1>5, <2>1, Zenon
<1> HIDE DEF t
<1>7. t \in Nat /\ t > b
  BY <1>1, <1>6
<1>8. b < bmax => t <= bmax
  <2> SUFFICES ASSUME b < bmax, t = bmax + 1 PROVE FALSE
    BY <1>1, <1>6, <1>7
  <2>1. bmax \in (b + 1)..(t - 1)
    BY <1>1
  <2> QED
    BY <1>2, <1>6, <2>1
<1>9. b = bmax => t = bmax + 1
  BY <1>1, <1>6, <1>7
<1> QED
  BY <1>6, <1>7, <1>8, <1>9 DEF t

\* Turns are taken in order, each once.
LEMMA NextOrder ==
  ASSUME c \in Sizes, NEW a \in Nat, a <= bmax, ~Skipped(a),
         NEW b \in Nat, b <= bmax, ~Skipped(b)
  PROVE  /\ a < b => NextTurn(a) <= b
         /\ NextTurn(a) = NextTurn(b) => a = b
<1> DEFINE A == NextTurn(a)
           B == NextTurn(b)
<1>1. A \in Nat /\ A > a /\ \A k \in (a + 1)..(A - 1) : Skipped(k)
  BY NextIs
<1>2. B \in Nat /\ B > b /\ \A k \in (b + 1)..(B - 1) : Skipped(k)
  BY NextIs
<1> HIDE DEF A, B
<1>3. a < b => ~(b < A)
  BY <1>1
<1>4. b < a => ~(a < B)
  BY <1>2
<1> QED
  BY <1>1, <1>2, <1>3, <1>4 DEF A, B

\* The turn before one that is not the first of its column is that of the row above.
LEMMA OneBefore ==
  ASSUME c \in Sizes, NEW a \in Nat, a <= bmax, ~Skipped(a),
         NEW b \in Nat, b < bmax, br(b) > bc(b), b = NextTurn(a)
  PROVE  a = b - 1 /\ br(a) = br(b) - 1 /\ bc(a) = bc(b)
<1>1. b - 1 \in Nat /\ ~Skipped(b - 1) /\ br(b - 1) = br(b) - 1 /\ bc(b - 1) = bc(b)
  BY SameColumn
<1>2. b > a /\ \A k \in (a + 1)..(b - 1) : Skipped(k)
  BY NextIs
<1>3. a = b - 1
  BY <1>1, <1>2
<1> QED
  BY <1>1, <1>3, Zenon
----------------------------------------------------------------------------
\* The matrix that gang g has in row r: the gangs have read those of a block, and
\* each row further they are one gang on.
Share(g, r) == no_gang * (r \div no_gang) + ((r + g) % no_gang)

LEMMA ShareNat ==
  ASSUME c \in Sizes, NEW g \in Gangs, NEW r \in Nat
  PROVE  Share(g, r) \in Nat /\ Share(g, r) # None
<1>1. no_gang \in Nat \ {0} /\ r + g \in Nat
  BY Sized DEF Gangs
<1>2. r \div no_gang \in Nat /\ (r + g) % no_gang \in Nat
  <2>1. r \div no_gang \in Nat /\ (r + g) % no_gang \in 0..(no_gang - 1)
    BY <1>1, Division, Zenon
  <2> QED
    BY <1>1, <2>1
<1>3. no_gang * (r \div no_gang) \in Nat
  BY <1>1, <1>2, Z3
<1>4. Share(g, r) \in Nat
  BY <1>2, <1>3 DEF Share
<1> QED
  BY <1>4 DEF None

\* Where a block begins a gang has the matrix it reads.
LEMMA ShareRead ==
  ASSUME c \in Sizes, NEW g \in Gangs, NEW r \in Nat, r % no_gang = 0
  PROVE  Share(g, r) = no_gang * (r \div no_gang) + g
<1>1. no_gang \in Nat \ {0} /\ r + g \in Nat /\ g \in 0..(no_gang - 1)
  BY Sized DEF Gangs
<1>2. r \div no_gang \in Nat /\ r = (r \div no_gang) * no_gang
  BY <1>1, Multiple
<1>3. ((r \div no_gang) * no_gang + g) % no_gang = g
  BY <1>1, <1>2, Quotient
<1>4. (r + g) % no_gang = g
  BY <1>2, <1>3, Zenon
<1> QED
  BY <1>4, Zenon DEF Share

\* A whole turn round the ring changes nothing.
LEMMA OneRound ==
  ASSUME NEW n \in Nat, NEW w \in Nat \ {0}
  PROVE  (n + w) % w = n % w
<1> DEFINE d == n \div w
           r == n % w
<1>1. d \in Nat /\ r \in 0..(w - 1) /\ n = d * w + r
  BY Division, Zenon
<1>2. (d + 1) * w = d * w + w /\ d * w \in Nat
  BY <1>1, OneMore
<1> HIDE DEF d, r
<1>3. ((d + 1) * w + r) % w = r
  BY <1>1, d + 1 \in Nat, Quotient
<1>4. n + w = (d + 1) * w + r
  BY <1>1, <1>2
<1> QED
  BY <1>3, <1>4 DEF r

\* In the other rows it has the matrix that the next gang had in the row before.
LEMMA ShareRing ==
  ASSUME c \in Sizes, NEW g \in Gangs, NEW r \in Nat, r % no_gang # 0
  PROVE  r - 1 \in Nat /\ Share(g, r) = Share(from_gang(g), r - 1)
<1> DEFINE G == no_gang
           d == r \div G
           f == from_gang(g)
<1>1. G \in Nat \ {0} /\ g \in 0..(G - 1)
  BY Sized DEF Gangs
<1>2. d \in Nat /\ r % G \in 0..(G - 1) /\ r = d * G + (r % G) /\ d * G \in Nat
  BY <1>1, Division, OneMore, Zenon
<1>3. r - 1 \in Nat /\ (r % G) - 1 \in 0..(G - 1) /\ r - 1 = d * G + ((r % G) - 1)
  BY <1>1, <1>2
<1>4. (r - 1) \div G = d
  <2>1. (d * G + ((r % G) - 1)) \div G = d
    BY <1>1, <1>2, <1>3, Quotient, Zenon
  <2> QED
    BY <1>3, <2>1, Zenon
<1>5. ((r - 1) + f) % G = (r + g) % G
  <2>1. CASE g + 1 < G
    <3>1. g + 1 \in 0..(G - 1)
      BY <1>1, <2>1
    <3>2. (g + 1) % G = g + 1
      BY <1>1, <3>1, SmallRemainder
    <3>3. (r - 1) + (g + 1) = r + g
      BY <1>1
    <3> QED
      BY <3>2, <3>3, Zenon DEF from_gang
  <2>2. CASE g + 1 = G
    <3>1. G % G = 0
      BY <1>1, OneWhole
    <3>2. (r - 1) + 0 = r - 1 /\ (r - 1) + G = r + g
      BY <1>1, <2>2
    <3>3. ((r - 1) + G) % G = (r - 1) % G
      BY <1>1, <1>3, OneRound, Zenon
    <3> QED
      BY <2>2, <3>1, <3>2, <3>3, Zenon DEF from_gang
  <2> QED
    BY <1>1, <2>1, <2>2
<1> QED
  BY <1>3, <1>4, <1>5, Zenon DEF Share
----------------------------------------------------------------------------
\* Every array has an element for every PE.
Arrays ==
  /\ DOMAIN turn = PEs /\ DOMAIN stage = PEs /\ DOMAIN pending = PEs
  /\ DOMAIN rbuffer = PEs /\ DOMAIN mpi_buffer = PEs
  /\ DOMAIN Wb = PEs /\ DOMAIN WTb = PEs /\ DOMAIN pair = PEs
  /\ DOMAIN dLdC = PEs /\ DOMAIN d2LdC2 = PEs

\* p is in a turn that is not skipped, at a stage that the turn has, and pair[p] is
\* that of the turn before.
InTurn(p) ==
  /\ turn[p] \in 0..(bmax + 1) /\ ~Skipped(turn[p])
  /\ turn[p] = 0 => pair[p] = <<0, 0>>
  /\ turn[p] > 0 => \E t \in 0..bmax : /\ ~Skipped(t) /\ turn[p] = NextTurn(t)
                                       /\ pair[p] = <<br(t), bc(t)>>
  /\ stage[p] \in {"resync", "read", "send", "recv", "calc"}
  /\ stage[p] = "read" => turn[p] < bmax /\ br(turn[p]) % no_gang = 0
  /\ stage[p] \in {"send", "recv"} => turn[p] < bmax /\ br(turn[p]) % no_gang # 0
  /\ stage[p] = "resync" => /\ turn[p] > 0 /\ turn[p] <= bmax
                            /\ Resyncs(pair[p][1])

\* What the buffers of p hold: in the ring the matrix of the row before until it is
\* sent, and where the turn is over that of its row, which may still be on its way
\* from the file.
Fetched(p) ==
  /\ stage[p] \in {"send", "recv"} => rbuffer[p] = Share(p[1], br(turn[p]) - 1)
  /\ stage[p] = "send" /\ p[1] % 2 # 0 => mpi_buffer[p] = Share(p[1], br(turn[p]))
  /\ stage[p] = "calc" /\ turn[p] < bmax =>
       IF Resyncs(br(turn[p])) THEN pending[p] = Share(p[1], br(turn[p]))
                               ELSE rbuffer[p] = Share(p[1], br(turn[p]))
  /\ stage[p] = "resync" => pending[p] = Share(p[1], pair[p][1])

\* What p computes with: the matrix of the row, and that of the column since its
\* first row.
Taken(p) ==
  /\ turn[p] > 0 /\ turn[p] <= bmax /\ stage[p] # "resync" => Wb[p] = Share(p[1], pair[p][1])
  /\ turn[p] > 0 /\ turn[p] <= bmax /\ pair[p][1] > pair[p][2] => WTb[p] = pair[p][2] + p[1]

\* What p has computed after turn t, and with which matrices.
HasComputed(p, t) ==
  LET k == Share(p[1], br(t))
      m == bc(t) + p[1]
  IN  /\ k = m => <<k, k>> \in dLdC[p]
      /\ k >= m => <<k, m, k, m>> \in d2LdC2[p]

\* p has computed in all turns up to that before its own, and only in columns of its
\* gang.
Computed(p) ==
  /\ \A t \in 0..(bmax - 1) : ~Skipped(t) /\ NextTurn(t) < turn[p] => HasComputed(p, t)
  /\ \A e \in dLdC[p] : e[1] % no_gang = p[1]
  /\ \A e \in d2LdC2[p] : e[2] % no_gang = p[1]

\* The inductive invariant.
RingInv == c \in Sizes /\ Arrays /\ \A p \in PEs : InTurn(p) /\ Fetched(p) /\ Taken(p) /\ Computed(p)

LEMMA Same ==
  ASSUME c' = c
  PROVE  /\ PEs' = PEs /\ Gangs' = Gangs /\ no_gang' = no_gang /\ bmax' = bmax
         /\ \A b : /\ br(b)' = br(b) /\ bc(b)' = bc(b) /\ NextTurn(b)' = NextTurn(b)
                   /\ Skipped(b)' <=> Skipped(b)
                   /\ Resyncs(b)' <=> Resyncs(b)
         /\ \A g, r : Share(g, r)' = Share(g, r)
<1>1. PEs' = PEs /\ Gangs' = Gangs /\ no_gang' = no_gang /\ bmax' = bmax
  BY DEF PEs, Gangs, no_gang, bmax
<1>2. ASSUME NEW b
      PROVE  /\ br(b)' = br(b) /\ bc(b)' = bc(b)
             /\ Skipped(b)' <=> Skipped(b)
             /\ Resyncs(b)' <=> Resyncs(b)
  BY DEF br, bc, Skipped, Resyncs, no_gang, bmax
<1>3. ASSUME NEW b PROVE NextTurn(b)' = NextTurn(b)
  BY DEF NextTurn, Skipped, no_gang, bmax
<1>4. ASSUME NEW g, NEW r PROVE Share(g, r)' = Share(g, r)
  BY DEF Share, no_gang
<1> QED
  BY <1>1, <1>2, <1>3, <1>4

\* What a PE does not change stays true of it.
LEMMA SameTurn ==
  ASSUME c' = c, NEW q \in PEs, InTurn(q),
         turn'[q] = turn[q], stage'[q] = stage[q], pair'[q] = pair[q]
  PROVE  InTurn(q)'
  BY Same DEF InTurn

LEMMA SameFetched ==
  ASSUME c' = c, NEW q \in PEs, Fetched(q),
         turn'[q] = turn[q], stage'[q] = stage[q], pair'[q] = pair[q],
         rbuffer'[q] = rbuffer[q], mpi_buffer'[q] = mpi_buffer[q], pending'[q] = pending[q]
  PROVE  Fetched(q)'
  BY Same DEF Fetched

LEMMA SameTaken ==
  ASSUME c' = c, NEW q \in PEs, Taken(q),
         turn'[q] = turn[q], stage[q] # "resync" \/ stage'[q] = stage[q], pair'[q] = pair[q],
         Wb'[q] = Wb[q], WTb'[q] = WTb[q]
  PROVE  Taken(q)'
  BY Same DEF Taken

LEMMA SameComputed ==
  ASSUME c' = c, NEW q \in PEs, Computed(q),
         turn'[q] = turn[q], dLdC'[q] = dLdC[q], d2LdC2'[q] = d2LdC2[q]
  PROVE  Computed(q)'
<1>1. \A t : HasComputed(q, t)' <=> HasComputed(q, t)
  BY Same DEF HasComputed
<1> QED
  BY Same, <1>1 DEF Computed

LEMMA RingInit == Init => RingInv
<1> SUFFICES ASSUME Init PROVE RingInv
  OBVIOUS
<1>1. c \in Sizes /\ bmax \in Nat /\ bmax > 0 /\ no_gang \in Nat \ {0} /\ 0 \in 0..(c.no_bin - 1)
  <2>1. c \in Sizes
    BY DEF Init
  <2>2. /\ c.no_bin \div no_gang \in Nat /\ c.no_bin = (c.no_bin \div no_gang) * no_gang
        /\ bmax = (c.no_bin \div no_gang) * c.no_bin /\ bmax \in Nat
    BY <2>1, Turns
  <2>3. no_gang \in Nat \ {0} /\ c.no_bin \in Nat \ {0}
    BY <2>1, Sized
  <2>4. c.no_bin \div no_gang # 0
    <3>1. 0 * no_gang = 0
      BY <2>3
    <3> QED
      BY <2>2, <2>3, <3>1, Zenon
  <2>5. c.no_bin \div no_gang <= bmax
    BY <2>2, <2>3, AtLeast
  <2> QED
    BY <2>1, <2>2, <2>3, <2>4, <2>5
<1>2. br(0) = 0 /\ bc(0) = 0
  <2>1. 0 * c.no_bin + 0 = 0 /\ 0 * no_gang = 0
    BY <1>1, Sized
  <2>2. br(0 * c.no_bin + 0) = 0 /\ bc(0 * c.no_bin + 0) = 0 * no_gang
    BY <1>1, TurnOf
  <2> QED
    BY <2>1, <2>2, Zenon
<1>3. ~Skipped(0)
  BY <1>2 DEF Skipped, br, bc
<1>4. 0 % no_gang = 0
  BY <1>1, SmallRemainder
<1>5. Arrays
  BY DEF Init, Arrays
<1>6. ASSUME NEW p \in PEs PROVE InTurn(p) /\ Fetched(p) /\ Taken(p) /\ Computed(p)
  <2>1. /\ turn[p] = 0 /\ stage[p] = "read" /\ pair[p] = <<0, 0>>
        /\ dLdC[p] = {} /\ d2LdC2[p] = {}
    BY <1>6 DEF Init
  <2>2. InTurn(p)
    BY <1>1, <1>2, <1>3, <1>4, <2>1 DEF InTurn
  <2>3. Fetched(p) /\ Taken(p)
    BY <2>1 DEF Fetched, Taken
  <2>4. ASSUME NEW t \in 0..(bmax - 1), NextTurn(t) < 0 PROVE FALSE
    <3>1. t \in Nat /\ t <= bmax
      BY <1>1
    <3>2. NextTurn(t) \in Nat
      BY <1>1, <3>1, NextIs
    <3> QED
      BY <2>4, <3>2
  <2>5. Computed(p)
    BY <2>1, <2>4 DEF Computed
  <2> QED
    BY <2>2, <2>3, <2>5
<1> QED
  BY <1>1, <1>5, <1>6 DEF RingInv

\* Where a turn begins.
LEMMA Begins ==
  ASSUME NEW p, NEW b \in Nat, bmax \in Nat
  PROVE  /\ First(p, b) \in {"read", "send", "recv", "calc"}
         /\ First(p, b) = "read" => b < bmax /\ br(b) % no_gang = 0
         /\ First(p, b) \in {"send", "recv"} => b < bmax /\ br(b) % no_gang # 0
         /\ First(p, b) = "send" => p[1] % 2 = 0
         /\ First(p, b) = "calc" => b >= bmax
<1>1. CASE b >= bmax
  BY <1>1 DEF First
<1>2. CASE b < bmax /\ br(b) % no_gang = 0
  BY <1>2 DEF First
<1>3. CASE b < bmax /\ br(b) % no_gang # 0
  BY <1>3 DEF First
<1> QED
  BY <1>1, <1>2, <1>3

\* Within a column pair[p] is the row above.
LEMMA PairBefore ==
  ASSUME c \in Sizes, NEW p, InTurn(p), turn[p] > 0, turn[p] < bmax,
         br(turn[p]) > bc(turn[p])
  PROVE  pair[p] = <<br(turn[p]) - 1, bc(turn[p])>>
<1>1. turn[p] \in Nat /\ bmax \in Nat
  BY Turns DEF InTurn
<1>2. PICK t \in 0..bmax : ~Skipped(t) /\ turn[p] = NextTurn(t) /\ pair[p] = <<br(t), bc(t)>>
  BY DEF InTurn
<1>3. t \in Nat /\ t <= bmax
  BY <1>1
<1>4. br(t) = br(turn[p]) - 1 /\ bc(t) = bc(turn[p])
  BY <1>1, <1>2, <1>3, OneBefore
<1> QED
  BY <1>2, <1>4, Zenon

\* The types the steps rest on.
LEMMA AtPE ==
  ASSUME RingInv, NEW p \in PEs
  PROVE  /\ c \in Sizes /\ bmax \in Nat /\ p[1] \in Gangs /\ turn[p] \in Nat
         /\ turn[p] <= bmax + 1 /\ br(turn[p]) \in Nat /\ bc(turn[p]) \in Nat
         /\ ~Skipped(turn[p]) /\ InTurn(p) /\ Fetched(p) /\ Taken(p) /\ Computed(p)
<1>1. c \in Sizes /\ InTurn(p) /\ Fetched(p) /\ Taken(p) /\ Computed(p) /\ p[1] \in Gangs
  BY DEF RingInv, PEs
<1>2. bmax \in Nat
  BY <1>1, Turns
<1>3. turn[p] \in Nat /\ turn[p] <= bmax + 1 /\ ~Skipped(turn[p])
  BY <1>1, <1>2 DEF InTurn
<1> QED
  BY <1>1, <1>2, <1>3, RowAndColumn

\* A step after which every PE satisfies its part preserves the invariant.
LEMMA Together ==
  ASSUME RingInv, c' = c, Arrays',
         \A q \in PEs : InTurn(q)' /\ Fetched(q)' /\ Taken(q)' /\ Computed(q)'
  PROVE  RingInv'
<1>1. c \in Sizes /\ PEs' = PEs
  BY Same DEF RingInv
<1> QED
  BY <1>1 DEF RingInv

LEMMA RingResync == ASSUME RingInv, NEW p \in PEs, resync(p) PROVE RingInv'
<1> DEFINE b == turn[p]
           W == Share(p[1], pair[p][1])
<1>1. /\ c' = c /\ turn' = turn /\ pair' = pair /\ mpi_buffer' = mpi_buffer /\ WTb' = WTb
      /\ dLdC' = dLdC /\ d2LdC2' = d2LdC2 /\ stage[p] = "resync"
  BY DEF resync
<1>2. Arrays /\ Arrays'
  BY Same, <1>1, Zenon DEF RingInv, Arrays, resync
<1>3. /\ c \in Sizes /\ bmax \in Nat /\ p[1] \in Gangs /\ b \in Nat /\ br(b) \in Nat /\ bc(b) \in Nat
      /\ ~Skipped(b) /\ InTurn(p) /\ Fetched(p) /\ Taken(p) /\ Computed(p)
  BY AtPE
<1>4. b > 0 /\ b <= bmax /\ pending[p] = W
  BY <1>1, <1>3 DEF InTurn, Fetched
<1>5. W # None
  <2>1. PICK t \in 0..bmax : pair[p] = <<br(t), bc(t)>>
    BY <1>3, <1>4 DEF InTurn
  <2>2. t \in Nat /\ pair[p][1] = br(t)
    BY <1>3, <2>1
  <2> QED
    BY <1>3, <2>2, RowAndColumn, ShareNat
<1>6. /\ stage'[p] = First(p, b) /\ rbuffer'[p] = W /\ Wb'[p] = W
  BY <1>2, <1>4, <1>5 DEF resync, Arrays
<1>7. /\ First(p, b) \in {"read", "send", "recv", "calc"}
      /\ First(p, b) = "read" => b < bmax /\ br(b) % no_gang = 0
      /\ First(p, b) \in {"send", "recv"} => b < bmax /\ br(b) % no_gang # 0
      /\ First(p, b) = "send" => p[1] % 2 = 0
      /\ First(p, b) = "calc" => b >= bmax
  BY <1>3, Begins, SMTT(30)
<1> HIDE DEF b, W
<1>8. InTurn(p)'
  BY <1>1, <1>3, <1>6, <1>7, Same, SMTT(30) DEF InTurn, b
<1>9. Fetched(p)'
  <2>1. ASSUME First(p, b) \in {"send", "recv"} PROVE W = Share(p[1], br(b) - 1)
    <3>1. br(b) > bc(b) /\ b < bmax
      BY <1>3, <1>7, <2>1, RingRow
    <3>2. pair[p][1] = br(b) - 1
      BY <1>3, <1>4, <3>1, PairBefore DEF b
    <3> QED
      BY <3>2, Zenon DEF W
  <2>2. b < bmax => First(p, b) # "calc"
    BY <1>3, <1>7, SMTT(30)
  <2> QED
    BY <1>1, <1>6, <1>7, <2>1, <2>2, Same DEF Fetched, b
<1>10. Taken(p)'
  BY <1>1, <1>3, <1>6, Same, SMTT(30) DEF Taken, W
<1>11. Computed(p)'
  BY <1>1, <1>3, SameComputed, SMTT(30)
<1>12. ASSUME NEW q \in PEs, q # p PROVE InTurn(q)' /\ Fetched(q)' /\ Taken(q)' /\ Computed(q)'
  <2>1. /\ stage'[q] = stage[q] /\ rbuffer'[q] = rbuffer[q] /\ Wb'[q] = Wb[q]
        /\ pending'[q] = pending[q]
    BY <1>2, <1>12 DEF resync, Arrays
  <2>2. InTurn(q) /\ Fetched(q) /\ Taken(q) /\ Computed(q)
    BY DEF RingInv
  <2>3. InTurn(q)' /\ Fetched(q)'
    BY <1>1, <2>1, <2>2, SameTurn, SameFetched, ZenonT(60)
  <2>4. Taken(q)' /\ Computed(q)'
    BY <1>1, <2>1, <2>2, SameTaken, SameComputed, ZenonT(60)
  <2> QED
    BY <2>3, <2>4, Zenon
<1> QED
  BY <1>1, <1>2, <1>8, <1>9, <1>10, <1>11, <1>12, Together

LEMMA RingRead == ASSUME RingInv, NEW p \in PEs, read(p) PROVE RingInv'
<1> DEFINE b == turn[p]
           W == no_gang * (br(b) \div no_gang) + p[1]
<1>1. /\ c' = c /\ turn' = turn /\ pair' = pair /\ mpi_buffer' = mpi_buffer /\ WTb' = WTb
      /\ Wb' = Wb /\ dLdC' = dLdC /\ d2LdC2' = d2LdC2 /\ stage[p] = "read"
  BY DEF read
<1>2. Arrays /\ Arrays'
  BY Same, <1>1, Zenon DEF RingInv, Arrays, read
<1>3. /\ c \in Sizes /\ bmax \in Nat /\ p[1] \in Gangs /\ b \in Nat /\ br(b) \in Nat
      /\ InTurn(p) /\ Fetched(p) /\ Taken(p) /\ Computed(p)
  BY AtPE
<1>4. b < bmax /\ br(b) % no_gang = 0
  BY <1>1, <1>3 DEF InTurn
<1>5. Share(p[1], br(b)) = W
  BY <1>3, <1>4, ShareRead
<1>6. /\ stage'[p] = "calc"
      /\ IF c.IOMODE = "SYNC" THEN rbuffer'[p] = W ELSE pending'[p] = W
  BY <1>2 DEF read, Arrays
<1>7. Resyncs(br(b)) <=> c.IOMODE # "SYNC"
  BY <1>3, <1>4, Sized, SMTT(30) DEF Resyncs
<1> HIDE DEF b, W
<1>8. InTurn(p)'
  BY <1>1, <1>3, <1>6, Same, SMTT(30) DEF InTurn
<1>9. Fetched(p)'
  BY <1>1, <1>5, <1>6, <1>7, Same, SMTT(30) DEF Fetched, b
<1>10. Taken(p)' /\ Computed(p)'
  BY <1>1, <1>3, SameTaken, SameComputed, SMTT(30)
<1>11. ASSUME NEW q \in PEs, q # p PROVE InTurn(q)' /\ Fetched(q)' /\ Taken(q)' /\ Computed(q)'
  <2>1. stage'[q] = stage[q] /\ rbuffer'[q] = rbuffer[q] /\ pending'[q] = pending[q]
    BY <1>2, <1>11 DEF read, Arrays
  <2>2. InTurn(q) /\ Fetched(q) /\ Taken(q) /\ Computed(q)
    BY DEF RingInv
  <2> QED
    BY <1>1, <2>1, <2>2, SameTurn, SameFetched, SameTaken, SameComputed
<1> QED
  BY <1>1, <1>2, <1>8, <1>9, <1>10, <1>11, Together

\* The receiver gets the matrix of its row: its sender, the next gang, has that of the
\* row before.
LEMMA RingExchange ==
  ASSUME RingInv, NEW p \in PEs, NEW q \in PEs, exchange(p, q)
  PROVE  RingInv'
<1> DEFINE r == br(turn[q])
<1>1. /\ c' = c /\ turn' = turn /\ pair' = pair /\ pending' = pending /\ Wb' = Wb /\ WTb' = WTb
      /\ dLdC' = dLdC /\ d2LdC2' = d2LdC2
      /\ stage[p] = "send" /\ stage[q] = "recv" /\ p[1] = from_gang(q[1]) /\ br(turn[p]) = r
  <2>1. \A f, y : p = <<f, y>> => p[1] = f
    OBVIOUS
  <2>2. p[1] = from_gang(q[1])
    BY <2>1, Zenon DEF exchange, Meet
  <2> QED
    BY <2>2, Zenon DEF exchange, Meet
<1>2. Arrays /\ Arrays'
  BY Same, <1>1, Zenon DEF RingInv, Arrays, exchange, Meet
<1>3. p # q
  BY <1>1
<1>4. /\ c \in Sizes /\ p[1] \in Gangs /\ q[1] \in Gangs /\ r \in Nat
      /\ InTurn(p) /\ Fetched(p) /\ Taken(p) /\ Computed(p)
      /\ InTurn(q) /\ Fetched(q) /\ Taken(q) /\ Computed(q)
  BY AtPE
<1>5. /\ stage'[p] = IF p[1] % 2 = 0 THEN "recv" ELSE "calc"
      /\ stage'[q] = IF q[1] % 2 = 0 THEN "calc" ELSE "send"
  BY <1>2, <1>3, Zenon DEF exchange, Meet, Arrays
<1>6. /\ mpi_buffer'[p] = mpi_buffer[p] /\ mpi_buffer'[q] = rbuffer[p]
      /\ rbuffer'[p] = IF p[1] % 2 = 0 THEN rbuffer[p] ELSE mpi_buffer[p]
      /\ rbuffer'[q] = IF q[1] % 2 = 0 THEN rbuffer[p] ELSE rbuffer[q]
  BY <1>2, <1>3 DEF exchange, Arrays
<1>7. /\ turn[p] < bmax /\ turn[q] < bmax /\ r % no_gang # 0
  BY <1>1, <1>4 DEF InTurn
<1>8. /\ rbuffer[p] = Share(p[1], r - 1) /\ rbuffer[q] = Share(q[1], r - 1)
      /\ p[1] % 2 # 0 => mpi_buffer[p] = Share(p[1], r)
  BY <1>1, <1>4 DEF Fetched
<1>9. rbuffer[p] = Share(q[1], r)
  <2>1. Share(q[1], r) = Share(from_gang(q[1]), r - 1)
    BY <1>4, <1>7, ShareRing
  <2> QED
    BY <1>1, <1>8, <2>1, Zenon
<1>10. ~Resyncs(r)
  BY <1>7 DEF Resyncs
<1> HIDE DEF r
<1>11. InTurn(p)' /\ InTurn(q)'
  <2>1. InTurn(p)'
    BY <1>1, <1>4, <1>5, <1>7, Same, SMTT(30) DEF InTurn
  <2>2. InTurn(q)'
    BY <1>1, <1>4, <1>5, <1>7, Same, ZenonT(60) DEF InTurn, r
  <2> QED
    BY <2>1, <2>2, ZenonT(60)
<1>12. Fetched(p)'
  BY <1>1, <1>5, <1>6, <1>8, <1>10, Same, SMTT(30) DEF Fetched
<1>13. Fetched(q)'
  BY <1>1, <1>5, <1>6, <1>8, <1>9, <1>10, Same, ZenonT(60) DEF Fetched, r
<1>14. Taken(p)' /\ Taken(q)' /\ Computed(p)' /\ Computed(q)'
  BY <1>1, <1>4, SameTaken, SameComputed, ZenonT(60)
<1>15. ASSUME NEW o \in PEs, o # p, o # q
       PROVE  InTurn(o)' /\ Fetched(o)' /\ Taken(o)' /\ Computed(o)'
  <2>1. stage'[o] = stage[o] /\ rbuffer'[o] = rbuffer[o] /\ mpi_buffer'[o] = mpi_buffer[o]
    BY <1>2, <1>15, Zenon DEF exchange, Meet, Arrays
  <2>2. InTurn(o) /\ Fetched(o) /\ Taken(o) /\ Computed(o)
    BY DEF RingInv
  <2>3. InTurn(o)' /\ Fetched(o)'
    BY <1>1, <2>1, <2>2, SameTurn, SameFetched, ZenonT(60)
  <2>4. Taken(o)' /\ Computed(o)'
    BY <1>1, <2>1, <2>2, SameTaken, SameComputed, ZenonT(60)
  <2> QED
    BY <2>3, <2>4, Zenon
<1> QED
  BY <1>1, <1>2, <1>11, <1>12, <1>13, <1>14, <1>15, Together, SMTT(30)

\* In the first row of a column the gang has the matrix of the column.
LEMMA ShareColumn ==
  ASSUME c \in Sizes, NEW g \in Gangs, NEW b \in Nat
  PROVE  Share(g, bc(b)) = bc(b) + g /\ (bc(b) + g) % no_gang = g
<1> DEFINE d == b \div c.no_bin
<1>1. no_gang \in Nat \ {0} /\ g \in 0..(no_gang - 1) /\ 0 \in 0..(no_gang - 1)
  BY Sized DEF Gangs
<1>2. d \in Nat /\ bc(b) = d * no_gang /\ bc(b) \in Nat
  BY RowAndColumn
<1> HIDE DEF d
<1>3. (d * no_gang + 0) % no_gang = 0 /\ (d * no_gang + 0) \div no_gang = d
      /\ (d * no_gang + g) % no_gang = g
  BY <1>1, <1>2, Quotient, Zenon
<1>4. d * no_gang + 0 = bc(b) /\ d * no_gang = no_gang * d
  BY <1>1, <1>2, Z3
<1>5. bc(b) % no_gang = 0 /\ bc(b) \div no_gang = d
  BY <1>3, <1>4, Zenon
<1>6. Share(g, bc(b)) = no_gang * (bc(b) \div no_gang) + g
  BY <1>2, <1>5, ShareRead
<1> QED
  BY <1>2, <1>3, <1>4, <1>5, <1>6, Zenon

\* What dbydC gets.
LEMMA Match ==
  ASSUME RingInv, NEW p \in PEs, stage[p] = "calc", turn[p] > 0, ~Done(p)
  PROVE  /\ Wb[p] = CalcBr(p)
         /\ CalcBr(p) > CalcBc(p) => WTb[p] = CalcBc(p)
         /\ CalcBc(p) % no_gang = p[1]
<1>1. /\ c \in Sizes /\ bmax \in Nat /\ p[1] \in Gangs /\ turn[p] \in Nat
      /\ InTurn(p) /\ Taken(p)
  BY AtPE
<1>2. turn[p] <= bmax
  BY <1>1 DEF Done
<1>3. PICK t \in 0..bmax : ~Skipped(t) /\ turn[p] = NextTurn(t) /\ pair[p] = <<br(t), bc(t)>>
  BY <1>1 DEF InTurn
<1>4. t \in Nat /\ t < bmax /\ br(t) \in Nat /\ bc(t) \in Nat
  <2>1. t \in Nat /\ t <= bmax
    BY <1>1
  <2>2. t = bmax => NextTurn(t) = bmax + 1
    BY <1>1, <2>1, NextIs
  <2> QED
    BY <1>1, <1>2, <1>3, <2>1, <2>2, RowAndColumn
<1>5. /\ pair[p][1] = br(t) /\ pair[p][2] = bc(t)
      /\ CalcBr(p) = Share(p[1], br(t)) /\ CalcBc(p) = bc(t) + p[1]
  BY <1>3 DEF CalcBr, CalcBc, Share
<1>6. Wb[p] = CalcBr(p)
  BY <1>1, <1>2, <1>5 DEF Taken
<1>7. ASSUME CalcBr(p) > CalcBc(p) PROVE WTb[p] = CalcBc(p)
  <2>1. Share(p[1], bc(t)) = bc(t) + p[1]
    BY <1>1, <1>4, ShareColumn
  <2>2. br(t) # bc(t)
    <3> SUFFICES ASSUME br(t) = bc(t) PROVE FALSE
      OBVIOUS
    <3>1. CalcBr(p) = CalcBc(p)
      BY <1>5, <2>1, Zenon
    <3>2. CalcBc(p) \in Int
      BY <1>1, <1>4, <1>5, Sized DEF Gangs
    <3> QED
      BY <1>7, <3>1, <3>2
  <2>3. ~(br(t) < bc(t))
    BY <1>3, <1>4 DEF Skipped, br, bc
  <2>4. pair[p][1] > pair[p][2]
    BY <1>4, <1>5, <2>2, <2>3
  <2> QED
    BY <1>1, <1>2, <1>5, <2>4 DEF Taken
<1>8. CalcBc(p) % no_gang = p[1]
  BY <1>1, <1>4, <1>5, ShareColumn, ZenonT(60)
<1> QED
  BY <1>6, <1>7, <1>8

\* What calc does, the cases of its first turn and its last turn put together.
LEMMA CalcDoes ==
  ASSUME RingInv, NEW p \in PEs, calc(p)
  PROVE  /\ c' = c /\ pending' = pending /\ rbuffer' = rbuffer /\ mpi_buffer' = mpi_buffer
         /\ stage[p] = "calc" /\ turn[p] <= bmax
         /\ turn'[p] = NextTurn(turn[p]) /\ pair'[p] = <<br(turn[p]), bc(turn[p])>>
         /\ stage'[p] = IF NextTurn(turn[p]) <= bmax /\ Resyncs(br(turn[p]))
                        THEN "resync" ELSE First(p, NextTurn(turn[p]))
         /\ NextTurn(turn[p]) <= bmax /\ ~Resyncs(br(turn[p])) => Wb'[p] = rbuffer[p]
         /\ Arrays'
         /\ \A q \in PEs \ {p} :
              /\ turn'[q] = turn[q] /\ pair'[q] = pair[q] /\ stage'[q] = stage[q]
              /\ Wb'[q] = Wb[q] /\ WTb'[q] = WTb[q]
              /\ dLdC'[q] = dLdC[q] /\ d2LdC2'[q] = d2LdC2[q]
<1> DEFINE b == turn[p]
           n == NextTurn(b)
           x == IF b > 0 THEN <<br(b), bc(b)>> ELSE pair[p]
<1>1. /\ c \in Sizes /\ bmax \in Nat /\ b \in Nat /\ InTurn(p) /\ Arrays
  BY AtPE DEF RingInv
<1>2. x = <<br(b), bc(b)>> /\ x[1] = br(b)
  <2>1. 0 \in 0..(c.no_bin - 1) /\ 0 * c.no_bin + 0 = 0 /\ 0 * no_gang = 0
    BY <1>1, Sized
  <2>2. br(0 * c.no_bin + 0) = 0 /\ bc(0 * c.no_bin + 0) = 0 * no_gang
    BY <1>1, <2>1, TurnOf
  <2>3. br(0) = 0 /\ bc(0) = 0
    BY <2>1, <2>2, Zenon
  <2>4. b = 0 => pair[p] = <<0, 0>>
    BY <1>1, SMTT(30) DEF InTurn
  <2> QED
    BY <1>1, <2>3, <2>4
<1> HIDE DEF x
<1>3. /\ c' = c /\ pending' = pending /\ rbuffer' = rbuffer /\ mpi_buffer' = mpi_buffer
      /\ stage[p] = "calc" /\ ~Done(p)
      /\ turn' = [turn EXCEPT ![p] = n] /\ pair' = [pair EXCEPT ![p] = x]
      /\ stage' = [stage EXCEPT ![p] = IF n <= bmax /\ Resyncs(x[1]) THEN "resync" ELSE First(p, n)]
      /\ Wb' = IF n <= bmax /\ ~Resyncs(x[1]) THEN [Wb EXCEPT ![p] = rbuffer[p]] ELSE Wb
      /\ dbydC(p) \/ UNCHANGED <<WTb, dLdC, d2LdC2>>
  BY ZenonT(60) DEF calc, x
<1>4. PEs' = PEs /\ b <= bmax
  BY <1>1, <1>3, Same, SMTT(30) DEF Done
<1>5. /\ DOMAIN WTb' = PEs /\ DOMAIN dLdC' = PEs /\ DOMAIN d2LdC2' = PEs
      /\ \A q \in PEs \ {p} : /\ WTb'[q] = WTb[q]
                              /\ dLdC'[q] = dLdC[q] /\ d2LdC2'[q] = d2LdC2[q]
  <2>1. CASE UNCHANGED <<WTb, dLdC, d2LdC2>>
    BY <1>1, <2>1, SMTT(30) DEF Arrays
  <2>2. CASE dbydC(p)
    BY <1>1, <2>2, ZenonT(60) DEF Arrays, dbydC
  <2> QED
    BY <1>3, <2>1, <2>2
<1>6. Arrays'
  BY <1>1, <1>3, <1>4, <1>5, ZenonT(60) DEF Arrays
<1>7. /\ turn'[p] = n /\ pair'[p] = x
      /\ stage'[p] = IF n <= bmax /\ Resyncs(x[1]) THEN "resync" ELSE First(p, n)
      /\ n <= bmax /\ ~Resyncs(x[1]) => Wb'[p] = rbuffer[p]
  BY <1>1, <1>3, SMTT(30) DEF Arrays
<1>8. ASSUME NEW q \in PEs \ {p}
      PROVE  /\ turn'[q] = turn[q] /\ pair'[q] = pair[q] /\ stage'[q] = stage[q]
             /\ Wb'[q] = Wb[q]
  BY <1>1, <1>3 DEF Arrays
<1> HIDE DEF b, n
<1>9. /\ pair'[p] = <<br(b), bc(b)>>
      /\ stage'[p] = IF n <= bmax /\ Resyncs(br(b)) THEN "resync" ELSE First(p, n)
      /\ n <= bmax /\ ~Resyncs(br(b)) => Wb'[p] = rbuffer[p]
  BY <1>2, <1>7, Zenon
<1> QED
  BY <1>3, <1>4, <1>5, <1>6, <1>7, <1>8, <1>9, ZenonT(60) DEF b, n

\* What dbydC does, when its matrices are the right ones.
LEMMA DbydCDoes ==
  ASSUME RingInv, NEW p \in PEs, calc(p), turn[p] > 0
  PROVE  /\ WTb'[p] = IF CalcBr(p) = CalcBc(p) THEN CalcBc(p) ELSE WTb[p]
         /\ dLdC'[p] = dLdC[p] \cup
              (IF CalcBr(p) = CalcBc(p) THEN {<<CalcBr(p), CalcBr(p)>>} ELSE {})
         /\ d2LdC2'[p] = d2LdC2[p] \cup
              (IF CalcBr(p) >= CalcBc(p)
               THEN {<<CalcBr(p), CalcBc(p), CalcBr(p), CalcBc(p)>>} ELSE {})
         /\ CalcBc(p) % no_gang = p[1]
<1> DEFINE k == CalcBr(p)
           m == CalcBc(p)
           wt == IF k = m THEN Wb[p] ELSE WTb[p]
<1>1. stage[p] = "calc" /\ ~Done(p) /\ dbydC(p)
  BY DEF calc
<1>2. /\ Wb[p] = k /\ (k > m => WTb[p] = m) /\ m % no_gang = p[1]
  BY <1>1, Match
<1>3. k \in Int /\ m \in Int
  <2>1. /\ c \in Sizes /\ bmax \in Nat /\ p[1] \in Gangs /\ InTurn(p)
    BY AtPE
  <2>2. PICK t \in 0..bmax : pair[p] = <<br(t), bc(t)>>
    BY <2>1 DEF InTurn
  <2>3. t \in Nat /\ pair[p][1] = br(t) /\ pair[p][2] = bc(t) /\ p[1] \in Int
    BY <2>1, <2>2, Sized DEF Gangs
  <2>4. br(t) \in Nat /\ bc(t) \in Nat
    BY <2>1, <2>3, RowAndColumn
  <2>5. Share(p[1], br(t)) \in Nat
    BY <2>1, <2>4, ShareNat
  <2>6. k = Share(p[1], br(t)) /\ m = bc(t) + p[1]
    BY <2>3, Zenon DEF CalcBr, CalcBc, Share
  <2> QED
    BY <2>3, <2>4, <2>5, <2>6
<1>4. DOMAIN WTb = PEs /\ DOMAIN dLdC = PEs /\ DOMAIN d2LdC2 = PEs
  BY DEF RingInv, Arrays
<1>5. /\ WTb' = [WTb EXCEPT ![p] = wt]
      /\ dLdC' = IF k = m THEN [dLdC EXCEPT ![p] = dLdC[p] \cup {<<k, Wb[p]>>}] ELSE dLdC
      /\ d2LdC2' = IF k >= m THEN [d2LdC2 EXCEPT ![p] = d2LdC2[p] \cup {<<k, m, Wb[p], wt>>}]
                   ELSE d2LdC2
  BY <1>1 DEF dbydC
<1> HIDE DEF k, m
<1>6. k >= m => wt = m
  BY <1>2, <1>3
<1>7. WTb'[p] = IF k = m THEN m ELSE WTb[p]
  BY <1>2, <1>4, <1>5
<1>8. dLdC'[p] = dLdC[p] \cup (IF k = m THEN {<<k, k>>} ELSE {})
  BY <1>2, <1>4, <1>5
<1>9. d2LdC2'[p] = d2LdC2[p] \cup (IF k >= m THEN {<<k, m, k, m>>} ELSE {})
  <2> HIDE DEF wt
  <2> QED
    BY <1>2, <1>4, <1>5, <1>6
<1> QED
  BY <1>2, <1>7, <1>8, <1>9, SMTT(30) DEF k, m

\* The matrix fetched is taken over, and the next turn begins.
LEMMA CalcFetched ==
  ASSUME RingInv, NEW p \in PEs, calc(p)
  PROVE  /\ InTurn(p)' /\ Fetched(p)'
         /\ turn'[p] <= bmax /\ stage'[p] # "resync" => Wb'[p] = Share(p[1], br(turn[p]))
<1> DEFINE b == turn[p]
           n == NextTurn(b)
           f == First(p, n)
<1>1. /\ c \in Sizes /\ bmax \in Nat /\ p[1] \in Gangs /\ b \in Nat /\ br(b) \in Nat
      /\ ~Skipped(b) /\ InTurn(p) /\ Fetched(p)
  BY AtPE, ZenonT(60)
<1>2. /\ c' = c /\ pending' = pending /\ rbuffer' = rbuffer /\ mpi_buffer' = mpi_buffer
      /\ stage[p] = "calc" /\ b <= bmax
      /\ turn'[p] = n /\ pair'[p] = <<br(b), bc(b)>>
      /\ stage'[p] = IF n <= bmax /\ Resyncs(br(b)) THEN "resync" ELSE f
      /\ n <= bmax /\ ~Resyncs(br(b)) => Wb'[p] = rbuffer[p]
  BY CalcDoes, ZenonT(60)
<1>3. /\ n \in Nat /\ n > b /\ ~Skipped(n) /\ n <= bmax + 1
      /\ n <= bmax => b < bmax
  <2>1. /\ n \in Nat /\ n > b /\ ~Skipped(n)
        /\ b < bmax => n <= bmax
        /\ b = bmax => n = bmax + 1
    BY <1>1, <1>2, NextIs, SMTT(30)
  <2> HIDE DEF b, n
  <2> QED
    BY <1>1, <1>2, <2>1, SMTT(30)
<1>4. /\ f \in {"read", "send", "recv", "calc"}
      /\ f = "read" => n < bmax /\ br(n) % no_gang = 0
      /\ f \in {"send", "recv"} => n < bmax /\ br(n) % no_gang # 0
      /\ f = "send" => p[1] % 2 = 0
      /\ f = "calc" => n >= bmax
  BY <1>1, <1>3, Begins, ZenonT(60)
<1>5. n <= bmax => IF Resyncs(br(b)) THEN pending[p] = Share(p[1], br(b))
                                     ELSE rbuffer[p] = Share(p[1], br(b))
  BY <1>1, <1>2, <1>3, ZenonT(60) DEF Fetched
<1>6. pair'[p][1] = br(b) /\ pair'[p][2] = bc(b)
  BY <1>2, SMTT(30)
<1>7. f \in {"send", "recv"} => br(b) = br(n) - 1
  <2> SUFFICES ASSUME f \in {"send", "recv"} PROVE br(b) = br(n) - 1
    OBVIOUS
  <2>1. br(n) > bc(n) /\ n < bmax
    BY <1>1, <1>3, <1>4, RingRow, ZenonT(60)
  <2> QED
    BY <1>1, <1>2, <1>3, <2>1, OneBefore, Zenon
<1>8. \E t \in 0..bmax : ~Skipped(t) /\ n = NextTurn(t) /\ pair'[p] = <<br(t), bc(t)>>
  BY <1>1, <1>2, SMTT(30)
<1> HIDE DEF b, n, f
<1>9. InTurn(p)'
  <2>1. /\ turn'[p] \in 0..(bmax + 1) /\ turn'[p] # 0 /\ ~Skipped(n)
    BY <1>1, <1>2, <1>3, SMTT(60)
  <2>2. stage'[p] \in {"resync", "read", "send", "recv", "calc"}
    BY <1>2, <1>4, SMTT(30)
  <2>3. /\ stage'[p] = "read" => n < bmax /\ br(n) % no_gang = 0
        /\ stage'[p] \in {"send", "recv"} => n < bmax /\ br(n) % no_gang # 0
        /\ stage'[p] = "resync" => n > 0 /\ n <= bmax /\ Resyncs(pair'[p][1])
    BY <1>1, <1>2, <1>3, <1>4, <1>6, SMTT(30)
  <2> QED
    BY <1>2, <1>8, <2>1, <2>2, <2>3, Same, ZenonT(60) DEF InTurn
<1>10. Fetched(p)'
  <2>1. stage'[p] \in {"send", "recv"} => rbuffer'[p] = Share(p[1], br(n) - 1)
    <3> SUFFICES ASSUME stage'[p] \in {"send", "recv"} PROVE rbuffer'[p] = Share(p[1], br(n) - 1)
      OBVIOUS
    <3>1. f \in {"send", "recv"} /\ ~(n <= bmax /\ Resyncs(br(b)))
      BY <1>2
    <3>2. n <= bmax
      BY <1>1, <1>3, <1>4, <3>1
    <3> QED
      BY <1>2, <1>5, <1>7, <3>1, <3>2
  <2>2. ~(stage'[p] = "send" /\ p[1] % 2 # 0)
    BY <1>2, <1>4
  <2>3. ~(stage'[p] = "calc" /\ n < bmax)
    BY <1>1, <1>2, <1>3, <1>4, SMTT(30)
  <2>4. stage'[p] = "resync" => pending'[p] = Share(p[1], pair'[p][1])
    BY <1>2, <1>4, <1>5, <1>6, SMTT(30)
  <2> QED
    BY <1>2, <2>1, <2>2, <2>3, <2>4, Same, SMTT(30) DEF Fetched
<1>11. turn'[p] <= bmax /\ stage'[p] # "resync" => Wb'[p] = Share(p[1], br(b))
  BY <1>2, <1>5
<1> QED
  BY <1>9, <1>10, <1>11 DEF b

\* In the first row of a column WTb becomes the matrix of the column, and stays it.
LEMMA CalcTaken ==
  ASSUME RingInv, NEW p \in PEs, calc(p)
  PROVE  Taken(p)'
<1> DEFINE b == turn[p]
           n == NextTurn(b)
<1>1. /\ c \in Sizes /\ bmax \in Nat /\ p[1] \in Gangs /\ b \in Nat /\ br(b) \in Nat /\ bc(b) \in Nat
      /\ ~Skipped(b) /\ InTurn(p) /\ Taken(p)
  BY AtPE, SMTT(30)
<1>2. /\ c' = c /\ b <= bmax /\ turn'[p] = n /\ pair'[p] = <<br(b), bc(b)>> /\ stage[p] = "calc"
  BY CalcDoes
<1>3. pair'[p][1] = br(b) /\ pair'[p][2] = bc(b)
  BY <1>2
<1>4. turn'[p] <= bmax /\ stage'[p] # "resync" => Wb'[p] = Share(p[1], br(b))
  BY CalcFetched
<1>5. ASSUME n <= bmax, br(b) > bc(b) PROVE WTb'[p] = bc(b) + p[1]
  <2>1. b < bmax /\ b > 0
    <3>1. b = bmax => n = bmax + 1
      BY <1>1, <1>2, NextIs, ZenonT(60)
    <3>2. b = 0 => pair'[p] = pair[p]
      BY SMTT(30) DEF calc, RingInv, Arrays
    <3>3. b = 0 => pair[p] = <<0, 0>>
      BY <1>1 DEF InTurn
    <3> HIDE DEF n
    <3>4. b = 0 => br(b) = 0 /\ bc(b) = 0
      BY <1>3, <3>2, <3>3, SMTT(30)
    <3> HIDE DEF b
    <3> QED
      BY <1>1, <1>2, <1>5, <3>1, <3>4, SMTT(30)
  <2>2. pair[p][1] = br(b) - 1 /\ pair[p][2] = bc(b)
    BY <1>1, <1>5, <2>1, PairBefore
  <2>3. CalcBr(p) = Share(p[1], br(b) - 1) /\ CalcBc(p) = bc(b) + p[1]
    BY <2>2, Zenon DEF CalcBr, CalcBc, Share
  <2>4. WTb'[p] = IF CalcBr(p) = CalcBc(p) THEN CalcBc(p) ELSE WTb[p]
    BY <2>1, DbydCDoes
  <2>5. CASE CalcBr(p) = CalcBc(p)
    BY <2>3, <2>4, <2>5, Zenon
  <2>6. CASE CalcBr(p) # CalcBc(p)
    <3>1. br(b) - 1 # bc(b)
      <4>1. Share(p[1], bc(b)) = bc(b) + p[1]
        BY <1>1, ShareColumn
      <4> QED
        BY <2>3, <2>6, <4>1, Zenon
    <3>2. pair[p][1] > pair[p][2]
      <4> HIDE DEF b
      <4> QED
        BY <1>1, <1>5, <2>2, <3>1, SMTT(30)
    <3>3. WTb[p] = pair[p][2] + p[1]
      BY <1>1, <1>2, <2>1, <3>2, ZenonT(60) DEF Taken
    <3> QED
      BY <2>2, <2>4, <2>6, <3>3, Zenon
  <2> QED
    BY <2>5, <2>6
<1> HIDE DEF b, n
<1> QED
  BY <1>2, <1>3, <1>4, <1>5, Same, SMTT(30) DEF Taken

\* The turn before is computed, and in the column of the gang.
LEMMA CalcComputed ==
  ASSUME RingInv, NEW p \in PEs, calc(p)
  PROVE  Computed(p)'
<1> DEFINE b == turn[p]
           n == NextTurn(b)
<1>1. /\ c \in Sizes /\ bmax \in Nat /\ b \in Nat /\ ~Skipped(b) /\ InTurn(p) /\ Computed(p)
  BY AtPE, SMTT(30)
<1>2. c' = c /\ b <= bmax /\ turn'[p] = n
  BY CalcDoes, SMTT(30)
<1>3. n \in Nat /\ \A k \in (b + 1)..(n - 1) : Skipped(k)
  BY <1>1, <1>2, NextIs, ZenonT(60)
<1>4. b = 0 => dLdC' = dLdC /\ d2LdC2' = d2LdC2
  BY SMTT(30) DEF calc
<1>5. dLdC[p] \subseteq dLdC'[p] /\ d2LdC2[p] \subseteq d2LdC2'[p]
  <2>1. CASE b = 0
    BY <1>4, <2>1, ZenonT(60)
  <2>2. CASE b > 0
    BY <2>2, DbydCDoes, SMTT(30)
  <2> QED
    BY <1>1, <2>1, <2>2, SMTT(30)
<1>6. ASSUME NEW t \in 0..(bmax - 1), ~Skipped(t), NextTurn(t) < n
      PROVE  HasComputed(p, t)'
  <2> DEFINE a == NextTurn(t)
  <2>1. t \in Nat /\ t <= bmax
    BY <1>1
  <2>2. a \in Nat /\ a > t /\ ~Skipped(a)
    BY <1>1, <2>1, NextIs
  <2>3. a <= b
    <3> HIDE DEF a, b, n
    <3>1. a > b => a \in (b + 1)..(n - 1)
      BY <1>1, <1>3, <1>6, <2>2, SMTT(30) DEF a
    <3> QED
      BY <1>1, <1>3, <2>2, <3>1
  <2>4. CASE a < b
    <3>1. HasComputed(p, t)
      BY <1>1, <1>6, <2>4, ZenonT(60) DEF Computed
    <3> QED
      BY <1>2, <1>5, <3>1, Same, ZenonT(60) DEF HasComputed
  <2>5. CASE a = b
    <3>1. b > 0
      BY <2>1, <2>2, <2>5, SMTT(30)
    <3>2. PICK u \in 0..bmax : ~Skipped(u) /\ b = NextTurn(u) /\ pair[p] = <<br(u), bc(u)>>
      BY <1>1, <3>1, ZenonT(60) DEF InTurn
    <3>3. u = t
      <4>1. u \in Nat /\ u <= bmax
        BY <1>1
      <4> QED
        BY <1>1, <1>6, <2>1, <2>5, <3>2, <4>1, NextOrder, ZenonT(60)
    <3>4. pair[p][1] = br(t) /\ pair[p][2] = bc(t)
      BY <3>2, <3>3
    <3>5. CalcBr(p) = Share(p[1], br(t)) /\ CalcBc(p) = bc(t) + p[1]
      BY <3>4, Zenon DEF CalcBr, CalcBc, Share
    <3>6. /\ CalcBr(p) = CalcBc(p) => <<CalcBr(p), CalcBr(p)>> \in dLdC'[p]
          /\ CalcBr(p) >= CalcBc(p) =>
               <<CalcBr(p), CalcBc(p), CalcBr(p), CalcBc(p)>> \in d2LdC2'[p]
      BY <3>1, DbydCDoes
    <3> QED
      BY <1>2, <3>5, <3>6, Same DEF HasComputed
  <2> QED
    BY <1>1, <2>2, <2>3, <2>4, <2>5
<1>7. /\ \A e \in dLdC'[p] : e[1] % no_gang = p[1]
      /\ \A e \in d2LdC2'[p] : e[2] % no_gang = p[1]
  <2>1. /\ \A e \in dLdC[p] : e[1] % no_gang = p[1]
        /\ \A e \in d2LdC2[p] : e[2] % no_gang = p[1]
    BY <1>1, SMTT(30) DEF Computed
  <2>2. CASE b = 0
    BY <1>4, <2>1, <2>2
  <2>3. CASE b > 0
    <3> DEFINE k == CalcBr(p)
               m == CalcBc(p)
    <3>1. /\ dLdC'[p] = dLdC[p] \cup (IF k = m THEN {<<k, k>>} ELSE {})
          /\ d2LdC2'[p] = d2LdC2[p] \cup (IF k >= m THEN {<<k, m, k, m>>} ELSE {})
          /\ m % no_gang = p[1]
      BY <2>3, DbydCDoes
    <3> HIDE DEF k, m
    <3>2. ASSUME NEW e \in dLdC'[p], e \notin dLdC[p] PROVE e[1] % no_gang = p[1]
      <4>1. k = m /\ e = <<k, k>>
        BY <3>1, <3>2
      <4>2. e[1] = m
        BY <4>1
      <4> QED
        BY <3>1, <4>2, Zenon
    <3>3. ASSUME NEW e \in d2LdC2'[p], e \notin d2LdC2[p] PROVE e[2] % no_gang = p[1]
      <4>1. e = <<k, m, k, m>>
        BY <3>1, <3>3
      <4>2. e[2] = m
        BY <4>1, SMTT(30)
      <4> QED
        BY <3>1, <4>2, Zenon
    <3> QED
      BY <2>1, <3>2, <3>3, Zenon
  <2> QED
    BY <1>1, <2>2, <2>3, SMTT(30)
<1> HIDE DEF b, n
<1> QED
  BY <1>2, <1>6, <1>7, Same, ZenonT(60) DEF Computed

LEMMA RingCalc == ASSUME RingInv, NEW p \in PEs, calc(p) PROVE RingInv'
<1>1. InTurn(p)' /\ Fetched(p)' /\ Taken(p)' /\ Computed(p)'
  BY CalcFetched, CalcTaken, CalcComputed, SMTT(30)
<1>2. /\ c' = c /\ pending' = pending /\ rbuffer' = rbuffer /\ mpi_buffer' = mpi_buffer
      /\ Arrays'
      /\ \A q \in PEs \ {p} :
           /\ turn'[q] = turn[q] /\ pair'[q] = pair[q] /\ stage'[q] = stage[q]
           /\ Wb'[q] = Wb[q] /\ WTb'[q] = WTb[q]
           /\ dLdC'[q] = dLdC[q] /\ d2LdC2'[q] = d2LdC2[q]
  BY CalcDoes, ZenonT(60)
<1>3. ASSUME NEW q \in PEs, q # p PROVE InTurn(q)' /\ Fetched(q)' /\ Taken(q)' /\ Computed(q)'
  <2>1. InTurn(q) /\ Fetched(q) /\ Taken(q) /\ Computed(q)
    BY DEF RingInv
  <2> QED
    BY <1>2, <1>3, <2>1, SameTurn, SameFetched, SameTaken, SameComputed, Zenon
<1> QED
  BY <1>1, <1>2, <1>3, Together, ZenonT(60)

LEMMA RingStep == RingInv /\ [Next]_vars => RingInv'
<1> SUFFICES ASSUME RingInv, [Next]_vars PROVE RingInv'
  OBVIOUS
<1>1. ASSUME NEW p \in PEs, resync(p) \/ read(p) \/ calc(p) PROVE RingInv'
  BY <1>1, RingResync, RingRead, RingCalc, SMTT(30)
<1>2. ASSUME NEW p \in PEs, NEW q \in PEs, exchange(p, q) PROVE RingInv'
  BY <1>2, RingExchange, ZenonT(60)
<1>3. CASE UNCHANGED vars
  <2>1. /\ c' = c /\ turn' = turn /\ stage' = stage /\ pending' = pending /\ rbuffer' = rbuffer
        /\ mpi_buffer' = mpi_buffer /\ Wb' = Wb /\ WTb' = WTb /\ pair' = pair
        /\ dLdC' = dLdC /\ d2LdC2' = d2LdC2
    BY <1>3, SMTT(30) DEF vars
  <2>2. Arrays'
    BY <2>1, Same, Zenon DEF RingInv, Arrays
  <2>3. \A q \in PEs : InTurn(q) /\ Fetched(q) /\ Taken(q) /\ Computed(q)
    BY DEF RingInv
  <2> QED
    BY <2>1, <2>2, <2>3, Together, SameTurn, SameFetched, SameTaken, SameComputed, ZenonT(60)
<1> QED
  BY <1>1, <1>2, <1>3, SMTT(30) DEF Next

LEMMA RingAlways == Spec => []RingInv
<1> QED
  BY RingInit, RingStep, PTL DEF Spec

\* Whatever way a matrix took, and however far the gangs are apart, dbydC is called with
\* the matrices of the bins that calc_dC says.
THEOREM MatricesAlwaysMatch == Spec => []MatricesMatch
<1>1. RingInv => MatricesMatch
  BY Match DEF MatricesMatch
<1> QED
  BY <1>1, RingAlways, PTL
----------------------------------------------------------------------------
\* The row in which gang g has matrix k.
LEMMA TheRow ==
  ASSUME c \in Sizes, NEW g \in Gangs, NEW k \in 0..(c.no_bin - 1)
  PROVE  \E r \in 0..(c.no_bin - 1) : Share(g, r) = k /\ (k \div no_gang) * no_gang <= r
<1> DEFINE G == no_gang
           M == c.no_bin \div G
           d == k \div G
           e == k % G
           i == IF e >= g THEN e - g ELSE (e - g) + G
           r == d * G + i
<1>1. G \in Nat \ {0} /\ g \in 0..(G - 1) /\ k \in Nat /\ c.no_bin \in Nat /\ k < c.no_bin
  BY Sized DEF Gangs
<1>2. d \in Nat /\ e \in 0..(G - 1) /\ k = d * G + e
  BY <1>1, Division, Zenon
<1>3. M \in Nat /\ c.no_bin = M * G
  BY Turns
<1> HIDE DEF G, M, d, e
<1>4. i \in 0..(G - 1) /\ (e >= g => i + g = e) /\ (~(e >= g) => i + g = G + e)
  BY <1>1, <1>2
<1> HIDE DEF i
<1>5. d * G \in Nat /\ (d + 1) * G = d * G + G /\ d + 1 \in Nat
  BY <1>1, <1>2, OneMore
<1>6. r \in Nat /\ d * G <= r
  BY <1>1, <1>4, <1>5, SMTT(30)
<1>7. r \div G = d
  BY <1>1, <1>2, <1>4, Quotient, Zenon
<1>8. (r + g) % G = e
  <2>1. CASE e >= g
    <3>1. r + g = d * G + e
      BY <1>1, <1>2, <1>4, <1>5, <2>1
    <3>2. (d * G + e) % G = e
      BY <1>1, <1>2, Quotient, Zenon
    <3> QED
      BY <3>1, <3>2, Zenon
  <2>2. CASE ~(e >= g)
    <3>1. r + g = (d + 1) * G + e
      BY <1>1, <1>2, <1>4, <1>5, <2>2
    <3>2. ((d + 1) * G + e) % G = e
      BY <1>1, <1>2, <1>5, Quotient, Zenon
    <3> QED
      BY <3>1, <3>2, Zenon
  <2> QED
    BY <2>1, <2>2
<1>9. r < c.no_bin
  <2>1. ~(M <= d)
    <3>1. M <= k \div G <=> M * G <= k
      BY <1>1, <1>3, WindowFrom
    <3>2. ~(M * G <= k)
      BY <1>1, <1>3
    <3> QED
      BY <3>1, <3>2 DEF d
  <2>2. d + 1 <= M
    BY <1>2, <1>3, <2>1, SMTT(30)
  <2>3. (d + 1) * G <= M * G
    BY <1>1, <1>3, <1>5, <2>2, Monotone, SMTT(30)
  <2> QED
    BY <1>1, <1>3, <1>4, <1>5, <2>3
<1>10. Share(g, r) = G * d + e
  BY <1>7, <1>8, Zenon DEF Share, G
<1>11. G * d + e = k
  <2>1. G * d = d * G
    BY <1>1, <1>2, Z3
  <2> QED
    BY <1>2, <2>1, Zenon
<1> HIDE DEF r
<1>12. r \in 0..(c.no_bin - 1)
  BY <1>1, <1>6, <1>9
<1> QED
  BY <1>6, <1>10, <1>11, <1>12, ZenonT(60) DEF d, G

\* The turn in which gang m % no_gang computes with the matrices k and m.
LEMMA TheTurn ==
  ASSUME c \in Sizes, NEW k \in 0..(c.no_bin - 1), NEW m \in 0..(c.no_bin - 1), m <= k
  PROVE  /\ m % no_gang \in Gangs
         /\ \E t \in 0..(bmax - 1) : /\ ~Skipped(t)
                                     /\ Share(m % no_gang, br(t)) = k
                                     /\ bc(t) + (m % no_gang) = m
<1> DEFINE G == no_gang
           M == c.no_bin \div G
           d == m \div G
           g == m % G
<1>1. G \in Nat \ {0} /\ k \in Nat /\ m \in Nat /\ c.no_bin \in Nat \ {0} /\ m < c.no_bin
  BY Sized
<1>2. d \in Nat /\ g \in 0..(G - 1) /\ m = d * G + g
  BY <1>1, Division, Zenon
<1>3. M \in Nat /\ c.no_bin = M * G /\ bmax = M * c.no_bin
  BY Turns
<1>4. g \in Gangs
  BY <1>2 DEF Gangs
<1>5. PICK r \in 0..(c.no_bin - 1) : Share(g, r) = k /\ (k \div G) * G <= r
  BY <1>4, TheRow
<1> DEFINE t == d * c.no_bin + r
<1>6. t \in Nat /\ br(t) = r /\ bc(t) = d * G
  BY <1>2, TurnOf
<1>7. d * G <= r
  <2>1. d <= m \div G <=> d * G <= m
    BY <1>1, <1>2, WindowFrom, SMTT(30)
  <2>2. d * G \in Nat
    BY <1>1, <1>2, OneMore
  <2>3. d * G <= k
    BY <1>1, <1>2, <2>1, <2>2
  <2>4. d <= k \div G <=> d * G <= k
    BY <1>1, <1>2, WindowFrom, Zenon
  <2>5. k \div G \in Nat
    BY <1>1, Division, ZenonT(60)
  <2>6. d * G <= (k \div G) * G
    BY <1>1, <1>2, <2>3, <2>4, <2>5, Monotone
  <2>7. (k \div G) * G \in Nat /\ r \in Nat
    BY <1>1, <2>5, OneMore
  <2> QED
    BY <1>5, <2>2, <2>6, <2>7, SMTT(30)
<1>8. ~Skipped(t)
  <2>1. ~(br(t) < bc(t))
    <3>1. d * G \in Nat /\ r \in Nat
      BY <1>1, <1>2, OneMore
    <3> HIDE DEF t
    <3> QED
      BY <1>6, <1>7, <3>1
  <2> QED
    BY <2>1 DEF Skipped, br, bc
<1>9. t < bmax
  <2>1. ~(M <= d)
    <3>1. M <= m \div G <=> M * G <= m
      BY <1>1, <1>3, WindowFrom, SMTT(30)
    <3>2. ~(M * G <= m)
      BY <1>1, <1>3
    <3> QED
      BY <3>1, <3>2
  <2> HIDE DEF d, M
  <2>2. (d + 1) * c.no_bin <= M * c.no_bin
    BY <1>1, <1>2, <1>3, <2>1, Monotone, SMTT(30)
  <2>3. (d + 1) * c.no_bin = d * c.no_bin + c.no_bin /\ d * c.no_bin \in Nat
    BY <1>1, <1>2, OneMore, SMTT(30)
  <2>4. M * c.no_bin \in Nat
    BY <1>1, <1>3, OneMore
  <2> QED
    BY <1>1, <1>3, <2>2, <2>3, <2>4
<1>10. Share(g, br(t)) = k /\ bc(t) + g = m
  BY <1>2, <1>5, <1>6, Zenon
<1> HIDE DEF t
<1>11. t \in 0..(bmax - 1)
  <2>1. bmax \in Nat
    BY Turns
  <2> QED
    BY <1>6, <1>9, <2>1
<1> QED
  BY <1>4, <1>8, <1>10, <1>11

\* The gangs whose PE x has computed the pair, or the bin.
PairBy(k, m, x) == {g \in Gangs : <<k, m, k, m>> \in d2LdC2[<<g, x>>]}
BinBy(k, x) == {g \in Gangs : <<k, k>> \in dLdC[<<g, x>>]}

\* In the end each bin and each pair has been computed by the gang of its column, and by
\* no other.
LEMMA ByOneGang ==
  ASSUME RingInv, \A p \in PEs : Done(p), NEW x \in 0..(c.gang_pe - 1),
         NEW k \in 0..(c.no_bin - 1), NEW m \in 0..(c.no_bin - 1), m <= k
  PROVE  /\ PairBy(k, m, x) = {m % no_gang}
         /\ k = m => BinBy(k, x) = {m % no_gang}
<1> DEFINE h == m % no_gang
<1>1. c \in Sizes /\ bmax \in Nat
  BY Turns DEF RingInv
<1>2. h \in Gangs
  BY <1>1, TheTurn
<1>3. PICK t \in 0..(bmax - 1) : ~Skipped(t) /\ Share(h, br(t)) = k /\ bc(t) + h = m
  BY <1>1, TheTurn
<1> HIDE DEF h
<1>4. ASSUME NEW g \in Gangs
      PROVE  /\ <<g, x>> \in PEs /\ <<g, x>>[1] = g
             /\ \A e \in dLdC[<<g, x>>] : e[1] % no_gang = g
             /\ \A e \in d2LdC2[<<g, x>>] : e[2] % no_gang = g
             /\ \A u \in 0..(bmax - 1) : ~Skipped(u) /\ NextTurn(u) < turn[<<g, x>>] =>
                  HasComputed(<<g, x>>, u)
  <2>1. <<g, x>> \in PEs /\ <<g, x>>[1] = g
    BY DEF PEs
  <2>2. Computed(<<g, x>>)
    BY <2>1 DEF RingInv
  <2> QED
    BY <2>1, <2>2, Zenon DEF Computed
<1>5. HasComputed(<<h, x>>, t)
  <2>1. turn[<<h, x>>] > bmax /\ turn[<<h, x>>] \in Nat
    <3>1. <<h, x>> \in PEs
      BY <1>2, <1>4
    <3> QED
      BY <3>1, AtPE DEF Done
  <2>2. t \in Nat /\ t < bmax /\ t <= bmax
    BY <1>1
  <2>3. NextTurn(t) \in Nat /\ NextTurn(t) <= bmax
    BY <1>1, <2>2, NextIs
  <2>4. NextTurn(t) < turn[<<h, x>>]
    BY <1>1, <2>1, <2>3
  <2> QED
    BY <1>2, <1>3, <1>4, <2>4, ZenonT(60)
<1>6. <<k, m, k, m>> \in d2LdC2[<<h, x>>] /\ (k = m => <<k, k>> \in dLdC[<<h, x>>])
  <2>1. <<h, x>>[1] = h
    OBVIOUS
  <2>2. k >= m
    OBVIOUS
  <2> QED
    BY <1>3, <1>5, <2>1, <2>2, Zenon DEF HasComputed
<1>7. ASSUME NEW g \in Gangs, <<k, m, k, m>> \in d2LdC2[<<g, x>>] PROVE g = h
  <2>1. <<k, m, k, m>>[2] = m
    OBVIOUS
  <2> QED
    BY <1>4, <1>7, <2>1, Zenon DEF h
<1>8. ASSUME NEW g \in Gangs, k = m, <<k, k>> \in dLdC[<<g, x>>] PROVE g = h
  <2>1. <<k, k>>[1] = m
    BY <1>8
  <2> QED
    BY <1>4, <1>8, <2>1, Zenon DEF h
<1> QED
  BY <1>2, <1>6, <1>7, <1>8 DEF h, PairBy, BinBy

\* When calc_dC ends every pair of bins has been computed by exactly one gang, for any
\* numbers of gangs and bins and any interleaving.
THEOREM PairsComputedOnce == Spec => []EveryPairOnce
<1>1. RingInv => EveryPairOnce
  <2> SUFFICES ASSUME RingInv, \A p \in PEs : Done(p), NEW x \in 0..(c.gang_pe - 1),
                      NEW k \in 0..(c.no_bin - 1), NEW m \in 0..(c.no_bin - 1)
               PROVE  /\ Cardinality(BinBy(k, x)) = 1
                      /\ k >= m => Cardinality(PairBy(k, m, x)) = 1
    BY Zenon DEF EveryPairOnce, PairBy, BinBy
  <2>1. BinBy(k, x) = {k % no_gang}
    BY k <= k, ByOneGang, Zenon
  <2>2. ASSUME m <= k PROVE PairBy(k, m, x) = {m % no_gang}
    BY <2>2, ByOneGang, Zenon
  <2>3. \A h : Cardinality({h}) = 1
    BY FS_Singleton, Zenon
  <2>4. k >= m <=> m <= k
    OBVIOUS
  <2> QED
    BY <2>1, <2>2, <2>3, <2>4, Zenon
<1> QED
  BY <1>1, RingAlways, PTL
============================================================================
