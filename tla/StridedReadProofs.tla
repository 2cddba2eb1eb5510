------------------------- MODULE StridedReadProofs -------------------------
(***************************************************************************)
(* Theorems about StridedRead, for every command line that initialize      *)
(* accepts, every PE, any sequence of reads and any width of int.          *)
(***************************************************************************)
EXTENDS StridedRead, LayoutProofs

\* The types; a record is never empty, whatever earlier reads have made of it.
ReadTypes ==
  /\ c \in CommandLines /\ my_pe \in 0..(c.no_pe - 1)
  /\ mat \in {1, 2} /\ rank \in Nat /\ calls \in Nat
  /\ record_size \in Nat \ {0} /\ stride \in Nat
  /\ status \in {"idle", "reading", "abort"}

\* Double d has been read: its record is before the current one, in the order of
\* starts and, from one start, of records.
Got(d) ==
  /\ d \div Block < nr
  /\ \/ (d % Block) \div record_size < i
     \/ (d % Block) \div record_size = i /\ d \div Block < iter

\* Where a read is, and what it has read.
Progress ==
  /\ offset = rank * offcount(c, mat)
  /\ nr = no_elm \div Block /\ nr > 0
  /\ i \in 0..(stride + 1) /\ iter \in 0..(nr - 1) /\ (i = stride + 1 => iter = 0)
  /\ pos = (offset + iter * Block) + i * record_size
  /\ tot_elems = (i * nr + iter) * record_size
  /\ DOMAIN data = 0..(no_elm - 1)
  /\ \A d \in 0..(no_elm - 1) : Got(d) => data[d] = offset + d

\* The inductive invariant.
ReadInv ==
  /\ ReadTypes
  /\ status = "reading" /\ Small => Progress
  /\ ReadExact
  /\ AbortOnlyOnMisfit
----------------------------------------------------------------------------
\* A command line that initialize accepts has a layout.
LEMMA LineAccepted ==
  ASSUME NEW v \in CommandLines
  PROVE  /\ Accepted(v)
         /\ v.record_size \in Nat \ {0} /\ v.stride \in Nat /\ v.no_pe \in Nat \ {0}
<1>1. MaxPix \in Nat /\ MaxBlock \in Nat /\ MaxFBlock \in Nat /\ MaxStride \in Nat
  BY StridedAssumption
<1>2. /\ v.no_pix \in 1..MaxPix /\ v.sblocksize \in 1..MaxBlock /\ v.fblocksize \in 1..MaxFBlock
      /\ v.record_size \in 1..(MaxPix * MaxPix) /\ v.stride \in 0..MaxStride
      /\ <<v.no_pe, v.no_gang>> \in Shapes /\ Validate(v)
  BY DEF CommandLines
<1>3. v.no_pe \in Nat \ {0} /\ v.no_gang \in Nat \ {0}
  BY <1>2, StridedAssumption
<1>4. v.no_pix \in Nat \ {0} /\ v.sblocksize \in Nat \ {0} /\ v.fblocksize \in Nat \ {0}
      /\ v.stride \in Nat
  BY <1>1, <1>2
<1>5. v.record_size \in Nat \ {0}
  <2>1. MaxPix * MaxPix \in Nat
    BY <1>1, Z3
  <2> QED
    BY <1>2, <2>1
<1>6. Accepted(v)
  BY <1>2, <1>3, <1>4 DEF Accepted, Validate
<1> QED
  BY <1>3, <1>4, <1>5, <1>6

\* The sizes a read works with.
LEMMA ReadSizes ==
  ASSUME ReadTypes
  PROVE  /\ no_elm \in Nat \ {0} /\ offcount(c, mat) \in Nat
         /\ rank * offcount(c, mat) \in Nat
         /\ Block \in Nat \ {0} /\ Block = (stride + 1) * record_size
<1>1. Accepted(c) /\ c.no_pe \in Nat
  BY LineAccepted DEF ReadTypes
<1>2. my_pe \in Nat /\ mat \in {1, 2} /\ rank \in Nat
  BY <1>1 DEF ReadTypes
<1>3. no_elm \in Nat \ {0} /\ offcount(c, mat) \in Nat
  BY <1>1, <1>2, PartSize, Offcount DEF no_elm
<1>4. rank * offcount(c, mat) \in Nat
  BY <1>2, <1>3, OneMore
<1>5. record_size \in Nat \ {0} /\ stride \in Nat
  BY DEF ReadTypes
<1>6. Block = (stride + 1) * record_size
  <2>1. 1 + stride = stride + 1
    BY <1>5
  <2> QED
    BY <2>1, Zenon DEF Block
<1>7. stride + 1 <= (stride + 1) * record_size /\ (stride + 1) * record_size \in Nat
  BY <1>5, stride + 1 \in Nat, AtLeast
<1>8. Block \in Nat \ {0}
  BY <1>5, <1>6, <1>7
<1> QED
  BY <1>3, <1>4, <1>6, <1>8

\* An int holds what fits.
LEMMA IntBytesIs ==
  ASSUME NEW x \in Nat, x < INT_DOUBLES
  PROVE  IntBytes(x) = x
<1> DEFINE L == INT_DOUBLES
<1>1. L \in Nat \ {0}
  BY StridedAssumption
<1> HIDE DEF L
<1>2. x < L
  BY DEF L
<1>3. 2 * L \in Nat \ {0} /\ x + L \in 0..(2 * L - 1)
  BY <1>1, <1>2
<1>4. (x + L) % (2 * L) = x + L
  BY <1>3, SmallRemainder
<1>5. (x + L) - L = x
  BY <1>1
<1> QED
  BY <1>4, <1>5, Zenon DEF IntBytes, L

LEMMA IntCountIs ==
  ASSUME NEW x \in Nat, x < 8 * INT_DOUBLES
  PROVE  IntCount(x) = x
<1> DEFINE L == INT_DOUBLES
<1>1. L \in Nat \ {0}
  BY StridedAssumption
<1>2. x < 8 * L
  OBVIOUS
<1> HIDE DEF L
<1>3. 16 * L \in Nat \ {0} /\ x + 8 * L \in 0..(16 * L - 1)
  BY <1>1, <1>2
<1>4. (x + 8 * L) % (16 * L) = x + 8 * L
  BY <1>3, SmallRemainder
<1>5. (x + 8 * L) - 8 * L = x
  BY <1>1
<1> QED
  BY <1>4, <1>5, Zenon DEF IntCount, L

\* The record at hand is within the part of the matrix.
LEMMA RecordWithin ==
  ASSUME NEW rs \in Nat \ {0}, NEW st \in Nat, NEW B, B = (st + 1) * rs, NEW n \in Nat,
         NEW N \in Nat, N * B <= n, NEW ii \in 0..st, NEW it \in 0..(N - 1)
  PROVE  /\ B \in Nat \ {0} /\ B <= n /\ ii * rs \in Nat /\ it * B \in Nat
         /\ ii * rs + rs <= B /\ it * B + B <= n
         /\ rs * ii + it * B = ii * rs + it * B
         /\ rs * ii + it * B \in Nat
         /\ (rs * ii + it * B) + rs <= n
<1>1. ii \in Nat /\ it \in Nat /\ N \in Nat
  OBVIOUS
<1>2. (ii + 1) * rs <= (st + 1) * rs
  BY <1>1, Monotone
<1>3. (ii + 1) * rs = ii * rs + rs /\ ii * rs \in Nat /\ rs * ii = ii * rs
  BY <1>1, OneMore, Z3
<1>4. st + 1 <= (st + 1) * rs /\ (st + 1) * rs \in Nat
  BY st + 1 \in Nat, AtLeast
<1>5. B \in Nat \ {0}
  BY <1>4
<1>6. ii * rs + rs <= B
  BY <1>2, <1>3
<1>7. (it + 1) * B <= N * B
  BY <1>1, <1>5, Monotone
<1>8. (it + 1) * B = it * B + B /\ it * B \in Nat /\ N * B \in Nat
  BY <1>1, <1>5, OneMore
<1>9. it * B + B <= n /\ B <= n
  BY <1>5, <1>7, <1>8
<1>10. rs * ii + it * B = ii * rs + it * B
  BY <1>3, Zenon
<1>11. (ii * rs + it * B) + rs <= n /\ ii * rs + it * B \in Nat
  BY <1>3, <1>5, <1>6, <1>8, <1>9
<1> QED
  BY <1>3, <1>5, <1>6, <1>8, <1>9, <1>10, <1>11, Zenon

\* A double in record it of those from start ii is in that record.
LEMMA InRecord ==
  ASSUME NEW rs \in Nat \ {0}, NEW B \in Nat \ {0}, NEW d \in Nat, NEW ii \in Nat, NEW it \in Nat,
         d \div B = it, (d % B) \div rs = ii
  PROVE  d \in (ii * rs + it * B)..((ii * rs + it * B) + rs - 1)
<1> DEFINE w == d % B
<1>1. w \in 0..(B - 1) /\ d = it * B + w
  BY Division, Zenon
<1>2. w \in Nat
  BY <1>1
<1> HIDE DEF w
<1>3. (w \div rs) * rs + (w % rs) = w /\ w % rs \in 0..(rs - 1)
  BY <1>2, Division
<1>4. w = ii * rs + (w % rs)
  BY <1>3, Zenon DEF w
<1>5. ii * rs \in Nat /\ it * B \in Nat
  BY OneMore
<1> QED
  BY <1>1, <1>3, <1>4, <1>5

LEMMA ReadInit == Init => ReadInv
<1> SUFFICES ASSUME Init PROVE ReadInv
  OBVIOUS
<1>1. c \in CommandLines /\ my_pe \in 0..(c.no_pe - 1) /\ record_size = c.record_size
      /\ stride = c.stride /\ status = "idle" /\ calls = 0 /\ mat = 1 /\ rank = 0
  BY DEF Init
<1>2. ReadTypes
  BY <1>1, LineAccepted DEF ReadTypes
<1>3. ReadExact /\ AbortOnlyOnMisfit
  BY <1>1 DEF ReadExact, AbortOnlyOnMisfit
<1> QED
  BY <1>1, <1>2, <1>3 DEF ReadInv

\* The records that are read, whole strides, are within the part.
LEMMA WholeStrides ==
  ASSUME ReadTypes, Progress
  PROVE  nr \in Nat /\ nr * Block <= no_elm /\ no_elm = nr * Block + (no_elm % Block)
         /\ no_elm % Block \in Nat
<1>1. no_elm \in Nat /\ Block \in Nat \ {0}
  BY ReadSizes
<1>2. /\ no_elm \div Block \in Nat /\ no_elm % Block \in 0..(Block - 1)
      /\ no_elm = (no_elm \div Block) * Block + (no_elm % Block)
  BY <1>1, Division, Zenon
<1>3. nr = no_elm \div Block
  BY DEF Progress
<1>4. no_elm % Block \in Nat /\ nr \in Nat
  BY <1>1, <1>2, <1>3
<1>5. nr * Block \in Nat
  BY <1>1, <1>4, OneMore
<1>6. no_elm = nr * Block + (no_elm % Block)
  BY <1>2, <1>3, Zenon
<1>7. nr * Block <= no_elm
  <2>1. \A x, y, z \in Nat : x = y + z => y <= x
    OBVIOUS
  <2> QED
    BY <1>1, <1>4, <1>5, <1>6, <2>1, Zenon
<1> QED
  BY <1>4, <1>6, <1>7

\* While a part is small no int overflows: record iter from start i goes to its place.
LEMMA AtRecord ==
  ASSUME ReadTypes, Small, Progress, i <= stride
  PROVE  /\ i * record_size \in Nat /\ iter * Block \in Nat
         /\ data_offt = i * record_size + iter * Block
         /\ data_offt \in Nat /\ data_offt + record_size <= no_elm
         /\ IntBytes(Block) = Block
<1>1. record_size \in Nat \ {0} /\ stride \in Nat /\ no_elm \in Nat
      /\ Block = (stride + 1) * record_size
  BY ReadSizes DEF ReadTypes
<1>2. nr \in Nat /\ nr * Block <= no_elm
  BY WholeStrides
<1>3. i \in 0..stride /\ iter \in 0..(nr - 1)
  BY <1>1 DEF Progress
<1>4. /\ Block \in Nat \ {0} /\ Block <= no_elm
      /\ i * record_size \in Nat /\ iter * Block \in Nat
      /\ record_size * i + iter * Block = i * record_size + iter * Block
      /\ record_size * i + iter * Block \in Nat
      /\ (record_size * i + iter * Block) + record_size <= no_elm
  BY <1>1, <1>2, <1>3, RecordWithin
<1>5. no_elm < INT_DOUBLES /\ INT_DOUBLES \in Nat
  BY StridedAssumption DEF Small
<1>6. IntBytes(Block) = Block
  <2>1. Block < INT_DOUBLES
    BY <1>1, <1>4, <1>5
  <2> QED
    BY <1>4, <2>1, IntBytesIs
<1> DEFINE o == record_size * i + iter * Block
<1>7. IntBytes(o) = o
  <2>1. o < INT_DOUBLES
    <3> HIDE DEF o
    <3>1. o \in Nat /\ o + record_size <= no_elm
      BY <1>4 DEF o
    <3> QED
      BY <1>1, <1>5, <3>1
  <2> QED
    BY <1>4, <2>1, IntBytesIs
<1>8. data_offt = o
  BY <1>6, <1>7, Zenon DEF data_offt
<1> QED
  BY <1>4, <1>6, <1>8, Zenon

\* No record is read to a place outside of the buffer.
LEMMA WithinBuffer == ReadInv => NoOverrun
<1> SUFFICES ASSUME ReadInv, status = "reading", i <= stride, Small
             PROVE  data_offt >= 0 /\ data_offt + record_size <= no_elm
  BY DEF NoOverrun
<1>1. ReadTypes /\ Progress
  BY DEF ReadInv
<1> QED
  BY <1>1, AtRecord

\* A call that begins: what the globals are afterwards, and how many records there are.
LEMMA Adjusted ==
  ASSUME ReadTypes, NEW n \in Nat \ {0},
         record_size' = Adjust(n)[1], stride' = Adjust(n)[2],
         nr' = IF n \div Block < 1 THEN 1 ELSE n \div Block
  PROVE  /\ record_size' \in Nat \ {0} /\ stride' \in Nat
         /\ nr' = n \div Block' /\ nr' \in Nat /\ nr' > 0
<1>1. record_size \in Nat \ {0} /\ stride \in Nat /\ Block \in Nat \ {0}
  BY ReadSizes DEF ReadTypes
<1>2. n \div Block \in Nat
  BY <1>1, Division, Zenon
<1>3. CASE n \div Block < 1
  <2>1. record_size' = n /\ stride' = 0 /\ nr' = 1
    BY <1>3 DEF Adjust
  <2>2. Block' = n
    <3>1. (1 + 0) * n = n
      OBVIOUS
    <3> QED
      BY <2>1, <3>1 DEF Block
  <2>3. n \div n = 1
    <3>1. (1 * n + 0) \div n = 1
      BY n \in Nat, 1 \in Nat, 0 \in 0..(n - 1), Quotient
    <3>2. 1 * n + 0 = n
      OBVIOUS
    <3> QED
      BY <3>1, <3>2, Zenon
  <2> QED
    BY <2>1, <2>2, <2>3
<1>4. CASE ~(n \div Block < 1)
  <2>1. record_size' = record_size /\ stride' = stride /\ nr' = n \div Block
    BY <1>4 DEF Adjust
  <2>2. Block' = Block
    BY <2>1 DEF Block
  <2> QED
    BY <1>1, <1>2, <1>4, <2>1, <2>2
<1> QED
  BY <1>3, <1>4

\* A call that begins keeps the invariant: no double has been read yet.
LEMMA ReadCall ==
  ASSUME ReadInv, NEW m \in mat..2, NEW k \in Ranks, io_distmatrix(m, k)
  PROVE  ReadInv'
<1> DEFINE n == my_no_elm(c, m, my_pe)
           x == k * offcount(c, m)
<1>1. ReadTypes /\ Accepted(c) /\ c.no_pe \in Nat
  BY LineAccepted DEF ReadInv, ReadTypes
<1>2. m \in {1, 2} /\ k \in Nat /\ my_pe \in Nat
  BY <1>1, StridedAssumption DEF ReadTypes
<1>3. n \in Nat \ {0} /\ x \in Nat
  <2>1. n \in Nat \ {0} /\ offcount(c, m) \in Nat
    BY <1>1, <1>2, PartSize, Offcount
  <2> QED
    BY <1>2, <2>1, OneMore
<1>4. /\ mat' = m /\ rank' = k /\ calls' = calls + 1 /\ c' = c /\ my_pe' = my_pe
      /\ offset' \in {x, IntCount(x)}
  BY DEF io_distmatrix
<1>5. no_elm' = n /\ (rank * offcount(c, mat))' = x
  BY <1>4 DEF no_elm
<1>6. Small' => offset' = x
  <2> SUFFICES ASSUME Small' PROVE offset' = x
    OBVIOUS
  <2>1. x < 8 * INT_DOUBLES
    BY <1>5 DEF Small
  <2>2. IntCount(x) = x
    BY <1>3, <2>1, IntCountIs
  <2> QED
    BY <1>4, <2>2
<1> HIDE DEF n, x
<1>7. CASE offset' < 0
  <2>1. status' = "abort" /\ record_size' = record_size /\ stride' = stride
    BY <1>7 DEF io_distmatrix
  <2>2. ReadTypes'
    BY <1>1, <1>2, <1>4, <2>1 DEF ReadTypes
  <2>3. ~Small'
    BY <1>3, <1>6, <1>7
  <2> QED
    BY <2>1, <2>2, <2>3 DEF ReadInv, ReadExact, AbortOnlyOnMisfit
<1>8. CASE ~(offset' < 0)
  <2>1. /\ status' = "reading"
        /\ record_size' = Adjust(n)[1] /\ stride' = Adjust(n)[2]
        /\ nr' = IF n \div Block < 1 THEN 1 ELSE n \div Block
        /\ i' = 0 /\ iter' = 0 /\ pos' = offset'
        /\ data' = [d \in 0..(n - 1) |-> Unset] /\ tot_elems' = 0
    BY <1>8 DEF io_distmatrix, n
  <2>2. /\ record_size' \in Nat \ {0} /\ stride' \in Nat
        /\ nr' = n \div Block' /\ nr' \in Nat /\ nr' > 0
    BY <1>1, <1>3, <2>1, Adjusted
  <2>3. ReadTypes'
    BY <1>1, <1>2, <1>4, <2>1, <2>2 DEF ReadTypes
  <2>4. ASSUME Small' PROVE Progress'
    <3>1. offset' = x /\ offset' = (rank * offcount(c, mat))'
      BY <1>5, <1>6, <2>4
    <3>2. Block' \in Nat \ {0}
      <4>1. Block' = (1 + stride') * record_size'
        BY DEF Block
      <4>2. \A st \in Nat, rs \in Nat \ {0} : (1 + st) * rs \in Nat \ {0}
        BY Z3
      <4> QED
        BY <2>2, <4>1, <4>2, Zenon
    <3>3. /\ i' \in 0..(stride' + 1) /\ iter' \in 0..(nr' - 1)
          /\ (i' = stride' + 1 => iter' = 0)
      BY <2>1, <2>2
    <3>4. pos' = (offset' + iter' * Block') + i' * record_size'
      BY <1>3, <2>1, <2>2, <3>1, <3>2
    <3>5. tot_elems' = (i' * nr' + iter') * record_size'
      BY <2>1, <2>2
    <3>6. DOMAIN data' = 0..(no_elm' - 1)
      BY <1>5, <2>1
    <3>7. \A d \in 0..(no_elm' - 1) : ~Got(d)'
      <4> SUFFICES ASSUME NEW d \in 0..(no_elm' - 1), Got(d)' PROVE FALSE
        OBVIOUS
      <4>1. d \in Nat
        BY <1>3, <1>5
      <4>2. d \div Block' \in Nat /\ d % Block' \in Nat
        <5>1. d \div Block' \in Nat /\ d % Block' \in 0..(Block' - 1)
          BY <3>2, <4>1, Division, Zenon
        <5>2. \A b \in Nat \ {0} : \A y \in 0..(b - 1) : y \in Nat
          OBVIOUS
        <5> QED
          BY <3>2, <5>1, <5>2, Zenon
      <4>3. (d % Block') \div record_size' \in Nat
        BY <2>2, <4>2, Division, Zenon
      <4>4. \/ (d % Block') \div record_size' < 0
            \/ d \div Block' < 0
        BY <2>1 DEF Got
      <4> QED
        BY <4>2, <4>3, <4>4
    <3> QED
      BY <1>5, <2>2, <3>1, <3>3, <3>4, <3>5, <3>6, <3>7, Zenon DEF Progress
  <2> QED
    BY <2>1, <2>3, <2>4 DEF ReadInv, ReadExact, AbortOnlyOnMisfit
<1> QED
  BY <1>7, <1>8

\* What a record of a read adds to the double that it reads, in the arithmetic of
\* one record: the place in the file is the place in the part, moved by the offset.
LEMMA RecordArith ==
  ASSUME NEW off \in Nat, NEW a \in Nat, NEW b \in Nat, NEW d \in Nat,
         NEW p, p = (off + b) + a
  PROVE  p + (d - (a + b)) = off + d /\ p \in Nat
  OBVIOUS

\* The count of what has been read.
LEMMA CountNext ==
  ASSUME NEW ii \in Nat, NEW it \in Nat, NEW N \in Nat, NEW rs \in Nat
  PROVE  /\ (ii * N + it) * rs + rs = (ii * N + (it + 1)) * rs
         /\ it + 1 = N => (ii * N + it) * rs + rs = ((ii + 1) * N + 0) * rs
<1>1. ii * N \in Nat /\ (ii + 1) * N = ii * N + N
  BY OneMore
<1>2. (ii * N + it) * rs + rs = ((ii * N + it) + 1) * rs
  BY <1>1, OneMore
<1>3. (ii * N + it) + 1 = ii * N + (it + 1)
  BY <1>1
<1>4. it + 1 = N => (ii * N + it) + 1 = (ii + 1) * N + 0
  BY <1>1
<1> QED
  BY <1>2, <1>3, <1>4, Zenon

\* A double that has been read after a record is of that record or was read before.
LEMMA GotNext ==
  ASSUME ReadTypes, Progress, NEW d \in Nat,
         Block' = Block, record_size' = record_size, nr' = nr,
         IF iter + 1 < nr THEN iter' = iter + 1 /\ i' = i ELSE i' = i + 1 /\ iter' = 0,
         Got(d)'
  PROVE  Got(d) \/ (d \div Block = iter /\ (d % Block) \div record_size = i)
<1> DEFINE u == d \div Block
           w == (d % Block) \div record_size
<1>1. Block \in Nat \ {0} /\ record_size \in Nat \ {0} /\ stride \in Nat
  BY ReadSizes DEF ReadTypes
<1>2. u \in Nat /\ d % Block \in Nat
  <2>1. u \in Nat /\ d % Block \in 0..(Block - 1)
    BY <1>1, Division, Zenon
  <2> QED
    BY <1>1, <2>1
<1>3. w \in Nat
  BY <1>1, <1>2, Division
<1>4. nr \in Nat
  BY WholeStrides
<1>5. i \in Nat /\ iter \in Nat /\ iter < nr
  BY <1>1, <1>4 DEF Progress
<1>6. u < nr /\ (w < i' \/ (w = i' /\ u < iter'))
  BY DEF Got
<1>7. u < nr /\ (w < i \/ (w = i /\ u < iter)) => Got(d)
  BY DEF Got
<1> HIDE DEF u, w
<1>8. (u < nr /\ (w < i \/ (w = i /\ u < iter))) \/ (u = iter /\ w = i)
  BY <1>2, <1>3, <1>4, <1>5, <1>6
<1> QED
  BY <1>7, <1>8 DEF u, w

\* A record that is read keeps the invariant.
LEMMA ReadRecord ==
  ASSUME ReadInv, fread
  PROVE  ReadInv'
<1>1. ReadTypes /\ status = "reading" /\ i <= stride
  BY DEF ReadInv, fread, Last
<1>2. /\ c' = c /\ my_pe' = my_pe /\ record_size' = record_size /\ stride' = stride
      /\ calls' = calls /\ mat' = mat /\ rank' = rank /\ offset' = offset /\ nr' = nr
  BY DEF fread
<1>3. status' \in {"reading", "abort"}
  BY <1>1 DEF fread
<1>4. ReadTypes'
  BY <1>1, <1>2, <1>3 DEF ReadTypes
<1>5. Small' <=> Small
  BY <1>2 DEF Small, no_elm
<1>6. CASE ~Small
  BY <1>3, <1>4, <1>5, <1>6 DEF ReadInv, ReadExact, AbortOnlyOnMisfit
<1>7. CASE Small
  <2>1. Progress
    BY <1>1, <1>7 DEF ReadInv
  <2>2. /\ i * record_size \in Nat /\ iter * Block \in Nat
        /\ data_offt = i * record_size + iter * Block
        /\ IntBytes(Block) = Block
    BY <1>1, <1>7, <2>1, AtRecord
  <2>3. /\ record_size \in Nat \ {0} /\ stride \in Nat /\ Block \in Nat \ {0}
        /\ no_elm \in Nat /\ nr \in Nat
    BY <1>1, <2>1, ReadSizes, WholeStrides DEF ReadTypes
  <2>4. offset \in Nat /\ i \in Nat /\ iter \in Nat /\ iter < nr
        /\ pos = (offset + iter * Block) + i * record_size
    BY <1>1, <2>1, <2>3, ReadSizes DEF Progress
  <2>5. Move = Block
    BY <2>2, <2>3 DEF Move
  <2>6. pos \in Nat /\ ~(pos + Move < 0)
    <3>1. pos \in Nat
      BY <2>2, <2>4, RecordArith
    <3> QED
      BY <2>3, <2>5, <3>1
  <2>7. /\ status' = "reading"
        /\ tot_elems' = tot_elems + record_size
        /\ \/ iter + 1 < nr /\ iter' = iter + 1 /\ pos' = pos + Block /\ i' = i
           \/ /\ ~(iter + 1 < nr) /\ i' = i + 1 /\ iter' = 0
              /\ pos' = offset + (i + 1) * record_size
    BY <1>1, <2>5, <2>6 DEF fread
  <2>8. data' = [d \in DOMAIN data |->
                   IF d \in data_offt..(data_offt + record_size - 1)
                   THEN pos + (d - data_offt) ELSE data[d]]
    BY DEF fread
  <2>9. Block' = Block /\ no_elm' = no_elm
        /\ (rank * offcount(c, mat))' = rank * offcount(c, mat)
    BY <1>2 DEF Block, no_elm
  <2>10. Progress'
    <3>1. /\ i' \in 0..(stride' + 1) /\ iter' \in 0..(nr' - 1)
          /\ (i' = stride' + 1 => iter' = 0)
      BY <1>1, <1>2, <2>3, <2>4, <2>7
    <3>2. pos' = (offset' + iter' * Block') + i' * record_size'
      <4>1. CASE iter + 1 < nr
        <5>1. pos' = ((offset + iter * Block) + i * record_size) + Block
          BY <2>4, <2>7, <4>1
        <5>2. (iter + 1) * Block = iter * Block + Block
          BY <2>3, <2>4, OneMore
        <5>3. \A o, a, b, e \in Nat : ((o + a) + b) + e = (o + (a + e)) + b
          OBVIOUS
        <5>4. pos' = (offset + (iter + 1) * Block) + i * record_size
          BY <2>2, <2>3, <2>4, <5>1, <5>2, <5>3
        <5> QED
          BY <1>2, <2>7, <2>9, <4>1, <5>4
      <4>2. CASE ~(iter + 1 < nr)
        <5>1. pos' = offset + (i + 1) * record_size /\ i' = i + 1 /\ iter' = 0
          BY <2>7, <4>2
        <5>2. offset + 0 * Block = offset
          BY <2>3, <2>4
        <5> QED
          BY <1>2, <2>9, <5>1, <5>2
      <4> QED
        BY <4>1, <4>2
    <3>3. tot_elems' = (i' * nr' + iter') * record_size'
      <4>1. tot_elems = (i * nr + iter) * record_size
        BY <2>1 DEF Progress
      <4>2. /\ tot_elems' = (i * nr + (iter + 1)) * record_size
            /\ iter + 1 = nr => tot_elems' = ((i + 1) * nr + 0) * record_size
        BY <2>3, <2>4, <2>7, <4>1, CountNext
      <4>3. CASE iter + 1 < nr
        BY <1>2, <2>7, <4>2, <4>3
      <4>4. CASE ~(iter + 1 < nr)
        <5>1. iter + 1 = nr
          BY <2>3, <2>4, <4>4
        <5> QED
          BY <1>2, <2>7, <4>2, <4>4, <5>1
      <4> QED
        BY <4>3, <4>4
    <3>4. DOMAIN data = 0..(no_elm - 1) /\ DOMAIN data' = 0..(no_elm' - 1)
      BY <2>1, <2>8, <2>9 DEF Progress
    <3>5. ASSUME NEW d \in 0..(no_elm - 1), Got(d)'
          PROVE  data'[d] = offset + d
      <4>1. d \in Nat
        BY <2>3
      <4>2. pos + (d - data_offt) = offset + d
        BY <2>2, <2>4, <4>1, RecordArith
      <4>3. Got(d) \/ (d \div Block = iter /\ (d % Block) \div record_size = i)
        BY <1>1, <1>2, <2>1, <2>7, <2>9, <3>5, <4>1, GotNext, SMTT(30)
      <4>4. Got(d) => data[d] = offset + d
        BY <2>1 DEF Progress
      <4>5. d \div Block = iter /\ (d % Block) \div record_size = i
            => d \in data_offt..(data_offt + record_size - 1)
        BY <2>2, <2>3, <2>4, <4>1, InRecord
      <4>6. data'[d] = IF d \in data_offt..(data_offt + record_size - 1)
                       THEN pos + (d - data_offt) ELSE data[d]
        BY <2>8, <3>4
      <4> QED
        BY <4>2, <4>3, <4>4, <4>5, <4>6, Zenon
    <3> QED
      BY <1>2, <2>1, <2>9, <3>1, <3>2, <3>3, <3>4, <3>5 DEF Progress
  <2> QED
    BY <1>4, <2>7, <2>10 DEF ReadInv, ReadExact, AbortOnlyOnMisfit
<1> QED
  BY <1>6, <1>7

\* After the last start every double of a part of whole strides has been read.
LEMMA AllGot ==
  ASSUME ReadTypes, Progress, i = stride + 1, no_elm = nr * Block,
         NEW d \in 0..(no_elm - 1)
  PROVE  Got(d)
<1>1. /\ Block \in Nat \ {0} /\ record_size \in Nat \ {0} /\ stride \in Nat /\ no_elm \in Nat
      /\ Block = (stride + 1) * record_size /\ nr \in Nat
  BY ReadSizes, WholeStrides DEF ReadTypes
<1>2. d \in Nat /\ d < nr * Block
  <2>1. d \in Nat /\ d < no_elm
    BY <1>1
  <2> QED
    BY <2>1
<1>3. d \div Block \in Nat /\ d % Block \in 0..(Block - 1)
  BY <1>1, <1>2, Division, Zenon
<1>4. d \div Block < nr
  <2>1. nr <= d \div Block <=> nr * Block <= d
    BY <1>1, <1>2, WindowFrom
  <2>2. \A x, y \in Nat : x < y <=> ~(y <= x)
    OBVIOUS
  <2>3. nr * Block \in Nat
    BY <1>1, OneMore
  <2> QED
    BY <1>1, <1>2, <1>3, <2>1, <2>2, <2>3, Zenon
<1> DEFINE w == d % Block
<1>5. w \in Nat /\ w < Block
  <2> HIDE DEF w
  <2>1. w \in 0..(Block - 1)
    BY <1>3 DEF w
  <2> QED
    BY <1>1, <2>1
<1> HIDE DEF w
<1>6. w \div record_size < stride + 1
  <2>1. stride + 1 <= w \div record_size <=> (stride + 1) * record_size <= w
    BY <1>1, <1>5, WindowFrom
  <2>2. w \div record_size \in Nat
    BY <1>1, <1>5, Division
  <2>3. ~(Block <= w)
    BY <1>1, <1>5
  <2>4. ~(stride + 1 <= w \div record_size)
    BY <1>1, <2>1, <2>3, Zenon
  <2> QED
    BY <1>1, <2>2, <2>4
<1> QED
  BY <1>4, <1>6 DEF Got, w

\* The check at the end keeps the invariant: a read that passes it has every double,
\* one that does not is of a part that is not whole strides.
LEMMA ReadFinish ==
  ASSUME ReadInv, finish
  PROVE  ReadInv'
<1>1. ReadTypes /\ status = "reading" /\ i > stride
  BY DEF ReadInv, finish, Last
<1>2. /\ c' = c /\ my_pe' = my_pe /\ record_size' = record_size /\ stride' = stride
      /\ calls' = calls /\ mat' = mat /\ rank' = rank /\ data' = data
  BY DEF finish
<1>3. status' = IF tot_elems = no_elm THEN "idle" ELSE "abort"
  BY DEF finish
<1>4. ReadTypes'
  BY <1>1, <1>2, <1>3 DEF ReadTypes
<1>5. /\ Small' <=> Small
      /\ no_elm' = no_elm /\ Block' = Block
      /\ (rank * offcount(c, mat))' = rank * offcount(c, mat)
  BY <1>2 DEF Small, no_elm, Block
<1>6. CASE ~Small
  BY <1>3, <1>4, <1>5, <1>6 DEF ReadInv, ReadExact, AbortOnlyOnMisfit
<1>7. CASE Small
  <2>1. Progress
    BY <1>1, <1>7 DEF ReadInv
  <2>2. /\ record_size \in Nat \ {0} /\ stride \in Nat /\ Block = (stride + 1) * record_size
        /\ nr \in Nat /\ no_elm \in Nat
        /\ no_elm = nr * Block + (no_elm % Block) /\ no_elm % Block \in Nat
    BY <1>1, <2>1, ReadSizes, WholeStrides DEF ReadTypes
  <2>3. i = stride + 1 /\ iter = 0
    BY <1>1, <2>1, <2>2 DEF Progress
  <2>4. tot_elems = nr * Block
    <3>1. tot_elems = ((stride + 1) * nr + 0) * record_size
      BY <2>1, <2>3 DEF Progress
    <3>2. \A a, b, r \in Nat : (a * b + 0) * r = b * (a * r)
      BY Z3
    <3>3. stride + 1 \in Nat /\ record_size \in Nat
      BY <2>2
    <3> QED
      BY <2>2, <3>1, <3>2, <3>3, Zenon
  <2>5. tot_elems = no_elm => ReadExact'
    <3> SUFFICES ASSUME tot_elems = no_elm, NEW d \in 0..(no_elm - 1)
                 PROVE  data[d] = rank * offcount(c, mat) + d
      BY <1>2, <1>5 DEF ReadExact
    <3>1. Got(d)
      BY <1>1, <2>1, <2>3, <2>4, AllGot
    <3> QED
      BY <2>1, <3>1 DEF Progress
  <2>6. tot_elems # no_elm => no_elm % Block # 0
    <3>1. \A x \in Nat : x + 0 = x
      OBVIOUS
    <3>2. Block \in Nat
      BY <1>1, ReadSizes
    <3>3. nr * Block \in Nat
      BY <2>2, <3>2, OneMore
    <3> QED
      BY <2>2, <2>4, <3>1, <3>3, Zenon
  <2> QED
    BY <1>3, <1>4, <1>5, <2>5, <2>6 DEF ReadInv, ReadExact, AbortOnlyOnMisfit
<1> QED
  BY <1>6, <1>7

LEMMA ReadStep == ReadInv /\ [Next]_vars => ReadInv'
<1> SUFFICES ASSUME ReadInv, [Next]_vars PROVE ReadInv'
  OBVIOUS
<1>1. ASSUME NEW m \in mat..2, NEW k \in Ranks, io_distmatrix(m, k) PROVE ReadInv'
  BY <1>1, ReadCall
<1>2. CASE fread
  BY <1>2, ReadRecord
<1>3. CASE finish
  BY <1>3, ReadFinish, SMTT(30)
<1>4. CASE UNCHANGED vars
  BY <1>4 DEF vars, ReadInv, ReadTypes, Small, no_elm, Block, Progress, Got, ReadExact,
              AbortOnlyOnMisfit
<1> QED
  BY <1>1, <1>2, <1>3, <1>4 DEF Next

LEMMA ReadAlways == Spec => []ReadInv
  BY ReadInit, ReadStep, PTL DEF Spec
----------------------------------------------------------------------------
\* A read that succeeds has put every double of the PE's part in its place, for
\* any record, stride, number of PEs and sequence of reads before it, as long as
\* the part and its start fit the ints of io_distmatrix.
THEOREM ReadsExactly == Spec => []ReadExact
<1>1. ReadInv => ReadExact
  BY DEF ReadInv
<1> QED
  BY <1>1, ReadAlways, PTL

\* No fread of io_distmatrix writes outside of the buffer of the part.
THEOREM ReadsWithinBuffer == Spec => []NoOverrun
  BY WithinBuffer, ReadAlways, PTL

\* io_distmatrix gives up only on a part that is not a multiple of the stride.
THEOREM AbortsOnlyOnMisfit == Spec => []AbortOnlyOnMisfit
<1>1. ReadInv => AbortOnlyOnMisfit
  BY DEF ReadInv
<1> QED
  BY <1>1, ReadAlways, PTL

\* The record that an earlier read falls back to is never empty: every PE has a
\* part of each matrix, so io_distmatrix never divides by a stride of no bytes.
THEOREM RecordsNeverEmpty == Spec => []RecordPositive
<1>1. ReadInv => RecordPositive
  BY DEF ReadInv, ReadTypes, RecordPositive
<1> QED
  BY <1>1, ReadAlways, PTL

\* Every command line that initialize accepts has a sound layout: each gang deals
\* the rows out once, and the parts fit their places in the file.
THEOREM AcceptedLayoutSound == Spec => []LayoutRight
<1>1. ReadInv => LayoutRight
  <2> SUFFICES ASSUME ReadInv PROVE Partition(c, 1) /\ Partition(c, 2) /\ Fits(c)
    BY DEF LayoutRight
  <2>1. Accepted(c)
    BY LineAccepted DEF ReadInv, ReadTypes
  <2> QED
    BY <2>1, LayoutSound
<1> QED
  BY <1>1, ReadAlways, PTL
============================================================================
