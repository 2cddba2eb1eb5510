---------------------------- MODULE StridedRead ----------------------------
(***************************************************************************)
(* The strided read of io_distmatrix, synchronous POSIX I/O: a PE reads    *)
(* its part of a matrix, which lies in one piece in the file, in records   *)
(* that are 1 + stride records apart, starting over 1 + stride times.      *)
(* record_size and stride are globals, which a read may change for all     *)
(* reads after it. A double is the unit; INT_DOUBLES doubles are the bytes *)
(* a positive int can count.                                               *)
(***************************************************************************)
EXTENDS Layout

CONSTANTS
  Shapes,       \* the pairs <<no_pe, no_gang>>
  MaxPix, MaxBlock, MaxFBlock, MaxStride,  \* bounds on the command line
  Ranks,        \* the ranks of the matrices that are read
  MaxCalls,     \* bound on the calls of io_distmatrix
  INT_DOUBLES

ASSUME StridedAssumption ==
  /\ Shapes \subseteq (Nat \ {0}) \X (Nat \ {0})
  /\ MaxPix \in Nat /\ MaxBlock \in Nat /\ MaxFBlock \in Nat /\ MaxStride \in Nat
  /\ Ranks \subseteq Nat /\ MaxCalls \in Nat /\ INT_DOUBLES \in Nat \ {0}

VARIABLES
  c,             \* the command line
  my_pe,
  record_size, stride,
  status,        \* "idle", "reading" or "abort" (MPI_Abort)
  calls,
  mat, rank,     \* the matrix of the current call, or of the last one
  offset,        \* where it starts in the file
  nr,            \* nr_of_strided_rec
  i, iter,       \* the loop variables
  pos,           \* the position in the file
  data,          \* data[k], the position double k was read from, or Unset
  tot_elems

vars == <<c, my_pe, record_size, stride, status, calls, mat, rank, offset, nr,
          i, iter, pos, data, tot_elems>>

Unset == -1

\* What an int of bytes holds after x doubles have been stored in it, and an
\* int that counts doubles itself.
IntBytes(x) == ((x + INT_DOUBLES) % (2 * INT_DOUBLES)) - INT_DOUBLES
IntCount(x) == ((x + 8 * INT_DOUBLES) % (16 * INT_DOUBLES)) - 8 * INT_DOUBLES

no_elm == my_no_elm(c, mat, my_pe)
Block == (1 + stride) * record_size

\* Mutant: blocks may be too large for every PE to get one.
MutantValidate(v) ==
  /\ IsSquare(v.no_pe) /\ IsSquare(v.no_gang) /\ v.no_pe % v.no_gang = 0
  /\ (v.no_pix * v.no_pix) % ((1 + v.stride) * v.record_size) = 0

\* What initialize checks of the command line.
Validate(v) ==
  /\ IsSquare(v.no_pe) /\ IsSquare(v.no_gang) /\ v.no_pe % v.no_gang = 0
  /\ CeilDiv(v.no_pix, v.sblocksize) * CeilDiv(v.no_pix, v.sblocksize) >= v.no_pe
  /\ (v.no_pix * v.no_pix) % ((1 + v.stride) * v.record_size) = 0

CommandLines ==
  {v \in [no_pe : {s[1] : s \in Shapes}, no_gang : {s[2] : s \in Shapes},
          no_pix : 1..MaxPix, sblocksize : 1..MaxBlock, fblocksize : 1..MaxFBlock,
          record_size : 1..(MaxPix * MaxPix), stride : 0..MaxStride] :
     <<v.no_pe, v.no_gang>> \in Shapes /\ Validate(v)}

Init ==
  /\ c \in CommandLines
  /\ my_pe \in 0..(c.no_pe - 1)
  /\ record_size = c.record_size /\ stride = c.stride
  /\ status = "idle" /\ calls = 0
  /\ mat = 1 /\ rank = 0 /\ offset = 0 /\ nr = 0 /\ i = 0 /\ iter = 0 /\ pos = 0
  /\ data = <<>> /\ tot_elems = 0
---------------------------------------------------------------------------
\* Mutant: the stride is kept.
MutantAdjust(n) == IF n \div Block < 1 THEN <<n, stride>> ELSE <<record_size, stride>>

\* The globals after the test whether one stride is more than there is to read.
Adjust(n) == IF n \div Block < 1 THEN <<n, 0>> ELSE <<record_size, stride>>

\* calc_W reads matrices of gang 1, calc_dC those of gang 2. The product of two
\* ints that overflows is undefined: it wraps, or is computed in a wider register.
io_distmatrix(m, k) ==
  LET n == my_no_elm(c, m, my_pe)
      x == k * offcount(c, m)
  IN  /\ status = "idle" /\ calls < MaxCalls
      /\ mat' = m /\ rank' = k /\ calls' = calls + 1
      /\ offset' \in {x, IntCount(x)}
      /\ IF offset' < 0
         THEN status' = "abort"
              /\ UNCHANGED <<record_size, stride, nr, i, iter, pos, data, tot_elems>>
         ELSE /\ status' = "reading"
              /\ record_size' = Adjust(n)[1] /\ stride' = Adjust(n)[2]
              /\ nr' = IF n \div Block < 1 THEN 1 ELSE n \div Block
              /\ i' = 0 /\ iter' = 0 /\ pos' = offset'
              /\ data' = [d \in 0..(n - 1) |-> Unset] /\ tot_elems' = 0
      /\ UNCHANGED <<c, my_pe>>

data_offt == IntBytes(record_size * i + iter * IntBytes(Block))

\* Mutant: the seek to the next record forgets that the read has moved on.
MutantMove == record_size + IntBytes(Block)

\* The number of doubles that the file position moves by, at a record.
Move == record_size + (IntBytes(Block) - record_size)

\* Mutant: one start too few.
MutantLast == stride - 1

\* The last value of i.
Last == stride

\* One fread and the seek to the next record; after the last one from this
\* start, the seek to the next start.
fread ==
  LET filled == [d \in DOMAIN data |->
                   IF d \in data_offt..(data_offt + record_size - 1)
                   THEN pos + (d - data_offt) ELSE data[d]]
  IN  /\ status = "reading" /\ i <= Last
      /\ data' = filled
      /\ tot_elems' = tot_elems + record_size
      /\ IF pos + Move < 0
         THEN status' = "abort" /\ UNCHANGED <<i, iter, pos>>
         ELSE /\ IF iter + 1 < nr
                 THEN iter' = iter + 1 /\ pos' = pos + Move /\ UNCHANGED i
                 ELSE i' = i + 1 /\ iter' = 0 /\ pos' = offset + (i + 1) * record_size
              /\ UNCHANGED status
      /\ UNCHANGED <<c, my_pe, record_size, stride, calls, mat, rank, offset, nr>>

\* The check at the end of the read.
finish ==
  /\ status = "reading" /\ i > Last
  /\ status' = IF tot_elems = no_elm THEN "idle" ELSE "abort"
  /\ UNCHANGED <<c, my_pe, record_size, stride, calls, mat, rank, offset, nr,
                 i, iter, pos, data, tot_elems>>

Next == (\E m \in mat..2, k \in Ranks : io_distmatrix(m, k)) \/ fread \/ finish

Spec == Init /\ [][Next]_vars
---------------------------------------------------------------------------
\* README: "MAX filesize is 2GB since I am using ints"; a matrix part must be
\* smaller than that, and the start of the matrix must fit an int of doubles.
Small == no_elm < INT_DOUBLES /\ rank * offcount(c, mat) < 8 * INT_DOUBLES

\* A read that succeeds has put every double of the matrix in its place,
\* whatever record and stride are and whatever earlier reads did to them.
ReadExact ==
  status = "idle" /\ calls > 0 /\ Small =>
    \A d \in 0..(no_elm - 1) : data[d] = rank * offcount(c, mat) + d

\* No record is read to a place outside of the buffer.
NoOverrun ==
  status = "reading" /\ i <= stride /\ Small =>
    data_offt >= 0 /\ data_offt + record_size <= no_elm

\* The program gives up only if the matrix part is not a multiple of the bytes in
\* one stride, as the globals stand.
AbortOnlyOnMisfit == status = "abort" /\ Small => no_elm % Block # 0

\* Every PE has a part of each matrix, so that the fallback of an earlier read
\* never leaves a record of no bytes for the next one to divide by.
RecordPositive == record_size >= 1

\* The layout: rows dealt out once, and every part fits its place in the file.
LayoutRight == calls = 0 => Partition(c, 1) /\ Partition(c, 2) /\ Fits(c)

\* What the README says of RECORD and STRIDE: if the two conditions it lists (which
\* initialize checks) are met, no read fails.
ConditionsSuffice == Small => status # "abort"

\* What the README says of STRIDE, "Sets the stride of read to (1+STRIDE)*RECORD":
\* a matrix part of at least that size is read with the given record and stride.
PrescribedStride ==
  status = "reading" /\ no_elm >= (1 + c.stride) * c.record_size =>
    record_size = c.record_size /\ stride = c.stride
===========================================================================
