------------------------------ MODULE Layout ------------------------------
(***************************************************************************)
(* How MADbench2 deals a no_pix x no_pix matrix out to the PEs of a gang,  *)
(* in square blocks taken cyclically by rows and columns, and where a PE's *)
(* part of it lies in the data file. A double is the unit of all sizes.    *)
(*                                                                         *)
(* The operators take the run parameters as a record c with the fields     *)
(* no_pe, no_gang, no_pix, sblocksize and fblocksize, and the number m of  *)
(* the gang (1 or 2) whose matrix is meant.                                *)
(***************************************************************************)
EXTENDS Integers, FiniteSets

IsSquare(n) == \E r \in 0..n : r * r = n
Root(n) == CHOOSE r \in 0..n : r * r <= n /\ n < (r + 1) * (r + 1)
CeilDiv(a, b) == (a + b - 1) \div b

\* Mutant: an incomplete last block falls to nobody.
MutantNumroc(n, b, p, P) ==
  ((n \div b) \div P + (IF p < (n \div b) % P THEN 1 ELSE 0)) * b

\* The rows, of n in blocks of b, that fall to the one at position p of P.
numroc(n, b, p, P) ==
  ((n \div b) \div P + (IF p < (n \div b) % P THEN 1 ELSE 0)) * b
  + (IF p = (n \div b) % P THEN n % b ELSE 0)

\* define_gang: a gang is a square of PEs, numbered by columns.
gang_no_pe(c, m) == IF m = 1 THEN c.no_pe ELSE c.no_pe \div c.no_gang
no_pe_row(c, m) == Root(gang_no_pe(c, m))
my_pe_row(c, m, p) == (p % gang_no_pe(c, m)) % no_pe_row(c, m)
my_pe_col(c, m, p) == (p % gang_no_pe(c, m)) \div no_pe_row(c, m)

Rows(c, m, x) == numroc(c.no_pix, c.sblocksize, x, no_pe_row(c, m))
my_no_elm(c, m, p) == Rows(c, m, my_pe_row(c, m, p)) * Rows(c, m, my_pe_col(c, m, p))

\* The row of the matrix that is row r of the PEs in row x of their gang (and
\* the same for columns).
GlobalRow(c, m, x, r) ==
  ((r \div c.sblocksize) * no_pe_row(c, m) + x) * c.sblocksize + (r % c.sblocksize)

\* PE 0 computes the distance of the matrices in the file and tells the others.
mpeak(c) ==
  LET a == c.no_gang * my_no_elm(c, 1, 0)
      b == my_no_elm(c, 2, 0)
  IN  IF a > b THEN a ELSE b

gfb(c) == CeilDiv(mpeak(c), c.no_gang * c.fblocksize)
offcount(c, m) == gfb(c) * c.fblocksize * (IF m = 1 THEN 1 ELSE c.no_gang)
---------------------------------------------------------------------------
\* Every row of the matrix falls to exactly one place: what numroc counts and
\* where build_dSdC takes its rows to be agree.
Partition(c, m) ==
  LET places == {u \in (0..(no_pe_row(c, m) - 1)) \X (0..(c.no_pix - 1)) :
                   u[2] < Rows(c, m, u[1])}
      row == [u \in places |-> GlobalRow(c, m, u[1], u[2])]
  IN  /\ {row[u] : u \in places} = 0..(c.no_pix - 1)
      /\ Cardinality(places) = c.no_pix

\* Every PE's part of a matrix fits into the room the file has for it.
Fits(c) ==
  \A p \in 0..(c.no_pe - 1), m \in {1, 2} : my_no_elm(c, m, p) <= offcount(c, m)
===========================================================================
