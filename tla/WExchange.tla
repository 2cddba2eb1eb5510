----------------------------- MODULE WExchange -----------------------------
(***************************************************************************)
(* calc_dC of MADbench2 built without -D IO: the derivatives need the      *)
(* product of W[br] and W[bc] for every pair br >= bc of bins. Gang g has  *)
(* column bc + g; the matrices W[br], ..., W[br + no_gang - 1] are read    *)
(* once, one by each gang, and then go round the gangs (get_W). The loop   *)
(* is one turn behind: turn b fetches the matrix for the next turn and     *)
(* computes with that of the turn before, at (xbr, xbc).                   *)
(*                                                                         *)
(* A PE is <<g, x>>, number x of gang g. It exchanges with the PEs of the  *)
(* same x in the gangs before and after, by MPI_Ssend, which returns when  *)
(* the receiver has taken the message. MPI_Reduce and the routines on      *)
(* distributed matrices in dbydC are not taken to synchronize the gang.    *)
(* Matrices are represented by the number of their bin. ASYNC stands for   *)
(* IOMETHOD=MPI with IOMODE=ASYNC: what becomes of POSIX with ASYNC, which *)
(* reads nothing, is in MADbench.                                          *)
(***************************************************************************)
EXTENDS Integers, Sequences, FiniteSets

CONSTANT Sizes   \* records [no_gang, gang_pe, no_bin, IOMODE]

ASSUME SizeAssumption ==
  \A s \in Sizes : /\ {s.no_gang, s.gang_pe, s.no_bin} \subseteq Nat \ {0}
                    /\ s.no_bin % s.no_gang = 0
                    /\ s.IOMODE \in {"SYNC", "ASYNC"}

VARIABLES
  c,          \* one of Sizes
  turn,       \* turn[p], the number of the turn p is in, among those not skipped
  stage,      \* stage[p], where in the turn
  pending,    \* pending[p], the matrix p has started to read asynchronously
  rbuffer,    \* rbuffer[p], the matrix fetched last
  mpi_buffer, \* mpi_buffer[p], the matrix received from the next gang
  Wb, WTb,    \* the matrices p computes with
  pair,       \* pair[p] = <<xbr, xbc>>
  dLdC,       \* dLdC[p], the bins p has computed dLdC for, and from which matrix
  d2LdC2      \* d2LdC2[p], the pairs p has computed d2LdC2 for, and from which two

vars == <<c, turn, stage, pending, rbuffer, mpi_buffer, Wb, WTb, pair, dLdC, d2LdC2>>

None == -1
no_gang == c.no_gang
Gangs == 0..(no_gang - 1)
PEs == Gangs \X (0..(c.gang_pe - 1))
bmax == (c.no_bin * c.no_bin) \div no_gang

\* Mutant: the turns of the -D IO build.
MutantSkipped(b) == b < bmax /\ b % c.no_bin # no_gang * (b \div c.no_bin)

\* Above the diagonal there is nothing to compute.
Skipped(b) == b < bmax /\ b % c.no_bin < no_gang * (b \div c.no_bin)

NextTurn(b) == CHOOSE n \in (b + 1)..(bmax + 1) :
                 ~Skipped(n) /\ \A k \in (b + 1)..(n - 1) : Skipped(k)
bc(b) == no_gang * (b \div c.no_bin)
br(b) == b % c.no_bin
Done(p) == turn[p] > bmax

to_gang(g) == (g - 1 + no_gang) % no_gang
from_gang(g) == (g + 1) % no_gang

Init ==
  /\ c \in Sizes
  /\ turn = [p \in PEs |-> 0]
  /\ stage = [p \in PEs |-> "read"]
  /\ pending = [p \in PEs |-> None]
  /\ rbuffer = [p \in PEs |-> None]
  /\ mpi_buffer = [p \in PEs |-> None]
  /\ Wb = [p \in PEs |-> None] /\ WTb = [p \in PEs |-> None]
  /\ pair = [p \in PEs |-> <<0, 0>>]
  /\ dLdC = [p \in PEs |-> {}]
  /\ d2LdC2 = [p \in PEs |-> {}]
----------------------------------------------------------------------------
\* Mutant: every gang sends first.
MutantFirst(p, b) ==
  IF b >= bmax THEN "calc" ELSE IF br(b) % no_gang = 0 THEN "read" ELSE "send"

\* Where get_W begins in turn b: reading, or the ring, in which the even gangs send
\* first; the last turn fetches nothing.
First(p, b) ==
  CASE b >= bmax -> "calc"
    [] b < bmax /\ br(b) % no_gang = 0 -> "read"
    [] OTHER -> IF p[1] % 2 = 0 THEN "send" ELSE "recv"

\* A turn calls io_resync when that before it has read.
Resyncs(xbr) == c.IOMODE = "ASYNC" /\ xbr % no_gang = 0

\* io_resync: p goes on when all PEs have come to it, and the read is over.
resync(p) ==
  LET fetched == IF pending[p] # None THEN pending[p] ELSE rbuffer[p]
  IN  /\ stage[p] = "resync"
      /\ \A q \in PEs : turn[q] >= turn[p]
      /\ rbuffer' = [rbuffer EXCEPT ![p] = fetched]
      /\ Wb' = [Wb EXCEPT ![p] = fetched]
      /\ pending' = [pending EXCEPT ![p] = None]
      /\ stage' = [stage EXCEPT ![p] = First(p, turn[p])]
      /\ UNCHANGED <<c, turn, mpi_buffer, WTb, pair, dLdC, d2LdC2>>

\* io_distmatrix, in which the gang meets: W number br + g, at rank br / no_gang of
\* its files. It is read at once, or started: what is in the buffer until io_resync
\* is unknown.
read(p) ==
  LET W == no_gang * (br(turn[p]) \div no_gang) + p[1]
  IN  /\ stage[p] = "read"
      /\ \A q \in PEs : q[1] = p[1] =>
           turn[q] > turn[p] \/ (turn[q] = turn[p] /\ stage[q] # "resync")
      /\ IF c.IOMODE = "SYNC"
         THEN rbuffer' = [rbuffer EXCEPT ![p] = W] /\ UNCHANGED pending
         ELSE rbuffer' = [rbuffer EXCEPT ![p] = None] /\ pending' = [pending EXCEPT ![p] = W]
      /\ stage' = [stage EXCEPT ![p] = "calc"]
      /\ UNCHANGED <<c, turn, mpi_buffer, Wb, WTb, pair, dLdC, d2LdC2>>

\* MPI_Ssend of p to q, to which MPI_Recv of q is the counterpart: same tag.
Meet(p, q) ==
  /\ stage[p] = "send" /\ stage[q] = "recv"
  /\ q = <<to_gang(p[1]), p[2]>> /\ p = <<from_gang(q[1]), q[2]>>
  /\ br(turn[p]) = br(turn[q])
  /\ stage' = [stage EXCEPT ![p] = IF p[1] % 2 = 0 THEN "recv" ELSE "calc",
                            ![q] = IF q[1] % 2 = 0 THEN "calc" ELSE "send"]

\* Mutant: the matrix is received into the buffer it is sent from.
MutantExchange(p, q) ==
  /\ Meet(p, q)
  /\ rbuffer' = [rbuffer EXCEPT ![q] = rbuffer[p]]
  /\ UNCHANGED <<c, turn, pending, mpi_buffer, Wb, WTb, pair, dLdC, d2LdC2>>

\* The matrix goes to mpi_buffer, and from there, when the PE has also sent its own,
\* to rbuffer.
exchange(p, q) ==
  /\ Meet(p, q)
  /\ mpi_buffer' = [mpi_buffer EXCEPT ![q] = rbuffer[p]]
  /\ rbuffer' = [rbuffer EXCEPT ![p] = IF p[1] % 2 = 0 THEN @ ELSE mpi_buffer[p],
                                ![q] = IF q[1] % 2 = 0 THEN rbuffer[p] ELSE @]
  /\ UNCHANGED <<c, turn, pending, Wb, WTb, pair, dLdC, d2LdC2>>

\* The bins whose matrices calc_dC says it passes to dbydC.
CalcBr(p) == no_gang * (pair[p][1] \div no_gang) + ((pair[p][1] + p[1]) % no_gang)
CalcBc(p) == pair[p][2] + p[1]

\* dbydC: on the diagonal dLdC and the transpose, and below it the product.
dbydC(p) ==
  LET wt == IF CalcBr(p) = CalcBc(p) THEN Wb[p] ELSE WTb[p]
  IN  /\ WTb' = [WTb EXCEPT ![p] = wt]
      /\ dLdC' = IF CalcBr(p) = CalcBc(p)
                 THEN [dLdC EXCEPT ![p] = @ \cup {<<CalcBr(p), Wb[p]>>}] ELSE dLdC
      /\ d2LdC2' = IF CalcBr(p) >= CalcBc(p)
                   THEN [d2LdC2 EXCEPT ![p] = @ \cup {<<CalcBr(p), CalcBc(p), Wb[p], wt>>}]
                   ELSE d2LdC2

\* The end of a turn, the first of which only fetches, and the begin of the next one:
\* the matrix fetched is taken over, after io_resync where that is called.
calc(p) ==
  LET b == turn[p]
      n == NextTurn(b)
      x == IF b > 0 THEN <<br(b), bc(b)>> ELSE pair[p]
      more == n <= bmax
  IN  /\ stage[p] = "calc" /\ ~Done(p)
      /\ IF b > 0 THEN dbydC(p) ELSE UNCHANGED <<WTb, dLdC, d2LdC2>>
      /\ pair' = [pair EXCEPT ![p] = x]
      /\ turn' = [turn EXCEPT ![p] = n]
      /\ stage' = [stage EXCEPT ![p] = IF more /\ Resyncs(x[1]) THEN "resync" ELSE First(p, n)]
      /\ Wb' = IF more /\ ~Resyncs(x[1]) THEN [Wb EXCEPT ![p] = rbuffer[p]] ELSE Wb
      /\ UNCHANGED <<c, pending, rbuffer, mpi_buffer>>

Next ==
  \/ \E p \in PEs : resync(p) \/ read(p) \/ calc(p)
  \/ \E p, q \in PEs : exchange(p, q)

Spec == Init /\ [][Next]_vars

\* The PEs run, and a send that its receiver waits for is delivered.
FairSpec == Spec /\ WF_vars(Next)
----------------------------------------------------------------------------
\* What dbydC is told about its matrices is true: Wb and WTb are those of the bins
\* br and bc, although they come from a file, from a neighbour, or from an earlier
\* turn, and the loop runs one turn behind.
MatricesMatch ==
  \A p \in PEs : stage[p] = "calc" /\ turn[p] > 0 /\ ~Done(p) =>
    /\ Wb[p] = CalcBr(p)
    /\ CalcBr(p) > CalcBc(p) => WTb[p] = CalcBc(p)

\* When all is done every bin, and every pair of bins on or below the diagonal, has
\* been computed, by exactly one gang: MPI_Reduce, which adds the results of the
\* gangs up, then yields each of them.
EveryPairOnce ==
  (\A p \in PEs : Done(p)) =>
    \A x \in 0..(c.gang_pe - 1) :
      /\ \A k \in 0..(c.no_bin - 1) :
           Cardinality({g \in Gangs : <<k, k>> \in dLdC[<<g, x>>]}) = 1
      /\ \A k, m \in 0..(c.no_bin - 1) : k >= m =>
           Cardinality({g \in Gangs : <<k, m, k, m>> \in d2LdC2[<<g, x>>]}) = 1

\* All PEs come to the end: with even gangs sending first and odd gangs receiving
\* first the ring never waits for itself, for an odd number of gangs either.
AllComputed == <>(\A p \in PEs : Done(p))
============================================================================
