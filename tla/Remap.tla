------------------------------- MODULE Remap -------------------------------
(***************************************************************************)
(* remap and fill of MADbench2 (REMAP=CUSTOM, built without -D IO): a      *)
(* matrix that is dealt out to all PEs is collected by the PEs of one      *)
(* gang, tg, dealt out as gang 2 does it. Every PE sends its part to one   *)
(* target, a PE of gang tg; those receive the parts from the other members *)
(* of the gang, then from the other gangs, and last take their own.        *)
(*                                                                         *)
(* A part goes in two messages, its shape and its data. MPI_Send may       *)
(* return once the message is buffered or only when it is received; both   *)
(* are modelled, the first where the shape c allows it (c.eager).          *)
(***************************************************************************)
EXTENDS Layout, Sequences

CONSTANT Shapes   \* records as in Layout, with the field eager

ASSUME ShapeAssumption ==
  \A s \in Shapes : /\ IsSquare(s.no_pe) /\ IsSquare(s.no_gang) /\ s.no_pe % s.no_gang = 0
                    /\ CeilDiv(s.no_pix, s.sblocksize) >= Root(s.no_pe)

VARIABLES
  c, tg,      \* the shape and the target gang of the call
  sent,       \* sent[p], messages p has sent (the MPI_Send has returned)
  todo,       \* todo[p], the sources p is still to take the parts of, in order
  got,        \* got[p], messages received from the first of them
  data2       \* data2[p], the part of the matrix collected by p: pairs of an
              \* index and the element that was written there

vars == <<c, tg, sent, todo, got, data2>>

PEs == 0..(c.no_pe - 1)
InTarget(p) == p \div gang_no_pe(c, 2) = tg
Rows1(p) == Rows(c, 1, my_pe_row(c, 1, p))
Cols1(p) == Rows(c, 1, my_pe_col(c, 1, p))
Rows2(p) == Rows(c, 2, my_pe_row(c, 2, p))
Cols2(p) == Rows(c, 2, my_pe_col(c, 2, p))

\* The element of the matrix at row r and column k of the part of p.
Element(m, p, r, k) ==
  <<GlobalRow(c, m, my_pe_row(c, m, p), r), GlobalRow(c, m, my_pe_col(c, m, p), k)>>

\* Mutant: the row of the target is off by one.
MutantTp(p) ==
  LET R == no_pe_row(c, 2)
  IN  tg * gang_no_pe(c, 2) + ((my_pe_row(c, 1, p) + 1) % R) + (my_pe_col(c, 1, p) % R) * R

\* The target of p.
tp(p) ==
  LET R == no_pe_row(c, 2)
  IN  tg * gang_no_pe(c, 2) + (my_pe_row(c, 1, p) % R) + (my_pe_col(c, 1, p) % R) * R

\* Mutant: the buffer has the size of the own part.
MutantMax(p) == Rows1(p) * Cols1(p)

\* The size of recv_data1 of p, computed for the first row and column of PEs.
max(p) == Rows(c, 1, 0) * Rows(c, 1, 0)

\* The PEs whose target p is, in ascending order; their number, from 0, is np.
Sources(p) ==
  LET Mine(pe) == tp(pe) = p
  IN  SelectSeq([n \in 1..c.no_pe |-> n - 1], Mine)

\* The order in which p takes the parts: (i), (ii), (iii).
Order(p) ==
  LET all == [n \in DOMAIN Sources(p) |-> [pe |-> Sources(p)[n], np |-> n - 1]]
      Inner(s) == InTarget(s.pe) /\ s.pe # p
      Outer(s) == ~InTarget(s.pe)
      Own(s) == s.pe = p
  IN  SelectSeq(all, Inner) \o SelectSeq(all, Outer) \o SelectSeq(all, Own)

\* Mutant: columns are placed like those of the own part.
MutantFill(s, q) ==
  LET B == c.sblocksize
      r12 == no_pe_row(c, 1) \div no_pe_row(c, 2)
      to(r, k) == k * Rows2(q) + ((r \div B) * r12 + (s.np % r12)) * B + (r % B)
  IN  {<<to(r, k), Element(1, s.pe, r, k)>> :
         r \in 0..(Rows1(s.pe) - 1), k \in 0..(Cols1(s.pe) - 1)}

\* What fill puts where in data2 of q, out of the part of s.pe: the blocks of a
\* column are r12 blocks apart, and so are the columns. The offsets are not
\* confined to data2, as memcpy is not.
fill(s, q) ==
  LET B == c.sblocksize
      r12 == no_pe_row(c, 1) \div no_pe_row(c, 2)
      to(r, k) == (((k \div B) * r12 + (s.np \div r12)) * B + (k % B)) * Rows2(q)
                  + ((r \div B) * r12 + (s.np % r12)) * B + (r % B)
  IN  {<<to(r, k), Element(1, s.pe, r, k)>> :
         r \in 0..(Rows1(s.pe) - 1), k \in 0..(Cols1(s.pe) - 1)}
----------------------------------------------------------------------------
Init ==
  /\ c \in Shapes
  /\ tg \in 0..(c.no_gang - 1)
  /\ sent = [p \in PEs |-> 0]
  /\ todo = [p \in PEs |-> Order(p)]
  /\ got = [p \in PEs |-> 0]
  /\ data2 = [p \in PEs |-> {}]

\* A PE sends unless it is its own target, and only then receives.
Sending(p) == sent[p] < 2 /\ tp(p) # p
Receiving(p) == todo[p] # <<>> /\ ~Sending(p)
Source(p) == Head(todo[p])

\* MPI_Send into a buffer of the library.
send(p) ==
  /\ c.eager
  /\ Sending(p)
  /\ sent' = [sent EXCEPT ![p] = @ + 1]
  /\ UNCHANGED <<c, tg, todo, got, data2>>

\* The next message from q is there, or q is in MPI_Send for it, which then returns.
Arrives(q, n) ==
  \/ sent[q] > n /\ UNCHANGED sent
  \/ sent[q] = n /\ sent' = [sent EXCEPT ![q] = @ + 1]

\* The shape, spm1
recv_info(p) ==
  /\ Receiving(p) /\ Source(p).pe # p
  /\ got[p] = 0
  /\ Arrives(Source(p).pe, 0)
  /\ got' = [got EXCEPT ![p] = 1]
  /\ UNCHANGED <<c, tg, todo, data2>>

\* The data, which is put into its place.
recv_data(p) ==
  /\ Receiving(p) /\ Source(p).pe # p
  /\ got[p] = 1
  /\ Arrives(Source(p).pe, 1)
  /\ data2' = [data2 EXCEPT ![p] = @ \cup fill(Source(p), p)]
  /\ got' = [got EXCEPT ![p] = 0]
  /\ todo' = [todo EXCEPT ![p] = Tail(@)]
  /\ UNCHANGED <<c, tg>>

fill_own(p) ==
  /\ Receiving(p) /\ Source(p).pe = p
  /\ data2' = [data2 EXCEPT ![p] = @ \cup fill(Source(p), p)]
  /\ todo' = [todo EXCEPT ![p] = Tail(@)]
  /\ UNCHANGED <<c, tg, sent, got>>

Step(p) == send(p) \/ recv_info(p) \/ recv_data(p) \/ fill_own(p)

Next == \E p \in PEs : Step(p)

Spec == Init /\ [][Next]_vars

\* The PEs run, and MPI delivers a message to a receive that waits for it.
FairSpec == Spec /\ WF_vars(Next)
----------------------------------------------------------------------------
\* A PE has come to the barrier at the end of remap.
Arrived(p) == ~Sending(p) /\ ~Receiving(p)

\* When remap is over every PE of the target gang has the whole of its part of the
\* matrix, each element once, where gang 2 expects it, and has written nowhere else.
Remapped ==
  (\A p \in PEs : Arrived(p)) =>
    \A p \in PEs : InTarget(p) =>
      data2[p] = {<<k * Rows2(p) + r, Element(2, p, r, k)>> :
                    r \in 0..(Rows2(p) - 1), k \in 0..(Cols2(p) - 1)}

\* A part that is received fits into recv_data1, whichever PE it comes from.
RecvFits ==
  \A p \in PEs : Receiving(p) => Rows1(Source(p).pe) * Cols1(Source(p).pe) <= max(p)

\* All PEs come to the barrier at the end: sending before receiving, with sends
\* that wait for their receivers, never closes a circle.
AllArrive == <>(\A p \in PEs : Arrived(p))
============================================================================
