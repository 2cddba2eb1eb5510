---------------------------- MODULE MCMADbench ----------------------------
(* MADbench2 with one to four gangs, by POSIX and by MPI, synchronous,     *)
(* asynchronous and without I/O.                                           *)
(* Two gangs of two PEs and three of one stand for four gangs of four, the *)
(* smallest number initialize admits in which tokens are passed inside     *)
(* several gangs.                                                          *)
EXTENDS MADbench

Run(c) ==
  [no_pe |-> c.no_pe, no_gang |-> c.no_gang, no_bin |-> c.no_bin,
   IOMETHOD |-> c.IOMETHOD, IOMODE |-> c.IOMODE, program |-> main(c)]

Size(N, G, bins, method, mode) ==
  [no_pe |-> N, no_gang |-> G, no_bin |-> bins, IOMETHOD |-> method, IOMODE |-> mode]

Sizes ==
  <<Size(4, 1, 2, "POSIX", "SYNC"),
    Size(4, 2, 4, "POSIX", "SYNC"),
    Size(4, 4, 4, "MPI", "SYNC"),
    Size(2, 1, 4, "MPI", "ASYNC"),
    Size(3, 3, 6, "MPI", "ASYNC"),
    Size(2, 1, 2, "POSIX", "ASYNC"),
    Size(2, 2, 4, "POSIX", "NONE")>>

RunOf(n) == <<Run(Sizes[n])>>

\* Definitions of their own, so that the programs are built once.
Runs == For(1, Len(Sizes), RunOf)
AllRuns == Runs
===========================================================================
