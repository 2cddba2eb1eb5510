---------------------------- MODULE MCWExchange ----------------------------
(* One gang of four PEs, and an even and an odd number of gangs of one PE:  *)
(* four gangs go round the ring three times, nine once.                     *)
EXTENDS WExchange

Size(G, P, bins, mode) == [no_gang |-> G, gang_pe |-> P, no_bin |-> bins, IOMODE |-> mode]

SmallSizes ==
  {Size(1, 4, 3, "SYNC"), Size(1, 4, 3, "ASYNC"), Size(4, 1, 8, "SYNC"),
   Size(4, 1, 8, "ASYNC"), Size(9, 1, 9, "SYNC")}
============================================================================
