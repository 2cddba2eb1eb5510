--------------------------- MODULE MCLogHandler ---------------------------
(***************************************************************************)
(* Instances of LogHandler for TLC: a process with two threads beside      *)
(* one with one, an access that is logged and one that the sanitization    *)
(* check drops.                                                            *)
(***************************************************************************)
EXTENDS LogHandler, TLC

CONSTANTS p1, p2, t1, t2, t3

Procs2 == {p1, p2}
Threads3 == {t1, t2, t3}
Owner3 == (t1 :> p1) @@ (t2 :> p1) @@ (t3 :> p2)

\* A write of 8 bytes that ended at offset 8, and a read on standard input.
MCArgs == {[type |-> 1, fd |-> 3, pos |-> 8, bytes |-> 8],
           [type |-> 0, fd |-> 0, pos |-> 8, bytes |-> 8]}
===========================================================================
