--------------------------- MODULE MCAccessLog ---------------------------
(***************************************************************************)
(* An instance of AccessLog for TLC: two threads of one process that share *)
(* its descriptors.  The standard output is redirected to a regular file;  *)
(* a size_t has four values, so that the product of one request wraps to 0. *)
(***************************************************************************)
EXTENDS AccessLog, TLC

CONSTANTS p1, t1, t2

MCProcs == {p1}
MCThreads == {t1, t2}
MCOwner == [t \in MCThreads |-> p1]
Symmetry == Permutations(MCThreads)

MCFds == {1, 3}
MCRequests ==
  {[api |-> "read", fd |-> 3, size |-> 1, nmemb |-> 1],
   [api |-> "fwrite", fd |-> 3, size |-> 2, nmemb |-> 2],
   [api |-> "write", fd |-> 1, size |-> 1, nmemb |-> 1]}
MCArgs == [type : {0, 1}, fd : MCFds, pos : -1..MaxPos, bytes : 0..SIZE_MOD - 1]
==========================================================================
