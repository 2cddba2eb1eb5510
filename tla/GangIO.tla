------------------------------ MODULE GangIO ------------------------------
(***************************************************************************)
(* The collective file access of the strided MADbench2 benchmark           *)
(* (src/code/apps/strided_MADbench/MADbench2.c): io_distmatrix, in which   *)
(* all processing elements (PEs) of a gang read or write their part of a   *)
(* matrix, between two barriers of the gang and, inside it, one after the  *)
(* other in groups of r_mod or w_mod PEs that pass a token along.          *)
(*                                                                         *)
(* A PE runs a program, the same for all PEs, of local steps, barriers     *)
(* (busy_work and main have those) and calls of io_distmatrix. Operations  *)
(* on gang 1 involve all PEs; gang 2 is one of no_gang equal parts, and    *)
(* the parts do not wait for one another.                                  *)
(*                                                                         *)
(* The constants are more general than initialize admits (no_pe and        *)
(* no_gang need not be squares): no step of this protocol depends on it.   *)
(***************************************************************************)
EXTENDS Integers, Sequences, FiniteSets

CONSTANT
  Configs     \* the numbers of processing elements and of gangs of each run, and its
              \* program: a sequence of
              \* [op : {"local", "bar", "io"}, gang : Gangs, rw : {"r", "w"}]

Gangs == {1, 2}

ASSUME GangAssumption ==
  \A c \in DOMAIN Configs :
       LET N == Configs[c].no_pe
           G == Configs[c].no_gang
           P == Configs[c].program
       IN  /\ N \in Nat \ {0} /\ G \in Nat \ {0} /\ N % G = 0
           /\ Len(P) \in Nat
           /\ \A n \in 1..Len(P) : /\ P[n].op \in {"local", "bar", "io"}
                                   /\ P[n].gang \in Gangs
                                   /\ P[n].rw \in {"r", "w"}

VARIABLES
  conf,          \* the configuration of the run, one of Configs
  r_mod, w_mod,  \* command line: the sizes of the token groups
  ip,            \* ip[p], the operation PE p is at
  stage,         \* stage[p], where in the operation
  bar,           \* bar[p][g], the barriers of its gang g that p has entered
  tok            \* tok[p][g], the tokens sent to p in gang g and not received

vars == <<conf, r_mod, w_mod, ip, stage, bar, tok>>

no_pe == Configs[conf].no_pe
PEs == 0..(no_pe - 1)
no_gang == Configs[conf].no_gang
Program == Configs[conf].program

\* define_gang and its caller: the gang of p, its size, and p's rank in it.
gang_no_pe(g) == IF g = 1 THEN no_pe ELSE no_pe \div no_gang
gang_id(g, p) == p \div gang_no_pe(g)
gang_my_pe(g, p) == p % gang_no_pe(g)
Members(g, p) == {q \in PEs : gang_id(g, q) = gang_id(g, p)}

Op(p) == Program[ip[p]]
Done(p) == ip[p] > Len(Program)
MyGang(p) == Op(p).gang
MyRank(p) == gang_my_pe(MyGang(p), p)
io_mod(p) == IF Op(p).rw = "r" THEN r_mod ELSE w_mod

\* Mutant: the group sizes are checked against all PEs.
MutantValidate == no_pe % r_mod = 0 /\ no_pe % w_mod = 0

\* The conditions initialize checks before anything else is done.
Validate == (no_pe \div no_gang) % r_mod = 0 /\ (no_pe \div no_gang) % w_mod = 0

Init ==
  /\ conf \in DOMAIN Configs
  /\ r_mod \in 1..no_pe /\ w_mod \in 1..no_pe
  /\ Validate
  /\ ip = [p \in PEs |-> 1]
  /\ stage = [p \in PEs |-> "ready"]
  /\ bar = [p \in PEs |-> [g \in Gangs |-> 0]]
  /\ tok = [p \in PEs |-> [g \in Gangs |-> 0]]
---------------------------------------------------------------------------
Goto(p, from, to) == stage[p] = from /\ stage' = [stage EXCEPT ![p] = to]

EnterBarrier(p) == bar' = [bar EXCEPT ![p][MyGang(p)] = @ + 1]

\* A barrier lets p go when all PEs of the gang have entered it.
BarrierFull(p) ==
  \A q \in Members(MyGang(p), p) : bar[q][MyGang(p)] >= bar[p][MyGang(p)]

Advance(p) ==
  /\ ip' = [ip EXCEPT ![p] = @ + 1]
  /\ stage' = [stage EXCEPT ![p] = "ready"]

\* What a PE does on its own, in no order with the others.
local(p) ==
  /\ ~Done(p) /\ Op(p).op = "local"
  /\ stage[p] = "ready"
  /\ Advance(p)
  /\ UNCHANGED <<conf, r_mod, w_mod, bar, tok>>

enter(p) ==
  /\ ~Done(p) /\ Op(p).op # "local"
  /\ Goto(p, "ready", "barrier")
  /\ EnterBarrier(p)
  /\ UNCHANGED <<conf, r_mod, w_mod, ip, tok>>

\* The end of a plain barrier, or of the first one of io_distmatrix.
synchronized(p) ==
  /\ stage[p] = "barrier"
  /\ BarrierFull(p)
  /\ IF Op(p).op = "bar" THEN Advance(p) ELSE Goto(p, "barrier", "recv") /\ UNCHANGED ip
  /\ UNCHANGED <<conf, r_mod, w_mod, bar, tok>>

\* Mutant: nobody waits.
MutantRecvNone(p) == Goto(p, "recv", "io") /\ UNCHANGED <<conf, r_mod, w_mod, ip, bar, tok>>

\* The first PE of a group starts at once, the others wait for the token.
recv_token(p) ==
  /\ Goto(p, "recv", "io")
  /\ IF MyRank(p) % io_mod(p) > 0
     THEN tok[p][MyGang(p)] > 0 /\ tok' = [tok EXCEPT ![p][MyGang(p)] = @ - 1]
     ELSE UNCHANGED tok
  /\ UNCHANGED <<conf, r_mod, w_mod, ip, bar>>

\* The reads or writes of p are over.
file_access(p) ==
  /\ Goto(p, "io", "send")
  /\ UNCHANGED <<conf, r_mod, w_mod, ip, bar, tok>>

\* Mutant: the last of a group sends the token on, too.
MutantSendAll(p) ==
  /\ Goto(p, "send", "barrier2")
  /\ tok' = IF MyRank(p) + 1 < gang_no_pe(MyGang(p))
            THEN [tok EXCEPT ![p + 1][MyGang(p)] = @ + 1] ELSE tok
  /\ EnterBarrier(p)
  /\ UNCHANGED <<conf, r_mod, w_mod, ip>>

\* Mutant: the rank of the sender instead of the receiver decides.
MutantSendOff(p) ==
  /\ Goto(p, "send", "barrier2")
  /\ tok' = IF MyRank(p) % io_mod(p) > 0 /\ p + 1 \in PEs
            THEN [tok EXCEPT ![p + 1][MyGang(p)] = @ + 1] ELSE tok
  /\ EnterBarrier(p)
  /\ UNCHANGED <<conf, r_mod, w_mod, ip>>

\* The token goes to the next PE of the group, and p enters the last barrier.
\* A one-integer message is buffered by MPI.
send_token(p) ==
  /\ Goto(p, "send", "barrier2")
  /\ tok' = IF (MyRank(p) + 1) % io_mod(p) > 0
            THEN [tok EXCEPT ![p + 1][MyGang(p)] = @ + 1] ELSE tok
  /\ EnterBarrier(p)
  /\ UNCHANGED <<conf, r_mod, w_mod, ip>>

finish(p) ==
  /\ stage[p] = "barrier2"
  /\ BarrierFull(p)
  /\ Advance(p)
  /\ UNCHANGED <<conf, r_mod, w_mod, bar, tok>>

\* All PEs have come to the end of the program.
AllDone == \A p \in PEs : Done(p)
terminated == AllDone /\ UNCHANGED vars

Step(p) ==
  \/ local(p) \/ enter(p) \/ synchronized(p) 
  \/ recv_token(p) \/ file_access(p) \/ send_token(p) \/ finish(p)

Next == (\E p \in PEs : Step(p)) \/ terminated

Spec == Init /\ [][Next]_vars
---------------------------------------------------------------------------
TypeOK ==
  /\ conf \in DOMAIN Configs
  /\ r_mod \in 1..no_pe /\ w_mod \in 1..no_pe
  /\ ip \in [PEs -> 1..(Len(Program) + 1)]
  /\ stage \in [PEs -> {"ready", "barrier", "recv", "io", "send", "barrier2"}]
  /\ bar \in [PEs -> [Gangs -> Nat]]
  /\ tok \in [PEs -> [Gangs -> Nat]]

\* No token is sent out of the gang: with group sizes that divide the gangs the
\* last PE of a gang is the last of its group.
TokenStaysInGang ==
  \A p \in PEs :
    stage[p] = "send" /\ (MyRank(p) + 1) % io_mod(p) > 0 =>
      p + 1 \in Members(MyGang(p), p)

\* A PE has at most one token to receive, and only inside the call it was sent in:
\* no token of one call of io_distmatrix lets a PE into the next, none is left.
TokensUsedUp ==
  /\ \A p \in PEs, g \in Gangs : tok[p][g] <= 1
  /\ \A p \in PEs, g \in Gangs :
       tok[p][g] = 1 =>
         ~Done(p) /\ stage[p] \in {"barrier", "recv"} /\ MyGang(p) = g

\* All PEs come to the end of the program: barriers and tokens never leave
\* everyone waiting for everyone.
AllFinish == <>AllDone
===========================================================================
