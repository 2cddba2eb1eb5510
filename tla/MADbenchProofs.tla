-------------------------- MODULE MADbenchProofs --------------------------
(***************************************************************************)
(* Theorems about the access protocol (GangIO), for any number of PEs and  *)
(* gangs, any program of barriers and calls of io_distmatrix, and all      *)
(* group sizes that initialize lets through; and about the whole of        *)
(* MADbench2, whose run, with files, buffers and asynchronous requests, is *)
(* one of GangIO.                                                          *)
(***************************************************************************)
EXTENDS MADbench, ArithmeticLemmas, FiniteSetTheorems, TLAPS

\* Ranks that pass the token on are in the same group as their successors.
LEMMA NextInGroup ==
  ASSUME NEW r \in Nat, NEW m \in Nat \ {0}, (r + 1) % m > 0
  PROVE  (r + 1) \div m = r \div m
<1>1. /\ r \div m \in Nat /\ r % m \in 0..(m - 1) /\ r = (r \div m) * m + (r % m)
  BY Division, Zenon
<1>2. CASE (r % m) + 1 < m
  <2>1. r + 1 = (r \div m) * m + ((r % m) + 1) /\ (r % m) + 1 \in 0..(m - 1)
    BY <1>1, <1>2
  <2>2. ((r \div m) * m + ((r % m) + 1)) \div m = r \div m
    BY <1>1, <2>1, Quotient, ZenonT(60)
  <2> QED
    BY <2>1, <2>2
<1>3. CASE ~((r % m) + 1 < m)
  <2>1. r + 1 = ((r \div m) + 1) * m + 0 /\ 0 \in 0..(m - 1)
    <3>1. \A a \in Nat : (a + 1) * m = a * m + m
      BY Z3
    <3>2. (r % m) + 1 = m
      BY <1>1, <1>3
    <3> QED
      BY <1>1, <3>1, <3>2
  <2>2. (r \div m) + 1 \in Nat /\ 0 \in 0..(m - 1)
    BY <1>1
  <2>3. (((r \div m) + 1) * m + 0) % m = 0
    BY <2>2, Quotient
  <2> QED
    BY <2>1, <2>3
<1> QED
  BY <1>2, <1>3

\* The rank that waits for no token is the lowest of its group.
LEMMA FirstOfGroup ==
  ASSUME NEW r \in Nat, NEW s \in Nat, NEW m \in Nat \ {0}, r % m = 0, s < r
  PROVE  s \div m # r \div m
<1>1. r = (r \div m) * m /\ r \div m \in Nat
  BY Multiple
<1>2. /\ s \div m \in Nat /\ s % m \in 0..(m - 1) /\ s = (s \div m) * m + (s % m)
  BY Division, Zenon
<1> QED
  BY <1>1, <1>2, Z3
\* One entry of a table of numbers, such as bar or tok, is changed.
LEMMA Update ==
  ASSUME NEW S, NEW T, NEW f \in [S -> [T -> Nat]], NEW a \in S, NEW b \in T, NEW v \in Nat
  PROVE  /\ [f EXCEPT ![a][b] = v] \in [S -> [T -> Nat]]
         /\ \A c \in S, d \in T :
              [f EXCEPT ![a][b] = v][c][d] = IF c = a /\ d = b THEN v ELSE f[c][d]
  OBVIOUS
---------------------------------------------------------------------------
\* The types, with what initialize has checked.
Types == TypeOK /\ Validate

LEMMA Config ==
  ASSUME Types
  PROVE  /\ no_pe \in Nat \ {0} /\ no_gang \in Nat \ {0} /\ no_pe % no_gang = 0
         /\ Len(Program) \in Nat
         /\ \A n \in 1..Len(Program) : /\ Program[n].op \in {"local", "bar", "io"}
                                       /\ Program[n].gang \in Gangs
                                       /\ Program[n].rw \in {"r", "w"}
         /\ r_mod \in Nat \ {0} /\ w_mod \in Nat \ {0}
<1>1. /\ no_pe \in Nat \ {0} /\ no_gang \in Nat \ {0} /\ no_pe % no_gang = 0
      /\ Len(Program) \in Nat
      /\ \A n \in 1..Len(Program) : /\ Program[n].op \in {"local", "bar", "io"}
                                    /\ Program[n].gang \in Gangs
                                    /\ Program[n].rw \in {"r", "w"}
  BY GangAssumption DEF Types, TypeOK, no_pe, no_gang, Program
<1> QED
  BY <1>1 DEF Types, TypeOK

\* The group sizes divide both sizes of gang.
LEMMA Sizes ==
  ASSUME Types, NEW g \in Gangs
  PROVE  /\ gang_no_pe(g) \in Nat \ {0}
         /\ no_pe % gang_no_pe(g) = 0
         /\ gang_no_pe(g) % r_mod = 0 /\ gang_no_pe(g) % w_mod = 0
<1> DEFINE K == no_pe \div no_gang
<1>1. no_pe = K * no_gang /\ K \in Nat /\ K # 0
  <2>1. no_pe = K * no_gang /\ K \in Nat
    BY Config, Multiple, Zenon
  <2>2. K # 0
    BY <2>1, Config, Z3
  <2> QED
    BY <2>1, <2>2
<1>2. no_pe % K = 0
  <2>1. no_pe = no_gang * K + 0 /\ 0 \in 0..(K - 1)
    BY <1>1, Config, Z3
  <2> QED
    BY <1>1, <2>1, Config, Quotient
<1>3. K % r_mod = 0 /\ K % w_mod = 0
  BY DEF Types, Validate
<1> HIDE DEF K
<1>4. no_pe % r_mod = 0 /\ no_pe % w_mod = 0
  BY <1>1, <1>2, <1>3, Config, MultipleOfMultiple
<1>5. no_pe % no_pe = 0
  BY Config, Z3
<1> QED
  BY <1>1, <1>2, <1>3, <1>4, <1>5, Config DEF gang_no_pe, K

\* The rank of a PE, and who is in its gang.
LEMMA Ranks ==
  ASSUME Types, NEW g \in Gangs, NEW p \in PEs
  PROVE  /\ p \in Nat
         /\ gang_my_pe(g, p) \in Nat /\ gang_id(g, p) \in Nat
         /\ gang_my_pe(g, p) < gang_no_pe(g)
         /\ p = gang_id(g, p) * gang_no_pe(g) + gang_my_pe(g, p)
<1>1. p \in Nat
  BY Config DEF PEs
<1> DEFINE K == gang_no_pe(g)
<1>2. K \in Nat \ {0}
  BY Sizes
<1> HIDE DEF K
<1>3. /\ p \div K \in Nat /\ p % K \in 0..(K - 1)
      /\ p = (p \div K) * K + (p % K)
  BY <1>1, <1>2, Division, Zenon
<1>4. p % K \in Nat /\ p % K < K
  BY <1>2, <1>3
<1> QED
  BY <1>1, <1>3, <1>4 DEF gang_my_pe, gang_id, K

LEMMA LowerRank ==
  ASSUME Types, NEW g \in Gangs, NEW p \in PEs, NEW q \in Members(g, p), q < p
  PROVE  gang_my_pe(g, q) < gang_my_pe(g, p)
<1>1. q \in PEs /\ gang_id(g, q) = gang_id(g, p)
  BY DEF Members
<1>2. /\ p \in Nat /\ p = gang_id(g, p) * gang_no_pe(g) + gang_my_pe(g, p)
      /\ q \in Nat /\ q = gang_id(g, q) * gang_no_pe(g) + gang_my_pe(g, q)
      /\ gang_my_pe(g, p) \in Nat /\ gang_my_pe(g, q) \in Nat
  BY <1>1, Ranks
<1>3. gang_id(g, p) * gang_no_pe(g) \in Nat
  BY Ranks, Sizes, Z3
<1> QED
  BY <1>1, <1>2, <1>3

\* A PE that passes the token on has its successor in the gang.
LEMMA NextInGang ==
  ASSUME Types, NEW g \in Gangs, NEW p \in PEs, NEW m \in Nat \ {0},
         gang_no_pe(g) % m = 0, (gang_my_pe(g, p) + 1) % m > 0
  PROVE  /\ p + 1 \in PEs
         /\ p + 1 \in Members(g, p)
         /\ gang_my_pe(g, p + 1) = gang_my_pe(g, p) + 1
<1> DEFINE K == gang_no_pe(g)
           r == gang_my_pe(g, p)
           d == gang_id(g, p)
<1>1. /\ p \in Nat /\ r \in Nat /\ d \in Nat /\ r < K /\ p = d * K + r
      /\ K \in Nat \ {0} /\ no_pe % K = 0
  BY Ranks, Sizes
<1>2. r + 1 # K
  OBVIOUS
<1>3. p + 1 = d * K + (r + 1) /\ r + 1 \in 0..(K - 1)
  BY <1>1, <1>2, Z3
<1>4. (p + 1) \div K = d /\ (p + 1) % K = r + 1
  <2>1. d \in Nat /\ K \in Nat \ {0} /\ r + 1 \in 0..(K - 1)
    BY <1>1, <1>3
  <2> HIDE DEF K, r, d
  <2>2. (d * K + (r + 1)) \div K = d /\ (d * K + (r + 1)) % K = r + 1
    BY <2>1, Quotient, ZenonT(60)
  <2> QED
    BY <1>3, <2>2
<1>5. p + 1 < no_pe
  <2> DEFINE c == no_pe \div K
  <2>1. no_pe = c * K /\ c \in Nat
    BY <1>1, Config, Multiple, Zenon
  <2>2. p < no_pe
    BY Config DEF PEs
  <2> HIDE DEF K, r, d, c
  <2>3. d < c
    BY <1>1, <2>1, <2>2, Z3
  <2>4. (d + 1) * K <= c * K /\ (d + 1) * K = d * K + K
    BY <1>1, <2>1, <2>3, Z3
  <2> QED
    BY <1>1, <1>3, <2>1, <2>4, Z3
<1>6. p + 1 \in PEs
  BY <1>1, <1>5, Config DEF PEs
<1> QED
  BY <1>4, <1>6 DEF Members, gang_id, gang_my_pe
---------------------------------------------------------------------------
\* The barriers of gang g in the first n - 1 operations: one for each that is not
\* local, and a second one for each call of io_distmatrix.
Bars(n, g) == {k \in 1..(n - 1) : Program[k].op # "local" /\ Program[k].gang = g}
Ios(n, g) == {k \in 1..(n - 1) : Program[k].op = "io" /\ Program[k].gang = g}
Base(n, g) == Cardinality(Bars(n, g)) + Cardinality(Ios(n, g))

Weight(o, g) ==
  IF o.op = "local" \/ o.gang # g THEN 0 ELSE IF o.op = "io" THEN 2 ELSE 1

LEMMA FiniteBars ==
  ASSUME NEW n \in Nat \ {0}, NEW g
  PROVE  /\ IsFiniteSet(Bars(n, g)) /\ IsFiniteSet(Ios(n, g))
         /\ Cardinality(Bars(n, g)) \in Nat /\ Cardinality(Ios(n, g)) \in Nat
         /\ Base(n, g) \in Nat
<1>1. IsFiniteSet(1..(n - 1))
  BY FS_Interval
<1>2. Bars(n, g) \subseteq 1..(n - 1) /\ Ios(n, g) \subseteq 1..(n - 1)
  BY DEF Bars, Ios
<1>3. IsFiniteSet(Bars(n, g)) /\ IsFiniteSet(Ios(n, g))
  BY <1>1, <1>2, FS_Subset
<1>4. Cardinality(Bars(n, g)) \in Nat /\ Cardinality(Ios(n, g)) \in Nat
  BY <1>3, FS_CardinalityType
<1> QED
  BY <1>3, <1>4 DEF Base

LEMMA BaseMonotone ==
  ASSUME NEW a \in Nat \ {0}, NEW b \in Nat \ {0}, a <= b, NEW g
  PROVE  Base(a, g) <= Base(b, g)
<1>1. Bars(a, g) \subseteq Bars(b, g) /\ Ios(a, g) \subseteq Ios(b, g)
  BY DEF Bars, Ios
<1>2. /\ Cardinality(Bars(a, g)) <= Cardinality(Bars(b, g))
      /\ Cardinality(Ios(a, g)) <= Cardinality(Ios(b, g))
  BY <1>1, FiniteBars, FS_Subset
<1> QED
  BY <1>2, FiniteBars DEF Base

LEMMA BaseStep ==
  ASSUME NEW n \in Nat \ {0}, NEW g
  PROVE  Base(n + 1, g) = Base(n, g) + Weight(Program[n], g)
<1> DEFINE o == Program[n]
<1>1. n \notin Bars(n, g) /\ n \notin Ios(n, g)
  BY DEF Bars, Ios
<1>2. /\ Cardinality(Bars(n, g) \cup {n}) = Cardinality(Bars(n, g)) + 1
      /\ Cardinality(Ios(n, g) \cup {n}) = Cardinality(Ios(n, g)) + 1
  BY <1>1, FiniteBars, FS_AddElement, Zenon
<1>3. \A k : k \in 1..n <=> k \in 1..(n - 1) \/ k = n
  OBVIOUS
<1>4. Bars(n + 1, g) = IF o.op # "local" /\ o.gang = g THEN Bars(n, g) \cup {n} ELSE Bars(n, g)
  BY <1>3, n + 1 - 1 = n DEF Bars
<1>5. Ios(n + 1, g) = IF o.op = "io" /\ o.gang = g THEN Ios(n, g) \cup {n} ELSE Ios(n, g)
  BY <1>3, n + 1 - 1 = n DEF Ios
<1> QED
  BY <1>2, <1>4, <1>5, FiniteBars DEF Base, Weight
---------------------------------------------------------------------------
Inside == {"recv", "io", "send", "barrier2"}

\* A PE waits and communicates only in operations that do.
StageInv ==
  \A p \in PEs : /\ stage[p] # "ready" => ~Done(p) /\ Op(p).op # "local"
                 /\ stage[p] \in Inside => Op(p).op = "io"

\* The barriers of its current operation that p has entered, and left.
Entered(p) == IF stage[p] = "ready" THEN 0 ELSE IF stage[p] = "barrier2" THEN 2 ELSE 1
Left(p) == IF stage[p] \in Inside THEN 1 ELSE 0

\* The count of barriers is that of the operations p has been through.
BarInv ==
  \A p \in PEs, g \in Gangs :
    bar[p][g] = Base(ip[p], g) + (IF stage[p] # "ready" /\ MyGang(p) = g THEN Entered(p) ELSE 0)

\* What a barrier is for: whoever has left it, all of the gang have entered it.
SyncInv ==
  \A p \in PEs, g \in Gangs : \A q \in Members(g, p) :
    bar[q][g] >= Base(ip[p], g) + (IF stage[p] # "ready" /\ MyGang(p) = g THEN Left(p) ELSE 0)

\* q has passed its token on in operation n, or is past it.
Sent(q, n) == ip[q] > n \/ (ip[q] = n /\ stage[q] = "barrier2")

\* q is before p in the group of p.
Before(q, p) ==
  /\ q \in Members(MyGang(p), p) /\ q < p
  /\ gang_my_pe(MyGang(p), q) \div io_mod(p) = MyRank(p) \div io_mod(p)

\* A PE is at the file only after all those before it in its group.
OrderInv ==
  \A p \in PEs : stage[p] \in {"io", "send", "barrier2"} =>
    \A q \in PEs : Before(q, p) => Sent(q, ip[p])

\* The PE before p has sent the token and p has not received it.
Waiting(p, g) ==
  /\ p - 1 \in PEs /\ stage[p - 1] = "barrier2" /\ MyGang(p - 1) = g
  /\ (MyRank(p - 1) + 1) % io_mod(p - 1) > 0
  /\ ip[p] = ip[p - 1] /\ stage[p] \in {"barrier", "recv"}

TokInv ==
  \A p \in PEs, g \in Gangs : tok[p][g] = IF Waiting(p, g) THEN 1 ELSE 0

GangInv == Types /\ StageInv /\ BarInv /\ SyncInv /\ OrderInv /\ TokInv
---------------------------------------------------------------------------
\* What the configuration determines never changes.
LEMMA Frame ==
  ASSUME UNCHANGED <<conf, r_mod, w_mod>>
  PROVE  /\ PEs' = PEs /\ Program' = Program /\ (Validate' <=> Validate)
         /\ \A g, q : /\ Members(g, q)' = Members(g, q)
                      /\ gang_my_pe(g, q)' = gang_my_pe(g, q)
         /\ \A n, g : Base(n, g)' = Base(n, g)
<1>1. no_pe' = no_pe /\ PEs' = PEs /\ Program' = Program /\ no_gang' = no_gang
  BY DEF no_pe, PEs, Program, no_gang
<1>2. \A g : gang_no_pe(g)' = gang_no_pe(g)
  BY <1>1 DEF gang_no_pe
<1>3. \A g, q : gang_id(g, q)' = gang_id(g, q) /\ gang_my_pe(g, q)' = gang_my_pe(g, q)
  BY <1>2 DEF gang_id, gang_my_pe
<1>4. \A g, q : Members(g, q)' = Members(g, q)
  BY <1>1, <1>3 DEF Members
<1>5. \A n, g : Base(n, g)' = Base(n, g)
  BY <1>1 DEF Base, Bars, Ios
<1> QED
  BY <1>1, <1>3, <1>4, <1>5 DEF Validate

LEMMA FrameOp ==
  ASSUME UNCHANGED <<conf, r_mod, w_mod>>, NEW q, ip'[q] = ip[q]
  PROVE  /\ Op(q)' = Op(q) /\ (Done(q)' <=> Done(q)) /\ MyGang(q)' = MyGang(q)
         /\ MyRank(q)' = MyRank(q) /\ io_mod(q)' = io_mod(q)
<1>1. Op(q)' = Op(q) /\ (Done(q)' <=> Done(q)) /\ MyGang(q)' = MyGang(q)
  BY Frame DEF Op, Done, MyGang
<1>2. MyRank(q)' = MyRank(q)
  BY <1>1, Frame DEF MyRank
<1> QED
  BY <1>1, <1>2 DEF io_mod

\* The operation a PE is at.
LEMMA OpType ==
  ASSUME Types, NEW p \in PEs, ~Done(p)
  PROVE  /\ ip[p] \in 1..Len(Program) /\ Op(p).op \in {"local", "bar", "io"}
         /\ MyGang(p) \in Gangs /\ io_mod(p) \in Nat \ {0}
         /\ gang_no_pe(MyGang(p)) % io_mod(p) = 0
<1>1. ip[p] \in 1..Len(Program)
  BY Config DEF Types, TypeOK, Done
<1>2. Op(p).op \in {"local", "bar", "io"} /\ MyGang(p) \in Gangs
  BY <1>1, Config DEF Op, MyGang
<1> QED
  BY <1>1, <1>2, Config, Sizes DEF io_mod

\* The ways a PE moves on: to the next operation, or to the next stage.
Ends(p) ==
  /\ ~Done(p) /\ Advance(p) /\ UNCHANGED <<bar, tok>>
  /\ \/ stage[p] = "ready" /\ Op(p).op = "local"
     \/ stage[p] = "barrier" /\ Op(p).op = "bar" /\ BarrierFull(p)
     \/ stage[p] = "barrier2" /\ Op(p).op = "io" /\ BarrierFull(p)

Synced(p) ==
  /\ Op(p).op = "io" /\ BarrierFull(p)
  /\ Goto(p, "barrier", "recv") /\ UNCHANGED <<ip, bar, tok>>

LEMMA Moves ==
  ASSUME Types, StageInv, NEW p \in PEs, Step(p)
  PROVE  /\ UNCHANGED <<conf, r_mod, w_mod>>
         /\ ~Done(p)
         /\ Ends(p) \/ enter(p) \/ Synced(p) \/ recv_token(p) \/ file_access(p) \/ send_token(p)
<1>1. /\ stage[p] # "ready" => ~Done(p) /\ Op(p).op # "local"
      /\ stage[p] \in Inside => Op(p).op = "io"
  BY DEF StageInv
<1>2. CASE local(p)
  BY <1>2 DEF local, Ends
<1>3. CASE enter(p)
  BY <1>3 DEF enter
<1>4. CASE synchronized(p)
  <2>1. ~Done(p) /\ Op(p).op # "local" /\ Op(p).op \in {"local", "bar", "io"}
    BY <1>1, <1>4, OpType DEF synchronized
  <2> QED
    BY <1>4, <2>1 DEF synchronized, Ends, Synced
<1>5. CASE recv_token(p)
  BY <1>1, <1>5 DEF recv_token, Goto
<1>6. CASE file_access(p)
  BY <1>1, <1>6 DEF file_access, Goto
<1>7. CASE send_token(p)
  BY <1>1, <1>7 DEF send_token, Goto
<1>8. CASE finish(p)
  BY <1>1, <1>8 DEF finish, Ends, Inside
<1> QED
  BY <1>2, <1>3, <1>4, <1>5, <1>6, <1>7, <1>8 DEF Step

\* What a step of p leaves alone, and that barriers are only ever entered.
LEMMA Others ==
  ASSUME Types, StageInv, NEW p \in PEs, Step(p)
  PROVE  /\ \A q \in PEs \ {p} : ip'[q] = ip[q] /\ stage'[q] = stage[q] /\ bar'[q] = bar[q]
         /\ \A q \in PEs, g \in Gangs : bar'[q][g] >= bar[q][g]
         /\ \A q \in PEs : ip'[q] >= ip[q]
<1>1. /\ ip \in [PEs -> 1..(Len(Program) + 1)] /\ bar \in [PEs -> [Gangs -> Nat]]
      /\ stage \in [PEs -> {"ready", "barrier", "recv", "io", "send", "barrier2"}]
      /\ MyGang(p) \in Gangs /\ Len(Program) \in Nat
  BY Config, Moves, OpType DEF Types, TypeOK
<1>2. CASE Ends(p)
  BY <1>1, <1>2 DEF Ends, Advance
<1>3. CASE enter(p) \/ send_token(p)
  <2>1. /\ bar' = [bar EXCEPT ![p] = [bar[p] EXCEPT ![MyGang(p)] = bar[p][MyGang(p)] + 1]]
        /\ ip' = ip /\ \E to : stage' = [stage EXCEPT ![p] = to]
    BY <1>1, <1>3 DEF enter, send_token, Goto, EnterBarrier
  <2> QED
    BY <1>1, <2>1
<1>4. CASE Synced(p) \/ recv_token(p) \/ file_access(p)
  BY <1>1, <1>4 DEF Synced, recv_token, file_access, Goto
<1> QED
  BY <1>2, <1>3, <1>4, Moves

LEMMA TypesStep ==
  ASSUME Types, StageInv, NEW p \in PEs, Step(p)
  PROVE  Types'
<1>1. UNCHANGED <<conf, r_mod, w_mod>> /\ PEs' = PEs /\ Program' = Program /\ Validate'
      /\ no_pe' = no_pe
  BY Moves, Frame DEF Types, no_pe
<1>2. /\ conf \in DOMAIN Configs /\ r_mod \in 1..no_pe /\ w_mod \in 1..no_pe
      /\ ip \in [PEs -> 1..(Len(Program) + 1)] /\ bar \in [PEs -> [Gangs -> Nat]]
      /\ tok \in [PEs -> [Gangs -> Nat]]
      /\ stage \in [PEs -> {"ready", "barrier", "recv", "io", "send", "barrier2"}]
      /\ MyGang(p) \in Gangs /\ ip[p] \in 1..Len(Program) /\ Len(Program) \in Nat
  BY Config, Moves, OpType, SMTT(30) DEF Types, TypeOK
<1>3. /\ ip' \in [PEs -> 1..(Len(Program) + 1)] /\ bar' \in [PEs -> [Gangs -> Nat]]
      /\ tok' \in [PEs -> [Gangs -> Nat]]
      /\ stage' \in [PEs -> {"ready", "barrier", "recv", "io", "send", "barrier2"}]
  <2>1. CASE Ends(p)
    BY <1>2, <2>1 DEF Ends, Advance
  <2>2. CASE enter(p)
    BY <1>2, <2>2 DEF enter, Goto, EnterBarrier
  <2>3. CASE Synced(p) \/ file_access(p)
    BY <1>2, <2>3, Zenon DEF Synced, file_access, Goto
  <2>4. CASE recv_token(p)
    <3>1. CASE MyRank(p) % io_mod(p) > 0
      <4>1. tok[p][MyGang(p)] - 1 \in Nat
        BY <1>2, <2>4, <3>1 DEF recv_token
      <4>2. tok' = [tok EXCEPT ![p][MyGang(p)] = tok[p][MyGang(p)] - 1]
        BY <2>4, <3>1 DEF recv_token
      <4>3. tok' \in [PEs -> [Gangs -> Nat]]
        BY <1>2, <4>1, <4>2, Update
      <4> QED
        BY <1>2, <2>4, <4>3, Zenon DEF recv_token, Goto
    <3>2. CASE ~(MyRank(p) % io_mod(p) > 0)
      BY <1>2, <2>4, <3>2 DEF recv_token, Goto
    <3> QED
      BY <3>1, <3>2
  <2>5. CASE send_token(p)
    <3>1. /\ ip' = ip
          /\ stage' \in [PEs -> {"ready", "barrier", "recv", "io", "send", "barrier2"}]
      BY <1>2, <2>5 DEF send_token, Goto
    <3>2. bar' \in [PEs -> [Gangs -> Nat]]
      <4>1. bar' = [bar EXCEPT ![p][MyGang(p)] = bar[p][MyGang(p)] + 1]
        BY <2>5 DEF send_token, EnterBarrier
      <4>2. bar[p][MyGang(p)] + 1 \in Nat
        BY <1>2
      <4> QED
        BY <1>2, <4>1, <4>2, Update
    <3>3. tok' \in [PEs -> [Gangs -> Nat]]
      <4>1. CASE (MyRank(p) + 1) % io_mod(p) > 0
        <5>1. p + 1 \in PEs
          BY <4>1, Moves, OpType, NextInGang DEF MyRank
        <5>2. /\ tok' = [tok EXCEPT ![p + 1][MyGang(p)] = tok[p + 1][MyGang(p)] + 1]
              /\ tok[p + 1][MyGang(p)] + 1 \in Nat
          BY <1>2, <2>5, <4>1, <5>1 DEF send_token
        <5> QED
          BY <1>2, <5>1, <5>2, Update, ZenonT(60)
      <4>2. CASE ~((MyRank(p) + 1) % io_mod(p) > 0)
        BY <1>2, <2>5, <4>2 DEF send_token
      <4> QED
        BY <4>1, <4>2
    <3> QED
      BY <1>2, <3>1, <3>2, <3>3
  <2> QED
    BY <2>1, <2>2, <2>3, <2>4, <2>5, Moves
<1> QED
  BY <1>1, <1>2, <1>3 DEF Types, TypeOK

LEMMA StageStep ==
  ASSUME Types, StageInv, NEW p \in PEs, Step(p)
  PROVE  StageInv'
<1>1. UNCHANGED <<conf, r_mod, w_mod>> /\ PEs' = PEs /\ ~Done(p)
  BY Moves, Frame
<1>2. stage \in [PEs -> {"ready", "barrier", "recv", "io", "send", "barrier2"}]
  BY DEF Types, TypeOK
<1>3. /\ stage[p] # "ready" => ~Done(p) /\ Op(p).op # "local"
      /\ stage[p] \in Inside => Op(p).op = "io"
  BY DEF StageInv
<1>4. ASSUME NEW q \in PEs, q # p
      PROVE  /\ stage'[q] # "ready" => ~Done(q)' /\ Op(q)'.op # "local"
             /\ stage'[q] \in Inside => Op(q)'.op = "io"
  <2>1. ip'[q] = ip[q] /\ stage'[q] = stage[q]
    BY <1>4, Others
  <2>2. Op(q)' = Op(q) /\ (Done(q)' <=> Done(q))
    BY <1>1, <2>1, FrameOp
  <2> QED
    BY <2>1, <2>2 DEF StageInv
<1>5. /\ stage'[p] # "ready" => ~Done(p)' /\ Op(p)'.op # "local"
      /\ stage'[p] \in Inside => Op(p)'.op = "io"
  <2>1. CASE Ends(p)
    BY <1>2, <2>1 DEF Ends, Advance, Inside
  <2>2. ASSUME ip' = ip
        PROVE  Op(p)' = Op(p) /\ (Done(p)' <=> Done(p))
    BY <1>1, <2>2, FrameOp
  <2>3. CASE enter(p)
    <3>1. ip' = ip /\ stage'[p] = "barrier" /\ Op(p).op # "local"
      BY <1>2, <2>3 DEF enter, Goto
    <3> QED
      BY <1>1, <2>2, <3>1 DEF Inside
  <2>4. CASE Synced(p) \/ recv_token(p) \/ file_access(p) \/ send_token(p)
    <3>1. ip' = ip /\ Op(p).op = "io"
      BY <1>2, <1>3, <2>4 DEF Synced, recv_token, file_access, send_token, Goto, Inside
    <3> QED
      BY <1>1, <2>2, <3>1
  <2> QED
    BY <2>1, <2>3, <2>4, Moves
<1> QED
  BY <1>1, <1>4, <1>5 DEF StageInv

LEMMA BarStep ==
  ASSUME Types, StageInv, BarInv, NEW p \in PEs, Step(p)
  PROVE  BarInv'
<1> SUFFICES ASSUME NEW q \in PEs, NEW g \in Gangs
             PROVE  bar'[q][g] = Base(ip'[q], g)
                       + (IF stage'[q] # "ready" /\ MyGang(q)' = g THEN Entered(q)' ELSE 0)
  <2>1. UNCHANGED <<conf, r_mod, w_mod>>
    BY Moves
  <2> QED
    BY <2>1, Frame DEF BarInv
<1>1. UNCHANGED <<conf, r_mod, w_mod>> /\ ~Done(p)
  BY Moves
<1>2. /\ stage \in [PEs -> {"ready", "barrier", "recv", "io", "send", "barrier2"}]
      /\ ip \in [PEs -> 1..(Len(Program) + 1)] /\ bar \in [PEs -> [Gangs -> Nat]]
      /\ MyGang(p) \in Gangs /\ ip[p] \in Nat \ {0} /\ Op(p).op \in {"local", "bar", "io"}
  <2>1. ip[p] \in 1..Len(Program) /\ Len(Program) \in Nat
    BY <1>1, Config, OpType
  <2> QED
    BY <1>1, <2>1, OpType, SMTT(30) DEF Types, TypeOK
<1>3. bar[q][g] = Base(ip[q], g) + (IF stage[q] # "ready" /\ MyGang(q) = g THEN Entered(q) ELSE 0)
  BY DEF BarInv
<1>4. Base(ip[p], g) \in Nat
  BY <1>2, FiniteBars
<1>5. CASE q # p
  <2>1. ip'[q] = ip[q] /\ stage'[q] = stage[q] /\ bar'[q] = bar[q]
    BY <1>5, Others
  <2>2. MyGang(q)' = MyGang(q)
    BY <1>1, <2>1, FrameOp
  <2> QED
    BY <1>3, <2>1, <2>2 DEF Entered
<1>6. CASE q = p /\ Ends(p)
  <2>1. ip'[p] = ip[p] + 1 /\ stage'[p] = "ready" /\ bar' = bar
    BY <1>2, <1>6 DEF Ends, Advance
  <2>2. Base(ip[p] + 1, g) = Base(ip[p], g) + Weight(Op(p), g)
    BY <1>2, BaseStep DEF Op
  <2>3. Weight(Op(p), g) = IF stage[p] # "ready" /\ MyGang(p) = g THEN Entered(p) ELSE 0
    BY <1>6 DEF Ends, Weight, Entered, MyGang
  <2>4. Weight(Op(p), g) \in Nat
    BY DEF Weight
  <2> QED
    BY <1>3, <1>4, <1>6, <2>1, <2>2, <2>3, <2>4
<1>7. CASE q = p /\ ~Ends(p)
  <2>1. ip' = ip
    BY <1>7, Moves, Zenon DEF enter, Synced, recv_token, file_access, send_token
  <2>2. MyGang(p)' = MyGang(p)
    BY <1>1, <2>1, FrameOp
  <2>3. CASE enter(p)
    <3>1. stage[p] = "ready" /\ stage'[p] = "barrier"
      BY <1>2, <2>3 DEF enter, Goto
    <3>2. bar'[p][g] = IF MyGang(p) = g THEN bar[p][g] + 1 ELSE bar[p][g]
      BY <1>2, <2>3 DEF enter, EnterBarrier
    <3> QED
      BY <1>3, <1>4, <1>7, <2>1, <2>2, <3>1, <3>2 DEF Entered
  <2>4. CASE send_token(p)
    <3>1. stage[p] = "send" /\ stage'[p] = "barrier2"
      BY <1>2, <2>4 DEF send_token, Goto
    <3>2. bar'[p][g] = IF MyGang(p) = g THEN bar[p][g] + 1 ELSE bar[p][g]
      BY <1>2, <2>4 DEF send_token, EnterBarrier
    <3> QED
      BY <1>3, <1>4, <1>7, <2>1, <2>2, <3>1, <3>2 DEF Entered
  <2>5. CASE Synced(p) \/ recv_token(p) \/ file_access(p)
    <3>1. /\ bar' = bar
          /\ stage[p] # "ready" /\ stage'[p] # "ready"
          /\ stage[p] # "barrier2" /\ stage'[p] # "barrier2"
      BY <1>2, <2>5 DEF Synced, recv_token, file_access, Goto
    <3> QED
      BY <1>3, <1>7, <2>1, <2>2, <3>1 DEF Entered
  <2> QED
    BY <1>7, <2>3, <2>4, <2>5, Moves
<1> QED
  BY <1>5, <1>6, <1>7, SMTT(30)

LEMMA SyncStep ==
  ASSUME Types, StageInv, BarInv, SyncInv, NEW p \in PEs, Step(p)
  PROVE  SyncInv'
<1>1. UNCHANGED <<conf, r_mod, w_mod>> /\ ~Done(p)
  BY Moves
<1> SUFFICES ASSUME NEW r \in PEs, NEW g \in Gangs, NEW q \in Members(g, r)
             PROVE  bar'[q][g] >= Base(ip'[r], g)
                       + (IF stage'[r] # "ready" /\ MyGang(r)' = g THEN Left(r)' ELSE 0)
  BY <1>1, Frame DEF SyncInv
<1>2. /\ stage \in [PEs -> {"ready", "barrier", "recv", "io", "send", "barrier2"}]
      /\ ip \in [PEs -> 1..(Len(Program) + 1)] /\ bar \in [PEs -> [Gangs -> Nat]]
      /\ bar' \in [PEs -> [Gangs -> Nat]]
      /\ MyGang(p) \in Gangs /\ ip[p] \in Nat \ {0}
  <2>1. ip[p] \in 1..Len(Program) /\ Len(Program) \in Nat
    BY <1>1, Config, OpType
  <2>2. bar' \in [PEs -> [Gangs -> Nat]]
    BY <1>1, TypesStep, Frame DEF Types, TypeOK
  <2>3. MyGang(p) \in Gangs
    BY <1>1, OpType
  <2>4. /\ stage \in [PEs -> {"ready", "barrier", "recv", "io", "send", "barrier2"}]
        /\ ip \in [PEs -> 1..(Len(Program) + 1)] /\ bar \in [PEs -> [Gangs -> Nat]]
    BY Zenon DEF Types, TypeOK
  <2>5. ip[p] \in Nat \ {0}
    BY <2>1
  <2> QED
    BY <2>2, <2>3, <2>4, <2>5, Zenon
<1>3. q \in PEs
  BY DEF Members
<1>4. /\ bar[q][g] >= Base(ip[r], g) + (IF stage[r] # "ready" /\ MyGang(r) = g THEN Left(r) ELSE 0)
      /\ bar'[q][g] >= bar[q][g]
  BY <1>3, Others DEF SyncInv
<1>5. /\ bar[q][g] \in Nat /\ bar'[q][g] \in Nat /\ bar[p][g] \in Nat /\ Base(ip[p], g) \in Nat
  BY <1>2, <1>3, FiniteBars, ZenonT(60)
<1>6. bar[p][g] = Base(ip[p], g) + (IF stage[p] # "ready" /\ MyGang(p) = g THEN Entered(p) ELSE 0)
  BY DEF BarInv
<1>7. CASE r # p
  <2>1. ip'[r] = ip[r] /\ stage'[r] = stage[r]
    BY <1>7, Others
  <2>2. MyGang(r)' = MyGang(r)
    BY <1>1, <2>1, FrameOp
  <2>3. Base(ip[r], g) \in Nat
    <3>1. ip[r] \in Nat \ {0}
      BY <1>2, Config, SMTT(30)
    <3> QED
      BY <3>1, FiniteBars
  <2> QED
    BY <1>4, <1>5, <2>1, <2>2, <2>3 DEF Left
<1>8. CASE r = p /\ Ends(p)
  <2>1. ip'[p] = ip[p] + 1 /\ stage'[p] = "ready" /\ bar' = bar
    BY <1>2, <1>8 DEF Ends, Advance
  <2>2. Base(ip[p] + 1, g) = Base(ip[p], g) + Weight(Op(p), g)
    BY <1>2, BaseStep, SMTT(30) DEF Op
  <2>3. CASE Weight(Op(p), g) = 0
    BY <1>4, <1>5, <1>8, <2>1, <2>2, <2>3, SMTT(30) DEF Left
  <2>4. CASE Weight(Op(p), g) # 0
    <3>1. BarrierFull(p) /\ MyGang(p) = g
      BY <1>8, <2>4 DEF Ends, Weight, MyGang
    <3>2. bar[q][g] >= bar[p][g]
      BY <1>8, <3>1 DEF BarrierFull
    <3>3. Weight(Op(p), g) = IF stage[p] # "ready" /\ MyGang(p) = g THEN Entered(p) ELSE 0
      BY <1>8 DEF Ends, Weight, Entered, MyGang
    <3> QED
      BY <1>5, <1>6, <1>8, <2>1, <2>2, <3>2, <3>3
  <2> QED
    BY <2>3, <2>4
<1>9. CASE r = p /\ ~Ends(p)
  <2>1. ip' = ip
    BY <1>9, Moves, Zenon DEF enter, Synced, recv_token, file_access, send_token
  <2>2. MyGang(p)' = MyGang(p)
    BY <1>1, <2>1, FrameOp
  <2>3. CASE enter(p)
    <3>1. stage[p] = "ready" /\ stage'[p] = "barrier"
      BY <1>2, <2>3 DEF enter, Goto
    <3> QED
      BY <1>4, <1>5, <1>9, <2>1, <2>2, <3>1 DEF Left, Inside
  <2>4. CASE Synced(p)
    <3>1. stage[p] = "barrier" /\ stage'[p] = "recv" /\ BarrierFull(p)
      BY <1>2, <2>4 DEF Synced, Goto
    <3>2. MyGang(p) = g => bar[q][g] >= bar[p][g]
      BY <1>9, <3>1 DEF BarrierFull
    <3> QED
      BY <1>4, <1>5, <1>6, <1>9, <2>1, <2>2, <3>1, <3>2 DEF Left, Inside, Entered
  <2>5. CASE recv_token(p) \/ file_access(p) \/ send_token(p)
    <3>1. stage[p] \in Inside /\ stage'[p] \in Inside /\ stage[p] # "ready" /\ stage'[p] # "ready"
      BY <1>2, <2>5 DEF recv_token, file_access, send_token, Goto, Inside
    <3> QED
      BY <1>4, <1>5, <1>9, <2>1, <2>2, <3>1 DEF Left
  <2> QED
    BY <1>9, <2>3, <2>4, <2>5, Moves
<1> QED
  BY <1>7, <1>8, <1>9

\* While a PE is between the barriers of a call of io_distmatrix, the others of its
\* gang are in that call, unless it is about to leave.
LEMMA Together ==
  ASSUME Types, StageInv, BarInv, SyncInv, NEW p \in PEs, stage[p] \in Inside,
         NEW q \in Members(MyGang(p), p)
  PROVE  /\ ip[q] >= ip[p]
         /\ ip[q] = ip[p] => stage[q] # "ready"
         /\ ip[q] > ip[p] => stage[p] = "barrier2"
<1> DEFINE g == MyGang(p)
<1>1. q \in PEs /\ p \in Members(g, q)
  BY DEF Members
<1>2. ~Done(p) /\ Op(p).op = "io" /\ stage[p] # "ready"
  BY DEF StageInv, Inside
<1>3. g \in Gangs
  BY <1>2, OpType
<1> HIDE DEF g
<1>4. ip[p] \in Nat \ {0} /\ ip[q] \in Nat \ {0}
  BY <1>1, Config, SMTT(30) DEF Types, TypeOK
<1>5. /\ Base(ip[p], g) \in Nat /\ Base(ip[q], g) \in Nat
      /\ Base(ip[q] + 1, g) \in Nat /\ Base(ip[p] + 1, g) \in Nat
  BY <1>4, FiniteBars
<1>6. bar[p][g] \in Nat /\ bar[q][g] \in Nat
  BY <1>1, <1>3 DEF Types, TypeOK
<1>7. bar[q][g] >= Base(ip[p], g) + 1
  BY <1>1, <1>2, <1>3 DEF SyncInv, Left, g
<1>8. bar[q][g] = Base(ip[q], g) + (IF stage[q] # "ready" /\ MyGang(q) = g THEN Entered(q) ELSE 0)
  BY <1>1, <1>3 DEF BarInv
<1>9. bar[q][g] <= Base(ip[q] + 1, g)
  <2>1. Base(ip[q] + 1, g) = Base(ip[q], g) + Weight(Op(q), g)
    BY <1>4, BaseStep DEF Op
  <2>2. Weight(Op(q), g) \in Nat
    BY DEF Weight
  <2>3. CASE stage[q] # "ready" /\ MyGang(q) = g
    <3>1. Entered(q) <= Weight(Op(q), g) /\ Entered(q) \in Nat
      BY <1>1, <2>3 DEF StageInv, Inside, Entered, Weight, MyGang
    <3> QED
      BY <1>5, <1>8, <2>1, <2>2, <2>3, <3>1
  <2> QED
    BY <1>5, <1>8, <2>1, <2>2, <2>3, SMTT(30)
<1>10. ip[q] >= ip[p]
  <2> SUFFICES ASSUME ip[q] < ip[p] PROVE FALSE
    BY <1>4
  <2>1. Base(ip[q] + 1, g) <= Base(ip[p], g)
    BY <1>4, BaseMonotone
  <2> QED
    BY <1>5, <1>6, <1>7, <1>9, <2>1
<1>11. ip[q] = ip[p] => stage[q] # "ready"
  BY <1>5, <1>7, <1>8
<1>12. ip[q] > ip[p] => stage[p] = "barrier2"
  <2> SUFFICES ASSUME ip[q] > ip[p] PROVE stage[p] = "barrier2"
    OBVIOUS
  <2>1. bar[p][g] >= Base(ip[q], g)
    BY <1>1, <1>3, <1>5, <1>6 DEF SyncInv, Left
  <2>2. Base(ip[p] + 1, g) <= Base(ip[q], g)
    <3>1. ip[p] + 1 \in Nat \ {0} /\ ip[p] + 1 <= ip[q]
      BY <1>4
    <3> QED
      BY <1>4, <3>1, BaseMonotone
  <2>3. Base(ip[p] + 1, g) = Base(ip[p], g) + 2
    <3>1. Weight(Op(p), g) = 2
      BY <1>2 DEF Weight, g, MyGang
    <3> QED
      BY <1>4, <3>1, BaseStep DEF Op
  <2>4. bar[p][g] = Base(ip[p], g) + Entered(p)
    BY <1>2, <1>3 DEF BarInv, g
  <2> QED
    BY <1>2, <1>5, <1>6, <2>1, <2>2, <2>3, <2>4 DEF Entered
<1> QED
  BY <1>10, <1>11, <1>12

\* The PE that has a token to come is the next one of the gang, in the same call.
LEMMA WaitingNext ==
  ASSUME Types, StageInv, NEW q \in PEs, NEW g, Waiting(q, g)
  PROVE  /\ q - 1 \in PEs /\ stage[q - 1] \in Inside /\ q \in Members(MyGang(q - 1), q - 1)
         /\ Op(q) = Op(q - 1) /\ Op(q).op = "io" /\ MyGang(q) = g /\ g \in Gangs /\ ~Done(q)
         /\ io_mod(q) = io_mod(q - 1) /\ MyRank(q) = MyRank(q - 1) + 1
         /\ MyRank(q) % io_mod(q) > 0
<1>1. /\ q - 1 \in PEs /\ stage[q - 1] = "barrier2" /\ MyGang(q - 1) = g
      /\ (MyRank(q - 1) + 1) % io_mod(q - 1) > 0 /\ ip[q] = ip[q - 1]
  BY DEF Waiting
<1>2. ~Done(q - 1) /\ Op(q - 1).op = "io" /\ stage[q - 1] \in Inside
  BY <1>1 DEF StageInv, Inside
<1>3. Op(q) = Op(q - 1) /\ MyGang(q) = g /\ ~Done(q) /\ io_mod(q) = io_mod(q - 1)
  BY <1>1, <1>2 DEF Op, MyGang, Done, io_mod
<1>4. (q - 1) + 1 = q
  BY Config DEF PEs
<1>5. /\ (q - 1) + 1 \in Members(MyGang(q - 1), q - 1)
      /\ gang_my_pe(MyGang(q - 1), (q - 1) + 1) = gang_my_pe(MyGang(q - 1), q - 1) + 1
      /\ MyGang(q - 1) \in Gangs
  BY <1>1, <1>2, OpType, NextInGang DEF MyRank
<1> QED
  BY <1>1, <1>2, <1>3, <1>4, <1>5 DEF MyRank

\* What a PE has sent stays sent.
LEMMA SentStep ==
  ASSUME Types, StageInv, NEW p \in PEs, Step(p), NEW q \in PEs, NEW n \in Nat, Sent(q, n)
  PROVE  ip'[q] > n \/ (ip'[q] = n /\ stage'[q] = "barrier2")
<1>1. /\ stage \in [PEs -> {"ready", "barrier", "recv", "io", "send", "barrier2"}]
      /\ ip \in [PEs -> 1..(Len(Program) + 1)] /\ Len(Program) \in Nat
  BY Config DEF Types, TypeOK
<1>2. ip'[q] >= ip[q] /\ ip[q] \in Nat
  BY <1>1, Others
<1>3. ip'[q] \in Nat
  <2>1. ip' \in [PEs -> 1..(Len(Program) + 1)]
    BY Moves, TypesStep, Frame DEF Types, TypeOK
  <2> QED
    BY <1>1, <2>1
<1>4. CASE q # p
  BY <1>2, <1>4, Others DEF Sent
<1>5. CASE q = p /\ Ends(p)
  BY <1>1, <1>5 DEF Ends, Advance, Sent
<1>6. CASE q = p /\ ~Ends(p)
  BY <1>1, <1>2, <1>3, <1>6, Moves, Zenon
     DEF enter, Synced, recv_token, file_access, send_token, Goto, Sent
<1> QED
  BY <1>4, <1>5, <1>6

LEMMA OrderStep ==
  ASSUME GangInv, NEW p \in PEs, Step(p)
  PROVE  OrderInv'
<1> USE DEF GangInv
<1>1. UNCHANGED <<conf, r_mod, w_mod>> /\ ~Done(p) /\ PEs' = PEs
  BY Moves, Frame
<1>2. /\ stage \in [PEs -> {"ready", "barrier", "recv", "io", "send", "barrier2"}]
      /\ ip \in [PEs -> 1..(Len(Program) + 1)] /\ Len(Program) \in Nat
  BY Config DEF Types, TypeOK
<1> SUFFICES ASSUME NEW r \in PEs, stage'[r] \in {"io", "send", "barrier2"},
                    NEW q \in PEs, Before(q, r)'
             PROVE  ip'[q] > ip'[r] \/ (ip'[q] = ip'[r] /\ stage'[q] = "barrier2")
  BY <1>1 DEF OrderInv, Sent
<1>3. ip[r] \in Nat
  BY <1>2
<1>4. ASSUME ip'[r] = ip[r] PROVE Before(q, r)
  <2>1. MyGang(r)' = MyGang(r) /\ MyRank(r)' = MyRank(r) /\ io_mod(r)' = io_mod(r)
    BY <1>1, <1>4, FrameOp, ZenonT(60)
  <2> QED
    BY <1>1, <2>1, Frame DEF Before
<1>5. CASE r # p
  <2>1. ip'[r] = ip[r] /\ stage'[r] = stage[r]
    BY <1>5, Others
  <2>2. Sent(q, ip[r])
    BY <1>4, <2>1 DEF OrderInv
  <2> QED
    BY <1>3, <2>1, <2>2, SentStep
<1>6. CASE r = p
  <2>1. \/ stage[p] \in {"io", "send"} /\ ip' = ip
        \/ recv_token(p)
    BY <1>2, <1>6, Moves, Zenon DEF Ends, Advance, enter, Synced, file_access, send_token, Goto
  <2>2. CASE stage[p] \in {"io", "send"} /\ ip' = ip
    <3>1. Sent(q, ip[p])
      BY <1>4, <1>6, <2>2 DEF OrderInv
    <3> QED
      BY <1>3, <1>6, <2>2, <3>1, SentStep
  <2>3. CASE recv_token(p)
    <3> DEFINE g == MyGang(p)
               m == io_mod(p)
    <3>1. ip' = ip /\ stage[p] = "recv" /\ g \in Gangs /\ m \in Nat \ {0}
      BY <1>1, <2>3, OpType DEF recv_token, Goto
    <3>2. /\ q \in Members(g, p) /\ q < p /\ gang_my_pe(g, q) \div m = MyRank(p) \div m
      BY <1>4, <1>6, <3>1 DEF Before
    <3>3. MyRank(p) \in Nat /\ gang_my_pe(g, q) \in Nat /\ gang_my_pe(g, q) < MyRank(p)
      BY <3>1, <3>2, Ranks, LowerRank DEF MyRank
    <3>4. MyRank(p) % m \in Nat
      BY <3>1, <3>3, Division
    <3>5. MyRank(p) % m > 0
      <4>1. MyRank(p) % m # 0
        BY <3>1, <3>2, <3>3, FirstOfGroup
      <4> QED
        BY <3>4, <4>1
    <3>6. Waiting(p, g)
      BY <2>3, <3>1, <3>5 DEF recv_token, TokInv
    <3>7. /\ p - 1 \in PEs /\ p \in Members(MyGang(p - 1), p - 1) /\ MyGang(p - 1) = g
          /\ io_mod(p - 1) = m /\ MyRank(p) = MyRank(p - 1) + 1 /\ ip[p - 1] = ip[p]
          /\ stage[p - 1] = "barrier2"
      BY <3>6, WaitingNext DEF Waiting
    <3>8. Sent(q, ip[p])
      <4>1. CASE q = p - 1
        BY <3>7, <4>1 DEF Sent
      <4>2. CASE q # p - 1
        <5>1. q < p - 1
          BY <3>2, <4>2, Config DEF PEs
        <5>2. q \in Members(g, p - 1)
          BY <3>2, <3>7 DEF Members
        <5>3. MyRank(p - 1) \in Nat
          BY <3>1, <3>7, Ranks DEF MyRank
        <5>4. MyRank(p) \div m = MyRank(p - 1) \div m
          BY <3>1, <3>5, <3>7, <5>3, NextInGroup
        <5>5. Before(q, p - 1)
          BY <3>2, <3>7, <5>1, <5>2, <5>4 DEF Before
        <5> QED
          BY <3>7, <5>5 DEF OrderInv
      <4> QED
        BY <4>1, <4>2
    <3> QED
      BY <1>3, <1>6, <3>1, <3>8, SentStep
  <2> QED
    BY <2>1, <2>2, <2>3
<1> QED
  BY <1>5, <1>6

LEMMA TokStep ==
  ASSUME GangInv, NEW p \in PEs, Step(p)
  PROVE  TokInv'
<1> USE DEF GangInv
<1>1. UNCHANGED <<conf, r_mod, w_mod>> /\ ~Done(p) /\ PEs' = PEs
  BY Moves, Frame
<1>2. /\ stage \in [PEs -> {"ready", "barrier", "recv", "io", "send", "barrier2"}]
      /\ ip \in [PEs -> 1..(Len(Program) + 1)] /\ Len(Program) \in Nat
      /\ tok \in [PEs -> [Gangs -> Nat]]
      /\ MyGang(p) \in Gangs
  BY <1>1, Config, OpType, ZenonT(60) DEF Types, TypeOK
<1>3. p \in Nat /\ p # p - 1 /\ p + 1 # p /\ (p + 1) - 1 = p
  BY Config DEF PEs
<1> SUFFICES ASSUME NEW q \in PEs, NEW g \in Gangs
             PROVE  tok'[q][g] = IF Waiting(q, g)' THEN 1 ELSE 0
  BY <1>1 DEF TokInv
<1>4. tok[q][g] = IF Waiting(q, g) THEN 1 ELSE 0
  BY SMTT(30) DEF TokInv
<1>5. ASSUME q # p, q # p + 1 PROVE tok'[q][g] = tok[q][g]
  <2>1. CASE recv_token(p)
    BY <1>2, <1>5, <2>1 DEF recv_token
  <2>2. CASE send_token(p)
    BY <1>2, <1>5, <2>2 DEF send_token
  <2> QED
    BY <2>1, <2>2, Moves DEF Ends, enter, Synced, file_access
<1>6. CASE q # p /\ q # p + 1
  <2>1. q \in Nat
    BY Config DEF PEs
  <2>2. q - 1 # p
    BY <1>3, <1>6, <2>1
  <2>3. Waiting(q, g)' <=> Waiting(q, g)
    <3>1. ip'[q] = ip[q] /\ stage'[q] = stage[q]
      BY <1>6, Others, ZenonT(60)
    <3>2. CASE q - 1 \in PEs
      <4>1. ip'[q - 1] = ip[q - 1] /\ stage'[q - 1] = stage[q - 1]
        BY <2>2, <3>2, Others, SMTT(30)
      <4>2. /\ MyGang(q - 1)' = MyGang(q - 1) /\ MyRank(q - 1)' = MyRank(q - 1)
            /\ io_mod(q - 1)' = io_mod(q - 1)
        BY <1>1, <4>1, FrameOp
      <4> QED
        BY <1>1, <3>1, <4>1, <4>2, ZenonT(60) DEF Waiting
    <3>3. CASE q - 1 \notin PEs
      BY <1>1, <3>3, SMTT(30) DEF Waiting
    <3> QED
      BY <3>2, <3>3
  <2> QED
    BY <1>4, <1>5, <1>6, <2>3
<1>7. CASE q = p
  <2>1. CASE Ends(p)
    <3>1. stage'[p] = "ready" /\ tok' = tok
      BY <1>2, <2>1 DEF Ends, Advance
    <3>2. ~Waiting(p, g)
      <4> SUFFICES ASSUME Waiting(p, g) PROVE FALSE
        OBVIOUS
      <4>1. Op(p).op = "io" /\ stage[p] \in {"barrier", "recv"}
        BY WaitingNext DEF Waiting
      <4> QED
        BY <2>1, <4>1 DEF Ends
    <3> QED
      BY <1>4, <1>7, <3>1, <3>2 DEF Waiting
  <2>2. CASE enter(p)
    <3>1. stage[p] = "ready" /\ stage'[p] = "barrier" /\ tok' = tok /\ ip' = ip
      BY <1>2, <2>2 DEF enter, Goto
    <3>2. ~Waiting(p, g)
      BY <3>1 DEF Waiting
    <3>3. ~Waiting(p, g)'
      <4> SUFFICES ASSUME Waiting(p, g)' PROVE FALSE
        OBVIOUS
      <4>1. p - 1 \in PEs /\ stage'[p - 1] = "barrier2" /\ ip'[p] = ip'[p - 1]
            /\ (MyRank(p - 1)' + 1) % io_mod(p - 1)' > 0
        BY <1>1 DEF Waiting
      <4>2. stage[p - 1] = "barrier2" /\ ip[p] = ip[p - 1]
        BY <1>3, <3>1, <4>1, Others
      <4>3. (MyRank(p - 1) + 1) % io_mod(p - 1) > 0
        <5>1. MyRank(p - 1)' = MyRank(p - 1) /\ io_mod(p - 1)' = io_mod(p - 1)
          BY <1>1, <3>1, FrameOp
        <5> QED
          BY <4>1, <5>1
      <4>4. stage[p - 1] \in Inside /\ ~Done(p - 1)
        BY <4>1, <4>2 DEF StageInv, Inside
      <4>5. (p - 1) + 1 \in Members(MyGang(p - 1), p - 1) /\ (p - 1) + 1 = p
        BY <1>3, <4>1, <4>3, <4>4, OpType, NextInGang, SMTT(30) DEF MyRank
      <4>6. stage[p] # "ready"
        BY <4>1, <4>2, <4>4, <4>5, Together, SMTT(30)
      <4> QED
        BY <3>1, <4>6
    <3> QED
      BY <1>4, <1>7, <3>1, <3>2, <3>3
  <2>3. CASE Synced(p)
    <3>1. stage[p] = "barrier" /\ stage'[p] = "recv" /\ tok' = tok /\ ip' = ip
      BY <1>2, <2>3 DEF Synced, Goto
    <3>2. Waiting(p, g)' <=> Waiting(p, g)
      <4>1. CASE p - 1 \in PEs
        <5>1. stage'[p - 1] = stage[p - 1]
          BY <1>3, <4>1, Others
        <5>2. /\ MyGang(p - 1)' = MyGang(p - 1) /\ MyRank(p - 1)' = MyRank(p - 1)
              /\ io_mod(p - 1)' = io_mod(p - 1)
          BY <1>1, <3>1, FrameOp
        <5> QED
          BY <1>1, <3>1, <5>1, <5>2, ZenonT(60) DEF Waiting
      <4>2. CASE p - 1 \notin PEs
        BY <1>1, <4>2 DEF Waiting
      <4> QED
        BY <4>1, <4>2
    <3> QED
      BY <1>4, <1>7, <3>1, <3>2
  <2>4. CASE recv_token(p)
    <3>1. stage[p] = "recv" /\ stage'[p] = "io"
      BY <1>2, <2>4 DEF recv_token, Goto
    <3>2. ~Waiting(p, g)'
      BY <3>1 DEF Waiting
    <3>3. CASE MyRank(p) % io_mod(p) > 0
      <4>1. /\ tok[p][MyGang(p)] > 0
            /\ tok' = [tok EXCEPT ![p][MyGang(p)] = tok[p][MyGang(p)] - 1]
        BY <2>4, <3>3 DEF recv_token
      <4>2. CASE g = MyGang(p)
        <5>1. tok'[p][g] = tok[p][g] - 1
          BY <1>2, <4>1, <4>2
        <5> QED
          BY <1>4, <1>7, <3>2, <4>1, <4>2, <5>1
      <4>3. CASE g # MyGang(p)
        <5>1. tok'[p][g] = tok[p][g]
          BY <1>2, <4>1, <4>3
        <5>2. ~Waiting(p, g)
          BY <4>3, WaitingNext
        <5> QED
          BY <1>4, <1>7, <3>2, <5>1, <5>2
      <4> QED
        BY <4>2, <4>3
    <3>4. CASE ~(MyRank(p) % io_mod(p) > 0)
      <4>1. tok' = tok
        BY <2>4, <3>4 DEF recv_token
      <4>2. ~Waiting(p, g)
        BY <3>4, WaitingNext
      <4> QED
        BY <1>4, <1>7, <3>2, <4>1, <4>2
    <3> QED
      BY <3>3, <3>4
  <2>5. CASE file_access(p) \/ send_token(p)
    <3>1. stage[p] \in {"io", "send"} /\ stage'[p] \in {"send", "barrier2"}
      BY <1>2, <2>5 DEF file_access, send_token, Goto
    <3>2. tok'[p][g] = tok[p][g]
      BY <1>2, <1>3, <2>5, ZenonT(60) DEF file_access, send_token
    <3> QED
      BY <1>4, <1>7, <3>1, <3>2 DEF Waiting
  <2> QED
    BY <2>1, <2>2, <2>3, <2>4, <2>5, Moves, ZenonT(60)
<1>8. CASE q = p + 1
  <2>1. stage'[q] = stage[q] /\ ip'[q] = ip[q] /\ q - 1 = p /\ q # p
    BY <1>3, <1>8, Others
  <2>2. CASE Ends(p)
    <3>1. stage'[p] = "ready" /\ tok' = tok
      BY <1>2, <2>2 DEF Ends, Advance
    <3>2. ~Waiting(q, g)
      <4> SUFFICES ASSUME Waiting(q, g) PROVE FALSE
        OBVIOUS
      <4>1. /\ stage[p] = "barrier2" /\ MyGang(p) = g /\ ip[q] = ip[p]
            /\ stage[q] \in {"barrier", "recv"}
        BY <2>1 DEF Waiting
      <4>2. q \in Members(g, p) /\ MyGang(q) = g
        BY <2>1, <4>1, WaitingNext, ZenonT(60)
      <4>3. BarrierFull(p)
        BY <2>2, <4>1 DEF Ends
      <4>4. bar[q][g] >= bar[p][g]
        BY <4>1, <4>2, <4>3 DEF BarrierFull
      <4>5. bar[p][g] = Base(ip[p], g) + 2 /\ bar[q][g] = Base(ip[p], g) + 1
        BY <4>1, <4>2 DEF BarInv, Entered
      <4>6. Base(ip[p], g) \in Nat
        <5>1. ip[p] \in Nat \ {0}
          BY <1>2
        <5> QED
          BY <5>1, FiniteBars
      <4> QED
        BY <4>4, <4>5, <4>6
    <3> QED
      BY <1>4, <2>1, <3>1, <3>2 DEF Waiting
  <2>3. CASE enter(p) \/ Synced(p) \/ recv_token(p) \/ file_access(p)
    <3>1. stage[p] # "barrier2" /\ stage'[p] # "barrier2"
      BY <1>2, <2>3 DEF enter, Synced, recv_token, file_access, Goto
    <3>2. tok'[q][g] = tok[q][g]
      BY <1>2, <2>1, <2>3, SMTT(30) DEF enter, Synced, recv_token, file_access
    <3> QED
      BY <1>4, <2>1, <3>1, <3>2 DEF Waiting
  <2>4. CASE send_token(p)
    <3>1. stage[p] = "send" /\ stage'[p] = "barrier2" /\ ip' = ip
      BY <1>2, <2>4, ZenonT(60) DEF send_token, Goto
    <3>2. tok[q][g] = 0
      BY <1>4, <2>1, <3>1, ZenonT(60) DEF Waiting
    <3>3. /\ MyGang(p)' = MyGang(p) /\ MyRank(p)' = MyRank(p) /\ io_mod(p)' = io_mod(p)
      BY <1>1, <3>1, FrameOp
    <3>4. CASE (MyRank(p) + 1) % io_mod(p) > 0 /\ g = MyGang(p)
      <4>1. tok'[q][g] = 1
        <5>1. tok' = [tok EXCEPT ![q][g] = tok[q][g] + 1]
          BY <1>8, <2>4, <3>4 DEF send_token
        <5>2. tok'[q][g] = tok[q][g] + 1
          BY <1>2, <5>1
        <5> QED
          BY <3>2, <5>2
      <4>2. /\ q \in Members(g, p) /\ io_mod(p) \in Nat \ {0}
            /\ gang_my_pe(g, q) = gang_my_pe(g, p) + 1
        BY <1>1, <1>8, <3>4, OpType, NextInGang, ZenonT(60) DEF MyRank
      <4>3. ip[q] >= ip[p] /\ (ip[q] = ip[p] => stage[q] # "ready") /\ ~(ip[q] > ip[p])
        BY <3>1, <3>4, <4>2, Together DEF Inside
      <4>4. ip[q] = ip[p] /\ stage[q] # "ready"
        BY <1>2, <4>3
      <4>5. stage[q] \notin {"io", "send", "barrier2"}
        <5> SUFFICES ASSUME stage[q] \in {"io", "send", "barrier2"} PROVE FALSE
          OBVIOUS
        <5>1. MyGang(q) = g /\ io_mod(q) = io_mod(p)
          BY <3>4, <4>4 DEF MyGang, Op, io_mod
        <5>2. gang_my_pe(g, p) \in Nat
          BY Ranks
        <5>3. gang_my_pe(g, p) \div io_mod(p) = gang_my_pe(g, q) \div io_mod(p)
          BY <3>4, <4>2, <5>2, NextInGroup, ZenonT(60) DEF MyRank
        <5>4. Before(p, q)
          <6>1. p \in Members(g, q) /\ p < q
            BY <1>3, <1>8, <4>2 DEF Members
          <6> QED
            BY <5>1, <5>3, <6>1, ZenonT(60) DEF Before, MyRank
        <5>5. Sent(p, ip[p])
          BY <4>4, <5>4 DEF OrderInv
        <5> QED
          BY <1>2, <3>1, <5>5 DEF Sent
      <4>6. stage[q] \in {"barrier", "recv"}
        BY <1>2, <4>4, <4>5, ZenonT(60)
      <4>7. Waiting(q, g)'
        BY <1>1, <2>1, <3>1, <3>3, <3>4, <4>4, <4>6, ZenonT(60) DEF Waiting
      <4> QED
        BY <4>1, <4>7
    <3>5. CASE ~((MyRank(p) + 1) % io_mod(p) > 0 /\ g = MyGang(p))
      <4>1. tok'[q][g] = tok[q][g]
        BY <1>2, <2>4, <3>5 DEF send_token
      <4>2. ~Waiting(q, g)'
        BY <2>1, <3>3, <3>5 DEF Waiting
      <4> QED
        BY <3>2, <4>1, <4>2, ZenonT(60)
    <3> QED
      BY <3>4, <3>5
  <2> QED
    BY <2>2, <2>3, <2>4, Moves, ZenonT(60)
<1> QED
  BY <1>6, <1>7, <1>8
---------------------------------------------------------------------------
LEMMA GangInit == Init => GangInv
<1> SUFFICES ASSUME Init PROVE GangInv
  OBVIOUS
<1>1. Types
  <2>1. Len(Program) \in Nat /\ conf \in DOMAIN Configs
    BY GangAssumption DEF Init, Program
  <2>2. 1 \in 1..(Len(Program) + 1)
    BY <2>1
  <2> QED
    BY <2>1, <2>2 DEF Init, Types, TypeOK
<1>2. \A p \in PEs : ip[p] = 1 /\ stage[p] = "ready" /\ \A g \in Gangs : bar[p][g] = 0 /\ tok[p][g] = 0
  BY DEF Init
<1>3. ASSUME NEW g PROVE Base(1, g) = 0
  <2>1. Bars(1, g) = {} /\ Ios(1, g) = {}
    BY DEF Bars, Ios
  <2> QED
    BY <2>1, FS_EmptySet DEF Base
<1>4. StageInv /\ BarInv
  BY <1>2, <1>3 DEF StageInv, BarInv, Inside
<1>5. SyncInv
  BY <1>2, <1>3 DEF SyncInv, Members
<1>6. OrderInv /\ TokInv
  BY <1>2 DEF OrderInv, TokInv, Waiting
<1> QED
  BY <1>1, <1>4, <1>5, <1>6 DEF GangInv

LEMMA GangStutter == GangInv /\ UNCHANGED vars => GangInv'
<1> SUFFICES ASSUME GangInv, UNCHANGED vars PROVE GangInv'
  OBVIOUS
<1>1. UNCHANGED <<conf, r_mod, w_mod, ip, stage, bar, tok>>
  BY DEF vars
<1>2. /\ PEs' = PEs /\ Program' = Program /\ (Validate' <=> Validate) /\ no_pe' = no_pe
      /\ \A g, q : Members(g, q)' = Members(g, q) /\ gang_my_pe(g, q)' = gang_my_pe(g, q)
      /\ \A n, g : Base(n, g)' = Base(n, g)
  BY <1>1, Frame DEF no_pe
<1>3. \A q : /\ Op(q)' = Op(q) /\ (Done(q)' <=> Done(q)) /\ MyGang(q)' = MyGang(q)
             /\ MyRank(q)' = MyRank(q) /\ io_mod(q)' = io_mod(q)
  BY <1>1, FrameOp
<1>4. Types'
  BY <1>1, <1>2, ZenonT(60) DEF GangInv, Types, TypeOK
<1>5. StageInv' /\ BarInv'
  BY <1>1, <1>2, <1>3, ZenonT(60) DEF GangInv, StageInv, BarInv, Entered
<1>6. SyncInv'
  BY <1>1, <1>2, <1>3, ZenonT(60) DEF GangInv, SyncInv, Left
<1>7. OrderInv'
  BY <1>1, <1>2, <1>3, ZenonT(60) DEF GangInv, OrderInv, Before, Sent
<1>8. TokInv'
  BY <1>1, <1>2, <1>3 DEF GangInv, TokInv, Waiting
<1> QED
  BY <1>4, <1>5, <1>6, <1>7, <1>8 DEF GangInv

LEMMA GangStep == GangInv /\ [Next]_vars => GangInv'
<1>1. ASSUME GangInv, NEW p \in PEs, Step(p) PROVE GangInv'
  BY <1>1, TypesStep, StageStep, BarStep, SyncStep, OrderStep, TokStep DEF GangInv
<1>2. ASSUME GangInv, terminated PROVE GangInv'
  BY <1>2, GangStutter DEF terminated
<1> QED
  BY <1>1, <1>2, GangStutter DEF Next

\* Of the PEs that pass one token at most one is between receiving and sending it.
OneHolder ==
  \A p, q \in PEs :
    /\ p # q /\ stage[p] = "io" /\ stage[q] = "io"
    /\ q \in Members(MyGang(p), p)
    => MyRank(p) \div io_mod(p) # MyRank(q) \div io_mod(q)

\* Of the PEs that pass one token, all those before p have sent it when p gets it,
\* and none of them can be in another call.
LEMMA OneHolderInv == GangInv => OneHolder
<1> USE DEF GangInv
<1>1. ASSUME GangInv, NEW p \in PEs, NEW q \in PEs, p < q, stage[p] = "io", stage[q] = "io",
             ip[p] = ip[q], q \in Members(MyGang(p), p)
      PROVE  MyRank(p) \div io_mod(p) # MyRank(q) \div io_mod(q)
  <2> SUFFICES ASSUME MyRank(p) \div io_mod(p) = MyRank(q) \div io_mod(q) PROVE FALSE
    OBVIOUS
  <2>1. MyGang(p) = MyGang(q) /\ io_mod(p) = io_mod(q)
    BY <1>1 DEF MyGang, io_mod, Op
  <2>2. p \in Members(MyGang(q), q)
    BY <1>1, <2>1 DEF Members
  <2>3. Before(p, q)
    BY <1>1, <2>1, <2>2 DEF Before, MyRank
  <2>4. Sent(p, ip[q])
    BY <1>1, <2>3 DEF OrderInv
  <2>5. ip[p] \in Nat
    BY <1>1, Config DEF Types, TypeOK
  <2> QED
    BY <1>1, <2>4, <2>5 DEF Sent
<1> SUFFICES ASSUME GangInv, NEW p \in PEs, NEW q \in PEs, p # q, stage[p] = "io", stage[q] = "io",
                    q \in Members(MyGang(p), p)
             PROVE  MyRank(p) \div io_mod(p) # MyRank(q) \div io_mod(q)
  BY SMTT(30) DEF OneHolder
<1>2. ip[p] = ip[q]
  <2>1. ip[q] >= ip[p] /\ ~(ip[q] > ip[p])
    BY Together DEF Inside
  <2>2. ip[p] \in Nat /\ ip[q] \in Nat
    BY Config DEF Types, TypeOK
  <2> QED
    BY <2>1, <2>2
<1>3. p \in Members(MyGang(q), q)
  BY <1>2 DEF Members, MyGang, Op
<1>4. p < q \/ q < p
  BY Config DEF PEs
<1> QED
  BY <1>1, <1>2, <1>3, <1>4

LEMMA TokenStaysInv == GangInv => TokenStaysInGang
<1> SUFFICES ASSUME GangInv, NEW p \in PEs, stage[p] = "send", (MyRank(p) + 1) % io_mod(p) > 0
             PROVE  p + 1 \in Members(MyGang(p), p)
  BY DEF TokenStaysInGang
<1>1. Types /\ ~Done(p)
  BY DEF GangInv, StageInv
<1> QED
  BY <1>1, OpType, NextInGang DEF MyRank

LEMMA TokensUsedInv == GangInv => TokensUsedUp
<1> SUFFICES ASSUME GangInv, NEW p \in PEs, NEW g \in Gangs
             PROVE  /\ tok[p][g] <= 1
                    /\ tok[p][g] = 1 =>
                         ~Done(p) /\ stage[p] \in {"barrier", "recv"} /\ MyGang(p) = g
  BY DEF TokensUsedUp
<1>1. tok[p][g] = IF Waiting(p, g) THEN 1 ELSE 0
  BY DEF GangInv, TokInv
<1>2. Waiting(p, g) => ~Done(p) /\ stage[p] \in {"barrier", "recv"} /\ MyGang(p) = g
  BY WaitingNext DEF GangInv, Waiting
<1> QED
  BY <1>1, <1>2

\* The barriers and tokens of io_distmatrix work for every program of collective
\* operations, number of PEs and gangs, and group sizes that initialize accepts.
THEOREM Protocol == Spec => [](TypeOK /\ OneHolder /\ TokenStaysInGang /\ TokensUsedUp)
<1>1. GangInv => TypeOK
  BY DEF GangInv, Types
<1> QED
  BY <1>1, GangInit, GangStep, OneHolderInv, TokenStaysInv, TokensUsedInv, PTL DEF Spec
---------------------------------------------------------------------------
\* Whatever is done with files and buffers, a PE makes the steps of GangIO.
LEMMA MadStepIsStep == [MadNext]_madVars => [Next]_vars
<1>1. ASSUME NEW p \in PEs, open(p) \/ take(p) \/ put(p) \/ wait(p) PROVE Next
  BY <1>1 DEF open, take, put, wait, Does, Step, Next
<1>2. ASSUME NEW p \in PEs, access(p) \/ post(p) \/ no_access(p) PROVE Next
  BY <1>2 DEF access, post, no_access, Step, Next
<1>3. ASSUME NEW p \in PEs, complete(p) PROVE UNCHANGED vars
  BY <1>3, SMTT(30) DEF complete
<1>4. ASSUME NEW p \in PEs, protocol(p) PROVE Next
  BY <1>4 DEF protocol, Step, Next
<1>5. ASSUME terminated PROVE Next
  BY <1>5 DEF Next
<1>6. ASSUME UNCHANGED madVars PROVE UNCHANGED vars
  BY <1>6 DEF madVars
<1> QED
  BY <1>1, <1>2, <1>3, <1>4, <1>5, <1>6, ZenonT(60) DEF MadNext, MadStep

\* MADbench2 is a run of the protocol of barriers and tokens that GangIO specifies.
THEOREM MadImplementsGangIO == MadSpec => Spec
<1>1. MadInit => Init
  BY DEF MadInit
<1> QED
  BY <1>1, MadStepIsStep, PTL DEF MadSpec, Spec

\* Synchronous I/O leaves no request behind.
NoRequests == IOMODE = "SYNC" => flight = [p \in PEs |-> {}]

LEMMA NoRequestsInv == MadSpec => []NoRequests
<1>1. MadInit => NoRequests
  BY DEF MadInit, NoRequests
<1>2. ASSUME NoRequests, [MadNext]_madVars PROVE NoRequests'
  <2>1. UNCHANGED conf
    <3>1. ASSUME NEW p \in PEs, Step(p) PROVE UNCHANGED conf
      BY <3>1 DEF Step, local, enter, synchronized, recv_token, file_access, send_token, finish
    <3> QED
      BY <1>2, <3>1, MadStepIsStep DEF Next, terminated, vars
  <2>2. IOMODE' = IOMODE /\ PEs' = PEs
    BY <2>1 DEF IOMODE, PEs, no_pe
  <2> SUFFICES ASSUME IOMODE = "SYNC" PROVE UNCHANGED flight
    BY <1>2, <2>2 DEF NoRequests
  <2>3. ASSUME NEW p \in PEs, MadStep(p) PROVE UNCHANGED flight
    <3>1. ~post(p)
      BY DEF post
    <3>2. ~complete(p)
      BY <1>2 DEF complete, NoRequests
    <3> QED
      BY <2>3, <3>1, <3>2
         DEF MadStep, open, take, put, wait, access, no_access, protocol, dataVars
  <2> QED
    BY <1>2, <2>3 DEF MadNext, madVars, dataVars
<1> QED
  BY <1>1, <1>2, PTL DEF MadSpec

\* With synchronous I/O, by POSIX or by MPI, at most one PE of a group is touching its
\* file, whatever the matrices, gangs and group sizes: what README promises of RMOD
\* and WMOD. Between receiving and sending the token there is one, and no request of
\* another is still under way.
THEOREM GroupsSerialised == MadSpec => []OneOfGroup
<1>1. OneHolder /\ NoRequests => OneOfGroup
  <2> SUFFICES ASSUME OneHolder, NoRequests, IOMODE = "SYNC",
                      NEW p \in PEs, NEW q \in PEs, p # q, Active(p) # {}, Active(q) # {},
                      q \in Members(MyGang(p), p)
               PROVE  MyRank(p) \div io_mod(p) # MyRank(q) \div io_mod(q)
    BY Zenon DEF OneOfGroup
  <2>1. stage[p] = "io" /\ stage[q] = "io"
    BY DEF Active, NoRequests
  <2> QED
    BY <2>1 DEF OneHolder
<1> QED
  BY <1>1, MadImplementsGangIO, Protocol, NoRequestsInv, PTL

\* The MPI_Send of a token always has a receiver in the gang of its sender.
THEOREM TokensStay == MadSpec => []TokenStaysInGang
<1> QED
  BY MadImplementsGangIO, Protocol, PTL

\* No token of one call of io_distmatrix is left for another.
THEOREM NoTokenLeftOver == MadSpec => []TokensUsedUp
<1> QED
  BY MadImplementsGangIO, Protocol, PTL

\* The positions, barrier counts and tokens of all PEs keep their types.
THEOREM ProtocolTypes == MadSpec => []TypeOK
<1> QED
  BY MadImplementsGangIO, Protocol, PTL
===========================================================================
