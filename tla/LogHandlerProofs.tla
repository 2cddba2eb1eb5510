------------------------- MODULE LogHandlerProofs -------------------------
(***************************************************************************)
(* Proofs about the handlers of liblog.so, for any number of processes,    *)
(* threads, calls and semaphores and for every set of faults.              *)
(***************************************************************************)
EXTENDS LogHandler, FiniteSetTheorems, TLAPS

\* Where a decremented semaphore may be: with a thread in write_log, or with
\* one that died there, and it is the semaphore of that thread's process.
HeldInLog ==
  \A t \in Threads :
    /\ held[t] # NoSem => held[t] = sem(t) /\ (InLog(t) \/ pc[t] = "dead")
    /\ InLog(t) => sem(t) # NoSem

\* A process that has not run its constructor has no thread in the handler.
NotStarted ==
  \A t \in Threads : status[Owner[t]] = "none" => pc[t] = "out" /\ held[t] = NoSem

\* Semaphores are numbered in the order of creation, and one that does not
\* exist yet has no value, no holder and no post.
Generations ==
  /\ linked <= created
  /\ \A p \in Procs : mysemp[p] <= created
  /\ \A s \in Sems : s > created => semval[s] = 0 /\ spurious[s] = 0
  /\ \A t \in Threads : held[t] <= created

\* Without interrupted waits a thread in write_log has the semaphore, and no
\* post is one too many.
NoBarging ==
  "eintr" \notin Faults =>
    /\ \A t \in Threads : InLog(t) => held[t] = sem(t)
    /\ \A s \in Sems : spurious[s] = 0

\* The inductive invariant behind the semaphore properties.
SemInv ==
  /\ TypeOK
  /\ HeldInLog
  /\ NotStarted
  /\ Generations
  /\ SemConservation
  /\ NoBarging
---------------------------------------------------------------------------
\* A thread that decrements x joins the holders of x and of nothing else.
LEMMA HoldersAdd ==
  ASSUME NEW t \in Threads, NEW x \in Sems,
         IsFiniteSet(Threads),
         held \in [Threads -> Sems \cup {NoSem}],
         held[t] = NoSem,
         held' = [held EXCEPT ![t] = x]
  PROVE  /\ Cardinality(Holders(x)') = Cardinality(Holders(x)) + 1
         /\ \A s \in Sems : s # x => Holders(s)' = Holders(s)
<1>1. x # NoSem
  BY DEF Sems, NoSem
<1>2. Holders(x)' = Holders(x) \cup {t} /\ t \notin Holders(x)
  BY <1>1 DEF Holders
<1>3. IsFiniteSet(Holders(x))
  BY FS_Subset DEF Holders
<1>4. Cardinality(Holders(x)') = Cardinality(Holders(x)) + 1
  BY <1>2, <1>3, FS_AddElement, Zenon
<1>5. \A s \in Sems : s # x => Holders(s)' = Holders(s)
  BY DEF Holders, Sems, NoSem
<1>6. QED
  BY <1>4, <1>5

\* A thread that posts leaves the holders of its semaphore.
LEMMA HoldersRemove ==
  ASSUME NEW t \in Threads, NEW x \in Sems,
         IsFiniteSet(Threads),
         held \in [Threads -> Sems \cup {NoSem}],
         held[t] = x,
         held' = [held EXCEPT ![t] = NoSem]
  PROVE  /\ Cardinality(Holders(x)') = Cardinality(Holders(x)) - 1
         /\ \A s \in Sems : s # x => Holders(s)' = Holders(s)
<1>1. x # NoSem
  BY DEF Sems, NoSem
<1>2. Holders(x)' = Holders(x) \ {t} /\ t \in Holders(x)
  BY <1>1 DEF Holders
<1>3. IsFiniteSet(Holders(x))
  BY FS_Subset DEF Holders
<1>4. Cardinality(Holders(x)') = Cardinality(Holders(x)) - 1
  BY <1>2, <1>3, FS_RemoveElement, Zenon
<1>5. \A s \in Sems : s # x => Holders(s)' = Holders(s)
  BY DEF Holders, Sems, NoSem
<1>6. QED
  BY <1>4, <1>5

\* The number of threads that have decremented a semaphore is a natural number.
LEMMA HoldersNat ==
  ASSUME NEW s, IsFiniteSet(Threads)
  PROVE  Cardinality(Holders(s)) \in Nat
<1>1. IsFiniteSet(Holders(s))
  BY FS_Subset DEF Holders
<1>2. QED
  BY <1>1, FS_CardinalityType
---------------------------------------------------------------------------
\* Before any constructor runs there is no semaphore and no thread in the handler.
LEMMA SemInvInit == Init => SemInv
<1> SUFFICES ASSUME Init PROVE SemInv
  OBVIOUS
<1> USE HandlerAssumption DEF Init, Sems, NoSem
<1>1. TypeOK
  BY DEF TypeOK
<1>2. HeldInLog /\ NotStarted /\ Generations /\ NoBarging
  BY DEF HeldInLog, NotStarted, Generations, NoBarging, InLog
<1>3. SemConservation
  BY DEF SemConservation
<1>4. QED
  BY <1>1, <1>2, <1>3 DEF SemInv

\* Counters that are counted up are still counters.
LEMMA Counted ==
  ASSUME NEW S, NEW f \in [S -> Nat], NEW x \in S
  PROVE  [f EXCEPT ![x] = @ + 1] \in [S -> Nat]
OBVIOUS

LEMMA CountedUpTo ==
  ASSUME NEW S, NEW M \in Nat, NEW f \in [S -> 0..M], NEW x \in S, f[x] < M
  PROVE  [f EXCEPT ![x] = @ + 1] \in [S -> 0..M]
OBVIOUS

\* Every step of a process or of its threads keeps the types.
LEMMA TypeOKStep == TypeOK /\ HeldInLog /\ [Next]_vars => TypeOK'
<1> SUFFICES ASSUME TypeOK, HeldInLog, [Next]_vars PROVE TypeOK'
  OBVIOUS
<1> USE HandlerAssumption DEF TypeOK
<1>1. ASSUME NEW p \in Procs, con(p) PROVE TypeOK'
  <2>1. status' \in [Procs -> {"none", "up", "exiting", "exited", "killed"}]
    BY <1>1 DEF con
  <2>2. CASE linked = NoSem /\ created < MaxSems /\ created' = created + 1
    <3>1. created + 1 \in Sems /\ created + 1 \in 0..MaxSems
      BY <2>2 DEF Sems
    <3>2. linked' \in Sems \cup {NoSem} /\ created' \in 0..MaxSems
      BY <1>1, <2>2, <3>1 DEF con, open_sem
    <3>3. semval' \in [Sems -> Nat]
      <4>1. semval' = [semval EXCEPT ![created + 1] = 1]
        BY <1>1, <2>2 DEF con, open_sem
      <4>2. QED
        BY <3>1, <4>1
    <3>4. mysemp' \in [Procs -> Sems \cup {NoSem}]
      BY <1>1, <2>2, <3>1, Zenon DEF con, open_sem
    <3>5. QED
      BY <1>1, <2>1, <3>2, <3>3, <3>4 DEF con, logvars
  <2>3. CASE UNCHANGED <<linked, created, semval>>
    <3>1. mysemp' \in [Procs -> Sems \cup {NoSem}]
      BY <1>1, <2>3, Zenon DEF con, open_sem
    <3>2. QED
      BY <1>1, <2>1, <2>3, <3>1 DEF con, logvars
  <2>4. QED
    BY <1>1, <2>2, <2>3, SMTT(30) DEF con, open_sem
<1>2. ASSUME NEW p \in Procs, NEW s \in {"exited", "killed"}, Stop(p, s) PROVE TypeOK'
  BY <1>2 DEF Stop, semvars, logvars
<1>3. ASSUME NEW t \in Threads, dest(t) PROVE TypeOK'
  BY <1>3, SMTT(30) DEF dest, Goto, logvars
<1>4. ASSUME NEW t \in Threads, NEW a \in Args, handle(t, a) PROVE TypeOK'
  <2>1. calls' \in [Threads -> 0..MaxCalls]
    <3>1. /\ calls \in [Threads -> 0..MaxCalls] /\ MaxCalls \in Nat
          /\ calls[t] < MaxCalls /\ calls' = [calls EXCEPT ![t] = @ + 1]
      BY <1>4, Zenon DEF handle
    <3> QED
      BY <3>1, CountedUpTo, Zenon
  <2>2. /\ pc' \in [Threads -> {"out", "wait", "fopen", "fclose", "post", "dead"}]
        /\ arg' \in [Threads -> Args]
    BY <1>4, ZenonT(60) DEF handle, Goto
  <2>3. QED
    BY <1>4, <2>1, <2>2, Zenon DEF handle, semvars, logvars
<1>5. ASSUME NEW t \in Threads, get_sem(t) PROVE TypeOK'
  <2>1. sem(t) \in Sems
    BY <1>5 DEF get_sem, sem
  <2>2. semval' \in [Sems -> Nat]
    BY <1>5, <2>1, SMTT(30) DEF get_sem
  <2>3. QED
    BY <1>5, <2>1, <2>2, Zenon DEF get_sem, Goto, logvars
<1>6. ASSUME NEW t \in Threads, get_sem_false(t) PROVE TypeOK'
  BY <1>6, ZenonT(30) DEF get_sem_false, Goto, semvars, logvars
<1>7. ASSUME NEW t \in Threads, write_log_open(t) PROVE TypeOK'
  BY <1>7, Zenon DEF write_log_open, Goto, semvars, logvars
<1>8. ASSUME NEW t \in Threads, write_log_close(t) PROVE TypeOK'
  <2> DEFINE line == [type |-> arg[t].type, pid |-> Owner[t], fd |-> arg[t].fd,
                      offset |-> arg[t].pos, bytes |-> arg[t].bytes]
  <2>1. line \in Lines
    BY DEF Lines
  <2>2. log' \in Seq(Lines) /\ Len(log') = Len(log) + 1
    BY <1>8, <2>1 DEF write_log_close
  <2>3. <<t, calls[t]>> \in Threads \X (0..MaxCalls)
    OBVIOUS
  <2>4. by' \in Seq(Threads \X (0..MaxCalls)) /\ Len(by') = Len(by) + 1
    BY <1>8, <2>3 DEF write_log_close
  <2>5. QED
    BY <1>8, <2>2, <2>4, Zenon DEF write_log_close, Goto, semvars
<1>9. ASSUME NEW t \in Threads, post_sem(t) PROVE TypeOK'
  <2>1. sem(t) \in Sems
    BY <1>9 DEF post_sem, Goto, HeldInLog, InLog, sem
  <2>2. semval' \in [Sems -> Nat]
    BY <1>9, <2>1, Counted, Zenon DEF post_sem
  <2>3. spurious' \in [Sems -> Nat]
    BY <1>9, <2>1, Counted, Zenon DEF post_sem
  <2>4. held' \in [Threads -> Sems \cup {NoSem}]
    BY <1>9 DEF post_sem
  <2>5. QED
    BY <1>9, <2>2, <2>3, <2>4, Zenon DEF post_sem, Goto, logvars
<1>10. CASE UNCHANGED vars
  BY <1>10 DEF vars, semvars, logvars
<1>11. QED
  BY <1>1, <1>2, <1>3, <1>4, <1>5, <1>6, <1>7, <1>8, <1>9, <1>10, Zenon
     DEF Next, Step, reap, kill, get_sem_null, handle_read, handle_write

\* What a move of thread t changes.
LEMMA GotoMoves ==
  ASSUME TypeOK, NEW t \in Threads, NEW from, NEW to, Goto(t, from, to)
  PROVE  /\ pc[t] = from /\ pc'[t] = to
         /\ \A u \in Threads : u # t => pc'[u] = pc[u]
BY DEF TypeOK, Goto

\* Semaphores are numbers.
LEMMA SemNumbers ==
  ASSUME TypeOK
  PROVE  /\ created \in Nat /\ linked \in Nat
         /\ \A t \in Threads : held[t] \in Nat
         /\ \A p \in Procs : mysemp[p] \in Nat
<1>1. Sems \cup {NoSem} \subseteq Nat /\ 0..MaxSems \subseteq Nat
  BY HandlerAssumption DEF Sems, NoSem
<1>2. /\ created \in 0..MaxSems /\ linked \in Sems \cup {NoSem}
      /\ held \in [Threads -> Sems \cup {NoSem}]
      /\ mysemp \in [Procs -> Sems \cup {NoSem}]
  BY Zenon DEF TypeOK
<1> QED
  BY <1>1, <1>2

\* The parts of SemInv that do not count: one step per action.
LEMMA SemShapeStep ==
  ASSUME TypeOK, HeldInLog, NotStarted, Generations, NoBarging, [Next]_vars, TypeOK'
  PROVE  HeldInLog' /\ NotStarted' /\ Generations' /\ NoBarging'
<1> DEFINE Shape == HeldInLog /\ NotStarted /\ Generations /\ NoBarging
<1> USE HandlerAssumption DEF HeldInLog, NotStarted, Generations, NoBarging, InLog, sem
<1>0. /\ created \in Nat /\ linked \in Nat
      /\ \A t \in Threads : held[t] \in Nat
      /\ \A p \in Procs : mysemp[p] \in Nat
  BY SemNumbers, Zenon
<1>01. /\ pc \in [Threads -> {"out", "wait", "fopen", "fclose", "post", "dead"}]
       /\ status \in [Procs -> {"none", "up", "exiting", "exited", "killed"}]
       /\ held \in [Threads -> Sems \cup {NoSem}]
  BY Zenon DEF TypeOK
<1>1. ASSUME NEW p \in Procs, con(p) PROVE Shape'
  <2>1. UNCHANGED <<pc, held, spurious>> /\ status[p] = "none"
    BY <1>1 DEF con
  <2>2. \A t \in Threads : Owner[t] = p => pc[t] = "out" /\ held[t] = NoSem
    BY <2>1
  <2>3. \A q \in Procs : q # p => mysemp'[q] = mysemp[q] /\ status'[q] = status[q]
    BY <1>1 DEF con, open_sem, TypeOK
  <2>4. status'[p] = "up"
    BY <1>1 DEF con, TypeOK
  <2>5. HeldInLog' /\ NotStarted' /\ NoBarging'
    BY <2>1, <2>2, <2>3, <2>4
  <2>6. Generations'
    <3>1. CASE created' = created + 1
      <4>1. /\ created \in Nat /\ created + 1 \in Sems /\ linked' = created + 1
            /\ semval' = [semval EXCEPT ![created + 1] = 1]
            /\ mysemp' = [mysemp EXCEPT ![p] = created + 1]
        BY <1>1, <3>1, SMTT(30) DEF con, open_sem, TypeOK, Sems
      <4>2. \A q \in Procs : mysemp'[q] <= created'
        <5>1. mysemp'[p] = created + 1
          BY <4>1 DEF TypeOK
        <5>2. QED
          BY <1>0, <2>3, <3>1, <5>1
      <4>3. \A s \in Sems : s > created' => semval'[s] = 0 /\ spurious'[s] = 0
        BY <2>1, <3>1, <4>1 DEF TypeOK, Sems
      <4>4. \A t \in Threads : held'[t] <= created'
        BY <1>0, <2>1, <3>1
      <4>5. linked' <= created'
        BY <3>1, <4>1
      <4>6. QED
        BY <4>2, <4>3, <4>4, <4>5
    <3>2. CASE UNCHANGED <<linked, created, semval>>
      <4>1. mysemp'[p] \in {linked, NoSem}
        BY <1>1, <3>2 DEF con, open_sem, TypeOK
      <4>2. \A q \in Procs : mysemp'[q] <= created'
        BY <1>0, <2>3, <3>2, <4>1 DEF NoSem
      <4>3. QED
        BY <2>1, <3>2, <4>2
    <3>3. QED
      BY <1>1, <3>1, <3>2 DEF con, open_sem
  <2>7. QED
    BY <2>5, <2>6
<1>2. ASSUME NEW p \in Procs, NEW s \in {"exited", "killed"}, Stop(p, s) PROVE Shape'
  BY <1>2, SMTT(30) DEF Stop, semvars, TypeOK
<1>3. ASSUME NEW t \in Threads, dest(t) PROVE Shape'
  BY <1>0, <1>01, <1>3, SMTT(30) DEF dest, Goto, NoSem
<1>4. ASSUME NEW t \in Threads, NEW a \in Args, handle(t, a) PROVE Shape'
  <2>1. CASE UNCHANGED pc
    BY <1>4, <2>1 DEF handle, semvars
  <2>2. CASE Goto(t, "out", "wait")
    BY <1>4, <2>2, GotoMoves DEF handle, semvars, Running
  <2>3. QED
    BY <1>4, <2>1, <2>2, SMTT(30) DEF handle
<1>5. ASSUME NEW t \in Threads, get_sem(t) PROVE Shape'
  <2>1. /\ pc[t] = "wait" /\ pc'[t] = "fopen" /\ held[t] = NoSem
        /\ \A u \in Threads : u # t => pc'[u] = pc[u]
    BY <1>5, GotoMoves DEF get_sem
  <2>2. /\ held'[t] = sem(t) /\ sem(t) # NoSem
        /\ \A u \in Threads : u # t => held'[u] = held[u]
    BY <1>5 DEF get_sem, TypeOK
  <2>3. UNCHANGED <<status, linked, created, mysemp, spurious>>
    BY <1>5 DEF get_sem
  <2>4. HeldInLog' /\ NotStarted' /\ NoBarging'
    BY <2>1, <2>2, <2>3
  <2>5. \A s \in Sems : s > created => semval'[s] = 0
    BY <1>5, <2>2, SMTT(30) DEF get_sem, TypeOK
  <2>6. Generations'
    BY <2>2, <2>3, <2>5
  <2>7. QED
    BY <2>4, <2>6
<1>6. ASSUME NEW t \in Threads, get_sem_false(t) PROVE Shape'
  BY <1>01, <1>6, SMTT(30) DEF get_sem_false, Goto, semvars
<1>7. ASSUME NEW t \in Threads, write_log_open(t) PROVE Shape'
  <2>1. PICK to \in {"fclose", "post"} : Goto(t, "fopen", to)
    BY <1>7 DEF write_log_open
  <2>2. QED
    BY <1>7, <2>1, GotoMoves DEF write_log_open, semvars
<1>8. ASSUME NEW t \in Threads, write_log_close(t) PROVE Shape'
  <2>1. Goto(t, "fclose", "post")
    BY <1>8 DEF write_log_close
  <2>2. UNCHANGED <<status, linked, created, semval, mysemp, held, spurious>>
    BY <1>8 DEF write_log_close, semvars
  <2>3. QED
    BY <2>1, <2>2, GotoMoves
<1>9. ASSUME NEW t \in Threads, post_sem(t) PROVE Shape'
  <2>1. /\ pc[t] = "post" /\ pc'[t] = "out"
        /\ \A u \in Threads : u # t => pc'[u] = pc[u]
    BY <1>9, GotoMoves DEF post_sem
  <2>2. /\ held'[t] = NoSem
        /\ \A u \in Threads : u # t => held'[u] = held[u]
    BY <1>9 DEF post_sem, TypeOK
  <2>3. UNCHANGED <<status, linked, created, mysemp>>
    BY <1>9 DEF post_sem
  <2>4. HeldInLog' /\ NotStarted'
    BY <2>1, <2>2, <2>3
  <2>5. sem(t) \in Sems /\ sem(t) <= created
    BY <2>1 DEF TypeOK
  <2>6. \A s \in Sems : s > created => semval'[s] = 0 /\ spurious'[s] = 0
    <3> SUFFICES ASSUME NEW s \in Sems, s > created
                 PROVE  semval'[s] = 0 /\ spurious'[s] = 0
      OBVIOUS
    <3>1. s # sem(t) /\ s \in Int
      BY <1>0, <2>5 DEF Sems
    <3>2. semval'[s] = semval[s]
      BY <1>9, <3>1 DEF post_sem, TypeOK
    <3>3. spurious'[s] = spurious[s]
      BY <1>9, <3>1, SMTT(30) DEF post_sem, TypeOK
    <3>4. QED
      BY <3>2, <3>3
  <2>7. Generations'
    BY <1>0, <2>2, <2>3, <2>6, SMTT(30) DEF NoSem
  <2>8. NoBarging'
    BY <1>9, <2>1, <2>2, <2>3 DEF post_sem
  <2>9. QED
    BY <2>4, <2>7, <2>8
<1>10. CASE UNCHANGED vars
  BY <1>10 DEF vars, semvars
<1>11. QED
  BY <1>1, <1>2, <1>3, <1>4, <1>5, <1>6, <1>7, <1>8, <1>9, <1>10, Zenon
     DEF Next, Step, reap, kill, get_sem_null, handle_read, handle_write

\* A step that changes the account of one semaphore, and balances it there,
\* keeps every account balanced.
LEMMA ConservationKept ==
  ASSUME IsFiniteSet(Threads), MaxSems \in Nat, created \in 0..MaxSems,
         semval \in [Sems -> Nat], spurious \in [Sems -> Nat],
         SemConservation, created' = created, NEW x \in Sems,
         semval'[x] + Cardinality(Holders(x)') - spurious'[x]
           = semval[x] + Cardinality(Holders(x)) - spurious[x],
         \A s \in Sems : s # x => /\ semval'[s] = semval[s]
                                  /\ Holders(s)' = Holders(s)
                                  /\ spurious'[s] = spurious[s],
         semval'[x] \in Int, spurious'[x] \in Int, Cardinality(Holders(x)') \in Int
  PROVE  SemConservation'
<1> SUFFICES ASSUME NEW s \in 1..created
             PROVE  semval'[s] + Cardinality(Holders(s)') = 1 + spurious'[s]
  BY DEF SemConservation
<1>1. s \in Sems
  BY DEF Sems
<1>2. semval[s] + Cardinality(Holders(s)) = 1 + spurious[s]
  BY DEF SemConservation
<1>3. CASE s = x
  BY <1>2, <1>3, HoldersNat
<1>4. CASE s # x
  BY <1>1, <1>2, <1>4, SMTT(30)
<1>5. QED
  BY <1>3, <1>4

\* Only con, get_sem and post_sem touch a value or a holder.
LEMMA ConservationStep ==
  ASSUME TypeOK, HeldInLog, Generations, SemConservation, [Next]_vars
  PROVE  SemConservation'
<1> USE HandlerAssumption
<1>1. CASE UNCHANGED <<created, semval, held, spurious>>
  BY <1>1 DEF SemConservation, Holders
<1>2. ASSUME NEW p \in Procs, con(p) PROVE SemConservation'
  <2>1. CASE created' = created + 1
    <3>1. semval' = [semval EXCEPT ![created + 1] = 1] /\ UNCHANGED <<held, spurious>>
      BY <1>2, <2>1 DEF con, open_sem, TypeOK
    <3>2. created + 1 \in Sems /\ created \in Nat
      BY <1>2, <2>1 DEF con, open_sem, TypeOK, Sems
    <3>3. Holders(created + 1) = {}
      BY <3>2 DEF Generations, Holders, TypeOK, Sems, NoSem
    <3>4. SUFFICES ASSUME NEW s \in 1..(created + 1)
                   PROVE  semval'[s] + Cardinality(Holders(s)') = 1 + spurious'[s]
      BY <2>1 DEF SemConservation
    <3>5. Holders(s)' = Holders(s)
      BY <3>1 DEF Holders
    <3>6. CASE s = created + 1
      <4>1. semval'[s] = 1 /\ spurious'[s] = 0
        BY <3>1, <3>2, <3>6 DEF Generations, TypeOK
      <4>2. Cardinality(Holders(s)') = 0
        BY <3>3, <3>5, <3>6, FS_EmptySet
      <4>3. QED
        BY <4>1, <4>2
    <3>7. CASE s \in 1..created
      <4>1. semval'[s] = semval[s]
        BY <3>1, <3>2, <3>7 DEF TypeOK, Sems
      <4>2. QED
        BY <3>1, <3>5, <3>7, <4>1 DEF SemConservation
    <3>8. QED
      BY <3>2, <3>6, <3>7
  <2>2. CASE created' # created + 1
    BY <1>1, <1>2, <2>2 DEF con, open_sem
  <2>3. QED
    BY <2>1, <2>2
<1>3. ASSUME NEW t \in Threads, get_sem(t) PROVE SemConservation'
  <2>1. PICK x \in Sems : x = sem(t)
    BY <1>3 DEF get_sem, sem, TypeOK
  <2>2. held[t] = NoSem
    BY <1>3 DEF get_sem, Goto, HeldInLog, InLog
  <2>3. /\ Cardinality(Holders(x)') = Cardinality(Holders(x)) + 1
        /\ \A s \in Sems : s # x => Holders(s)' = Holders(s)
    BY <1>3, <2>1, <2>2, HoldersAdd, Zenon DEF get_sem, TypeOK
  <2>4. /\ semval'[x] = semval[x] - 1
        /\ \A s \in Sems : s # x => semval'[s] = semval[s]
    BY <1>3, <2>1 DEF get_sem, TypeOK
  <2>5. UNCHANGED <<created, spurious>>
    BY <1>3 DEF get_sem
  <2>6. /\ Cardinality(Holders(x)) \in Nat
        /\ semval[x] \in Nat /\ spurious[x] \in Nat
    BY HoldersNat DEF TypeOK
  <2>7. semval'[x] + Cardinality(Holders(x)') - spurious'[x]
          = semval[x] + Cardinality(Holders(x)) - spurious[x]
    BY <2>3, <2>4, <2>5, <2>6
  <2>8. \A s \in Sems : s # x => /\ semval'[s] = semval[s]
                                     /\ Holders(s)' = Holders(s)
                                     /\ spurious'[s] = spurious[s]
    BY <2>3, <2>4, <2>5, <2>6
  <2>9. semval'[x] \in Int /\ spurious'[x] \in Int /\ Cardinality(Holders(x)') \in Int
    BY <2>3, <2>4, <2>5, <2>6
  <2>10. QED
    BY <2>7, <2>8, <2>9, <2>5, ConservationKept DEF TypeOK
<1>4. ASSUME NEW t \in Threads, post_sem(t) PROVE SemConservation'
  <2>1. PICK x \in Sems : x = sem(t)
    BY <1>4 DEF post_sem, Goto, sem, TypeOK, HeldInLog, InLog
  <2>2. /\ semval'[x] = semval[x] + 1
        /\ \A s \in Sems : s # x => semval'[s] = semval[s]
    BY <1>4, <2>1 DEF post_sem, TypeOK
  <2>a. /\ Cardinality(Holders(x)) \in Nat
        /\ semval[x] \in Nat /\ spurious[x] \in Nat
        /\ created' = created
    BY <1>4, HoldersNat, SMTT(30) DEF post_sem, TypeOK
  <2>3. CASE held[t] = NoSem
    <3>1. \A s \in Sems : Holders(s)' = Holders(s)
      BY <1>4, <2>3, SMTT(30) DEF post_sem, TypeOK, Holders
    <3>2. /\ spurious'[x] = spurious[x] + 1
          /\ \A s \in Sems : s # x => spurious'[s] = spurious[s]
      BY <1>4, <2>1, <2>3, SMTT(30) DEF post_sem, TypeOK
    <3>3. semval'[x] + Cardinality(Holders(x)') - spurious'[x]
            = semval[x] + Cardinality(Holders(x)) - spurious[x]
      BY <2>2, <2>a, <3>1, <3>2, SMTT(30)
    <3>4. \A s \in Sems : s # x => /\ semval'[s] = semval[s]
                                       /\ Holders(s)' = Holders(s)
                                       /\ spurious'[s] = spurious[s]
      BY <2>2, <2>a, <3>1, <3>2
    <3>5. semval'[x] \in Int /\ spurious'[x] \in Int /\ Cardinality(Holders(x)') \in Int
      BY <2>2, <2>a, <3>1, <3>2, SMTT(30)
    <3>6. QED
      BY <3>3, <3>4, <3>5, <2>a, ConservationKept, Zenon DEF TypeOK
  <2>4. CASE held[t] # NoSem
    <3>1. held[t] = x
      BY <2>1, <2>4 DEF HeldInLog
    <3>2. /\ Cardinality(Holders(x)') = Cardinality(Holders(x)) - 1
          /\ \A s \in Sems : s # x => Holders(s)' = Holders(s)
      BY <1>4, <3>1, HoldersRemove, Zenon DEF post_sem, TypeOK
    <3>3. spurious' = spurious
      BY <1>4, <2>4 DEF post_sem
    <3>4. semval'[x] + Cardinality(Holders(x)') - spurious'[x]
            = semval[x] + Cardinality(Holders(x)) - spurious[x]
      BY <2>2, <2>a, <3>2, <3>3
    <3>5. \A s \in Sems : s # x => /\ semval'[s] = semval[s]
                                       /\ Holders(s)' = Holders(s)
                                       /\ spurious'[s] = spurious[s]
      BY <2>2, <2>a, <3>2, <3>3
    <3>6. semval'[x] \in Int /\ spurious'[x] \in Int /\ Cardinality(Holders(x)') \in Int
      BY <2>2, <2>a, <3>2, <3>3
    <3>7. QED
      BY <3>4, <3>5, <3>6, <2>a, ConservationKept, Zenon DEF TypeOK
  <2>5. QED
    BY <2>3, <2>4
<1>5. QED
  BY <1>1, <1>2, <1>3, <1>4, Zenon
     DEF Next, Step, vars, semvars, reap, kill, Stop, dest, get_sem_null, get_sem_false,
         write_log_open, write_log_close, handle, handle_read, handle_write
---------------------------------------------------------------------------
\* The inductive invariant holds in every behaviour of the handlers.
THEOREM SemInvariant == Spec => []SemInv
<1>1. Init => SemInv
  BY SemInvInit
<1>2. SemInv /\ [Next]_vars => SemInv'
  BY TypeOKStep, SemShapeStep, ConservationStep DEF SemInv
<1>3. QED
  BY <1>1, <1>2, PTL DEF Spec

\* Every variable of the handlers keeps its type: in particular no semaphore
\* value becomes negative, however waits, posts, exits and deaths interleave.
THEOREM TypeCorrect == Spec => []TypeOK
<1>1. SemInv => TypeOK
  BY DEF SemInv
<1>2. QED
  BY <1>1, SemInvariant, PTL

\* get_sem and post_sem keep the account of every semaphore balanced.
THEOREM Conservation == Spec => []SemConservation
<1>1. SemInv => SemConservation
  BY DEF SemInv
<1>2. QED
  BY <1>1, SemInvariant, PTL

\* Two threads with a semaphore in hand are more than its initial value allows.
LEMMA SemInvMutex == SemInv => MutexPerSemaphore
<1> SUFFICES ASSUME SemInv, NEW t \in Threads, NEW u \in Threads,
                    t # u, InLog(t), InLog(u), sem(t) = sem(u),
                    held[t] # NoSem, held[u] # NoSem
             PROVE  spurious[sem(t)] > 0
  BY DEF MutexPerSemaphore
<1> DEFINE s == sem(t)
<1>1. s \in Sems /\ s \in 1..created
  BY HandlerAssumption DEF SemInv, TypeOK, HeldInLog, Generations, sem, Sems, NoSem
<1>2. t \in Holders(s) /\ u \in Holders(s)
  BY <1>1 DEF SemInv, HeldInLog, Holders
<1>3. IsFiniteSet(Holders(s)) /\ IsFiniteSet({t, u}) /\ {t, u} \subseteq Holders(s)
  BY <1>2, HandlerAssumption, FS_Subset DEF Holders
<1>4. Cardinality({t, u}) = 2
  <2>1. IsFiniteSet({t}) /\ Cardinality({t}) = 1
    BY FS_Singleton, ZenonT(30)
  <2>2. {t, u} = {t} \cup {u} /\ u \notin {t}
    OBVIOUS
  <2>3. QED
    BY <2>1, <2>2, FS_AddElement
<1>5. Cardinality(Holders(s)) >= 2
  BY <1>3, <1>4, FS_Subset
<1>6. semval[s] \in Nat /\ semval[s] + Cardinality(Holders(s)) = 1 + spurious[s]
  BY <1>1 DEF SemInv, TypeOK, SemConservation
<1>7. spurious[s] \in Nat
  BY <1>1 DEF SemInv, TypeOK
<1>8. QED
  BY <1>3, <1>5, <1>6, <1>7, FS_CardinalityType

\* The semaphore serialises write_log among the threads that waited for it.
THEOREM MutualExclusion == Spec => []MutexPerSemaphore
BY SemInvariant, SemInvMutex, PTL

\* No two threads are in write_log with the same semaphore.
Exclusive ==
  \A t, u \in Threads : t # u /\ InLog(t) /\ InLog(u) => sem(t) # sem(u)

\* If no signal ever interrupts a wait, all threads in write_log have waited.
LEMMA SemInvExclusive == "eintr" \notin Faults /\ SemInv => Exclusive
<1> SUFFICES ASSUME "eintr" \notin Faults, SemInv,
                    NEW t \in Threads, NEW u \in Threads,
                    t # u, InLog(t), InLog(u), sem(t) = sem(u)
             PROVE  FALSE
  BY DEF Exclusive
<1>1. held[t] # NoSem /\ held[u] # NoSem
  BY DEF SemInv, NoBarging, HeldInLog
<1>2. spurious[sem(t)] > 0
  BY <1>1, SemInvMutex DEF MutexPerSemaphore
<1>3. sem(t) \in Sems
  BY HandlerAssumption DEF SemInv, TypeOK, HeldInLog, sem
<1>4. QED
  BY <1>2, <1>3 DEF SemInv, NoBarging

\* Without interrupted waits, get_sem and post_sem are a lock around write_log.
THEOREM MutualExclusionNoSignals == "eintr" \notin Faults => (Spec => []Exclusive)
<1> SUFFICES ASSUME "eintr" \notin Faults PROVE Spec => []Exclusive
  OBVIOUS
<1>1. SemInv => Exclusive
  BY SemInvExclusive
<1>2. QED
  BY <1>1, SemInvariant, PTL

\* A semaphore that is down has a holder, which is in write_log or died there.
LEMMA SemInvStuck == SemInv => StuckOnlyByDeadHolder
<1> SUFFICES ASSUME SemInv, NEW s \in 1..created, semval[s] = 0
             PROVE  \E t \in Holders(s) : InLog(t) \/ pc[t] = "dead"
  BY DEF StuckOnlyByDeadHolder
<1>1. s \in Sems /\ s # NoSem
  BY HandlerAssumption DEF SemInv, TypeOK, Sems, NoSem
<1>2. Cardinality(Holders(s)) = 1 + spurious[s] /\ spurious[s] \in Nat
  BY <1>1, HandlerAssumption, HoldersNat DEF SemInv, TypeOK, SemConservation
<1>3. Holders(s) # {}
  BY <1>2, FS_EmptySet
<1>4. QED
  BY <1>1, <1>3 DEF SemInv, HeldInLog, Holders

\* Only a thread that is writing the log, or died doing so, keeps others out.
THEOREM NeverLeftTaken == Spec => []StuckOnlyByDeadHolder
BY SemInvariant, SemInvStuck, PTL
---------------------------------------------------------------------------
\* Until a destructor runs there is at most one semaphore, and the name, once
\* it stands for one, keeps standing for it.
OneGeneration ==
  \/ \E r \in Procs : status[r] \in {"exiting", "exited"}
  \/ created <= 1 /\ (linked = NoSem => created = 0)

\* Only a destructor unlinks the name, so only after one can open_sem make a second
\* semaphore.
LEMMA OneGenerationStep == SemInv /\ OneGeneration /\ [Next]_vars => OneGeneration'
<1> SUFFICES ASSUME TypeOK, OneGeneration, [Next]_vars PROVE OneGeneration'
  BY DEF SemInv
<1> USE DEF OneGeneration, NoSem
<1>1. CASE UNCHANGED <<status, linked, created>>
  BY <1>1
<1>2. ASSUME NEW p \in Procs, con(p) PROVE OneGeneration'
  <2>1. \A r \in Procs : status[r] # "none" => status'[r] = status[r]
    BY <1>2 DEF con, TypeOK
  <2>2. CASE \E r \in Procs : status[r] \in {"exiting", "exited"}
    BY <2>1, <2>2
  <2>3. CASE created <= 1 /\ (linked = NoSem => created = 0)
    BY <1>2, <2>3, HandlerAssumption DEF con, open_sem, TypeOK, Sems
  <2>4. QED
    BY <2>2, <2>3
<1>3. ASSUME NEW t \in Threads, dest(t) PROVE OneGeneration'
  BY <1>3, HandlerAssumption DEF dest, TypeOK
<1>4. ASSUME NEW p \in Procs, NEW s, Stop(p, s), s = "exited" \/ status[p] = "up"
      PROVE  OneGeneration'
  BY <1>4 DEF Stop, semvars, TypeOK
<1>5. QED
  BY <1>1, <1>2, <1>3, <1>4, HandlerAssumption, Zenon
     DEF Next, Step, vars, semvars, reap, kill, get_sem_null, get_sem, get_sem_false,
         write_log_open, write_log_close, post_sem, handle, handle_read, handle_write

\* Constructors alone never split the lock over two semaphores.
THEOREM SplitNeedsExit == Spec => []SplitOnlyAfterExit
<1>1. Init => OneGeneration
  BY DEF Init, OneGeneration
<1>2. SemInv /\ OneGeneration => SplitOnlyAfterExit
  BY DEF SemInv, TypeOK, Generations, OneGeneration, SplitOnlyAfterExit, Sems, NoSem
<1>3. QED
  BY <1>1, <1>2, OneGenerationStep, SemInvariant, PTL DEF Spec
---------------------------------------------------------------------------
\* No line is of a later call than its thread has made, and a call still
\* before its fclose has no line yet.
NotYetLogged ==
  \A i \in 1..Len(by) :
    /\ by[i][2] <= calls[by[i][1]]
    /\ pc[by[i][1]] \in {"wait", "fopen", "fclose"} => by[i][2] < calls[by[i][1]]

OnceInv == TypeOK /\ OncePerCall /\ NotYetLogged

\* What the type of by says of an entry.
LEMMA EntryType ==
  ASSUME TypeOK, NEW i \in 1..Len(by)
  PROVE  /\ by[i][1] \in Threads /\ by[i][2] \in Int
         /\ \A t \in Threads : calls[t] \in Int
<1>1. by[i] \in Threads \X (0..MaxCalls)
  BY DEF TypeOK
<1>2. \A t \in Threads : calls[t] \in 0..MaxCalls
  BY ZenonT(30) DEF TypeOK
<1>3. QED
  BY <1>1, <1>2, HandlerAssumption, SMTT(30)

\* write_log adds the line of the current call, which is not in the log yet.
LEMMA OnceStep ==
  ASSUME OnceInv, [Next]_vars PROVE (OncePerCall /\ NotYetLogged)'
<1> USE DEF OnceInv
<1>1. CASE by' = by /\ calls' = calls
           /\ \A t \in Threads : pc'[t] \in {"wait", "fopen", "fclose"}
                                   => pc[t] \in {"wait", "fopen", "fclose"}
  BY <1>1, EntryType, SMTT(30) DEF OncePerCall, NotYetLogged
<1>2. ASSUME NEW p \in Procs, NEW s, Stop(p, s) PROVE (OncePerCall /\ NotYetLogged)'
  BY <1>1, <1>2 DEF Stop, logvars, TypeOK
<1>3. ASSUME NEW t \in Threads, NEW a \in Args, handle(t, a)
      PROVE  (OncePerCall /\ NotYetLogged)'
  <2>1. by' = by /\ pc[t] = "out"
    BY <1>3 DEF handle, logvars
  <2>2. /\ calls'[t] = calls[t] + 1
        /\ \A u \in Threads : u # t => calls'[u] = calls[u] /\ pc'[u] = pc[u]
    BY <1>3 DEF handle, Goto, TypeOK
  <2>3. NotYetLogged'
    BY <2>1, <2>2, EntryType, SMTT(30) DEF NotYetLogged
  <2>4. QED
    BY <2>1, <2>3 DEF OncePerCall
<1>4. ASSUME NEW t \in Threads, write_log_close(t) PROVE (OncePerCall /\ NotYetLogged)'
  <2>1. pc[t] = "fclose" /\ pc'[t] = "post" /\ calls' = calls
        /\ \A u \in Threads : u # t => pc'[u] = pc[u]
    BY <1>4, GotoMoves, SMTT(30) DEF write_log_close
  <2>2. /\ Len(by') = Len(by) + 1 /\ Len(by) \in Nat
        /\ \A i \in 1..Len(by) : by'[i] = by[i]
        /\ by'[Len(by) + 1] = <<t, calls[t]>>
    BY <1>4, SMTT(30) DEF write_log_close, TypeOK
  <2>3. \A i \in 1..Len(by) : by[i][1] = t => by[i][2] < calls[t]
    BY <2>1 DEF NotYetLogged
  <2>4. OncePerCall'
    BY <2>2, <2>3 DEF OncePerCall
  <2>5. NotYetLogged'
    <3> SUFFICES ASSUME NEW i \in 1..(Len(by) + 1)
                 PROVE  /\ by'[i][2] <= calls[by'[i][1]]
                        /\ pc'[by'[i][1]] \in {"wait", "fopen", "fclose"}
                             => by'[i][2] < calls[by'[i][1]]
      BY <2>1, <2>2 DEF NotYetLogged
    <3>1. CASE i = Len(by) + 1
      <4>1. calls[t] \in Int
        BY HandlerAssumption DEF TypeOK
      <4>2. QED
        BY <2>1, <2>2, <3>1, <4>1
    <3>2. CASE i \in 1..Len(by)
      <4>1. by'[i] = by[i] /\ by[i][1] \in Threads
        BY <2>2, <3>2, EntryType
      <4>2. pc'[by[i][1]] \in {"wait", "fopen", "fclose"} => pc'[by[i][1]] = pc[by[i][1]]
        BY <2>1, <4>1, ZenonT(30)
      <4>3. QED
        BY <3>2, <4>1, <4>2 DEF NotYetLogged
    <3>3. QED
      BY <2>2, <3>1, <3>2
  <2>6. QED
    BY <2>4, <2>5
<1>5. ASSUME NEW t \in Threads, dest(t) \/ get_sem(t) \/ get_sem_false(t)
                                \/ write_log_open(t) \/ post_sem(t)
      PROVE  (OncePerCall /\ NotYetLogged)'
  BY <1>1, <1>5 DEF dest, get_sem, get_sem_false, write_log_open, post_sem,
                    Goto, logvars, TypeOK
<1>6. ASSUME NEW p \in Procs, con(p) PROVE (OncePerCall /\ NotYetLogged)'
  BY <1>1, <1>6 DEF con, logvars
<1>7. CASE UNCHANGED vars
  BY <1>1, <1>7 DEF vars, logvars
<1>8. QED
  BY <1>2, <1>3, <1>4, <1>5, <1>6, <1>7, HandlerAssumption, ZenonT(30)
     DEF Next, Step, reap, kill, get_sem_null, handle_read, handle_write

\* write_log logs a call of handle_read or handle_write once at most, and the
\* calls of a thread in their order, whatever the semaphore lets through.
THEOREM LoggedOnce == Spec => []OncePerCall
<1>1. Init => OncePerCall /\ NotYetLogged
  BY DEF Init, OncePerCall, NotYetLogged
<1>2. TypeOK /\ OncePerCall /\ NotYetLogged /\ [Next]_vars => (OncePerCall /\ NotYetLogged)'
  BY OnceStep DEF OnceInv
<1>3. QED
  BY <1>1, <1>2, TypeCorrect, PTL DEF Spec
---------------------------------------------------------------------------
\* The handlers start where the abstract log does.
LEMMA AbstractInit == Init => Abstract!Init
BY HandlerAssumption, SMTT(30) DEF Init, Abstract!Init, Phase

\* Every step of the handlers is a step of the abstract log or changes nothing of it.
LEMMA AbstractStep ==
  ASSUME TypeOK, [Next]_vars PROVE [Abstract!Next]_Abstract!vars
<1> USE HandlerAssumption
<1>1. CASE UNCHANGED <<calls, arg, log, by>> /\ \A t \in Threads : Phase(t)' = Phase(t)
  BY <1>1 DEF Abstract!vars
<1>2. ASSUME NEW p \in Procs, NEW s, Stop(p, s) PROVE Abstract!Next
  <2>1. Abstract!End(ThreadsOf(p))
    BY <1>2 DEF Stop, logvars, Abstract!End, ThreadsOf, Phase
  <2>2. QED
    BY <2>1 DEF Abstract!Next, ThreadsOf
<1>3. ASSUME NEW t \in Threads, dest(t) PROVE Abstract!Next
  <2>1. Abstract!End({t})
    BY <1>3, GotoMoves, SMTT(30) DEF dest, logvars, Abstract!End, Phase
  <2>2. QED
    BY <2>1 DEF Abstract!Next
<1>4. ASSUME NEW t \in Threads, NEW a \in Args, handle(t, a) PROVE Abstract!Next
  <2>1. CASE Goto(t, "out", "wait") /\ arg' = [arg EXCEPT ![t] = a]
    <3>1. Phase(t) = "out" /\ Phase(t)' = "called"
          /\ \A u \in Threads : u # t => Phase(u)' = Phase(u)
      BY <2>1, GotoMoves, SMTT(30) DEF Phase
    <3>2. Abstract!Accept(t, a)
      BY <1>4, <2>1, <3>1, Zenon DEF handle, logvars, Abstract!Accept, Abstract!Move
    <3>3. QED
      BY <3>2 DEF Abstract!Next
  <2>2. CASE UNCHANGED <<pc, arg>>
    <3>1. Abstract!Reject(t)
      BY <1>4, <2>2 DEF handle, logvars, Abstract!Reject, Phase
    <3>2. QED
      BY <3>1 DEF Abstract!Next
  <2>3. QED
    BY <1>4, <2>1, <2>2 DEF handle
<1>5. ASSUME NEW t \in Threads, write_log_open(t) PROVE [Abstract!Next]_Abstract!vars
  <2>1. CASE Goto(t, "fopen", "fclose")
    BY <1>1, <1>5, <2>1, GotoMoves DEF write_log_open, logvars, Phase
  <2>2. CASE Goto(t, "fopen", "post")
    <3>1. Phase(t) = "called" /\ Phase(t)' = "answered"
          /\ \A u \in Threads : u # t => Phase(u)' = Phase(u)
      BY <2>2, GotoMoves DEF Phase
    <3>2. Abstract!Miss(t)
      BY <1>5, <3>1, Zenon DEF write_log_open, logvars, Abstract!Miss, Abstract!Move
    <3>3. QED
      BY <3>2 DEF Abstract!Next
  <2>3. QED
    BY <1>5, <2>1, <2>2 DEF write_log_open
<1>6. ASSUME NEW t \in Threads, write_log_close(t) PROVE Abstract!Next
  <2>1. Phase(t) = "called" /\ Phase(t)' = "answered"
        /\ \A u \in Threads : u # t => Phase(u)' = Phase(u)
    BY <1>6, GotoMoves DEF write_log_close, Phase
  <2>2. Abstract!Record(t)
    BY <1>6, <2>1, Zenon DEF write_log_close, Abstract!Record, Abstract!Move, Abstract!Line
  <2>3. QED
    BY <2>2 DEF Abstract!Next
<1>7. ASSUME NEW t \in Threads, post_sem(t) PROVE Abstract!Next
  <2>1. Phase(t) = "answered" /\ Phase(t)' = "out"
        /\ \A u \in Threads : u # t => Phase(u)' = Phase(u)
    BY <1>7, GotoMoves DEF post_sem, Phase
  <2>2. Abstract!Return(t)
    BY <1>7, <2>1, Zenon DEF post_sem, logvars, Abstract!Return, Abstract!Move
  <2>3. QED
    BY <2>2 DEF Abstract!Next
<1>8. ASSUME NEW t \in Threads, get_sem(t) \/ get_sem_false(t)
      PROVE  [Abstract!Next]_Abstract!vars
  BY <1>1, <1>8, GotoMoves DEF get_sem, get_sem_false, logvars, Phase
<1>9. ASSUME NEW p \in Procs, con(p) PROVE [Abstract!Next]_Abstract!vars
  BY <1>1, <1>9 DEF con, logvars, Phase
<1>10. CASE UNCHANGED vars
  BY <1>1, <1>10 DEF vars, logvars, Phase
<1>11. QED
  BY <1>2, <1>3, <1>4, <1>5, <1>6, <1>7, <1>8, <1>9, <1>10, Zenon
     DEF Next, Step, reap, kill, get_sem_null, handle_read, handle_write

\* The handlers implement the abstract log: the line of a call appears, with
\* the arguments of the call, between its start and its return.
THEOREM Refinement == Spec => ImplementsCallLog
<1>1. TypeOK /\ [Next]_vars => [Abstract!Next]_Abstract!vars
  BY AbstractStep
<1>2. QED
  BY <1>1, AbstractInit, TypeCorrect, PTL DEF Spec, ImplementsCallLog, Abstract!Spec
===========================================================================
