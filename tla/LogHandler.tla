---------------------------- MODULE LogHandler ----------------------------
(***************************************************************************)
(* The back end of liblog.so (src/code/data_gen/lib/handler.cpp), with the *)
(* library constructor and destructor of frontend.cpp.  Every process that *)
(* is started with the library preloaded opens the POSIX semaphore "mysem" *)
(* by name; every thread that has made a read or a write on a regular file *)
(* takes the semaphore, appends one line to ACCESS_LOG and posts it again. *)
(*                                                                         *)
(* The name and the semaphore are two things: sem_unlink removes the name, *)
(* the processes that have the semaphore open keep it, and the next        *)
(* sem_open creates another one.  A semaphore is a number in Sems, in the  *)
(* order of creation; linked is the one the name stands for.               *)
(***************************************************************************)
EXTENDS Integers, Sequences, FiniteSets

CONSTANTS
  Procs,      \* the processes that are ever started
  Threads,    \* the threads of all of them
  Owner,      \* Owner[t], the process of thread t
  Args,       \* the calls of the front end: [type, fd, pos, bytes]
  MaxCalls,   \* bound: calls of the handler per thread
  MaxSems,    \* bound: semaphores created under the name
  Faults      \* what the environment may do wrong, see AllFaults

AllFaults == {"semfail",   \* sem_open fails
              "eintr",     \* a signal interrupts a blocked sem_wait
              "logfail",   \* fopen of the log fails
              "kill",      \* a process dies without running destructors
              "reapbusy"}  \* a process exits while its threads are logging

ASSUME HandlerAssumption ==
  /\ IsFiniteSet(Procs) /\ IsFiniteSet(Threads)
  /\ Owner \in [Threads -> Procs]
  /\ Args # {}
  /\ Args \subseteq [type : {0, 1}, fd : Int, pos : Int, bytes : Nat]
  /\ MaxCalls \in Nat /\ MaxSems \in Nat
  /\ Faults \subseteq AllFaults

Sems == 1..MaxSems
NoSem == 0             \* SEM_FAILED, and the target of a name not linked
Lines == [type : {0, 1}, pid : Procs, fd : Int, offset : Int, bytes : Nat]

VARIABLES
  status,    \* status[p]: where process p is in its life
  linked,    \* the semaphore the name "mysem" stands for
  created,   \* the number of semaphores created so far
  semval,    \* semval[s], the value of semaphore s
  mysemp,    \* mysemp[p], the pointer the constructor of p has set
  pc,        \* pc[t], where thread t is in handle_read or handle_write
  arg,       \* arg[t], the arguments of its call
  log,       \* the lines of ACCESS_LOG
  calls,     \* history: the number of handler calls t has made
  by,        \* history: by[i] = <<thread, call>> that wrote line i
  held,      \* history: the semaphore t has decremented and not posted
  spurious   \* history: posts on s by threads that did not decrement it

semvars == <<linked, created, semval, mysemp, held, spurious>>
logvars == <<log, by>>
vars == <<status, pc, arg, calls, semvars, logvars>>

Running(p) == status[p] \in {"up", "exiting"}
ThreadsOf(p) == {t \in Threads : Owner[t] = p}
sem(t) == mysemp[Owner[t]]

Goto(t, from, to) ==
  /\ pc[t] = from
  /\ pc' = [pc EXCEPT ![t] = to]

\* The process is gone, whatever its threads were doing.
Stop(p, s) ==
  /\ status' = [status EXCEPT ![p] = s]
  /\ pc' = [t \in Threads |-> IF Owner[t] = p THEN "dead" ELSE pc[t]]
  /\ UNCHANGED <<arg, calls, semvars, logvars>>
---------------------------------------------------------------------------
Init ==
  /\ status = [p \in Procs |-> "none"]
  /\ linked = NoSem
  /\ created = 0
  /\ semval = [s \in Sems |-> 0]
  /\ mysemp = [p \in Procs |-> NoSem]
  /\ pc = [t \in Threads |-> "out"]
  /\ arg = [t \in Threads |-> CHOOSE a \in Args : TRUE]
  /\ log = <<>>
  /\ calls = [t \in Threads |-> 0]
  /\ by = <<>>
  /\ held = [t \in Threads |-> NoSem]
  /\ spurious = [s \in Sems |-> 0]

\* Mutant: opening sets the value to 1 even when the semaphore exists.
MutantOpenReinit(p) ==
  LET s == IF linked = NoSem THEN created + 1 ELSE linked
  IN  /\ s \in Sems
      /\ linked' = s
      /\ created' = IF linked = NoSem THEN s ELSE created
      /\ semval' = [semval EXCEPT ![s] = 1]
      /\ mysemp' = [mysemp EXCEPT ![p] = s]

\* Mutant: the constructor unlinks a name left behind before it opens.
MutantOpenFresh(p) ==
  /\ created < MaxSems
  /\ created' = created + 1
  /\ linked' = created + 1
  /\ semval' = [semval EXCEPT ![created + 1] = 1]
  /\ mysemp' = [mysemp EXCEPT ![p] = created + 1]

\* sem_open("mysem", O_CREAT, 0666, 1): the semaphore of that name, or a new
\* one with value 1.  A failure is printed and the process runs on.
open_sem(p) ==
  \/ /\ linked # NoSem
     /\ mysemp' = [mysemp EXCEPT ![p] = linked]
     /\ UNCHANGED <<linked, created, semval>>
  \/ /\ linked = NoSem
     /\ created < MaxSems
     /\ created' = created + 1
     /\ linked' = created + 1
     /\ semval' = [semval EXCEPT ![created + 1] = 1]
     /\ mysemp' = [mysemp EXCEPT ![p] = created + 1]
  \/ /\ "semfail" \in Faults
     /\ mysemp' = [mysemp EXCEPT ![p] = NoSem]
     /\ UNCHANGED <<linked, created, semval>>

\* The library constructor: it has run before any thread of p calls in.
con(p) ==
  /\ status[p] = "none"
  /\ status' = [status EXCEPT ![p] = "up"]
  /\ open_sem(p)
  /\ UNCHANGED <<pc, arg, calls, held, spurious, logvars>>

\* The library destructor, in the thread that calls exit: sem_unlink, of
\* whatever semaphore the name stands for now.  Other threads run on until
\* the process is reaped.
dest(t) ==
  /\ status[Owner[t]] = "up"
  /\ Goto(t, "out", "dead")
  /\ status' = [status EXCEPT ![Owner[t]] = "exiting"]
  /\ linked' = NoSem
  /\ UNCHANGED <<arg, calls, created, semval, mysemp, held, spurious, logvars>>

reap(p) ==
  /\ status[p] = "exiting"
  /\ "reapbusy" \in Faults \/ \A t \in ThreadsOf(p) : pc[t] \in {"out", "dead"}
  /\ Stop(p, "exited")

kill(p) ==
  /\ "kill" \in Faults
  /\ Running(p)
  /\ Stop(p, IF status[p] = "up" THEN "killed" ELSE "exited")
---------------------------------------------------------------------------
\* Mutant: an access at the start of the file is taken for a failed lseek.
MutantSane(a) == ~(a.pos <= 0 \/ a.bytes <= 0 \/ a.fd <= 2)

\* The sanitization check of handle_read and handle_write.
Sane(a) == ~(a.pos < 0 \/ a.bytes <= 0 \/ a.fd <= 2)

\* handle_read and handle_write, up to get_sem: they differ in the type.
handle(t, a) ==
  /\ Running(Owner[t])
  /\ calls[t] < MaxCalls
  /\ pc[t] = "out"
  /\ calls' = [calls EXCEPT ![t] = @ + 1]
  /\ \/ Sane(a) /\ Goto(t, "out", "wait") /\ arg' = [arg EXCEPT ![t] = a]
     \/ ~Sane(a) /\ UNCHANGED <<pc, arg>>
  /\ UNCHANGED <<status, semvars, logvars>>

handle_read(t, a) == a.type = 0 /\ handle(t, a)
handle_write(t, a) == a.type = 1 /\ handle(t, a)

\* sem_wait returns 0.
get_sem(t) ==
  /\ Goto(t, "wait", "fopen")
  /\ sem(t) # NoSem
  /\ semval[sem(t)] > 0
  /\ semval' = [semval EXCEPT ![sem(t)] = @ - 1]
  /\ held' = [held EXCEPT ![t] = sem(t)]
  /\ UNCHANGED <<status, arg, calls, linked, created, mysemp, spurious, logvars>>

\* sem_wait is interrupted while it blocks: get_sem returns false, which
\* handle_read and handle_write do not look at.
get_sem_false(t) ==
  /\ "eintr" \in Faults
  /\ sem(t) # NoSem
  /\ semval[sem(t)] = 0
  /\ Goto(t, "wait", "fopen")
  /\ UNCHANGED <<status, arg, calls, semvars, logvars>>

\* sem_wait(SEM_FAILED) dereferences a null pointer.
get_sem_null(t) ==
  /\ pc[t] = "wait"
  /\ sem(t) = NoSem
  /\ Stop(Owner[t], IF status[Owner[t]] = "up" THEN "killed" ELSE "exited")

\* Mutant: when the log cannot be opened the handler returns at once.
MutantOpenReturns(t) ==
  /\ \/ Goto(t, "fopen", "fclose")
     \/ "logfail" \in Faults /\ Goto(t, "fopen", "out")
  /\ UNCHANGED <<status, arg, calls, semvars, logvars>>

\* Mutant: write_log is repeated, for an fclose that reports an error late.
MutantCloseRetry(t) ==
  /\ Goto(t, "fclose", "fopen")
  /\ log' = Append(log, [type |-> arg[t].type, pid |-> Owner[t], fd |-> arg[t].fd,
                         offset |-> arg[t].pos, bytes |-> arg[t].bytes])
  /\ by' = Append(by, <<t, calls[t]>>)
  /\ UNCHANGED <<status, arg, calls, semvars>>

\* Mutant: pid and fd, both ints, are passed to write_log in the wrong order.
MutantCloseSwap(t) ==
  /\ Goto(t, "fclose", "post")
  /\ log' = Append(log, [type |-> arg[t].type, pid |-> arg[t].fd, fd |-> Owner[t],
                         offset |-> arg[t].pos, bytes |-> arg[t].bytes])
  /\ by' = Append(by, <<t, calls[t]>>)
  /\ UNCHANGED <<status, arg, calls, semvars>>

\* write_log: the line is in the stdio buffer until fclose writes it, in one
\* write to a file opened for appending.  When fopen fails, nothing is logged.
write_log_open(t) ==
  /\ \/ Goto(t, "fopen", "fclose")
     \/ "logfail" \in Faults /\ Goto(t, "fopen", "post")
  /\ UNCHANGED <<status, arg, calls, semvars, logvars>>

write_log_close(t) ==
  /\ Goto(t, "fclose", "post")
  /\ log' = Append(log, [type |-> arg[t].type, pid |-> Owner[t], fd |-> arg[t].fd,
                         offset |-> arg[t].pos, bytes |-> arg[t].bytes])
  /\ by' = Append(by, <<t, calls[t]>>)
  /\ UNCHANGED <<status, arg, calls, semvars>>

\* sem_post, whether get_sem decremented or not; then the handler returns.
post_sem(t) ==
  /\ Goto(t, "post", "out")
  /\ semval' = [semval EXCEPT ![sem(t)] = @ + 1]
  /\ held' = [held EXCEPT ![t] = NoSem]
  /\ spurious' = IF held[t] = NoSem THEN [spurious EXCEPT ![sem(t)] = @ + 1]
                                    ELSE spurious
  /\ UNCHANGED <<status, arg, calls, linked, created, mysemp, logvars>>
---------------------------------------------------------------------------
Step(t) ==
  \/ get_sem(t) \/ get_sem_false(t) \/ get_sem_null(t)
  \/ write_log_open(t) \/ write_log_close(t) \/ post_sem(t)

Next ==
  \/ \E p \in Procs : con(p) \/ reap(p) \/ kill(p)
  \/ \E t \in Threads : dest(t) \/ Step(t)
  \/ \E t \in Threads, a \in Args : handle_read(t, a) \/ handle_write(t, a)

Spec == Init /\ [][Next]_vars

\* A thread inside the handler is scheduled again and again; that a signal comes
\* to its rescue while it waits is not assumed.
FairSpec ==
  Spec /\ \A t \in Threads :
    WF_vars(get_sem(t) \/ get_sem_null(t) \/ write_log_open(t) \/ write_log_close(t) \/ post_sem(t))
---------------------------------------------------------------------------
\* The types of the variables: no semaphore is below 0, and each line that write_log
\* has written has the process, the descriptor and the numbers in their places.
TypeOK ==
  /\ status \in [Procs -> {"none", "up", "exiting", "exited", "killed"}]
  /\ linked \in Sems \cup {NoSem}
  /\ created \in 0..MaxSems
  /\ semval \in [Sems -> Nat]
  /\ mysemp \in [Procs -> Sems \cup {NoSem}]
  /\ pc \in [Threads -> {"out", "wait", "fopen", "fclose", "post", "dead"}]
  /\ arg \in [Threads -> Args]
  /\ log \in Seq(Lines)
  /\ calls \in [Threads -> 0..MaxCalls]
  /\ by \in Seq(Threads \X (0..MaxCalls)) /\ Len(by) = Len(log)
  /\ held \in [Threads -> Sems \cup {NoSem}]
  /\ spurious \in [Sems -> Nat]

\* Thread t is past get_sem and has not posted: it may be writing the log.
InLog(t) == pc[t] \in {"fopen", "fclose", "post"}
Holders(s) == {t \in Threads : held[t] = s}

\* Units of a semaphore are neither lost nor made, except by an interrupted
\* wait: its value and the threads, alive or dead, that have decremented it
\* add up to the initial 1 of open_sem plus the posts that had no wait.
SemConservation ==
  \A s \in 1..created : semval[s] + Cardinality(Holders(s)) = 1 + spurious[s]

\* Two threads that have both waited for the same semaphore are never both between
\* get_sem and post_sem, whatever processes start, exit or die, unless an
\* interrupted wait for it has led to a post (sem_wait's result is ignored).
MutexPerSemaphore ==
  \A t, u \in Threads :
    /\ t # u /\ InLog(t) /\ InLog(u) /\ sem(t) = sem(u)
    /\ held[t] # NoSem /\ held[u] # NoSem
    => spurious[sem(t)] > 0

\* A semaphore is down only while a thread is in write_log with it, or for
\* good when a thread died there: no path through the handlers returns to the
\* application, or starts a wait, with the semaphore still taken.
StuckOnlyByDeadHolder ==
  \A s \in 1..created : semval[s] = 0 =>
    \E t \in Holders(s) : InLog(t) \/ pc[t] = "dead"

\* Processes log under different semaphores only after some destructor has
\* run: the constructors alone, in any order and with any of them failing,
\* and processes that die without their destructor, keep one semaphore.
SplitOnlyAfterExit ==
  \A p, q \in Procs :
    /\ mysemp[p] # NoSem /\ mysemp[q] # NoSem
    /\ mysemp[p] # mysemp[q]
    => \E r \in Procs : status[r] \in {"exiting", "exited"}

\* The lines of a thread are in the order of its calls, one per call at most,
\* under every fault, also with several semaphores or an interrupted wait.
OncePerCall ==
  \A i, j \in 1..Len(by) :
    i < j /\ by[i][1] = by[j][1] => by[i][2] < by[j][2]

\* The handlers implement the abstract log: every access is logged with its
\* own arguments at one moment between the call and the return, or missed.
Phase(t) == CASE pc[t] \in {"wait", "fopen", "fclose"} -> "called"
              [] pc[t] = "post" -> "answered"
              [] pc[t] = "dead" -> "gone"
              [] OTHER -> "out"

Abstract == INSTANCE CallLog WITH
  phase <- [t \in Threads |-> Phase(t)], call <- calls, what <- arg

ImplementsCallLog == Abstract!Spec

\* A read or write that reached the handler gets back to the application, or its
\* process ends, whatever the other processes do and whichever calls fail, unless a
\* thread has died between get_sem and post_sem with the same semaphore.
HandlerReturns ==
  \A t \in Threads : pc[t] = "wait" ~>
    \/ pc[t] \in {"out", "dead"}
    \/ \E u \in Threads : pc[u] = "dead" /\ held[u] = sem(t)
===========================================================================
