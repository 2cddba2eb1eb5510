-------------------------- MODULE AccessLogProofs --------------------------
(***************************************************************************)
(* Proofs about liblog.so as a whole, for any number of processes and      *)
(* threads, any descriptors and requests, and every set of faults.         *)
(***************************************************************************)
EXTENDS AccessLog, LogHandlerProofs

\* The types of the variables of the front end; a request is only known
\* while its call is under way.
FrontTypes ==
  /\ file \in [Procs -> [Fds -> Files]]
  /\ fpc \in [Threads -> {"app", "reg_fd", "lseek"}]
  /\ DOMAIN req = Threads
  /\ \A t \in Threads : fpc[t] # "app" => req[t] \in Requests
  /\ due \in [Threads -> Int]
  /\ truth \in [Threads -> Seq(Int)]
  /\ \A t \in Threads : Len(truth[t]) = calls[t]

\* The descriptor of the call of t, as it is now.
Descriptor(t) == file[Owner[t]][req[t].fd]
Regular(t) == req[t].fd > 2 /\ Descriptor(t).kind = "reg"

\* What is due is what fstat and lseek would say now, unless t was overtaken.
Dues ==
  \A t \in Threads : fpc[t] # "app" /\ due[t] # Raced =>
    /\ due[t] = IF Regular(t) /\ Bytes(req[t]) > 0 THEN Descriptor(t).pos ELSE NoLine
    /\ fpc[t] = "lseek" => Regular(t)

\* Thread t is in the handler and its line is not written.
Unwritten(t) == pc[t] \in {"wait", "fopen", "fclose"}

\* The line a thread in the handler is about to write is right, and the lines
\* of the log are of calls that have been made.
Carried ==
  /\ \A t \in Threads : Unwritten(t) =>
       calls[t] > 0 /\ truth[t][calls[t]] \in {Raced, arg[t].pos}
  /\ \A i \in 1..Len(by) : by[i][2] \in 1..calls[by[i][1]]

Logged(t, n) == \E i \in 1..Len(by) : by[i] = <<t, n>>

\* Every line that is due is in the log, or is that of the current call.
NotDropped ==
  "logfail" \notin Faults =>
    \A t \in Threads : pc[t] # "dead" =>
      \A n \in 1..Len(truth[t]) :
        truth[t][n] >= 0 => Logged(t, n) \/ (n = calls[t] /\ Unwritten(t))

\* The inductive invariant of the library.
FrontInv == TypeOK /\ FrontTypes /\ Dues /\ NoneMissed /\ Carried /\ LinesExact /\ NotDropped
----------------------------------------------------------------------------
\* The access the front end reports of the call of t.
Report(t) == [type |-> IF IsRead(req[t]) THEN 0 ELSE 1, fd |-> req[t].fd,
              pos |-> Descriptor(t).pos, bytes |-> Bytes(req[t])]

\* What a thread that is past its real call has in hand.
LEMMA InHand ==
  ASSUME FrontTypes, NEW t \in Threads, fpc[t] # "app"
  PROVE  /\ req[t] \in Requests /\ req[t].fd \in Fds /\ req[t].fd \in Nat
         /\ Bytes(req[t]) \in Nat
         /\ Owner[t] \in Procs
         /\ Descriptor(t) \in Files
         /\ Descriptor(t).pos \in -1..MaxPos
         /\ Descriptor(t).kind # "reg" => Descriptor(t).pos = -1
         /\ Descriptor(t).kind = "reg" => Descriptor(t).pos \in Nat
<1>1. req[t] \in Requests
  BY DEF FrontTypes
<1>2. /\ req[t].fd \in Fds /\ req[t].fd \in Nat
      /\ req[t].size \in Nat /\ req[t].nmemb \in Nat
  BY <1>1, FrontAssumption
<1>3. req[t].size * req[t].nmemb \in Nat
  BY <1>2
<1>4. Bytes(req[t]) \in Nat
  BY <1>3, FrontAssumption DEF Bytes
<1>5. Owner[t] \in Procs
  BY HandlerAssumption
<1>6. Descriptor(t) \in Files
  BY <1>2, <1>5 DEF FrontTypes, Descriptor
<1> QED
  BY <1>1, <1>2, <1>4, <1>5, <1>6, FrontAssumption DEF Files

\* The call of the handler is one that the handlers know.
LEMMA ReportIsArg ==
  ASSUME FrontTypes, NEW t \in Threads, call_handler(t)
  PROVE  /\ Report(t) \in Args
         /\ handle_read(t, Report(t)) \/ handle_write(t, Report(t))
         /\ handle(t, Report(t))
<1>1. fpc[t] = "lseek"
  BY DEF call_handler
<1>2. Report(t) \in Args
  BY <1>1, InHand, FrontAssumption DEF Report
<1>3. CASE IsRead(req[t])
  <2>1. Report(t) = [type |-> 0, fd |-> req[t].fd,
              pos |-> file[Owner[t]][req[t].fd].pos, bytes |-> Bytes(req[t])]
    BY <1>3 DEF Report, Descriptor
  <2>2. handle_read(t, Report(t))
    BY <1>3, <2>1 DEF call_handler
  <2> QED
    BY <1>2, <2>2 DEF handle_read
<1>4. CASE ~IsRead(req[t])
  <2>1. Report(t) = [type |-> 1, fd |-> req[t].fd,
              pos |-> file[Owner[t]][req[t].fd].pos, bytes |-> Bytes(req[t])]
    BY <1>4 DEF Report, Descriptor
  <2>2. handle_write(t, Report(t))
    BY <1>4, <2>1 DEF call_handler
  <2> QED
    BY <1>2, <2>2 DEF handle_write
<1> QED
  BY <1>3, <1>4

\* Every step of the library is a step of the handlers or leaves them alone.
LEMMA HandlerStep == FrontTypes /\ [FrontNext]_allvars => [Next]_vars
<1> SUFFICES ASSUME FrontTypes, [FrontNext]_allvars PROVE [Next]_vars
  OBVIOUS
<1>1. ASSUME NEW t \in Threads, NEW fd \in Fds, NEW f \in Files, app_file(t, fd, f)
      PROVE  UNCHANGED vars
  BY <1>1, SMTT(30) DEF app_file
<1>2. ASSUME NEW t \in Threads, NEW c \in Requests, real_call(t, c) PROVE UNCHANGED vars
  BY <1>2, ZenonT(30) DEF real_call
<1>3. ASSUME NEW t \in Threads, reg_fd(t) PROVE UNCHANGED vars
  BY <1>3 DEF reg_fd
<1>4. ASSUME NEW t \in Threads, call_handler(t) PROVE Next
  BY <1>4, ReportIsArg DEF Next
<1>5. CASE UNCHANGED allvars
  BY <1>5 DEF allvars
<1> QED
  BY <1>1, <1>2, <1>3, <1>4, <1>5 DEF FrontNext, Next

\* Steps of the handlers in which no thread enters them: a thread leaves the
\* stage before writing only by writing, by dying, or when fopen fails.
LEMMA HandlerAlone ==
  ASSUME TypeOK,
         \/ \E t \in Threads : dest(t) \/ Step(t)
         \/ \E p \in Procs : con(p) \/ reap(p) \/ kill(p)
  PROVE  /\ UNCHANGED <<calls, arg>>
         /\ UNCHANGED <<log, by>> \/ \E t \in Threads : write_log_close(t)
         /\ \A u \in Threads :
              /\ Unwritten(u)' => Unwritten(u)
              /\ pc[u] = "dead" => pc'[u] = "dead"
              /\ \/ Unwritten(u) => Unwritten(u)'
                 \/ pc'[u] = "dead" \/ write_log_close(u) \/ "logfail" \in Faults
<1> DEFINE Goal ==
         /\ UNCHANGED <<calls, arg>>
         /\ UNCHANGED <<log, by>> \/ \E t \in Threads : write_log_close(t)
         /\ \A u \in Threads :
              /\ Unwritten(u)' => Unwritten(u)
              /\ pc[u] = "dead" => pc'[u] = "dead"
              /\ \/ Unwritten(u) => Unwritten(u)'
                 \/ pc'[u] = "dead" \/ write_log_close(u) \/ "logfail" \in Faults
<1>1. ASSUME NEW p \in Procs, NEW s, Stop(p, s) PROVE Goal
  BY <1>1 DEF Stop, Unwritten, logvars
<1>2. ASSUME NEW p \in Procs, con(p) PROVE Goal
  BY <1>2 DEF con, Unwritten, logvars
<1>3. ASSUME NEW t \in Threads, NEW from, NEW to, Goto(t, from, to),
             UNCHANGED <<calls, arg, log, by>>,
             \/ from = "out" /\ to = "dead"
             \/ from = "wait" /\ to = "fopen"
             \/ from = "fopen" /\ to = "fclose"
             \/ from = "fopen" /\ to = "post" /\ "logfail" \in Faults
             \/ from = "post" /\ to = "out"
      PROVE  Goal
  BY <1>3, GotoMoves DEF Unwritten
<1>4. ASSUME NEW t \in Threads, write_log_close(t) PROVE Goal
  <2>1. Goto(t, "fclose", "post") /\ UNCHANGED <<calls, arg>>
    BY <1>4 DEF write_log_close
  <2> QED
    BY <1>4, <2>1, GotoMoves DEF Unwritten
<1>5. ASSUME NEW t \in Threads, dest(t) PROVE Goal
  BY <1>3, <1>5 DEF dest, logvars
<1>6. ASSUME NEW t \in Threads, get_sem(t) \/ get_sem_false(t) PROVE Goal
  BY <1>3, <1>6 DEF get_sem, get_sem_false, logvars
<1>7. ASSUME NEW t \in Threads, get_sem_null(t) PROVE Goal
  BY <1>1, <1>7, HandlerAssumption DEF get_sem_null
<1>8. ASSUME NEW t \in Threads, write_log_open(t) PROVE Goal
  BY <1>3, <1>8 DEF write_log_open, logvars
<1>9. ASSUME NEW t \in Threads, post_sem(t) PROVE Goal
  BY <1>3, <1>9 DEF post_sem, logvars
<1>10. ASSUME NEW p \in Procs, reap(p) \/ kill(p) PROVE Goal
  BY <1>1, <1>10 DEF reap, kill
<1> HIDE DEF Goal
<1>11. Goal
  BY <1>2, <1>4, <1>5, <1>6, <1>7, <1>8, <1>9, <1>10 DEF Step
<1> QED
  BY <1>11 DEF Goal

\* How a real call changes its descriptor.
Moved(f, n) == IF f.kind = "reg" THEN [f EXCEPT !.pos = @ + n] ELSE f

\* It keeps its kind.
LEMMA MovedKind ==
  ASSUME NEW f \in Files, NEW n \in Nat
  PROVE  Moved(f, n).kind = f.kind
<1>1. CASE f.kind = "reg"
  <2>1. PICK x \in 0..MaxPos : f = [kind |-> "reg", pos |-> x]
    BY <1>1 DEF Files
  <2>2. [f EXCEPT !.pos = @ + n] = [kind |-> "reg", pos |-> x + n]
    BY <2>1
  <2> QED
    BY <1>1, <2>2 DEF Moved
<1>2. CASE f.kind # "reg"
  BY <1>2, SMTT(30) DEF Moved
<1> QED
  BY <1>1, <1>2

\* A real call in terms of the descriptor it leaves behind.
LEMMA RealCall ==
  ASSUME FrontTypes, NEW t \in Threads, NEW c \in Requests, real_call(t, c)
  PROVE  \E g \in Files :
           LET f == file[Owner[t]][c.fd]
           IN  /\ InApp(t)
               /\ f \in Files /\ g.kind = f.kind
               /\ file' = [file EXCEPT ![Owner[t]][c.fd] = g]
               /\ due' = [Overtake(t, c.fd, g) EXCEPT ![t] =
                    IF f.kind = "reg" /\ c.fd > 2 /\ Bytes(c) > 0 THEN g.pos ELSE NoLine]
               /\ req' = [req EXCEPT ![t] = c]
               /\ fpc' = [fpc EXCEPT ![t] = "reg_fd"]
               /\ UNCHANGED <<vars, truth, missed>>
<1> DEFINE f == file[Owner[t]][c.fd]
<1>0. c.size \in Nat /\ c.nmemb \in Nat /\ c.fd \in Fds
  BY FrontAssumption
<1>1. f \in Files
  BY <1>0, HandlerAssumption DEF FrontTypes
<1>2. Bytes(c) \in Nat
  <2>1. c.size * c.nmemb \in Nat
    BY <1>0
  <2> QED
    BY <2>1, FrontAssumption DEF Bytes
<1>3. PICK n \in 0..Bytes(c) :
        /\ Moved(f, n) \in Files
        /\ file' = [file EXCEPT ![Owner[t]][c.fd] = Moved(f, n)]
        /\ due' = [Overtake(t, c.fd, Moved(f, n)) EXCEPT ![t] =
             IF f.kind = "reg" /\ c.fd > 2 /\ Bytes(c) > 0 THEN Moved(f, n).pos ELSE NoLine]
  BY Zenon DEF real_call, Moved
<1>4. n \in Nat
  BY <1>2, <1>3
<1>5. Moved(f, n).kind = f.kind
  BY <1>1, <1>4, MovedKind, ZenonT(30)
<1>6. /\ InApp(t)
      /\ req' = [req EXCEPT ![t] = c]
      /\ fpc' = [fpc EXCEPT ![t] = "reg_fd"]
      /\ UNCHANGED <<vars, truth, missed>>
  BY DEF real_call
<1> QED
  BY <1>1, <1>3, <1>5, <1>6, ZenonT(30)

\* What is due of the calls of the other threads after t has left g under fd.
LEMMA Overtaken ==
  ASSUME FrontTypes, NEW t \in Threads, NEW fd \in Fds, NEW g
  PROVE  /\ Overtake(t, fd, g) \in [Threads -> Int]
         /\ Overtake(t, fd, g)[t] = due[t]
         /\ \A u \in Threads : Overtake(t, fd, g)[u] # Raced =>
              /\ Overtake(t, fd, g)[u] = due[u]
              /\ u # t /\ Owner[u] = Owner[t] /\ fpc[u] # "app" /\ req[u].fd = fd
                   => g = file[Owner[t]][fd]
BY DEF FrontTypes, Overtake, Raced

\* The types are kept.
LEMMA FrontTypesStep ==
  ASSUME TypeOK, FrontTypes, [FrontNext]_allvars
  PROVE  FrontTypes'
<1> USE HandlerAssumption
<1>1. ASSUME NEW t \in Threads, NEW fd \in Fds, NEW f \in Files, app_file(t, fd, f)
      PROVE  FrontTypes'
  <2>1. /\ file' = [file EXCEPT ![Owner[t]][fd] = f]
        /\ due' = Overtake(t, fd, f)
        /\ UNCHANGED <<calls, fpc, req, truth>>
    BY <1>1 DEF app_file, vars
  <2>2. due' \in [Threads -> Int]
    BY <2>1, Overtaken
  <2>3. file' \in [Procs -> [Fds -> Files]]
    BY <2>1 DEF FrontTypes
  <2> QED
    BY <2>1, <2>2, <2>3 DEF FrontTypes
<1>2. ASSUME NEW t \in Threads, NEW c \in Requests, real_call(t, c) PROVE FrontTypes'
  <2>1. PICK g \in Files :
          /\ file' = [file EXCEPT ![Owner[t]][c.fd] = g]
          /\ due' = [Overtake(t, c.fd, g) EXCEPT ![t] =
               IF file[Owner[t]][c.fd].kind = "reg" /\ c.fd > 2 /\ Bytes(c) > 0
               THEN g.pos ELSE NoLine]
          /\ req' = [req EXCEPT ![t] = c]
          /\ fpc' = [fpc EXCEPT ![t] = "reg_fd"]
          /\ UNCHANGED <<vars, truth, missed>>
    BY <1>2, RealCall
  <2>2. c.fd \in Fds
    BY FrontAssumption
  <2>3. g.pos \in Int /\ NoLine \in Int
    BY FrontAssumption DEF Files, NoLine
  <2>4. Overtake(t, c.fd, g) \in [Threads -> Int]
    BY <2>2, Overtaken
  <2>5. due' \in [Threads -> Int]
    BY <2>1, <2>3, <2>4
  <2>6. file' \in [Procs -> [Fds -> Files]]
    BY <2>1, <2>2 DEF FrontTypes
  <2>7. DOMAIN req' = Threads /\ \A u \in Threads : fpc'[u] # "app" => req'[u] \in Requests
    BY <2>1 DEF FrontTypes
  <2>8. UNCHANGED <<calls, truth>> /\ fpc' \in [Threads -> {"app", "reg_fd", "lseek"}]
    BY <2>1 DEF FrontTypes, vars
  <2> QED
    BY <2>5, <2>6, <2>7, <2>8 DEF FrontTypes
<1>3. ASSUME NEW t \in Threads, reg_fd(t) PROVE FrontTypes'
  <2>1. UNCHANGED <<calls, file, req, truth>>
    BY <1>3 DEF reg_fd, vars
  <2>2. due' \in [Threads -> Int]
    BY <1>3 DEF reg_fd, FrontTypes, NoLine
  <2>3. /\ fpc' \in [Threads -> {"app", "reg_fd", "lseek"}]
        /\ \A u \in Threads : fpc'[u] # "app" => fpc[u] # "app"
    BY <1>3 DEF reg_fd, FrontTypes
  <2> QED
    BY <2>1, <2>2, <2>3 DEF FrontTypes
<1>4. ASSUME NEW t \in Threads, call_handler(t) PROVE FrontTypes'
  <2>1. /\ fpc' = [fpc EXCEPT ![t] = "app"]
        /\ truth' = [truth EXCEPT ![t] = Append(@, due[t])]
        /\ due' = [due EXCEPT ![t] = NoLine]
        /\ UNCHANGED <<file, req, missed>>
    BY <1>4 DEF call_handler
  <2>2. calls' = [calls EXCEPT ![t] = @ + 1]
    BY <1>4, ReportIsArg DEF handle
  <2>3. due' \in [Threads -> Int] /\ due[t] \in Int
    BY <2>1 DEF FrontTypes, NoLine
  <2>4. /\ truth' \in [Threads -> Seq(Int)]
        /\ Len(truth'[t]) = Len(truth[t]) + 1
        /\ \A u \in Threads : u # t => truth'[u] = truth[u]
    BY <2>1, <2>3 DEF FrontTypes
  <2>5. /\ calls'[t] = calls[t] + 1
        /\ \A u \in Threads : u # t => calls'[u] = calls[u]
    BY <2>2 DEF TypeOK
  <2>6. \A u \in Threads : Len(truth'[u]) = calls'[u]
    BY <2>4, <2>5, ZenonT(30) DEF FrontTypes
  <2>7. /\ fpc' \in [Threads -> {"app", "reg_fd", "lseek"}]
        /\ \A u \in Threads : fpc'[u] # "app" => fpc[u] # "app"
    BY <2>1 DEF FrontTypes
  <2> QED
    BY <2>1, <2>3, <2>4, <2>6, <2>7 DEF FrontTypes
<1>5. CASE UNCHANGED <<calls, frontvars>>
  BY <1>5 DEF FrontTypes, frontvars
<1>6. ASSUME UNCHANGED frontvars,
             \/ \E t \in Threads : dest(t) \/ Step(t)
             \/ \E p \in Procs : con(p) \/ reap(p) \/ kill(p)
      PROVE  FrontTypes'
  BY <1>5, <1>6, HandlerAlone
<1>7. CASE UNCHANGED allvars
  BY <1>5, <1>7 DEF allvars, vars
<1> QED
  BY <1>1, <1>2, <1>3, <1>4, <1>6, <1>7 DEF FrontNext

\* What is due of the call of u.
DueOf(u) ==
  fpc[u] # "app" /\ due[u] # Raced =>
    /\ due[u] = IF Regular(u) /\ Bytes(req[u]) > 0 THEN Descriptor(u).pos ELSE NoLine
    /\ fpc[u] = "lseek" => Regular(u)

\* A call that t has not overtaken finds its descriptor as it was.
LEMMA DueKept ==
  ASSUME FrontTypes, NEW t \in Threads, NEW fd \in Fds, NEW g,
         file' = [file EXCEPT ![Owner[t]][fd] = g],
         NEW u \in Threads, u # t, DueOf(u),
         due'[u] = Overtake(t, fd, g)[u],
         fpc'[u] = fpc[u], req'[u] = req[u]
  PROVE  DueOf(u)'
<1> SUFFICES ASSUME fpc[u] # "app", due'[u] # Raced
             PROVE  due'[u] = due[u] /\ Descriptor(u)' = Descriptor(u)
  BY DEF DueOf, Regular
<1>1. due'[u] = due[u]
  BY Overtaken
<1>2. req[u].fd \in Fds /\ Owner[u] \in Procs /\ Owner[t] \in Procs
  BY InHand, HandlerAssumption
<1>3. CASE Owner[u] = Owner[t] /\ req[u].fd = fd
  <2>1. g = file[Owner[t]][fd]
    BY <1>3, Overtaken
  <2> QED
    BY <1>1, <1>2, <1>3, <2>1 DEF Descriptor, FrontTypes
<1>4. CASE ~(Owner[u] = Owner[t] /\ req[u].fd = fd)
  BY <1>1, <1>2, <1>4 DEF Descriptor, FrontTypes
<1> QED
  BY <1>3, <1>4

\* What is due stays what the inspection of the descriptor would find, and an
\* access is kept from the handler only if none is due or it was overtaken.
LEMMA DuesStep ==
  ASSUME TypeOK, FrontTypes, Dues, NoneMissed, [FrontNext]_allvars
  PROVE  Dues' /\ NoneMissed'
<1> USE HandlerAssumption
<1>0. (Dues <=> \A u \in Threads : DueOf(u)) /\ (Dues' <=> \A u \in Threads : DueOf(u)')
  BY DEF Dues, DueOf
<1>1. ASSUME NEW t \in Threads, NEW fd \in Fds, NEW f \in Files, app_file(t, fd, f)
      PROVE  Dues' /\ NoneMissed'
  <2>1. /\ file' = [file EXCEPT ![Owner[t]][fd] = f]
        /\ due' = Overtake(t, fd, f)
        /\ UNCHANGED <<fpc, req, missed>>
        /\ fpc[t] = "app"
    BY <1>1 DEF app_file, InApp
  <2>2. ASSUME NEW u \in Threads PROVE DueOf(u)'
    <3>1. CASE u = t
      BY <2>1, <3>1 DEF DueOf
    <3>2. CASE u # t
      BY <1>0, <2>1, <3>2, DueKept, ZenonT(30)
    <3> QED
      BY <3>1, <3>2
  <2> QED
    BY <1>0, <2>1, <2>2 DEF NoneMissed
<1>2. ASSUME NEW t \in Threads, NEW c \in Requests, real_call(t, c)
      PROVE  Dues' /\ NoneMissed'
  <2>1. PICK g \in Files :
          /\ file[Owner[t]][c.fd].kind = g.kind
          /\ file' = [file EXCEPT ![Owner[t]][c.fd] = g]
          /\ due' = [Overtake(t, c.fd, g) EXCEPT ![t] =
               IF file[Owner[t]][c.fd].kind = "reg" /\ c.fd > 2 /\ Bytes(c) > 0
               THEN g.pos ELSE NoLine]
          /\ req' = [req EXCEPT ![t] = c]
          /\ fpc' = [fpc EXCEPT ![t] = "reg_fd"]
          /\ UNCHANGED <<vars, truth, missed>>
    BY <1>2, RealCall
  <2>2. c.fd \in Fds
    BY FrontAssumption
  <2>3. Overtake(t, c.fd, g) \in [Threads -> Int]
    BY <2>2, Overtaken
  <2>4. ASSUME NEW u \in Threads PROVE DueOf(u)'
    <3>1. CASE u = t
      <4>1. fpc'[t] = "reg_fd" /\ req'[t] = c
        BY <2>1 DEF FrontTypes
      <4>2. Descriptor(t)' = g
        BY <2>1, <2>2, <4>1 DEF Descriptor, FrontTypes
      <4>3. due'[t] = IF g.kind = "reg" /\ c.fd > 2 /\ Bytes(c) > 0 THEN g.pos ELSE NoLine
        BY <2>1, <2>3
      <4>4. Regular(t)' <=> c.fd > 2 /\ g.kind = "reg"
        BY <4>1, <4>2 DEF Regular
      <4>5. Bytes(req[t])' = Bytes(c)
        BY <4>1 DEF Bytes
      <4> QED
        BY <3>1, <4>1, <4>2, <4>3, <4>4, <4>5, ZenonT(30) DEF DueOf
    <3>2. CASE u # t
      <4>1. due'[u] = Overtake(t, c.fd, g)[u] /\ fpc'[u] = fpc[u] /\ req'[u] = req[u]
        BY <2>1, <2>3, <3>2 DEF FrontTypes
      <4> QED
        BY <1>0, <2>1, <2>2, <3>2, <4>1, DueKept, ZenonT(30)
    <3> QED
      BY <3>1, <3>2
  <2> QED
    BY <1>0, <2>1, <2>4 DEF NoneMissed
<1>3. ASSUME NEW t \in Threads, reg_fd(t) PROVE Dues' /\ NoneMissed'
  <2>1. fpc[t] = "reg_fd" /\ UNCHANGED <<file, req>>
    BY <1>3 DEF reg_fd
  <2>2. DueOf(t)
    BY <1>0
  <2>3. CASE Regular(t)
    <3>1. fpc' = [fpc EXCEPT ![t] = "lseek"] /\ UNCHANGED <<due, missed>>
      BY <1>3, <2>3, ZenonT(30) DEF reg_fd, Regular, Descriptor
    <3>2. ASSUME NEW u \in Threads PROVE DueOf(u)'
      <4>1. DueOf(u) /\ (u = t \/ fpc'[u] = fpc[u])
        BY <1>0, <3>1 DEF FrontTypes
      <4>2. /\ (Regular(u)' <=> Regular(u)) /\ Descriptor(u)' = Descriptor(u)
            /\ due'[u] = due[u] /\ req'[u] = req[u]
        BY <2>1, <3>1 DEF Regular, Descriptor
      <4> QED
        BY <2>1, <2>3, <4>1, <4>2, SMTT(30) DEF DueOf
    <3> QED
      BY <1>0, <3>1, <3>2 DEF NoneMissed
  <2>4. CASE ~Regular(t)
    <3>1. /\ fpc' = [fpc EXCEPT ![t] = "app"] /\ missed' = due[t]
          /\ due' = [due EXCEPT ![t] = NoLine]
      BY <1>3, <2>4, ZenonT(30) DEF reg_fd, Regular, Descriptor
    <3>2. ASSUME NEW u \in Threads PROVE DueOf(u)'
      <4>1. CASE u = t
        BY <3>1, <4>1 DEF DueOf, FrontTypes
      <4>2. CASE u # t
        <5>1. /\ (Regular(u)' <=> Regular(u)) /\ Descriptor(u)' = Descriptor(u)
              /\ due'[u] = due[u] /\ req'[u] = req[u] /\ fpc'[u] = fpc[u]
          BY <2>1, <3>1, <4>2 DEF Regular, Descriptor, FrontTypes
        <5> QED
          BY <1>0, <5>1 DEF DueOf
      <4> QED
        BY <4>1, <4>2
    <3>3. due[t] \in {Raced, NoLine}
      BY <2>1, <2>2, <2>4 DEF DueOf
    <3> QED
      BY <1>0, <3>1, <3>2, <3>3, SMTT(30) DEF NoneMissed
  <2> QED
    BY <2>3, <2>4
<1>4. ASSUME NEW t \in Threads, call_handler(t) PROVE Dues' /\ NoneMissed'
  <2>1. /\ fpc' = [fpc EXCEPT ![t] = "app"]
        /\ due' = [due EXCEPT ![t] = NoLine]
        /\ UNCHANGED <<file, req, missed>>
    BY <1>4 DEF call_handler
  <2>2. ASSUME NEW u \in Threads PROVE DueOf(u)'
    <3>1. CASE u = t
      BY <2>1, <3>1, SMTT(30) DEF DueOf, FrontTypes
    <3>2. CASE u # t
      <4>1. /\ (Regular(u)' <=> Regular(u)) /\ Descriptor(u)' = Descriptor(u)
            /\ due'[u] = due[u] /\ req'[u] = req[u] /\ fpc'[u] = fpc[u]
        BY <2>1, <3>2, ZenonT(30) DEF Regular, Descriptor, FrontTypes
      <4> QED
        BY <1>0, <4>1 DEF DueOf
    <3> QED
      BY <3>1, <3>2
  <2> QED
    BY <1>0, <2>1, <2>2, ZenonT(30) DEF NoneMissed
<1>5. CASE UNCHANGED frontvars
  BY <1>5 DEF frontvars, Dues, NoneMissed, Regular, Descriptor
<1> QED
  BY <1>1, <1>2, <1>3, <1>4, <1>5, ZenonT(30) DEF FrontNext, allvars
----------------------------------------------------------------------------
LineInv == Carried /\ LinesExact /\ NotDropped

\* The lines of the log come from calls that were made.
LEMMA LineOf ==
  ASSUME TypeOK, FrontTypes, Carried, NEW i \in 1..Len(by)
  PROVE  /\ by[i] = <<by[i][1], by[i][2]>>
         /\ by[i][1] \in Threads
         /\ by[i][2] \in 1..Len(truth[by[i][1]])
         /\ i \in 1..Len(log)
<1>1. by \in Seq(Threads \X (0..MaxCalls)) /\ Len(by) = Len(log)
  BY Zenon DEF TypeOK
<1>2. by[i] \in Threads \X (0..MaxCalls)
  BY <1>1
<1>3. by[i] = <<by[i][1], by[i][2]>> /\ by[i][1] \in Threads
  BY <1>2
<1>4. by[i][2] \in 1..calls[by[i][1]] /\ Len(truth[by[i][1]]) = calls[by[i][1]]
  BY <1>3, ZenonT(30) DEF FrontTypes, Carried
<1> QED
  BY <1>1, <1>3, <1>4, ZenonT(30)

\* What handle does with the call of t.
LEMMA CallHandled ==
  ASSUME TypeOK, FrontTypes, Dues, NEW t \in Threads, call_handler(t)
  PROVE  /\ pc[t] = "out" /\ UNCHANGED <<log, by>>
         /\ calls'[t] = calls[t] + 1 /\ calls[t] \in Nat
         /\ truth'[t] = Append(truth[t], due[t])
         /\ \A u \in Threads : u # t =>
              pc'[u] = pc[u] /\ arg'[u] = arg[u] /\ calls'[u] = calls[u] /\ truth'[u] = truth[u]
         /\ \/ pc'[t] = "wait" /\ due[t] \in {Raced, arg'[t].pos}
            \/ pc'[t] = "out" /\ ~(due[t] >= 0)
<1> DEFINE a == Report(t)
<1>1. handle(t, a) /\ a \in Args
  BY ReportIsArg, SMTT(30)
<1>2. /\ fpc[t] = "lseek"
      /\ truth' = [truth EXCEPT ![t] = Append(@, due[t])]
  BY DEF call_handler
<1>3. /\ a.pos = Descriptor(t).pos /\ a.bytes = Bytes(req[t]) /\ a.fd = req[t].fd
  BY DEF Report
<1> HIDE DEF a
<1>4. /\ pc[t] = "out" /\ calls' = [calls EXCEPT ![t] = @ + 1]
      /\ UNCHANGED <<log, by>>
  BY <1>1, SMTT(30) DEF handle, logvars
<1>5. due[t] # Raced =>
        /\ due[t] = IF Regular(t) /\ Bytes(req[t]) > 0 THEN Descriptor(t).pos ELSE NoLine
        /\ Regular(t)
  BY <1>2 DEF Dues
<1>6. /\ req[t].fd \in Nat /\ Bytes(req[t]) \in Nat
      /\ Descriptor(t).pos \in Int
      /\ Descriptor(t).kind = "reg" => Descriptor(t).pos \in Nat
  BY <1>2, InHand, FrontAssumption
<1>0. pc \in [Threads -> {"out", "wait", "fopen", "fclose", "post", "dead"}]
      /\ arg \in [Threads -> Args] /\ calls \in [Threads -> 0..MaxCalls]
      /\ truth \in [Threads -> Seq(Int)]
  BY Zenon DEF TypeOK, FrontTypes
<1>7. CASE Sane(a)
  <2>1. pc' = [pc EXCEPT ![t] = "wait"] /\ arg' = [arg EXCEPT ![t] = a]
    BY <1>1, <1>7 DEF handle, Goto
  <2>2. due[t] \in {Raced, a.pos}
    BY <1>3, <1>5, <1>6, <1>7, SMTT(30) DEF Sane
  <2> QED
    BY <1>0, <1>2, <1>4, <2>1, <2>2, SMTT(30)
<1>8. CASE ~Sane(a)
  <2>1. UNCHANGED <<pc, arg>>
    BY <1>1, <1>8 DEF handle
  <2>2. ~(due[t] >= 0)
    BY <1>3, <1>5, <1>6, <1>8 DEF Sane, Regular, NoLine, Raced
  <2> QED
    BY <1>0, <1>2, <1>4, <2>1, <2>2, SMTT(30)
<1> QED
  BY <1>7, <1>8

\* A call of the handler touches no line of the log.
LEMMA CallLines ==
  ASSUME TypeOK, FrontTypes, Dues, LineInv, NEW t \in Threads, call_handler(t)
  PROVE  LineInv'
<1>1. /\ pc[t] = "out" /\ UNCHANGED <<log, by>>
      /\ calls'[t] = calls[t] + 1 /\ calls[t] \in Nat
      /\ truth'[t] = Append(truth[t], due[t])
      /\ \A u \in Threads : u # t =>
           pc'[u] = pc[u] /\ arg'[u] = arg[u] /\ calls'[u] = calls[u] /\ truth'[u] = truth[u]
      /\ \/ pc'[t] = "wait" /\ due[t] \in {Raced, arg'[t].pos}
         \/ pc'[t] = "out" /\ ~(due[t] >= 0)
  BY CallHandled, SMTT(30)
<1>2. /\ \A n \in 1..Len(truth[t]) : truth'[t][n] = truth[t][n]
      /\ truth'[t][calls'[t]] = due[t] /\ Len(truth'[t]) = Len(truth[t]) + 1
      /\ Len(truth[t]) = calls[t] /\ Len(truth[t]) \in Nat
  <2>1. truth[t] \in Seq(Int) /\ Len(truth[t]) = calls[t] /\ due[t] \in Int
    BY Zenon DEF FrontTypes
  <2> QED
    BY <1>1, <2>1
<1>3. ASSUME NEW i \in 1..Len(by)
      PROVE  /\ by[i][2] \in 1..calls'[by[i][1]]
             /\ truth'[by[i][1]][by[i][2]] = truth[by[i][1]][by[i][2]]
  <2>1. by[i][1] \in Threads /\ by[i][2] \in 1..Len(truth[by[i][1]])
    BY LineOf, ZenonT(30) DEF LineInv
  <2>2. CASE by[i][1] = t
    BY <1>1, <1>2, <2>1, <2>2, SMTT(30)
  <2>3. CASE by[i][1] # t
    BY <1>1, <2>1, <2>3, ZenonT(30) DEF FrontTypes
  <2> QED
    BY <2>2, <2>3
<1>4. ASSUME NEW u \in Threads, Unwritten(u)'
      PROVE  calls'[u] > 0 /\ truth'[u][calls'[u]] \in {Raced, arg'[u].pos}
  <2>1. CASE u = t
    BY <1>1, <1>2, <1>4, <2>1 DEF Unwritten
  <2>2. CASE u # t
    BY <1>1, <1>4, <2>2, ZenonT(30) DEF Unwritten, LineInv, Carried
  <2> QED
    BY <2>1, <2>2, SMTT(30)
<1>5. Carried'
  BY <1>1, <1>3, <1>4, ZenonT(30) DEF Carried
<1>6. LinesExact'
  <2>1. Len(by) = Len(log)
    BY DEF TypeOK
  <2> QED
    BY <1>1, <1>3, <2>1 DEF LineInv, LinesExact
<1>7. ASSUME "logfail" \notin Faults, NEW u \in Threads, pc'[u] # "dead",
             NEW n \in 1..Len(truth'[u]), truth'[u][n] >= 0
      PROVE  Logged(u, n)' \/ (n = calls'[u] /\ Unwritten(u)')
  <2>1. Logged(u, n)' <=> Logged(u, n)
    BY <1>1 DEF Logged
  <2>2. CASE u # t
    <3>1. pc[u] # "dead" /\ n \in 1..Len(truth[u]) /\ truth[u][n] >= 0
      BY <1>1, <1>7, <2>2
    <3>2. Logged(u, n) \/ (n = calls[u] /\ Unwritten(u))
      BY <1>7, <3>1, ZenonT(30) DEF LineInv, NotDropped
    <3> QED
      BY <1>1, <2>1, <2>2, <3>2, ZenonT(30) DEF Unwritten
  <2>3. CASE u = t /\ n \in 1..Len(truth[t])
    <3>1. Logged(t, n) \/ (n = calls[t] /\ Unwritten(t))
      BY <1>1, <1>2, <1>7, <2>3, ZenonT(30) DEF LineInv, NotDropped
    <3> QED
      BY <1>1, <2>1, <2>3, <3>1 DEF Unwritten
  <2>4. CASE u = t /\ n = calls'[t]
    BY <1>1, <1>2, <1>7, <2>4, SMTT(30) DEF Unwritten
  <2>5. u = t => n \in 1..Len(truth[t]) \/ n = calls'[t]
    BY <1>1, <1>2
  <2> QED
    BY <2>2, <2>3, <2>4, <2>5, ZenonT(30)
<1>8. NotDropped'
  BY <1>7 DEF NotDropped
<1> QED
  BY <1>5, <1>6, <1>8, ZenonT(30) DEF LineInv

\* A line that is written is that of the current call, with its arguments.
LEMMA CloseLines ==
  ASSUME TypeOK, FrontTypes, LineInv, NEW t \in Threads, write_log_close(t),
         UNCHANGED truth
  PROVE  LineInv'
<1>1. /\ pc[t] = "fclose" /\ pc'[t] = "post"
      /\ \A u \in Threads : u # t => pc'[u] = pc[u]
  BY GotoMoves DEF write_log_close
<1>2. by' = Append(by, <<t, calls[t]>>) /\ UNCHANGED <<arg, calls>>
  BY DEF write_log_close
<1>3. /\ Len(log') = Len(log) + 1 /\ log'[Len(log) + 1].offset = arg[t].pos
      /\ \A i \in 1..Len(log) : log'[i] = log[i]
  <2> DEFINE x == [type |-> arg[t].type, pid |-> Owner[t], fd |-> arg[t].fd,
                   offset |-> arg[t].pos, bytes |-> arg[t].bytes]
  <2>1. log' = Append(log, x)
    BY DEF write_log_close
  <2>2. x.offset = arg[t].pos
    OBVIOUS
  <2> HIDE DEF x
  <2>3. log \in Seq(Lines)
    BY Zenon DEF TypeOK
  <2> QED
    BY <2>1, <2>2, <2>3
<1>4. /\ Len(by') = Len(by) + 1 /\ by'[Len(by) + 1] = <<t, calls[t]>>
      /\ \A i \in 1..Len(by) : by'[i] = by[i]
      /\ Len(by) = Len(log) /\ Len(by) \in Nat
  <2>1. by \in Seq(Threads \X (0..MaxCalls)) /\ Len(by) = Len(log)
    BY Zenon DEF TypeOK
  <2> QED
    BY <1>2, <2>1
<1>5. calls[t] > 0 /\ calls[t] \in Nat /\ truth[t][calls[t]] \in {Raced, arg[t].pos}
  <2>1. calls[t] \in 0..MaxCalls /\ MaxCalls \in Nat
    BY HandlerAssumption, ZenonT(30) DEF TypeOK
  <2>2. calls[t] > 0 /\ truth[t][calls[t]] \in {Raced, arg[t].pos}
    BY <1>1, ZenonT(30) DEF LineInv, Carried, Unwritten
  <2> QED
    BY <2>1, <2>2
<1>6. ASSUME NEW i \in 1..Len(by')
      PROVE  /\ by'[i][2] \in 1..calls'[by'[i][1]]
             /\ truth'[by'[i][1]][by'[i][2]] \in {Raced, log'[i].offset}
  <2>1. CASE i \in 1..Len(by)
    <3>1. by'[i] = by[i] /\ log'[i] = log[i] /\ i \in 1..Len(log)
      BY <1>3, <1>4, <2>1, ZenonT(30)
    <3> QED
      BY <1>2, <2>1, <3>1 DEF LineInv, Carried, LinesExact
  <2>2. CASE i = Len(by) + 1
    BY <1>2, <1>3, <1>4, <1>5, <2>2, SMTT(30)
  <2> QED
    BY <1>4, <2>1, <2>2, SMTT(30)
<1>7. Carried'
  BY <1>1, <1>2, <1>6, ZenonT(30) DEF LineInv, Carried, Unwritten
<1>8. LinesExact'
  BY <1>3, <1>4, <1>6 DEF LinesExact
<1>9. ASSUME "logfail" \notin Faults, NEW u \in Threads, pc'[u] # "dead",
             NEW n \in 1..Len(truth'[u]), truth'[u][n] >= 0
      PROVE  Logged(u, n)' \/ (n = calls'[u] /\ Unwritten(u)')
  <2>1. pc[u] # "dead"
    BY <1>1, <1>9
  <2>2. Logged(u, n) \/ (n = calls[u] /\ Unwritten(u))
    BY <1>9, <2>1 DEF LineInv, NotDropped
  <2>3. Logged(u, n) => Logged(u, n)'
    BY <1>4 DEF Logged
  <2>4. Logged(t, calls[t])'
    BY <1>2, <1>4 DEF Logged
  <2> QED
    BY <1>1, <1>2, <2>2, <2>3, <2>4 DEF Unwritten
<1>10. NotDropped'
  BY <1>9 DEF NotDropped
<1> QED
  BY <1>7, <1>8, <1>10, ZenonT(30) DEF LineInv

\* The steps of the handlers that no application makes.
LEMMA AloneLines ==
  ASSUME TypeOK, FrontTypes, LineInv, UNCHANGED truth,
         \/ \E t \in Threads : dest(t) \/ Step(t)
         \/ \E p \in Procs : con(p) \/ reap(p) \/ kill(p)
  PROVE  LineInv'
<1>1. /\ UNCHANGED <<calls, arg>>
      /\ UNCHANGED <<log, by>> \/ \E t \in Threads : write_log_close(t)
      /\ \A u \in Threads :
           /\ Unwritten(u)' => Unwritten(u)
           /\ pc[u] = "dead" => pc'[u] = "dead"
           /\ \/ Unwritten(u) => Unwritten(u)'
              \/ pc'[u] = "dead" \/ write_log_close(u) \/ "logfail" \in Faults
  BY HandlerAlone
<1>2. CASE \E t \in Threads : write_log_close(t)
  BY <1>2, CloseLines
<1>3. CASE ~\E t \in Threads : write_log_close(t)
  <2>1. UNCHANGED <<log, by>>
    BY <1>1, <1>3, ZenonT(30)
  <2>2. Carried' /\ LinesExact'
    BY <1>1, <2>1, ZenonT(30) DEF LineInv, Carried, LinesExact
  <2>3. ASSUME "logfail" \notin Faults, NEW u \in Threads, pc'[u] # "dead",
               NEW n \in 1..Len(truth'[u]), truth'[u][n] >= 0
        PROVE  Logged(u, n)' \/ (n = calls'[u] /\ Unwritten(u)')
    <3>1. Logged(u, n) \/ (n = calls[u] /\ Unwritten(u))
      BY <1>1, <2>3, ZenonT(30) DEF LineInv, NotDropped
    <3>2. Logged(u, n)' <=> Logged(u, n)
      BY <2>1, SMTT(30) DEF Logged
    <3>3. Unwritten(u) => Unwritten(u)'
      BY <1>1, <1>3, <2>3, ZenonT(60)
    <3> QED
      BY <1>1, <3>1, <3>2, <3>3, SMTT(30)
  <2>4. NotDropped'
    BY <2>3, ZenonT(30) DEF NotDropped
  <2> QED
    BY <2>2, <2>4 DEF LineInv
<1> QED
  BY <1>2, <1>3

\* The lines stay right and complete.
LEMMA LinesStep ==
  ASSUME TypeOK, FrontTypes, Dues, LineInv, [FrontNext]_allvars
  PROVE  LineInv'
<1>1. CASE UNCHANGED <<vars, truth>>
  <2>1. UNCHANGED <<pc, arg, calls, log, by, truth>>
    BY <1>1 DEF vars, logvars
  <2> QED
    BY <2>1, ZenonT(60) DEF LineInv, Carried, LinesExact, NotDropped, Unwritten, Logged
<1>2. ASSUME NEW t \in Threads, NEW fd \in Fds, NEW f \in Files, app_file(t, fd, f)
      PROVE  LineInv'
  BY <1>1, <1>2 DEF app_file
<1>3. ASSUME NEW t \in Threads, NEW c \in Requests, real_call(t, c) PROVE LineInv'
  BY <1>1, <1>3, ZenonT(30) DEF real_call
<1>4. ASSUME NEW t \in Threads, reg_fd(t) PROVE LineInv'
  BY <1>1, <1>4 DEF reg_fd
<1>5. ASSUME NEW t \in Threads, call_handler(t) PROVE LineInv'
  BY <1>5, CallLines
<1>6. ASSUME UNCHANGED frontvars,
             \/ \E t \in Threads : dest(t) \/ Step(t)
             \/ \E p \in Procs : con(p) \/ reap(p) \/ kill(p)
      PROVE  LineInv'
  BY <1>6, AloneLines DEF frontvars
<1>7. CASE UNCHANGED allvars
  BY <1>1, <1>7 DEF allvars, frontvars
<1> QED
  BY <1>2, <1>3, <1>4, <1>5, <1>6, <1>7, SMTT(30) DEF FrontNext
----------------------------------------------------------------------------
\* At the start no call is under way and the log is empty.
LEMMA FrontInvInit == FrontInit => FrontInv
<1> SUFFICES ASSUME FrontInit PROVE FrontInv
  BY SMTT(30)
<1> USE HandlerAssumption, FrontAssumption
<1>1. TypeOK
  BY SemInvInit, SMTT(30) DEF FrontInit, SemInv
<1>2. file \in [Procs -> [Fds -> Files]]
  BY SMTT(30) DEF FrontInit, Files, Closed
<1>3. \A t \in Threads : Len(truth[t]) = calls[t]
  BY SMTT(30) DEF FrontInit, Init
<1>4. FrontTypes
  BY <1>2, <1>3 DEF FrontInit, FrontTypes, NoLine
<1>5. Dues /\ NoneMissed
  BY ZenonT(30) DEF FrontInit, Dues, NoneMissed
<1>6. Carried /\ LinesExact /\ NotDropped
  BY DEF FrontInit, Init, Carried, LinesExact, NotDropped, Unwritten
<1> QED
  BY <1>1, <1>4, <1>5, <1>6 DEF FrontInv

\* Two components in one: a behaviour of the library, whatever the threads do
\* to the descriptors, is one of the handlers alone, so that all that is proved
\* of the handlers holds of the library.
THEOREM LibraryRunsHandlers == FrontSpec => Spec
<1>1. FrontInit => FrontTypes /\ SemInv
  BY FrontInvInit, SemInvInit DEF FrontInv, FrontInit
<1>2. FrontTypes /\ SemInv /\ [FrontNext]_allvars => (FrontTypes /\ SemInv)'
  <2>1. SemInv /\ [Next]_vars => SemInv'
    BY TypeOKStep, SemShapeStep, ConservationStep DEF SemInv
  <2> QED
    BY <2>1, FrontTypesStep, HandlerStep DEF SemInv
<1>3. FrontInit => Init
  BY DEF FrontInit
<1>4. FrontTypes /\ [FrontNext]_allvars => [Next]_vars
  BY HandlerStep
<1> QED
  BY <1>1, <1>2, <1>3, <1>4, PTL DEF FrontSpec, Spec

\* The inductive invariant holds of every behaviour of the library.
THEOREM FrontInvariant == FrontSpec => []FrontInv
<1>1. FrontInv /\ TypeOK' /\ [FrontNext]_allvars => FrontInv'
  <2> SUFFICES ASSUME FrontInv, TypeOK', [FrontNext]_allvars PROVE FrontInv'
    OBVIOUS
  <2>1. FrontTypes' /\ Dues' /\ NoneMissed'
    BY FrontTypesStep, DuesStep DEF FrontInv
  <2>2. LineInv'
    BY LinesStep DEF FrontInv, LineInv
  <2> QED
    BY <2>1, <2>2 DEF FrontInv, LineInv
<1> QED
  BY <1>1, FrontInvInit, LibraryRunsHandlers, TypeCorrect, PTL DEF FrontSpec

\* fread, read, fwrite and write log where the access ended, of a regular file,
\* unless another thread of the process changed that descriptor meanwhile.
THEOREM LinesAlwaysExact == FrontSpec => []LinesExact
<1>1. FrontInv => LinesExact
  BY DEF FrontInv
<1> QED
  BY <1>1, FrontInvariant, PTL

\* reg_fd keeps from the handler only what is not to be logged, or was overtaken.
THEOREM NoAccessMissed == FrontSpec => []NoneMissed
<1>1. FrontInv => NoneMissed
  BY DEF FrontInv
<1> QED
  BY <1>1, FrontInvariant, PTL

\* An access whose line is due is in the log when the application runs again,
\* unless the log cannot be opened.
THEOREM AccessLogged == FrontSpec => []LoggedOnReturn
<1>1. FrontInv => LoggedOnReturn
  BY Zenon DEF FrontInv, NotDropped, LoggedOnReturn, Unwritten, Logged
<1> QED
  BY <1>1, FrontInvariant, PTL

\* Two threads of an application that have both waited for a semaphore are not
\* both in write_log with it, also with the front end before the handlers.
THEOREM LibraryExclusion == FrontSpec => []MutexPerSemaphore
BY LibraryRunsHandlers, MutualExclusion, PTL

\* The library implements the abstract log: an access takes effect in the log at
\* one moment between the call of the handler and its return, or is missed.
THEOREM LibraryRefinement == FrontSpec => ImplementsCallLog
BY LibraryRunsHandlers, Refinement, PTL
============================================================================
