----------------------------- MODULE AccessLog -----------------------------
(***************************************************************************)
(* liblog.so as a whole: the interposed fread, read, fwrite and write of   *)
(* src/code/data_gen/lib/frontend.cpp in front of the handlers.  An        *)
(* interposed call makes the real call first, then asks whether the        *)
(* descriptor is a regular file (fstat), then reads the file position      *)
(* (lseek or ftell) and hands both to the handler.  The three are system   *)
(* calls of their own, and other threads of the process may run between    *)
(* them and close, reopen or move the same descriptor.                     *)
(***************************************************************************)
EXTENDS LogHandler

CONSTANTS
  Fds,        \* descriptors the applications use
  Requests,   \* interposed calls: [api, fd, size, nmemb]
  MaxPos,     \* bound: file positions
  SIZE_MOD    \* the number of values of size_t

\* The product size*nmemb is computed in size_t.
Bytes(c) == (c.size * c.nmemb) % SIZE_MOD
IsRead(c) == c.api \in {"fread", "read"}
IsStream(c) == c.api \in {"fread", "fwrite"}

ASSUME FrontAssumption ==
  /\ Fds \subseteq Nat
  /\ MaxPos \in Nat /\ SIZE_MOD \in Nat \ {0}
  /\ Requests \subseteq [api : {"fread", "read", "fwrite", "write"}, fd : Fds,
                         size : Nat, nmemb : Nat]
  /\ \A c \in Requests, pos \in -1..MaxPos :
       [type |-> IF IsRead(c) THEN 0 ELSE 1, fd |-> c.fd, pos |-> pos,
        bytes |-> Bytes(c)] \in Args

\* A descriptor that is closed, or is a pipe or a socket, has no position:
\* lseek returns -1.
Files == [kind : {"reg"}, pos : 0..MaxPos] \cup [kind : {"pipe", "closed"}, pos : {-1}]
Closed == [kind |-> "closed", pos |-> -1]

VARIABLES
  file,    \* file[p][fd], the descriptor table of process p
  fpc,     \* fpc[t]: "app", or before fstat or lseek in an interposed call
  req,     \* req[t], the interposed call
  due,     \* history: due[t], the offset the line of req[t] should have
  truth,   \* history: truth[t][n], the same for the n-th handler call of t
  missed   \* history: the same for the last call reg_fd kept from the handler

frontvars == <<file, fpc, req, due, truth, missed>>
allvars == <<vars, frontvars>>

InApp(t) == Running(Owner[t]) /\ pc[t] = "out" /\ fpc[t] = "app"

NoLine == -1   \* no line is due
Raced == -2    \* another thread has changed the descriptor since

\* Thread t leaves f under descriptor fd: a call of another thread on it that
\* is past its real call, and has not read its position, has been overtaken.
Overtake(t, fd, f) ==
  [u \in Threads |->
     IF /\ u # t /\ Owner[u] = Owner[t]
        /\ fpc[u] # "app" /\ req[u].fd = fd
        /\ f # file[Owner[t]][fd]
     THEN Raced ELSE due[u]]

FrontInit ==
  /\ Init
  /\ file = [p \in Procs |-> [fd \in Fds |->
               IF fd <= 2 THEN [kind |-> "reg", pos |-> 0] ELSE Closed]]
  /\ fpc = [t \in Threads |-> "app"]
  /\ req = [t \in Threads |-> CHOOSE c \in Requests : TRUE]
  /\ due = [t \in Threads |-> NoLine]
  /\ truth = [t \in Threads |-> <<>>]
  /\ missed = NoLine
----------------------------------------------------------------------------
\* The application opens, closes and moves descriptors; the library does not
\* see it.  A stream is not closed while another thread uses it.
app_file(t, fd, f) ==
  /\ InApp(t)
  /\ fd > 2
  /\ \/ file[Owner[t]][fd] = Closed /\ f.kind # "closed" /\ f.pos <= 0
     \/ file[Owner[t]][fd].kind = "reg" /\ f.kind = "reg"
     \/ /\ file[Owner[t]][fd] # Closed /\ f = Closed
        /\ \A u \in ThreadsOf(Owner[t]) :
             fpc[u] # "app" /\ IsStream(req[u]) => req[u].fd # fd
  /\ file' = [file EXCEPT ![Owner[t]][fd] = f]
  /\ due' = Overtake(t, fd, f)
  /\ UNCHANGED <<vars, fpc, req, truth, missed>>

\* real_fread, real_read, real_fwrite or real_write: it transfers any amount
\* up to what was asked for, or fails; the result is not looked at.
real_call(t, c) ==
  LET f == file[Owner[t]][c.fd]
  IN  /\ InApp(t)
      /\ calls[t] < MaxCalls
      /\ IsStream(c) => f # Closed
      /\ \E n \in 0..Bytes(c) :
           LET g == IF f.kind = "reg" THEN [f EXCEPT !.pos = @ + n] ELSE f
           IN  /\ g \in Files
               /\ file' = [file EXCEPT ![Owner[t]][c.fd] = g]
               /\ due' = [Overtake(t, c.fd, g) EXCEPT ![t] =
                    IF f.kind = "reg" /\ c.fd > 2 /\ Bytes(c) > 0 THEN g.pos ELSE NoLine]
      /\ req' = [req EXCEPT ![t] = c]
      /\ fpc' = [fpc EXCEPT ![t] = "reg_fd"]
      /\ UNCHANGED <<vars, truth, missed>>

\* Mutant: the first descriptor after the standard ones counts as standard.
MutantRegFd(t) ==
  LET regular == req[t].fd > 3 /\ file[Owner[t]][req[t].fd].kind = "reg"
  IN  /\ Running(Owner[t]) /\ pc[t] = "out"
      /\ fpc[t] = "reg_fd"
      /\ fpc' = [fpc EXCEPT ![t] = IF regular THEN "lseek" ELSE "app"]
      /\ missed' = IF regular THEN missed ELSE due[t]
      /\ due' = IF regular THEN due ELSE [due EXCEPT ![t] = NoLine]
      /\ UNCHANGED <<vars, file, req, truth>>

\* reg_fd, and reg_file for a stream: fstat of the descriptor as it is now.
reg_fd(t) ==
  LET regular == req[t].fd > 2 /\ file[Owner[t]][req[t].fd].kind = "reg"
  IN  /\ Running(Owner[t]) /\ pc[t] = "out"
      /\ fpc[t] = "reg_fd"
      /\ fpc' = [fpc EXCEPT ![t] = IF regular THEN "lseek" ELSE "app"]
      /\ missed' = IF regular THEN missed ELSE due[t]
      /\ due' = IF regular THEN due ELSE [due EXCEPT ![t] = NoLine]
      /\ UNCHANGED <<vars, file, req, truth>>

\* Mutant: the start of the access is logged, taking it for a full one.
MutantStart(t) ==
  LET pos == file[Owner[t]][req[t].fd].pos - Bytes(req[t])
  IN  /\ fpc[t] = "lseek"
      /\ handle(t, [type |-> IF IsRead(req[t]) THEN 0 ELSE 1, fd |-> req[t].fd,
                    pos |-> pos, bytes |-> Bytes(req[t])])
      /\ fpc' = [fpc EXCEPT ![t] = "app"]
      /\ truth' = [truth EXCEPT ![t] = Append(@, due[t])]
      /\ due' = [due EXCEPT ![t] = NoLine]
      /\ UNCHANGED <<file, req, missed>>

\* lseek(fd, 0, SEEK_CUR), or ftell, and the call of the handler.
call_handler(t) ==
  LET pos == file[Owner[t]][req[t].fd].pos
  IN  /\ fpc[t] = "lseek"
      /\ IF IsRead(req[t])
         THEN handle_read(t, [type |-> 0, fd |-> req[t].fd, pos |-> pos,
                              bytes |-> Bytes(req[t])])
         ELSE handle_write(t, [type |-> 1, fd |-> req[t].fd, pos |-> pos,
                               bytes |-> Bytes(req[t])])
      /\ fpc' = [fpc EXCEPT ![t] = "app"]
      /\ truth' = [truth EXCEPT ![t] = Append(@, due[t])]
      /\ due' = [due EXCEPT ![t] = NoLine]
      /\ UNCHANGED <<file, req, missed>>

FrontNext ==
  \/ \E t \in Threads, fd \in Fds, f \in Files : app_file(t, fd, f)
  \/ \E t \in Threads, c \in Requests : real_call(t, c)
  \/ \E t \in Threads : reg_fd(t) \/ call_handler(t)
  \/ \E t \in Threads : fpc[t] = "app" /\ dest(t) /\ UNCHANGED frontvars
  \/ \E t \in Threads : Step(t) /\ UNCHANGED frontvars
  \/ \E p \in Procs : (con(p) \/ reap(p) \/ kill(p)) /\ UNCHANGED frontvars

FrontSpec == FrontInit /\ [][FrontNext]_allvars
----------------------------------------------------------------------------
\* A line is about at least one byte of a regular file and says where the
\* access ended, although the descriptor is inspected after the access, unless
\* another thread of the process changed that descriptor in between.
LinesExact ==
  \A i \in 1..Len(log) : truth[by[i][1]][by[i][2]] \in {Raced, log[i].offset}

\* reg_fd keeps an access from being logged only if it should not be logged,
\* or if another thread changed the descriptor since.
NoneMissed == missed \in {Raced, NoLine}

\* When the application runs again after an access whose line is due, the
\* line is in the log, if the log could be opened: whatever other threads and
\* processes did, the access was not dropped on the way through the handler.
LoggedOnReturn ==
  "logfail" \notin Faults =>
    \A t \in Threads : pc[t] = "out" =>
      \A n \in 1..Len(truth[t]) :
        truth[t][n] >= 0 => \E i \in 1..Len(by) : by[i] = <<t, n>>
============================================================================
