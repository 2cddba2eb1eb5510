----------------------------- MODULE MADbench -----------------------------
(***************************************************************************)
(* The run of MADbench2 (built with -D IO): the sequence of local steps,   *)
(* barriers and collective accesses that main makes, and what it leaves in *)
(* the data files. build_S writes the no_bin matrices dSdC, calc_W reads   *)
(* them back and writes the matrices W over them, no_gang at a time,       *)
(* calc_dC reads W.                                                        *)
(*                                                                         *)
(* IOMETHOD and IOMODE say how a matrix is accessed: by fread and fwrite   *)
(* or by MPI_File_read and MPI_File_write in io_distmatrix itself (SYNC),  *)
(* or by a request to MPI that io_distmatrix only posts and that is        *)
(* carried out at some later moment (MPI and ASYNC); io_resync waits for   *)
(* it, one request for reading and one for writing being remembered. With  *)
(* POSIX and ASYNC io_distmatrix does all but the access, with NONE it     *)
(* returns at once. Any other value of the two variables is left out.      *)
(*                                                                         *)
(* Accesses succeed: error_check ends the program on all PEs when one      *)
(* fails, and StridedRead has the failures of the code's own making.       *)
(*                                                                         *)
(* A file is a sequence of slots of pp_matrix1.offcount doubles, each one  *)
(* holding (part of) one matrix; Layout shows that the matrices fit.       *)
(***************************************************************************)
EXTENDS GangIO

ASSUME MadAssumption ==
  \A n \in DOMAIN Configs :
    LET c == Configs[n]
    IN  /\ c.no_bin \in Nat \ {0} /\ c.no_bin % c.no_gang = 0
        /\ c.IOMETHOD \in {"POSIX", "MPI"}
        /\ c.IOMODE \in {"SYNC", "ASYNC", "NONE"}

VARIABLES
  filetype,   \* environment variable FILETYPE
  file,       \* file[f][s], what slot s of file f holds
  rbuf,       \* rbuf[p], what is in the buffer p reads into (rbuffer, grbuffer)
  wbuf,       \* wbuf[p], what is in wbuffer of p
  flight      \* flight[p], the accesses p has started and that are not carried out

dataVars == <<filetype, file, rbuf, wbuf, flight>>
madVars == <<vars, dataVars>>
---------------------------------------------------------------------------
\* The operations: do tells the local ones apart, rank is the number of the matrix.
Local(do, g, k, rw) == <<[op |-> "local", do |-> do, gang |-> g, rank |-> k, rw |-> rw]>>
PMPI_Barrier == <<[op |-> "bar", do |-> "", gang |-> 1, rank |-> 0, rw |-> "r"]>>
busy_work == PMPI_Barrier \o PMPI_Barrier

If(c, ops) == IF c THEN ops ELSE <<>>

io_distmatrix(c, g, k, rw) ==
  If(c.IOMODE # "NONE", <<[op |-> "io", do |-> "", gang |-> g, rank |-> k, rw |-> rw]>>)

\* The operations of body(lo), body(lo + 1), ..., body(hi), in order.
For(lo, hi, body(_)) ==
  LET upto[n \in (lo - 1)..hi] == IF n < lo THEN <<>> ELSE upto[n - 1] \o body(n)
  IN  upto[hi]

\* Mutant: the wait that comes after a read is forgotten.
MutantResync(c, rw) ==
  If(c.IOMODE = "ASYNC" /\ rw = "w", PMPI_Barrier \o Local("wait", 1, 0, rw) \o PMPI_Barrier)

\* io_resync, which its callers leave out unless IOMODE is ASYNC.
io_resync(c, rw) ==
  If(c.IOMODE = "ASYNC", PMPI_Barrier \o Local("wait", 1, 0, rw) \o PMPI_Barrier)

\* memcpy out of the buffer of the last read, and into wbuffer.
Take(g, k) == Local("take", g, k, "r")
Put(g, k) == Local("put", g, k, "w")
Free == Local("free", 1, 0, "r")

build_S(c) ==
  LET body(b) == If(b < c.no_bin, busy_work)
                 \o If(b > 0, io_resync(c, "w"))
                 \o If(b < c.no_bin, Put(1, b) \o io_distmatrix(c, 1, b, "w"))
  IN  For(0, c.no_bin, body) \o Free

\* Reading the bins b, ..., b + no_gang - 1, each one remapped to its gang.
ReadBins(c, b) ==
  LET body(g) == If(g > 0, io_resync(c, "r") \o Take(1, b + g - 1))
                 \o If(g < c.no_gang, io_distmatrix(c, 1, b + g, "r"))
                 \o If(g > 0, busy_work)
  IN  IF c.no_gang = 1 THEN io_distmatrix(c, 1, b, "r") ELSE For(0, c.no_gang, body)

\* Mutant: W goes to the slots of the bins that were read last.
MutantWRank(c, b) == b \div c.no_gang

\* The rank of the W that is written at the pass of bin b.
WRank(c, b) == (b - c.no_gang) \div c.no_gang

\* Mutant: the last write is not waited for.
MutantCalcW(c) ==
  LET body(n) == LET b == n * c.no_gang IN
        If(b > 0 /\ b <= c.no_bin /\ c.no_gang = 1, io_resync(c, "r") \o Take(1, b - 1))
        \o If(b < c.no_bin, ReadBins(c, b))
        \o If(b > c.no_gang /\ b <= c.no_bin, io_resync(c, "w"))
        \o If(b > 0 /\ b <= c.no_bin,
              Put(2, WRank(c, b)) \o io_distmatrix(c, 2, WRank(c, b), "w"))
  IN  For(0, c.no_bin \div c.no_gang + 1, body) \o Free

calc_W(c) ==
  LET body(n) == LET b == n * c.no_gang IN
        If(b > 0 /\ b <= c.no_bin /\ c.no_gang = 1, io_resync(c, "r") \o Take(1, b - 1))
        \o If(b < c.no_bin, ReadBins(c, b))
        \o If(b > c.no_gang, io_resync(c, "w"))
        \o If(b > 0 /\ b <= c.no_bin,
              Put(2, WRank(c, b)) \o io_distmatrix(c, 2, WRank(c, b), "w"))
  IN  For(0, c.no_bin \div c.no_gang + 1, body) \o Free

\* In this build only br = bc is not skipped, a multiple of no_gang, so that
\* get_W always reads and never takes a matrix from the next gang.
get_W(c, br) == io_distmatrix(c, 2, br \div c.no_gang, "r")

\* The turns of the loop of calc_dC that are not skipped; xbr is br of the one before.
calc_dC(c) ==
  LET bmax == (c.no_bin * c.no_bin) \div c.no_gang
      Turn(b) == b = bmax \/ b % c.no_bin = c.no_gang * (b \div c.no_bin)
      turns == SelectSeq([n \in 1..(bmax + 1) |-> n - 1], Turn)
      body(n) == LET b == turns[n]
                     xbr == turns[n - 1] % c.no_bin
                 IN  If(b > 0, If(xbr % c.no_gang = 0, io_resync(c, "r"))
                               \o Take(2, xbr \div c.no_gang))
                     \o If(b < bmax, get_W(c, b % c.no_bin))
                     \o If(b > 0, busy_work)
  IN  For(1, Len(turns), body) \o Free

\* The PEs look for the directory in turn, one barrier each; then all open.
initialize(c) ==
  LET body(n) == PMPI_Barrier
  IN  PMPI_Barrier
      \o If(c.IOMODE # "NONE", For(0, c.no_pe - 1, body) \o Local("open", 1, 0, "w"))

\* The files are closed, and not deleted.
finalize(c) == If(c.IOMODE # "NONE", PMPI_Barrier)

main(c) ==
  initialize(c) \o PMPI_Barrier \o build_S(c) \o PMPI_Barrier \o calc_W(c)
  \o PMPI_Barrier \o calc_dC(c) \o PMPI_Barrier \o finalize(c)
---------------------------------------------------------------------------
IOMETHOD == Configs[conf].IOMETHOD
IOMODE == Configs[conf].IOMODE
no_bin == Configs[conf].no_bin
Nothing == <<"nothing">>
Old == <<"old">>   \* whatever a run before this one has left in the file
FileOf(p) == IF filetype = "UNIQUE" THEN p ELSE 0
NoSlots == IF filetype = "UNIQUE" THEN no_bin ELSE no_pe * no_bin
Slate(x) == [s \in 0..(NoSlots - 1) |-> x]

\* Mutant: all PEs use the same part of a shared file.
MutantSlots(p, o) ==
  LET count == IF o.gang = 1 THEN 1 ELSE no_gang
  IN  (o.rank * count)..(o.rank * count + count - 1)

\* The slots the operation o of p reads or writes, from the offset it seeks. (MPI I/O
\* seeks stride bytes further, in every access alike: the slots move as a whole.)
Slots(p, o) ==
  LET count == IF o.gang = 1 THEN 1 ELSE no_gang
      first == o.rank * count + (IF filetype = "SHARED" THEN p * no_bin ELSE 0)
  IN  first..(first + count - 1)

\* The matrix an operation is about: part p of dSdC or W number rank.
Matrix(p, o) == <<IF o.gang = 1 THEN "dSdC" ELSE "W", o.rank, p>>

MadInit ==
  /\ Init
  /\ filetype \in {"UNIQUE", "SHARED"}
  /\ file = [f \in {FileOf(p) : p \in PEs} |-> Slate(Old)]
  /\ rbuf = [p \in PEs |-> {}]
  /\ wbuf = [p \in PEs |-> Nothing]
  /\ flight = [p \in PEs |-> {}]

Does(p, do) == ~Done(p) /\ Op(p).op = "local" /\ Op(p).do = do /\ local(p)

\* fopen64 with "w+" truncates the file, which may be everybody's; MPI_File_open does not.
open(p) ==
  /\ Does(p, "open")
  /\ file' = IF IOMETHOD = "POSIX" THEN [file EXCEPT ![FileOf(p)] = Slate(Nothing)] ELSE file
  /\ UNCHANGED <<filetype, rbuf, wbuf, flight>>

\* The data is taken out of the buffer, or the buffers are freed.
take(p) == (Does(p, "take") \/ Does(p, "free")) /\ UNCHANGED dataVars

put(p) ==
  /\ Does(p, "put")
  /\ wbuf' = [wbuf EXCEPT ![p] = Matrix(p, Op(p))]
  /\ UNCHANGED <<filetype, file, rbuf, flight>>

\* MPI_Wait returns when the access has been carried out; with POSIX there is no call.
wait(p) ==
  /\ Does(p, "wait")
  /\ IOMETHOD = "MPI" => \A o \in flight[p] : o.rw # Op(p).rw
  /\ UNCHANGED dataVars

\* What an access does to the buffer or the file.
Transfer(p, o) ==
  IF o.rw = "r"
  THEN /\ rbuf' = [rbuf EXCEPT ![p] = {file[FileOf(p)][s] : s \in Slots(p, o)}]
       /\ UNCHANGED file
  ELSE /\ file' = [file EXCEPT ![FileOf(p)] =
                     [s \in DOMAIN @ |-> IF s \in Slots(p, o) THEN wbuf[p] ELSE @[s]]]
       /\ UNCHANGED rbuf

\* fread and fwrite, or MPI_File_read and MPI_File_write
access(p) ==
  /\ IOMODE = "SYNC"
  /\ file_access(p)
  /\ Transfer(p, Op(p))
  /\ UNCHANGED <<filetype, wbuf, flight>>

\* MPI_File_iread, MPI_File_iwrite
post(p) ==
  /\ IOMETHOD = "MPI" /\ IOMODE = "ASYNC"
  /\ file_access(p)
  /\ flight' = [flight EXCEPT ![p] = @ \cup {Op(p)}]
  /\ UNCHANGED <<filetype, file, rbuf, wbuf>>

\* The POSIX branch reads and writes in SYNC mode only: the PE has its turn and
\* neither file nor buffer is touched.
no_access(p) ==
  /\ IOMETHOD = "POSIX" /\ IOMODE = "ASYNC"
  /\ file_access(p)
  /\ UNCHANGED dataVars

\* The access is carried out, by MPI, at any time.
complete(p) ==
  /\ \E o \in flight[p] :
       Transfer(p, o) /\ flight' = [flight EXCEPT ![p] = @ \ {o}]
  /\ UNCHANGED <<vars, filetype, wbuf>>

protocol(p) ==
  /\ enter(p) \/ synchronized(p) \/ recv_token(p) \/ send_token(p) \/ finish(p)
  /\ UNCHANGED dataVars

MadStep(p) ==
  \/ open(p) \/ take(p) \/ put(p) \/ wait(p)
  \/ access(p) \/ post(p) \/ no_access(p) \/ complete(p) \/ protocol(p)

MadNext ==
  \/ \E p \in PEs : MadStep(p)
  \/ terminated /\ UNCHANGED dataVars

\* Every PE is a process of its own, and MPI delivers: as long as any of them can go
\* on, or a request can be carried out, something happens.
MadSpec == MadInit /\ [][MadNext]_madVars /\ WF_madVars(\E p \in PEs : MadStep(p))
---------------------------------------------------------------------------
At(p, do) == ~Done(p) /\ Op(p).op = "local" /\ Op(p).do = do

\* The accesses of p that may be touching the file.
Active(p) ==
  flight[p] \cup (IF stage[p] = "io" /\ IOMODE = "SYNC" THEN {Op(p)} ELSE {})

\* io_distmatrix has matrices read and written.
Transfers == IOMODE = "SYNC" \/ (IOMETHOD = "MPI" /\ IOMODE = "ASYNC")

\* What README says of RMOD and WMOD, "1:RMOD processors will read at once", holds of
\* synchronous I/O: of the PEs of a gang that pass one token at most one is touching
\* its file, in whatever calls of io_distmatrix they are. It does not of asynchronous
\* I/O, where the token is passed on as soon as a request is posted.
OneOfGroup ==
  IOMODE = "SYNC" =>
    \A p, q \in PEs :
      /\ p # q /\ Active(p) # {} /\ Active(q) # {}
      /\ q \in Members(MyGang(p), p)
      => MyRank(p) \div io_mod(p) # MyRank(q) \div io_mod(q)

\* What a PE takes out of its buffer is the matrix it has asked for, all of it, as
\* that PE wrote it: calc_W overwrites no dSdC that is still to be read, in a
\* shared file no PE writes where another one reads or truncates what is there,
\* nothing is from an earlier run, and an asynchronous read is over, and not yet
\* followed by the next. Where nothing is transferred, with NONE and with POSIX and
\* ASYNC, calc_W and calc_dC take from a buffer that nothing was ever read into.
ReadsItsMatrix ==
  \A p \in PEs :
    At(p, "take") => rbuf[p] = IF Transfers THEN {Matrix(p, Op(p))} ELSE {}

\* In the end the files hold every W: all no_bin slots of every PE. Where nothing is
\* transferred they are as opening has left them: with POSIX and ASYNC, empty.
AllWritten ==
  AllDone =>
    IF Transfers
    THEN \A p \in PEs, k \in 0..(no_bin \div no_gang - 1) :
           \A s \in Slots(p, [gang |-> 2, rank |-> k]) :
             file[FileOf(p)][s] = <<"W", k, p>>
    ELSE \A f \in DOMAIN file :
           file[f] = Slate(IF IOMODE = "NONE" THEN Old ELSE Nothing)

\* A buffer is neither filled, emptied nor freed while a request for it is under
\* way, and io_resync is never one request behind.
BuffersQuiet ==
  \A p \in PEs :
    /\ At(p, "take") => \A o \in flight[p] : o.rw = "w"
    /\ At(p, "put") => \A o \in flight[p] : o.rw = "r"
    /\ At(p, "free") => flight[p] = {}
    /\ \A o1, o2 \in flight[p] : o1.rw = o2.rw => o1 = o2

\* Accesses that are under way at the same time, of one PE or of two, are reads or
\* are to different slots: no order among them is relied upon.
AccessesApart ==
  \A p, q \in PEs : \A o1 \in Active(p), o2 \in Active(q) :
    /\ FileOf(p) = FileOf(q) /\ <<p, o1>> # <<q, o2>>
    /\ "w" \in {o1.rw, o2.rw}
    => Slots(p, o1) \cap Slots(q, o2) = {}
===========================================================================
