# TLA+ specifications of the access-log and cache-cleanup pipeline

The repository collects file accesses of running applications, labels them with
"may be dropped from the cache" or "will be used again", and trains a model on
the labels. This directory holds TLA+ modules for its parts, TLC configurations
that check them on small instances, and TLAPS proofs about the logging library,
the labels, the generated logs, the training data, and the benchmark: its access
protocol, its exchange of matrices, its layout and its strided read. `PROJECT.json`
maps definitions to source lines and lists runs, mutants, findings, hazards and
theorems.

## 1. Inventory

```
 applications (MADbench2, rocksdb, ...)           src/code/apps
      |  fread/read/fwrite/write, LD_PRELOAD
 liblog.so: front end -> back end -> ACCESS_LOG   src/code/data_gen/lib
      |                      synthetic traces     src/code/data_gen/synthetic
 label.py -> labelled log                         src/code/label_gen
      |
 notebook: loader -> transformer -> evaluation    src/code/transformer
```

| Component | State | Operations | What is hard about it |
|---|---|---|---|
| liblog back end (`handler.cpp`) | named semaphore, each process's pointer to it, the log | constructor (`open_sem`), destructor (`dest_sem`), `handle_read`, `handle_write` = `get_sem`, `write_log`, `post_sem` | processes start, exit (unlinking the name others use) and die at any moment; results of `sem_open`, `sem_wait`, `fopen` are not acted on |
| liblog front end (`frontend.cpp`) | descriptor tables of the processes | `fread`, `read`, `fwrite`, `write` | the file is inspected by two more system calls after the access, with other threads in between |
| label generator (`label.py`) | the log, two loop variables, the appended output | one labelled line per turn | windows, lookahead and their boundaries; runs cut short and repeated on the same output |
| MADbench2 collective access (`io_distmatrix`) | barriers, tokens, position of each PE | enter, receive, access, send, leave | two kinds of communicator, group sizes, leftover tokens, deadlock |
| MADbench2 phases (`main`, `build_S`, `calc_W`, `calc_dC`) | data files, own or shared | reads and writes of matrices | W is written over dSdC while that is still being read; gangs run apart |
| MADbench2 layout (`numroc`, `define_gang`) | none | pure functions | incomplete blocks, room in the file |
| MADbench2 strided read | file position, buffer, globals `record_size` and `stride` | one record per `fread` | rounding, int overflow, globals that stay changed |
| MADbench2 exchange of W (`calc_dC`, `get_W`, build that computes) | two buffers per PE, loop a turn behind | read, send, receive, compute | a ring of synchronous sends; the right matrix at the right turn |
| MADbench2 `remap`, `fill` | parts of a matrix in two layouts | send, receive, place | whole matrices are sent before anything is received |
| synthetic traces (`seq.py`, `random_reuse.py`) | offsets per descriptor, first window | one line per turn | descriptors drawn twice; scripts stopped half way |
| training data and training (notebook) | windows, loaders, epoch | split, shuffle, batch, evaluate, train | a labelled log that several runs have written; rounding; empty loaders |
| tensors of the transformer | | | floating point, out of reach |
| measurement scripts, third-party benchmarks | | | not modelled, see section 6 |

What makes each component correct, in short: every logged access has one line,
with its own arguments, and nobody but a dead process blocks the others (back
end); a line gives the position where its access ended (front end); a label says
what the script's comment says it means, for every window (labels); PEs take
turns at the file, never wait for each other in a circle, read back what they
wrote and compute with the matrices they mean (MADbench2); a generated log is
labelled by what the generator meant to be reused, and a model is trained with
windows of the log and measured with others (notebook). The hazards behind these are listed at their source lines in
`PROJECT.json`.

## 2. Modules

| Module | Models | Kind |
|---|---|---|
| `LogHandler` | `handler.cpp`, `con` and `dest` | detailed specification |
| `CallLog` | what the back end promises | abstract specification |
| `AccessLog` | `frontend.cpp` on top of `LogHandler` | composition |
| `Labeler` | `label.py` | specification |
| `SyntheticTrace` | `seq.py`, `random_reuse.py`, as the log of `Labeler` | composition |
| `Notebook` | loading and training, on the output of `Labeler` | composition |
| `Pipeline` | all three | composition |
| `GangIO` | barriers and tokens of `io_distmatrix` | abstract specification of the protocol |
| `MADbench` | program of `main`, files, buffers, requests, on top of `GangIO` | detailed specification |
| `WExchange` | `calc_dC`, `get_W` and `dbydC` of the build that computes | specification |
| `Layout` | `numroc`, `define_gang`, file distances | operators |
| `Remap` | `remap` and `fill`, on top of `Layout` | specification |
| `StridedRead` | strided read, on top of `Layout` | specification |
| `LogHandlerProofs`, `AccessLogProofs`, `PipelineProofs` (also for `Labeler`), `MADbenchProofs` (also for `GangIO`), `WExchangeProofs`, `LayoutProofs`, `StridedReadProofs` | | theorems |
| `ArithmeticLemmas` | | lemmas on division, induction and least elements |
| `MCLogHandler`, `MCAccessLog`, `MCLabeler`, `MCPipeline`, `MCMADbench`, `MCRemap`, `MCWExchange`, `MCStridedRead` | | instances for TLC |

Operators named `Mutant...` are deliberately wrong versions of the definition
that follows them. No specification uses them; each shows that a property can
fail when the code is changed in a plausible way.

### LogHandler and CallLog

A process is `none`, `up`, `exiting`, `exited` or `killed`; a thread is `out` of
the handler or at one of its steps: `wait` (`sem_wait`), `fopen`, `fclose` (the
line reaches the file when it is closed), `post`. Semaphores are numbered in the
order of creation, `linked` is the one the name stands for, `mysemp[p]` the one a
process has open. `CONSTANT Faults` says which failures may happen: `semfail`,
`eintr` (`sem_wait` interrupted, which the handlers ignore), `logfail`, `kill`,
and `reapbusy` (exit while other threads are in the handler). Three history
variables only serve the properties: `held`, the semaphore a thread has
decremented; `spurious`, posts without a wait; `by`, the call each line is of.

`CallLog` is the abstract log: a call is rejected, or accepted and then recorded
once or missed, before it returns. `ImplementsCallLog` is `LogHandler` refining
it under the mapping of `pc` to phases.

### AccessLog

An interposed call is three steps: the real call, `fstat` in `reg_fd`, and
`lseek`/`ftell` with the handler call. `app_file` (external) is any open, close or
seek by the application. `due`, `truth` and `missed` remember what the line
should say; `Raced` marks accesses whose descriptor another thread has changed
since, where the code can give no right answer.

### Labeler, SyntheticTrace, Notebook, Pipeline

`Labeler` has one action per turn of the inner loop. The literal 100 of
`nr_windows` is the constant `HUNDRED`, so that the shipped case `WINDOW = 100` is
`WINDOW = HUNDRED` at any size. A setup gives the window, the failures and the
logs of a run.

`SyntheticTrace` writes the log that `Labeler` reads. Each random number is any
value of its range; `reused` (history) has the lines that repeat an access.

`Notebook` reads the output of `Labeler`, whichever runs have written it, when none
is running. `np.hsplit` is modelled by what it does with a number of sections that
is no integer: it takes the integral part, and whether its test for equal sections
accepts the length depends on rounding, so both outcomes are possible. A window is
a sequence of line numbers; `trained` and `evaluated` are sets of windows. The
cells run in document order, the order of the outputs stored in the notebook;
`cell` is the place, or the exception that ended it.

### GangIO and MADbench

In `GangIO` a PE executes a program: local steps, barriers, and calls of
`io_distmatrix`, each of which is barrier, token, access, token, barrier. A
barrier counts how often each PE has entered it, per communicator, as MPI does.
The program is a parameter: the theorems hold for all programs.

`MADbench` builds the program of `main` for the `-D IO` build from the loops of
`build_S`, `calc_W`, `calc_dC`, `io_resync` and `busy_work`, and adds what the steps
do: opening, filling and emptying buffers, accesses that are carried out at once
(`access`) or started (`post`) and carried out by MPI at any later moment
(`complete`, external). A file consists of slots of `pp_matrix1.offcount` doubles;
a dSdC has one, a W has `no_gang` of them. `-D IO` never computes W, so contents
are "which matrix, which PE" and not values. At first the files hold what an
earlier run has left (`finalize` does not delete them): one value, different from all
matrices, stands for it, since nothing depends on what it is.

`IOMETHOD` and `IOMODE` are part of the configuration:

| | `SYNC` | `ASYNC` | `NONE` |
|---|---|---|---|
| `POSIX` | opening truncates; `access` | opening truncates; `no_access` | no call, no barrier of `io_distmatrix`, no file |
| `MPI` | `access` | `post`, `complete`, `wait` | the same |

`access` stands for the whole branch of `io_distmatrix`: that the strided read returns
the matrix is the subject of `StridedRead`, and an `error_check` that fails ends the
program on all PEs.

### WExchange

A PE is `<<gang, number>>`; a turn is: `io_resync` if need be, fetch the next
matrix (`read`, or one `exchange` with each neighbour), and compute with the
matrix of the turn before (`calc`). `MPI_Ssend` and `MPI_Recv` are one joint step.
Matrices are the numbers of their bins, so that `dLdC` and `d2LdC2` record for
which bins something was computed and from what. `ASYNC` is asynchronous I/O by MPI;
with POSIX nothing would be read (section 4).

### Layout, Remap and StridedRead

`Remap` has one action per message. `send` (buffered) is possible where the shape
says so; a send that waits for its receiver is part of the receiver's step. `fill`
is the set of places and elements that the two loops of `memcpy` write.

All sizes are in doubles. `StridedRead` chooses the command line in `Init`, among
those that the checks of `initialize` accept, and a PE, and makes several reads
with the globals carried over. The int that holds a byte offset wraps at
`INT_DOUBLES`; the product of two ints that overflows (undefined in C) is either
wrapped or exact.

## 3. Runs

| Run | Instance | Shows |
|---|---|---|
| `handler_faults` | 2 processes, 3 threads, 2 calls each, 2 semaphores, all faults | `TypeOK`, `SemConservation`, `MutexPerSemaphore`, `StuckOnlyByDeadHolder`, `SplitOnlyAfterExit`, `OncePerCall`, refinement of `CallLog` |
| `handler_live` | the same with one call per thread, all faults | `HandlerReturns` |
| `frontend` | 2 threads of a process, 2 descriptors, 3 kinds of request, interrupted waits | `LinesExact`, `NoneMissed`, `LoggedOnReturn` |
| `pipeline` | every log of up to 9 lines over 2 accesses with window 2 and of up to 8 lines with window 3 (literal 2), every generated log of up to 9 lines, logs of 11 and 25 lines for the notebook; 2 runs of the labeler, failing or killed | labels: `LabelsRight`, `LoopsInside`, `WholeWindows`, `LaterWindowsLabelled`, `ErrorOnlyAtEnd`, `Terminates`; generated logs: `LabelIsReuse`; notebook: `TrainedWithWindows`, `EvaluatedUnseen`, `ZeroOnlyIfFew` |
| `labeler_doc_example` | window 5, lookahead 1, literal 100 | finding: windows without label |
| `labeler_descriptors` | two processes, one piece of data under two descriptors | finding: label 1 although used |
| `madbench` | 4 PEs in 1 and 2 gangs (POSIX) and in 4 (MPI), synchronous; 2 PEs in 1 gang and 3 PEs in 3 gangs, asynchronous by MPI; 2 PEs with POSIX and `ASYNC`, and with `NONE`; own and shared files, all group sizes | protocol: `OneOfGroup`, `TokenStaysInGang`, `TokensUsedUp`; data: `ReadsItsMatrix`, `AllWritten`, `BuffersQuiet`, `AccessesApart`; `AllFinish` |
| `remap` | 4, 9 and 16 PEs, 1 to 16 gangs, complete and incomplete blocks, every target gang | `Remapped`, `RecvFits`, `AllArrive` |
| `w_exchange` | 1, 4 and 9 gangs, synchronous and asynchronous reads | `MatricesMatch`, `EveryPairOnce`, `AllComputed` |
| `strided_read` | all command lines with `no_pix` up to 6, up to 16 PEs, 2 reads | `ReadExact`, `NoOverrun`, `AbortOnlyOnMisfit`, `RecordPositive`, `LayoutRight` |
| `strided_conditions` | 4 PEs, no overflow | finding: README conditions do not prevent the abort |
| `strided_sticky` | 4 gangs, no overflow | finding: the stride is lost after a small read |

### Bounds

- Back end: two semaphores are what it takes for the name to be unlinked and
  created again while the old one is in use; two calls per thread let a thread
  come back after any fault. The theorems hold without these bounds. For liveness
  one call is enough: three threads in two processes give every way of waiting for
  another's post, and a second call of a thread waits no differently from a first
  call of another.
- Front end: positions 0 and 1 and a `size_t` of four values give short and full
  accesses and a product that wraps to 0. Threads are symmetric.
- `pipeline`, labels: nine lines are four windows of two and a line: one skipped,
  windows with a full, a cut and a minimal lookahead of two windows. The theorems
  hold for all sizes.
- `pipeline`, generators: two files whose descriptors may coincide, nine lines.
- `pipeline`, notebook: only the labels of logs of 11 and 25 lines are read
  (`LogsRead`). They give 4 and 11 windows in one run, up to about twice as many in
  two, and, for a run cut short inside a window, lengths that are no multiple of
  the window. Eleven windows are more than one batch of a tenth of them (batch
  sizes 1 and 2), four are fewer. Two epochs show one evaluation after training.
  A labeler is not started again when the output has more than `MaxOut` lines.
- `madbench`: two gangs of two are the smallest instance with tokens inside a gang
  and gangs that run apart. `initialize` accepts only squares for the numbers of
  PEs and gangs, for the sake of the layout; 16 PEs would be the smallest such
  instance, which is out of TLC's reach. No step of the protocol depends on it, and
  the theorems hold for any number of PEs and gangs. Asynchronous requests
  multiply the interleavings of each PE, so they are checked with gangs of two and
  of one. With POSIX and `ASYNC`, and with `NONE`, nothing is transferred, and two PEs
  show it.
- `remap`: 16 PEs in 4 gangs are the first case in which a target has several
  sources inside and outside its gang. Sends are buffered only with four PEs.
- `w_exchange`: four gangs pass eight matrices round, three turns per matrix; nine
  gangs are the first odd number of gangs greater than one that is a square.
- `strided_read`: with `no_pix` up to 6 and blocks up to 4 there are incomplete
  blocks, PEs with parts of different size, parts smaller than a stride, and parts
  beyond `INT_DOUBLES = 20`. Two reads show the effect of the changed globals.

`CHECK_DEADLOCK FALSE` is set where the system may stop: all calls made, script
done, program aborted. In `madbench`, `remap` and `w_exchange` it is set because
`AllFinish`, `AllArrive` and `AllComputed` are stronger.

### Fairness

`HandlerReturns` assumes that each thread inside the handler keeps running and
that `sem_wait` on a semaphore that stays available returns (weak fairness of the
steps of a thread); with a finite number of calls no stronger fairness is needed.
An interrupted wait is not among those steps: nothing makes a signal come. Deaths
and failures may happen; the property itself excepts the one case in which the
others really wait forever, a thread that died with the semaphore.

`Terminates` assumes that the labeler is scheduled while it runs. `AllFinish`,
`AllArrive` and `AllComputed` assume only that something happens as long as
something can: every PE is a process of its own, and MPI delivers messages, completes
barriers and carries out requests. Since no step of another PE repeats forever,
that is enough.

## 4. What the findings say

1. `label.py` computes the number of windows with the literal 100. With the values
   of its own example comment (window 5) windows get no label.
2. `check_access` compares descriptor numbers, so the same data under another
   number is not seen, although the comment says "by any process".
3. MADbench2 aborts in the strided read although both conditions of its README are
   met: they speak of the whole matrix, the read of a PE's part.
4. A read of a part that is smaller than a stride sets the globals `record_size`
   and `stride` for good; later, larger matrices are read without the stride.

Five properties hold only under a condition that is part of their statement and
worth knowing. `TrainedWithWindows`: if two runs of the labeler on the same output
were cut short inside a window, the missing parts can add up to a whole window, and
the notebook trains with windows that are none of the log without noticing.
`EvaluatedUnseen`: if a line is twice in the labelled log (the labeler was run
twice), it can be both trained and measured with.
`OneOfGroup`: the README of MADbench2 says of RMOD that "1:RMOD processors will read
at once" (`src/code/apps/strided_MADbench/README:10`). This is so with `IOMODE=SYNC`
only. With `IOMETHOD=MPI` and `IOMODE=ASYNC` the token is passed on
(`MADbench2.c:1211`) as soon as the request is posted (1202, 1205), and TLC finds two
PEs of a group with requests under way when the condition is left out; the tokens
then order the posting and not the accesses.
`ReadsItsMatrix` and `AllWritten`: that README offers `IOMETHOD = POSIX | MPI` and
`IOMODE = SYNC | ASYNC` as independent choices (lines 23 and 24). With POSIX, the
default, and `ASYNC`, the branch of `io_distmatrix` reads and writes nothing (it tests
for `SYNC` at 1097 and 1178) and `io_resync` waits for nothing (1244): all barriers
and tokens are gone through, the files end up empty, and `calc_W` and `calc_dC` copy
from buffers that were never filled, without an error. The two properties state this
outcome beside the ordinary one.

## 5. Proofs

The theorems hold for all values of the constants that satisfy the named `ASSUME`
of the module, which every instance above satisfies as well: `HandlerAssumption`,
`FrontAssumption`, `LabelerAssumption`, `TraceAssumption`, `NotebookAssumption`
(batch sizes are positive), `GangAssumption`, `MadAssumption`, `SizeAssumption`
(positive numbers of gangs, PEs and bins, the bins a multiple of the gangs, as
`initialize` demands), `StridedAssumption`.

Where a proof needs induction over numbers it uses lemma `NatIn` of
`ArithmeticLemmas`: a set that contains 0 and the successors of its elements
contains every number. It has a set where the library's theorem has an operator,
so that the provers can instantiate it; `Least` is the same for the least number
of a set.

### Logging library (`LogHandlerProofs`)

For all finite sets of threads, any processes, arguments, bounds and faults:

| Theorem | Property |
|---|---|
| `TypeCorrect` | `TypeOK` |
| `Conservation` | `SemConservation` |
| `MutualExclusion` | `MutexPerSemaphore` |
| `MutualExclusionNoSignals` | without interrupted waits, plain mutual exclusion |
| `NeverLeftTaken` | `StuckOnlyByDeadHolder` |
| `SplitNeedsExit` | `SplitOnlyAfterExit` |
| `LoggedOnce` | `OncePerCall` |
| `Refinement` | `ImplementsCallLog` |

The inductive invariant `SemInv` adds to the types and the conservation law what
ties a thread to its semaphore: a thread that has decremented one is in
`write_log`, or died there, and still has the same pointer (`HeldInLog`); a process
that has not started has no thread in the handler (`NotStarted`); pointers and the
name only refer to semaphores that were created (`Generations`); and without
interrupted waits every thread in `write_log` holds its semaphore (`NoBarging`).
Conservation alone is not inductive: `post_sem` increments the semaphore the
process points to, and only `HeldInLog` says that this is the one the thread
decremented. Mutual exclusion then follows by counting: two holders are more than
the initial value 1. `SplitNeedsExit` needs `OneGeneration` (before the first
destructor there is at most one semaphore), `LoggedOnce` needs `NotYetLogged`
(the call a thread is in has no line yet, and no line is of a later call).

### The whole library (`AccessLogProofs`)

For any processes, threads, descriptors, requests and faults:

| Theorem | Property |
|---|---|
| `LibraryRunsHandlers` | every run of `AccessLog` is one of `LogHandler`, so all of the above holds of it |
| `LibraryExclusion`, `LibraryRefinement` | `MutexPerSemaphore` and `ImplementsCallLog` for the whole library |
| `FrontInvariant` | the inductive invariant `FrontInv` |
| `LinesAlwaysExact` | `LinesExact` |
| `NoAccessMissed` | `NoneMissed` |
| `AccessLogged` | `LoggedOnReturn` |

The line of an access is written many steps after the access, by a handler that
knows only its arguments. `FrontInv` follows the access on its way: between the real
call and the handler, what is due is what `fstat` and `lseek` would say now, unless
the thread was overtaken (`Dues`); inside the handler the arguments are those of the
current call, and no line is of a call not made (`Carried`, which gives
`LinesExact`); and each call that is due a line has one, or is the current call and
has not reached `fclose` (`NotDropped`, which gives `LoggedOnReturn`). `Dues` is what
an action of another thread or of the application could break; it is kept because
`app_file` and the real calls mark as `Raced` exactly the threads that are between
the steps of a call on the same descriptor.

### Labels (`PipelineProofs`, first part)

For every log, window, lookahead, value of the literal, and order of failures and
restarts:

| Theorem | Property |
|---|---|
| `LoopsInWindow` | the inductive invariant `LoopInv` |
| `LabelsAlwaysRight` | `LabelsRight` |
| `LoopsStayInside` | `LoopsInside` |
| `ErrorComesLast` | `ErrorOnlyAtEnd` |
| `NoWindowLeftOut` | `LaterWindowsLabelled`, assuming that no window is smaller than the literal |
| `WholeWindowsAlways` | `WholeWindows` |

`LoopInv` says that the inner loop is at a line of the window the outer loop is at,
and that this is one of the windows counted. `LabelsRight` is then inductive: the
code looks at a range of lines, the property speaks of windows by division, and
lemma `CheckAccess` shows them to be the same using that line `j` is in window `i`
(`InWindow`). `CoverInv` says which lines must have a label by now; the assumption
of `NoWindowLeftOut` is exactly what finding 1 violates. `OnceInv` says that the
output of a first run is a copy of the log up to line `j`.

### Generated logs, training data and the pipeline (`PipelineProofs`)

| Theorem | Property |
|---|---|
| `PipelineLabelsRight` | `LabelsRight` under `PipeSpec` |
| `PipelineWholeWindows` | `WholeWindows` under `PipeSpec` |
| `GeneratedLabels` | `LabelIsReuse` |
| `ZeroDivisionOnlyIfFew` | `ZeroOnlyIfFew` |
| `EvaluationUnseen` | `EvaluatedUnseen` |
| `TrainingWindows` | `TrainedWithWindows` |

A step of the pipeline is one of the labeler, none for it, or a line added to the
log before the labeler is started (`PipeSteps`); the invariants of the labeler
survive the last because there is no output yet (`OutInv`). `GenInv` is about the
log alone: every offset dealt out is below the next offset of its descriptor,
whichever files share that descriptor, so two lines that agree are an access and
its repetition, and a repetition agrees with the line of the first window at the
same place. `GeneratedLabels` combines it with `LabelsRight`.

`NotebookInv` says that the windows are those `np.hsplit` cuts the output into, that
from `get_data_loader` on the loaders divide them, that training has used windows of
one part and evaluation of the other, and that no training is done before an
evaluation went well. `EvaluationUnseen` then needs that different windows have
different lines: the pieces of a cut do not overlap (`Cutting`, `Apart`).
`TrainingWindows` is the deepest of them, since it is about outputs that several runs
have written. `RunsInv` says that the output is a row of runs, each going up by one
from the line `WINDOW` on. The model is trained only if all pieces have the length of
a window (`EvenPieces`), so the output is a whole number of windows long. Then a single
run that was cut short inside a window is impossible, since all others contribute
whole windows (`NoneTorn`), and every piece is a window of the log (`WindowOf`).

### Access protocol of MADbench2 (`MADbenchProofs`)

For any number of PEs and gangs, every program, and all group sizes that
`initialize` accepts:

| Theorem | Property |
|---|---|
| `Protocol` | one holder of each token (`OneHolder`), `TokenStaysInGang`, `TokensUsedUp` and `TypeOK`, of `GangIO` |
| `MadImplementsGangIO` | every run of `MADbench` is one of `GangIO` |
| `GroupsSerialised` | `OneOfGroup`, of `MADbench` |
| `TokensStay` | `TokenStaysInGang` |
| `NoTokenLeftOver` | `TokensUsedUp` |
| `ProtocolTypes` | `TypeOK` |

The inductive invariant `GangInv` rests on counting. `Base(n, g)` is the number of
barriers of gang `g` in the first `n - 1` operations; a PE has entered that many,
and those of its current operation (`BarInv`), and whoever has left a barrier, all
of the gang have entered it (`SyncInv`). Lemma `Together` follows: if a PE is inside
a call of `io_distmatrix`, every other member of the gang is in the same call, at
least at its first barrier and at most past its last, although the two gangs count
separately and local steps and operations of the other gang lie in between. With
it `TokInv` (a PE has a token exactly if its predecessor in the group has passed it
on in this call) and `OrderInv` (who is at the file has all those before it in its
group behind it) are preserved: without `Together` a PE could receive a token of a
later call. `GroupsSerialised` needs two things more: PEs of a gang that are at the
file are in the same call, again by `Together`, and synchronous I/O leaves no request
behind (`NoRequests`, an invariant of `MADbench`).

### Exchange of W (`WExchangeProofs`)

For any number of gangs, PEs and bins, synchronous and asynchronous:

| Theorem | Property |
|---|---|
| `MatricesAlwaysMatch` | `MatricesMatch` |
| `PairsComputedOnce` | `EveryPairOnce` |

`RingInv` gives, for each PE by itself, what is in its buffers at each stage of a
turn: the matrix of the turn before, sent or not (`Fetched`), and those it computes
with (`Taken`), as functions of the number of the turn (`Share`). Nothing in it
relates two PEs, although gangs may be turns apart: a message carries its row as tag,
so a sender and a receiver that meet are at the same row, and what the one holds from
the row before is what the other is due for this one (`ShareRing`). `Computed` says
that each turn has left its bins behind; `PairsComputedOnce` then finds the turn of
a pair of bins, and shows that no other gang has it since the column of a bin
determines the gang.

### Layout (`LayoutProofs`) and strided read (`StridedReadProofs`)

For every command line that `initialize` accepts, every PE, any sequence of reads
and any width of int:

| Theorem | Property |
|---|---|
| `LayoutSound` | every row and column falls to one PE and one place, in both layouts, and every part fits its place in the file |
| `AcceptedLayoutSound` | `LayoutRight` |
| `ReadsExactly` | `ReadExact` |
| `ReadsWithinBuffer` | `NoOverrun` |
| `AbortsOnlyOnMisfit` | `AbortOnlyOnMisfit` |
| `RecordsNeverEmpty` | `RecordPositive` |

`LayoutSound` writes a row as block, turn and place in the block (`Digits`), and
shows that `numroc` counts the rows dealt to a PE (`NumrocIs`, `Dealt`), the last
incomplete block included. That a gang is a square of PEs when the numbers of PEs and
of gangs are squares is `SquareQuotient`: a square divided by a square it is a
multiple of is a square. It is proved by descent.

The inner state of a strided read is two loop variables, a position that moves with
every `fread` and `fseek`, and the place in the buffer. `Progress` of `ReadInv` ties
them together while the part is small enough for the int: position and place are
products of the loop variables, and the doubles of all records before the current
one, in the order of the two loops, are in place (`Got`). A read that ends has passed
all records (`AllGot`). `ReadInv` also keeps the record positive whatever earlier
reads have made of it. For parts too large for the int (`Small`) only that is
claimed.

### Only model-checked

- `HandlerReturns`, `Terminates`, `AllFinish`, `AllArrive`, `AllComputed`: liveness
  under fairness, which the proof system does not support.
- `ReadsItsMatrix`, `AllWritten`, `BuffersQuiet` and `AccessesApart` of `MADbench`: the
  theorems on the protocol hold for every program, these only for the one of `main`,
  a sequence put together by nested loops. An invariant has to say what each
  operation of that sequence finds, by induction over it.
- `Remapped` and `RecvFits` of `Remap`: the order of its messages is computed by
  selecting from sequences with an operator, which the provers cannot instantiate.

## 6. Not modelled, and why

- Third-party programs: `rocksdb`, `leveldb`, `graphchi`, `Metis` and `NPB3.4-MPI`
  under `src/code/apps` are other projects' releases, run under the logging library
  as workloads. They are over 99% of the lines under `src/`, so the modules
  cover a small share of all lines; of the code that is the project's own (the
  library, the scripts, the notebook's code cells and the modified MADbench2) they
  cover all that changes state, apart from the following.
- The numerical kernels of MADbench2 (`build_dSdC`, `invert_D`, the products in
  `dbydC`) and the tensors of the transformer are floating-point computations. Their
  control is modelled: which elements a PE has, which bins are multiplied, which
  windows are trained with.
- Notebook: plots and printing, the freezing of parameters before the transfer, and
  cells run out of order. The transfer is a training of its own, on other data.
- Timers, printing and the creation of the directory in MADbench2; `REMAP=SCALAPACK`,
  which is a library call.
- Values of `IOMETHOD` and `IOMODE` other than those of the table in section 2, which
  the code does not reject.
- Failing system calls of MADbench2: `error_check` aborts the whole program.
- Lines of the log and of the labelled file are appended whole. A line is far
  below the size at which an append is split; a full disk could tear one.
- `fork` of a process with liblog loaded (parent and child share the semaphore, as
  two processes that opened it do), and the effect of the handlers on `errno`.
- A generator started a second time on the same output.
- The measurement scripts, which start one run after another.

## 7. What could come next

1. Invariants for the program of `main`, stated once per operation of each phase, and
   from them `BuffersQuiet` and `ReadsItsMatrix` for any number of bins and gangs.
2. `Remap` with the loops of the code in place of selected sequences, and a proof of
   `Remapped` from `LayoutSound`.
