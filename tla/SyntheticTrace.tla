--------------------------- MODULE SyntheticTrace ---------------------------
(***************************************************************************)
(* The logs that src/code/data_gen/synthetic/seq.py and random_reuse.py    *)
(* generate, as input of the labeler. Both deal out new accesses, each at  *)
(* the next offset of one of their files; random_reuse.py, after the first *)
(* window, may repeat the access of the first window at the same place.    *)
(* The random numbers are arbitrary choices. A log that was not generated  *)
(* is that of an application.                                              *)
(***************************************************************************)
EXTENDS Labeler

CONSTANTS
  Fds, Sizes, nr_files, stride,  \* the ranges of the random numbers, and the parameters
  nr_entries                     \* of the scripts

ASSUME TraceAssumption ==
  /\ Sizes \subseteq Nat \ {0} /\ {nr_files, stride} \subseteq Nat \ {0}
  /\ nr_entries \in Nat

VARIABLES
  gen,             \* "none" (an application), or the script: "seq", "random_reuse"
  running,         \* the script has not been stopped
  fd_list,         \* the descriptors, with those that were drawn twice
  dict_fd_offset,  \* the next offset of each
  dict_fd_size,
  access_list,     \* the lines of the first window
  reused           \* the numbers of the lines taken from access_list

genVars == <<gen, running, fd_list, dict_fd_offset, dict_fd_size, access_list, reused>>
allVars == <<vars, genVars>>

window_sz == WINDOW

init_dicts ==
  /\ fd_list \in [1..nr_files -> Fds]
  /\ dict_fd_offset = [fd \in Fds |-> 0]
  /\ dict_fd_size \in [Fds -> Sizes]

TraceInit ==
  /\ Init
  /\ \/ gen = "none"
     \/ gen \in {"seq", "random_reuse"} /\ nr_lines = 0 /\ WINDOW = HUNDRED
  /\ IF gen = "none"
     THEN fd_list = <<>> /\ dict_fd_offset = <<>> /\ dict_fd_size = <<>>
     ELSE init_dicts
  /\ running = (gen # "none")
  /\ access_list = <<>>
  /\ reused = {}
----------------------------------------------------------------------------
\* seq.py writes nr_entries lines, random_reuse.py whole windows.
TraceLength ==
  IF gen = "seq" THEN nr_entries ELSE (nr_entries \div window_sz) * window_sz
Generating == running /\ pc = "idle" /\ nr_lines < TraceLength

\* f.write: the line is the last of the log.
write_outfile(line) ==
  /\ filecontent' = [n \in 0..nr_lines |-> IF n = nr_lines THEN line ELSE filecontent[n]]
  /\ nr_lines' = nr_lines + 1
  /\ UNCHANGED <<WINDOW, faults, pc, i, j, out, runs>>

Line(fd) == [fd |-> fd, offset |-> dict_fd_offset[fd], data |-> <<fd, dict_fd_offset[fd]>>]

\* Mutant: a file is read from the start again after the second access.
MutantGenerateLine(n) ==
  LET fd == fd_list[n]
  IN  /\ write_outfile(Line(fd))
      /\ dict_fd_offset' = [dict_fd_offset EXCEPT ![fd] =
                              IF @ > 0 THEN @ - dict_fd_size[fd] * stride
                                       ELSE @ + dict_fd_size[fd] * stride]

\* A new access, of the n-th descriptor.
generate_line(n) ==
  LET fd == fd_list[n]
  IN  /\ write_outfile(Line(fd))
      /\ dict_fd_offset' = [dict_fd_offset EXCEPT ![fd] = @ + dict_fd_size[fd] * stride]

\* first_time keeps the lines, random_reuse and seq.py do not.
new_access ==
  /\ Generating
  /\ \E n \in 1..nr_files : generate_line(n) /\ access_list' =
       IF gen = "random_reuse" /\ nr_lines < window_sz
       THEN Append(access_list, Line(fd_list[n])) ELSE access_list
  /\ UNCHANGED <<gen, running, fd_list, dict_fd_size, reused>>

random_reuse ==
  /\ Generating
  /\ gen = "random_reuse" /\ nr_lines >= window_sz
  /\ write_outfile(access_list[(nr_lines % window_sz) + 1])
  /\ reused' = reused \cup {nr_lines}
  /\ UNCHANGED <<gen, running, fd_list, dict_fd_offset, dict_fd_size, access_list>>

\* The line cannot be written, which the close in the finally clause turns into an
\* exception, or the script is killed: the log stays as it is.
stop ==
  /\ Generating
  /\ running' = FALSE
  /\ UNCHANGED <<vars, gen, fd_list, dict_fd_offset, dict_fd_size, access_list, reused>>

TraceNext ==
  \/ new_access \/ random_reuse \/ stop
  \/ ~Generating /\ Next /\ UNCHANGED genVars
----------------------------------------------------------------------------
\* What the labels of a generated log are: a line may not be dropped exactly if it
\* repeats an access of the first window that one of the next LOOKAHEAD windows
\* repeats too. New accesses are never taken for one another, even if the same
\* descriptor was drawn for two files, so a log of seq.py has label 1 throughout.
LabelIsReuse ==
  gen # "none" =>
    \A k \in 1..Len(out) :
      LET n == out[k].line
      IN  out[k].label = 0 <=>
            /\ n \in reused
            /\ \E m \in reused : /\ m % window_sz = n % window_sz
                                 /\ m > n /\ m <= n + LOOKAHEAD * window_sz
============================================================================
