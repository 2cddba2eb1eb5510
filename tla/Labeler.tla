------------------------------ MODULE Labeler ------------------------------
(***************************************************************************)
(* src/code/label_gen/label.py.  The script reads an access log, and for   *)
(* each window of WINDOW lines appends those lines to the output file with *)
(* a label: 0 when the same descriptor and offset occur again within the   *)
(* LOOKAHEAD*WINDOW lines after the window, 1 (the data may be dropped)    *)
(* when they do not.  The output file is opened for appending, line by     *)
(* line, so a run that stops half way leaves its output for the next one.  *)
(*                                                                         *)
(* Lines are numbered from 0, as in the script.  The number of windows is  *)
(* computed with the literal 100, which is the constant HUNDRED here.      *)
(***************************************************************************)
EXTENDS Integers, Sequences, FiniteSets

CONSTANTS
  LOOKAHEAD, HUNDRED,
  Setups,     \* what the script is run with: [WINDOW, faults, logs], logs being a set of
              \* functions from line numbers to lines and faults among {"iofail", "kill"}.
              \* A line is [fd, offset], the fields that are compared, and [data], the
              \* data that was accessed, which the log does not say.
  MaxRuns,    \* bound: times the script is started
  MaxOut      \* bound: lines in the output when the script is started again

ASSUME LabelerAssumption ==
  /\ LOOKAHEAD \in Nat \ {0} /\ HUNDRED \in Nat \ {0}
  /\ MaxRuns \in Nat /\ MaxOut \in Nat
  /\ \A s \in Setups :
       /\ s.WINDOW \in Nat \ {0} /\ s.faults \subseteq {"iofail", "kill"}
       /\ \A f \in s.logs : /\ IsFiniteSet(DOMAIN f)
                             /\ DOMAIN f = 0..(Cardinality(DOMAIN f) - 1)

VARIABLES
  WINDOW, faults, \* the setup
  filecontent,    \* the log
  nr_lines,       \* its number of lines
  pc,             \* "idle", "main", "done", "killed", or the exception that ended the script
  i, j,           \* the loop variables of main
  out,            \* the output file: [line, label], line being a line number
  runs            \* the number of times the script has been started

setup == <<WINDOW, faults, filecontent, nr_lines>>
vars == <<setup, pc, i, j, out, runs>>

\* Mutant: without the -1, the last window may end where the log ends.
MutantWindowsAll == nr_lines \div HUNDRED

\* Mutant: only windows whose lookahead is in the log as a whole.
MutantWindowsFull == ((nr_lines - 1) \div HUNDRED) - LOOKAHEAD

nr_windows == IF nr_lines = 0 THEN 0 ELSE (nr_lines - 1) \div HUNDRED

\* Mutant: the start of a window is computed before i is advanced.
MutantEnter(w) ==
  /\ i' = w
  /\ j' = i * WINDOW
  /\ pc' = IF w < nr_windows THEN "main" ELSE "done"

\* The outer loop comes to window w, or ends.
Enter(w) ==
  /\ i' = w
  /\ j' = w * WINDOW
  /\ pc' = IF w < nr_windows THEN "main" ELSE "done"

Init ==
  \E s \in Setups :
    /\ WINDOW = s.WINDOW /\ faults = s.faults
    /\ filecontent \in s.logs
    /\ nr_lines = Cardinality(DOMAIN filecontent)
    /\ pc = "idle" /\ i = 1 /\ j = WINDOW
    /\ out = <<>>
    /\ runs = 0

\* Mutant: the range of the lookahead includes its end.
MutantInclusive(k, start_line, check_nr_lines) ==
  LET end_line == IF start_line + check_nr_lines >= nr_lines
                  THEN nr_lines - 1 ELSE start_line + check_nr_lines
  IN  \E m \in start_line..end_line :
        /\ filecontent[m].fd = filecontent[k].fd
        /\ filecontent[m].offset = filecontent[k].offset

\* The lines range(start, end) that the log has, and whether one is the same
\* access as line k: same descriptor and offset, whichever the process.
check_access(k, start_line, check_nr_lines) ==
  LET end_line == IF start_line + check_nr_lines > nr_lines
                  THEN nr_lines ELSE start_line + check_nr_lines
  IN  \E m \in start_line..(end_line - 1) :
        /\ filecontent[m].fd = filecontent[k].fd
        /\ filecontent[m].offset = filecontent[k].offset

\* Mutant: a line that is accessed again is passed over, without the step of j.
MutantNoStep ==
  /\ pc = "main"
  /\ j < nr_lines
  /\ LET end == (i + 1) * WINDOW
     IN  IF check_access(j, end, LOOKAHEAD * WINDOW)
         THEN UNCHANGED <<i, j, pc, out>>
         ELSE /\ out' = Append(out, [line |-> j, label |-> 1])
              /\ IF j + 1 < end THEN j' = j + 1 /\ UNCHANGED <<i, pc>> ELSE Enter(i + 1)
  /\ UNCHANGED <<setup, runs>>

\* One turn of the inner loop: the line, its label, one append to the output.
label_line ==
  /\ pc = "main"
  /\ j < nr_lines
  /\ LET end == (i + 1) * WINDOW
         label == IF check_access(j, end, LOOKAHEAD * WINDOW) THEN 0 ELSE 1
     IN  /\ out' = Append(out, [line |-> j, label |-> label])
         /\ IF j + 1 < end THEN j' = j + 1 /\ UNCHANGED <<i, pc>> ELSE Enter(i + 1)
  /\ UNCHANGED <<setup, runs>>

\* Mutant: the last line of the log is out of range.
MutantIndexError ==
  /\ pc = "main"
  /\ j >= nr_lines - 1
  /\ pc' = "IndexError"
  /\ UNCHANGED <<setup, i, j, out, runs>>

\* filecontent[j] raises IndexError.
index_error ==
  /\ pc = "main"
  /\ j >= nr_lines
  /\ pc' = "IndexError"
  /\ UNCHANGED <<setup, i, j, out, runs>>

\* The output cannot be opened or written.  The handler prints and returns,
\* but the close in the finally clause raises: f is unbound, or still failing.
write_fails ==
  /\ "iofail" \in faults
  /\ pc = "main" /\ j < nr_lines
  /\ pc' = "IOError"
  /\ UNCHANGED <<setup, i, j, out, runs>>

kill ==
  /\ "kill" \in faults
  /\ pc = "main"
  /\ pc' = "killed"
  /\ UNCHANGED <<setup, i, j, out, runs>>

\* The script is started, also again, on the same log and the same output file.
start ==
  /\ pc # "main"
  /\ runs < MaxRuns /\ Len(out) <= MaxOut
  /\ runs' = runs + 1
  /\ Enter(1)
  /\ UNCHANGED <<setup, out>>

Next == label_line \/ index_error \/ write_fails \/ kill \/ start

Spec == Init /\ [][Next]_vars
----------------------------------------------------------------------------
\* With WINDOW equal to the literal 100 the loops stay inside the log, and the
\* window that is being labelled is followed by at least one line, so that a
\* label 1 is never given for want of anything to look at.
LoopsInside ==
  WINDOW = HUNDRED => (pc = "main" => j < nr_lines /\ (i + 1) * WINDOW < nr_lines)

\* What the module comment of label.py asks of a label: the data point may be
\* removed exactly if it is not accessed again in the WINDOW*LOOKAHEAD accesses
\* after its window (as far as the log goes).
Reused(k) ==
  \E m \in DOMAIN filecontent :
    /\ (k \div WINDOW) + 1 <= m \div WINDOW
    /\ m \div WINDOW <= (k \div WINDOW) + LOOKAHEAD
    /\ filecontent[m].fd = filecontent[k].fd
    /\ filecontent[m].offset = filecontent[k].offset

\* Every line in the output has the label that the comment asks for, whichever
\* runs of the script have written it and wherever they were cut short.
LabelsRight ==
  \A k \in 1..Len(out) : out[k].label = 0 <=> Reused(out[k].line)

\* A script that was never cut short leaves whole windows, one after another
\* from the second on: line WINDOW + k of the log is line k of the output, and
\* when it is done the number of lines is a multiple of WINDOW.
WholeWindows ==
  runs = 1 /\ WINDOW = HUNDRED =>
    /\ \A k \in 1..Len(out) : out[k].line = WINDOW + k - 1
    /\ pc = "done" => Len(out) % WINDOW = 0

LabelledLines == {out[k].line : k \in 1..Len(out)}
Covered(w) == \A k \in w * WINDOW .. (w + 1) * WINDOW - 1 : k \in LabelledLines

\* When the script is done it has labelled every window, from the second on,
\* that is followed by another line: a decision after every WINDOW.
LaterWindowsLabelled ==
  pc = "done" =>
    \A w \in 1..nr_lines : (w + 1) * WINDOW < nr_lines => Covered(w)

\* A WINDOW that is not the literal 100 can lead the loops past the end of the
\* log, but the IndexError comes only after the last line has its label.
ErrorOnlyAtEnd ==
  pc = "IndexError" => \A k \in WINDOW..(nr_lines - 1) : k \in LabelledLines

\* "If the ML model wants to remove this data point, then ideally it must not
\* be accessed again (by any process)": data labelled 1 is not accessed by the
\* lines of the lookahead, under whatever descriptor.
RemovedNotAccessed ==
  \A k \in 1..Len(out) : out[k].label = 1 =>
    LET end == ((out[k].line \div WINDOW) + 1) * WINDOW
    IN  \A m \in DOMAIN filecontent :
          end <= m /\ m < end + LOOKAHEAD * WINDOW =>
            filecontent[m].data # filecontent[out[k].line].data

\* The script comes to an end, however often it is started.
Terminates == pc = "main" ~> pc # "main"
============================================================================
