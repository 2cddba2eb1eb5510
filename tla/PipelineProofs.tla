--------------------------- MODULE PipelineProofs ---------------------------
(***************************************************************************)
(* Theorems about Labeler, for every WINDOW, LOOKAHEAD, value of the       *)
(* literal 100, log and order of failures and restarts; then the same for  *)
(* the whole way from the log to the model, and what the labels of a       *)
(* generated log are, for every choice of the generators' random numbers   *)
(* and parameters; then what the notebook makes of the labelled log, for   *)
(* every way to shuffle and divide it.                                     *)
(***************************************************************************)
EXTENDS Pipeline, ArithmeticLemmas, FiniteSetTheorems, SequenceTheorems, TLAPS
----------------------------------------------------------------------------
\* The types, and where the loops are: line j is in window i, which is one of the
\* windows of the outer loop.
LoopInv ==
  /\ WINDOW \in Nat \ {0}
  /\ nr_lines \in Nat
  /\ DOMAIN filecontent = 0..(nr_lines - 1)
  /\ pc \in {"idle", "main", "done", "killed", "IndexError", "IOError"}
  /\ i \in Nat /\ j \in Nat
  /\ out \in Seq([line : 0..(nr_lines - 1), label : {0, 1}])
  /\ runs \in Nat
  /\ pc = "main" => /\ 1 <= i /\ i < nr_windows
                    /\ i * WINDOW <= j /\ j < (i + 1) * WINDOW

LEMMA WindowsNat ==
  ASSUME nr_lines \in Nat
  PROVE  nr_windows \in Nat
<1>1. HUNDRED \in Nat \ {0}
  BY LabelerAssumption
<1>2. CASE nr_lines = 0
  BY <1>2 DEF nr_windows
<1>3. CASE nr_lines # 0
  BY <1>1, <1>3, Division DEF nr_windows
<1> QED
  BY <1>2, <1>3

LEMMA LoopInit == Init => LoopInv
<1> SUFFICES ASSUME Init PROVE LoopInv
  OBVIOUS
<1>1. PICK s \in Setups : /\ WINDOW = s.WINDOW /\ filecontent \in s.logs
                          /\ nr_lines = Cardinality(DOMAIN filecontent)
                          /\ pc = "idle" /\ i = 1 /\ j = WINDOW /\ out = <<>> /\ runs = 0
  BY DEF Init
<1>2. /\ WINDOW \in Nat \ {0}
      /\ IsFiniteSet(DOMAIN filecontent)
      /\ DOMAIN filecontent = 0..(nr_lines - 1)
  BY <1>1, LabelerAssumption
<1>3. nr_lines \in Nat
  BY <1>1, <1>2, FS_CardinalityType
<1> QED
  BY <1>1, <1>2, <1>3 DEF LoopInv

\* The outer loop comes to a window, or to its end.
LEMMA EnterLoop ==
  ASSUME LoopInv, NEW w \in Nat, 1 <= w, Enter(w), UNCHANGED <<WINDOW, nr_lines>>
  PROVE  /\ i' \in Nat /\ j' \in Nat /\ pc' \in {"main", "done"}
         /\ pc' = "main" => /\ 1 <= i' /\ i' < nr_windows'
                            /\ i' * WINDOW' <= j' /\ j' < (i' + 1) * WINDOW'
<1>1. nr_windows' = nr_windows /\ nr_windows \in Nat
  BY WindowsNat DEF LoopInv, nr_windows
<1>2. w * WINDOW \in Nat /\ (w + 1) * WINDOW = w * WINDOW + WINDOW
  BY Z3 DEF LoopInv
<1>3. i' = w /\ j' = w * WINDOW /\ pc' = IF w < nr_windows THEN "main" ELSE "done"
  BY DEF Enter
<1> QED
  BY <1>1, <1>2, <1>3 DEF LoopInv

\* The entry label_line appends.
LEMMA Appended ==
  ASSUME LoopInv, label_line
  PROVE  \E e \in [line : 0..(nr_lines - 1), label : {0, 1}] :
           /\ out' = Append(out, e)
           /\ e.line = j
           /\ e.label = 0 <=> check_access(j, (i + 1) * WINDOW, LOOKAHEAD * WINDOW)
<1> DEFINE l == IF check_access(j, (i + 1) * WINDOW, LOOKAHEAD * WINDOW) THEN 0 ELSE 1
           e == [line |-> j, label |-> l]
<1>1. out' = Append(out, e)
  BY DEF label_line
<1>2. j \in 0..(nr_lines - 1)
  BY DEF label_line, LoopInv
<1>3. e \in [line : 0..(nr_lines - 1), label : {0, 1}] /\ e.line = j
  BY <1>2
<1>4. e.label = 0 <=> check_access(j, (i + 1) * WINDOW, LOOKAHEAD * WINDOW)
  OBVIOUS
<1> QED
  BY <1>1, <1>3, <1>4

LEMMA LoopStep == LoopInv /\ [Next]_vars => LoopInv'
<1> SUFFICES ASSUME LoopInv, [Next]_vars PROVE LoopInv'
  OBVIOUS
<1>1. CASE label_line
  <2>1. UNCHANGED <<WINDOW, nr_lines, filecontent, runs>>
    BY <1>1 DEF label_line, setup
  <2>2. out' \in Seq([line : 0..(nr_lines - 1), label : {0, 1}])
    <3>1. PICK e \in [line : 0..(nr_lines - 1), label : {0, 1}] : out' = Append(out, e)
      BY <1>1, Appended
    <3> QED
      BY <3>1 DEF LoopInv
  <2>3. CASE j + 1 < (i + 1) * WINDOW
    <3>1. j' = j + 1 /\ UNCHANGED <<i, pc>>
      BY <1>1, <2>3 DEF label_line
    <3>2. nr_windows' = nr_windows
      BY <2>1 DEF nr_windows
    <3>3. i * WINDOW \in Nat /\ (i + 1) * WINDOW \in Nat
      BY Z3 DEF LoopInv
    <3> QED
      BY <2>1, <2>2, <2>3, <3>1, <3>2, <3>3 DEF LoopInv
  <2>4. CASE ~(j + 1 < (i + 1) * WINDOW)
    <3>1. Enter(i + 1)
      BY <1>1, <2>4 DEF label_line
    <3>2. i + 1 \in Nat /\ 1 <= i + 1
      BY DEF LoopInv
    <3> HIDE DEF Enter
    <3> QED
      BY <2>1, <2>2, <3>1, <3>2, EnterLoop DEF LoopInv
  <2> QED
    BY <2>3, <2>4
<1>2. CASE start
  <2>1. Enter(1) /\ UNCHANGED <<WINDOW, nr_lines, filecontent, out>> /\ runs' = runs + 1
    BY <1>2 DEF start, setup
  <2> QED
    BY <2>1, EnterLoop DEF LoopInv
<1>3. CASE index_error \/ write_fails \/ kill
  BY <1>3, Zenon DEF index_error, write_fails, kill, setup, LoopInv, nr_windows
<1>4. CASE UNCHANGED vars
  BY <1>4 DEF vars, setup, LoopInv, nr_windows
<1> QED
  BY <1>1, <1>2, <1>3, <1>4 DEF Next

\* WINDOW and the log never change, and a step appends to the output at most the
\* line that label_line has come to.
LEMMA OutStep ==
  ASSUME LoopInv, [Next]_vars
  PROVE  /\ UNCHANGED setup
         /\ \/ out' = out
            \/ /\ label_line
               /\ \E e \in [line : 0..(nr_lines - 1), label : {0, 1}] :
                    /\ out' = Append(out, e)
                    /\ e.line = j
                    /\ e.label = 0 <=> check_access(j, (i + 1) * WINDOW, LOOKAHEAD * WINDOW)
<1>1. CASE label_line
  BY <1>1, Appended DEF label_line
<1>2. CASE index_error \/ write_fails \/ kill \/ start
  BY <1>2 DEF index_error, write_fails, kill, start
<1>3. CASE UNCHANGED vars
  BY <1>3 DEF vars
<1> QED
  BY <1>1, <1>2, <1>3 DEF Next
----------------------------------------------------------------------------
\* check_access looks at exactly the lines of the LOOKAHEAD windows after window i.
LEMMA CheckAccess ==
  ASSUME LoopInv, pc = "main"
  PROVE  check_access(j, (i + 1) * WINDOW, LOOKAHEAD * WINDOW) <=> Reused(j)
<1> DEFINE end == (i + 1) * WINDOW
           after == (i + 1 + LOOKAHEAD) * WINDOW
           Same(m) == /\ filecontent[m].fd = filecontent[j].fd
                      /\ filecontent[m].offset = filecontent[j].offset
<1>1. /\ WINDOW \in Nat \ {0} /\ nr_lines \in Nat /\ i \in Nat /\ j \in Nat
      /\ LOOKAHEAD \in Nat \ {0}
      /\ DOMAIN filecontent = 0..(nr_lines - 1)
  BY LabelerAssumption DEF LoopInv
<1>2. /\ end \in Nat /\ after \in Nat
      /\ end + LOOKAHEAD * WINDOW = after
  BY <1>1, Z3
<1>3. j \div WINDOW = i
  BY <1>1, InWindow, Zenon DEF LoopInv
<1>4. ASSUME NEW m \in 0..(nr_lines - 1)
      PROVE  /\ (j \div WINDOW) + 1 <= m \div WINDOW <=> end <= m
             /\ m \div WINDOW <= (j \div WINDOW) + LOOKAHEAD <=> m < after
  <2>1. (i + 1) <= m \div WINDOW <=> end <= m
    BY <1>1, WindowFrom
  <2>2. (i + 1 + LOOKAHEAD) <= m \div WINDOW <=> after <= m
    BY <1>1, WindowFrom
  <2>3. m \div WINDOW \in Nat
    BY <1>1, Division
  <2> HIDE DEF end, after
  <2> QED
    BY <1>1, <1>2, <1>3, <2>1, <2>2, <2>3
<1>5. Reused(j) <=> \E m \in 0..(nr_lines - 1) : end <= m /\ m < after /\ Same(m)
  BY <1>1, <1>4, Zenon DEF Reused
<1>6. check_access(j, end, LOOKAHEAD * WINDOW)
        <=> \E m \in 0..(nr_lines - 1) : end <= m /\ m < after /\ Same(m)
  <2>1. check_access(j, end, LOOKAHEAD * WINDOW)
          <=> \E m \in end..((IF after > nr_lines THEN nr_lines ELSE after) - 1) : Same(m)
    BY <1>2 DEF check_access
  <2> HIDE DEF end, after, Same
  <2> QED
    BY <1>1, <1>2, <2>1
<1> QED
  BY <1>5, <1>6

\* Labels already in the output stay right: they depend on the log only.
LEMMA LabelsStep == LoopInv /\ LabelsRight /\ [Next]_vars => LabelsRight'
<1> SUFFICES ASSUME LoopInv, LabelsRight, [Next]_vars PROVE LabelsRight'
  OBVIOUS
<1>1. UNCHANGED <<WINDOW, filecontent>>
  BY OutStep DEF setup
<1>2. ASSUME NEW k PROVE Reused(k)' <=> Reused(k)
  BY <1>1 DEF Reused
<1>3. CASE out' = out
  BY <1>2, <1>3 DEF LabelsRight
<1>4. ASSUME label_line,
             NEW e \in [line : 0..(nr_lines - 1), label : {0, 1}],
             out' = Append(out, e), e.line = j,
             e.label = 0 <=> check_access(j, (i + 1) * WINDOW, LOOKAHEAD * WINDOW)
      PROVE  LabelsRight'
  <2>1. e.label = 0 <=> Reused(e.line)
    BY <1>4, CheckAccess DEF label_line
  <2>2. out \in Seq([line : 0..(nr_lines - 1), label : {0, 1}])
    BY DEF LoopInv
  <2>3. /\ Len(out') = Len(out) + 1 /\ out'[Len(out) + 1] = e
        /\ \A k \in 1..Len(out) : out'[k] = out[k]
    BY <1>4, <2>2
  <2>4. ASSUME NEW k \in 1..Len(out') PROVE out'[k].label = 0 <=> Reused(out'[k].line)
    <3>1. CASE k = Len(out) + 1
      BY <2>1, <2>3, <3>1
    <3>2. CASE k # Len(out) + 1
      <4>1. k \in 1..Len(out)
        BY <2>2, <2>3, <3>2
      <4> QED
        BY <2>3, <4>1 DEF LabelsRight
    <3> QED
      BY <3>1, <3>2
  <2> QED
    BY <1>2, <2>4 DEF LabelsRight
<1> QED
  BY <1>3, <1>4, OutStep

\* The loops of main and the window arithmetic of label.py, for every log.
THEOREM LoopsInWindow == Spec => []LoopInv
<1> QED
  BY LoopInit, LoopStep, PTL DEF Spec

\* check_access gives every line the label that the comment of label.py asks for,
\* for every log, WINDOW and LOOKAHEAD, also where the lookahead is cut off by the
\* end of the log and when runs of the script are cut short and repeated.
THEOREM LabelsAlwaysRight == Spec => []LabelsRight
<1>1. Init => LabelsRight
  BY DEF Init, LabelsRight
<1> QED
  BY <1>1, LoopInit, LoopStep, LabelsStep, PTL DEF Spec

\* With the shipped WINDOW, equal to the literal of nr_windows, the loops of main
\* never leave the log and always have a line to look ahead at.
THEOREM LoopsStayInside == Spec => []LoopsInside
<1>1. LoopInv => LoopsInside
  <2> SUFFICES ASSUME LoopInv, WINDOW = HUNDRED, pc = "main"
               PROVE  j < nr_lines /\ (i + 1) * WINDOW < nr_lines
    BY DEF LoopsInside
  <2>1. /\ WINDOW \in Nat \ {0} /\ nr_lines \in Nat /\ i \in Nat /\ j \in Nat
        /\ i < nr_windows /\ j < (i + 1) * WINDOW
    BY DEF LoopInv
  <2>2. nr_windows \in Nat
    BY <2>1, WindowsNat
  <2>3. nr_lines # 0 /\ nr_windows = (nr_lines - 1) \div WINDOW
    BY <2>1 DEF nr_windows
  <2>4. i + 1 <= (nr_lines - 1) \div WINDOW
    BY <2>1, <2>2, <2>3
  <2>5. (i + 1) * WINDOW <= nr_lines - 1
    BY <2>1, <2>3, <2>4, WindowFrom
  <2>6. (i + 1) * WINDOW \in Nat
    BY <2>1, Z3
  <2> QED
    BY <2>1, <2>5, <2>6
<1> QED
  BY <1>1, LoopsInWindow, PTL
----------------------------------------------------------------------------
\* The lines of the log that must have a label by now: those the current run has
\* come past.
CoverInv ==
  /\ pc = "main" => \A k \in WINDOW..(j - 1) : k \in LabelledLines
  /\ pc = "done" => \A k \in WINDOW..(nr_windows * WINDOW - 1) : k \in LabelledLines
  /\ ErrorOnlyAtEnd

\* A step loses no labelled line, and label_line adds line j.
LEMMA LabelledStep ==
  ASSUME LoopInv, [Next]_vars
  PROVE  /\ LabelledLines \subseteq LabelledLines'
         /\ label_line => j \in LabelledLines'
<1>1. out \in Seq([line : 0..(nr_lines - 1), label : {0, 1}])
  BY DEF LoopInv
<1>2. CASE out' = out /\ ~label_line
  BY <1>2 DEF LabelledLines
<1>3. ASSUME NEW e \in [line : 0..(nr_lines - 1), label : {0, 1}],
             out' = Append(out, e), e.line = j
      PROVE  LabelledLines \subseteq LabelledLines' /\ j \in LabelledLines'
  <2>1. /\ Len(out') = Len(out) + 1 /\ out'[Len(out) + 1] = e
        /\ \A k \in 1..Len(out) : out'[k] = out[k] /\ k \in 1..Len(out')
        /\ Len(out) + 1 \in 1..Len(out')
    BY <1>1, <1>3
  <2> QED
    BY <1>3, <2>1 DEF LabelledLines
<1>4. CASE label_line
  BY <1>3, <1>4, Appended
<1> QED
  BY <1>2, <1>3, <1>4, OutStep

LEMMA CoverStep == LoopInv /\ CoverInv /\ [Next]_vars => CoverInv'
<1> SUFFICES ASSUME LoopInv, CoverInv, [Next]_vars PROVE CoverInv'
  OBVIOUS
<1>1. /\ WINDOW \in Nat \ {0} /\ nr_lines \in Nat /\ i \in Nat /\ j \in Nat
      /\ nr_windows \in Nat
  BY WindowsNat DEF LoopInv
<1>2. UNCHANGED <<WINDOW, nr_lines>> /\ nr_windows' = nr_windows
  BY OutStep DEF setup, nr_windows
<1>3. LabelledLines \subseteq LabelledLines'
  BY LabelledStep
<1>4. CASE label_line
  <2>1. pc = "main" /\ j \in LabelledLines'
    BY <1>4, LabelledStep DEF label_line
  <2>2. \A k \in WINDOW..j : k \in LabelledLines'
    BY <1>1, <1>3, <2>1 DEF CoverInv
  <2>3. CASE j + 1 < (i + 1) * WINDOW
    <3>1. j' = j + 1 /\ pc' = "main"
      BY <1>4, <2>1, <2>3 DEF label_line
    <3> QED
      BY <1>1, <1>2, <2>2, <3>1 DEF CoverInv, ErrorOnlyAtEnd
  <2>4. CASE ~(j + 1 < (i + 1) * WINDOW)
    <3>1. /\ j' = (i + 1) * WINDOW
          /\ pc' = IF i + 1 < nr_windows THEN "main" ELSE "done"
      BY <1>4, <2>4 DEF label_line, Enter
    <3>2. (i + 1) * WINDOW \in Nat /\ j + 1 = (i + 1) * WINDOW
      <4>1. (i + 1) * WINDOW \in Nat
        BY <1>1, Z3
      <4> QED
        BY <1>1, <2>1, <2>4, <4>1 DEF LoopInv
    <3>3. CASE i + 1 < nr_windows
      BY <1>1, <1>2, <2>2, <3>1, <3>2, <3>3 DEF CoverInv, ErrorOnlyAtEnd
    <3>4. CASE ~(i + 1 < nr_windows)
      <4>1. i + 1 = nr_windows
        BY <1>1, <2>1, <3>4 DEF LoopInv
      <4>2. nr_windows * WINDOW - 1 = j
        BY <1>1, <3>2, <4>1
      <4> QED
        BY <1>2, <2>2, <3>1, <3>4, <4>2 DEF CoverInv, ErrorOnlyAtEnd
    <3> QED
      BY <3>3, <3>4
  <2> QED
    BY <2>3, <2>4
<1>5. CASE start
  <2>1. /\ j' = 1 * WINDOW
        /\ pc' = IF 1 < nr_windows THEN "main" ELSE "done"
    BY <1>5 DEF start, Enter
  <2>2. ~(1 < nr_windows) => nr_windows * WINDOW <= 1 * WINDOW /\ nr_windows * WINDOW \in Nat
    BY <1>1, Monotone, Z3
  <2> QED
    BY <1>1, <1>2, <2>1, <2>2 DEF CoverInv, ErrorOnlyAtEnd
<1>6. CASE index_error
  <2>1. pc = "main" /\ j >= nr_lines /\ pc' = "IndexError"
    BY <1>6 DEF index_error
  <2>2. \A k \in WINDOW..(nr_lines - 1) : k \in LabelledLines
    BY <1>1, <2>1 DEF CoverInv
  <2> QED
    BY <1>2, <1>3, <2>1, <2>2 DEF CoverInv, ErrorOnlyAtEnd
<1>7. CASE write_fails \/ kill
  BY <1>7 DEF write_fails, kill, CoverInv, ErrorOnlyAtEnd
<1>8. CASE UNCHANGED vars
  <2>1. UNCHANGED <<pc, j>>
    BY <1>8 DEF vars
  <2> QED
    BY <1>2, <1>3, <2>1 DEF CoverInv, ErrorOnlyAtEnd
<1> QED
  BY <1>4, <1>5, <1>6, <1>7, <1>8 DEF Next

\* The labelled lines at the end of a run, and at an IndexError.
LEMMA CoverAlways == Spec => [](LoopInv /\ CoverInv)
<1>1. Init => CoverInv
  BY DEF Init, CoverInv, ErrorOnlyAtEnd
<1> QED
  BY <1>1, LoopInit, LoopStep, CoverStep, PTL DEF Spec

\* Whatever the WINDOW, the reading of filecontent[j] past the end of the log ends
\* the script only when all lines from the second window on have a label.
THEOREM ErrorComesLast == Spec => []ErrorOnlyAtEnd
<1>1. CoverInv => ErrorOnlyAtEnd
  BY DEF CoverInv
<1> QED
  BY <1>1, CoverAlways, PTL

\* A WINDOW of at least the literal of nr_windows leaves no window without labels.
THEOREM NoWindowLeftOut ==
  ASSUME \A s \in Setups : s.WINDOW >= HUNDRED
  PROVE  Spec => []LaterWindowsLabelled
<1>1. Init => WINDOW >= HUNDRED
  BY DEF Init
<1>2. LoopInv /\ WINDOW >= HUNDRED /\ [Next]_vars => (WINDOW >= HUNDRED)'
  BY OutStep DEF setup
<1>3. LoopInv /\ CoverInv /\ WINDOW >= HUNDRED => LaterWindowsLabelled
  <2> SUFFICES ASSUME LoopInv, CoverInv, WINDOW >= HUNDRED, pc = "done",
                      NEW w \in 1..nr_lines, (w + 1) * WINDOW < nr_lines,
                      NEW k \in w * WINDOW .. (w + 1) * WINDOW - 1
               PROVE  k \in LabelledLines
    BY DEF LaterWindowsLabelled, Covered
  <2>1. /\ WINDOW \in Nat \ {0} /\ HUNDRED \in Nat \ {0} /\ nr_lines \in Nat /\ w \in Nat
        /\ nr_windows \in Nat
    BY LabelerAssumption, WindowsNat DEF LoopInv
  <2>2. /\ (w + 1) * HUNDRED <= (w + 1) * WINDOW
        /\ (w + 1) * HUNDRED \in Nat /\ (w + 1) * WINDOW \in Nat
    BY <2>1, Z3
  <2>3. nr_lines - 1 \in Nat /\ (w + 1) * HUNDRED <= nr_lines - 1
    BY <2>1, <2>2
  <2>4. w + 1 <= (nr_lines - 1) \div HUNDRED
    BY <2>1, <2>3, WindowFrom
  <2>5. w + 1 <= nr_windows
    BY <2>1, <2>3, <2>4 DEF nr_windows
  <2>6. (w + 1) * WINDOW <= nr_windows * WINDOW /\ nr_windows * WINDOW \in Nat
    BY <2>1, <2>5, Monotone, Z3
  <2>7. 1 * WINDOW <= w * WINDOW /\ w * WINDOW \in Nat
    BY <2>1, Monotone, Z3
  <2>8. k \in WINDOW..(nr_windows * WINDOW - 1)
    BY <2>1, <2>2, <2>6, <2>7
  <2> QED
    BY <2>8 DEF CoverInv
<1> QED
  BY <1>1, <1>2, <1>3, CoverAlways, PTL DEF Spec
----------------------------------------------------------------------------
\* The output of a script that was started once is a copy of the log from the
\* second window on, as far as line j.
OnceInv ==
  /\ runs = 0 => out = <<>> /\ pc = "idle"
  /\ runs <= 1 => \A k \in 1..Len(out) : out[k].line = WINDOW + k - 1
  /\ runs = 1 /\ pc = "main" => Len(out) = j - WINDOW
  /\ runs = 1 /\ pc = "done" => Len(out) % WINDOW = 0

LEMMA OnceStep == LoopInv /\ OnceInv /\ [Next]_vars => OnceInv'
<1> SUFFICES ASSUME LoopInv, OnceInv, [Next]_vars PROVE OnceInv'
  OBVIOUS
<1>1. /\ WINDOW \in Nat \ {0} /\ i \in Nat /\ j \in Nat /\ runs \in Nat
      /\ out \in Seq([line : 0..(nr_lines - 1), label : {0, 1}])
  BY DEF LoopInv
<1>2. WINDOW' = WINDOW
  BY OutStep DEF setup
<1>3. CASE label_line
  <2>1. PICK e \in [line : 0..(nr_lines - 1), label : {0, 1}] :
               out' = Append(out, e) /\ e.line = j
    BY <1>3, Appended
  <2>2. /\ Len(out') = Len(out) + 1 /\ out'[Len(out) + 1] = e
        /\ \A k \in 1..Len(out) : out'[k] = out[k]
    BY <1>1, <2>1
  <2>3. pc = "main" /\ runs' = runs
    BY <1>3 DEF label_line
  <2>4. CASE runs # 1
    <3>1. ~(runs <= 1)
      BY <1>1, <2>3, <2>4 DEF OnceInv
    <3> QED
      BY <1>1, <2>3, <2>4, <3>1 DEF OnceInv
  <2>5. CASE runs = 1
    <3>1. Len(out) = j - WINDOW
      BY <2>3, <2>5 DEF OnceInv
    <3>2. \A k \in 1..Len(out') : out'[k].line = WINDOW + k - 1
      BY <1>1, <2>1, <2>2, <2>5, <3>1 DEF OnceInv
    <3>3. CASE j + 1 < (i + 1) * WINDOW
      <4>1. j' = j + 1 /\ pc' = "main"
        BY <1>3, <2>3, <3>3 DEF label_line
      <4> QED
        BY <1>1, <1>2, <2>2, <2>3, <2>5, <3>1, <3>2, <4>1 DEF OnceInv
    <3>4. CASE ~(j + 1 < (i + 1) * WINDOW)
      <4>1. /\ j' = (i + 1) * WINDOW /\ pc' \in {"main", "done"}
        BY <1>3, <3>4 DEF label_line, Enter
      <4>2. /\ j + 1 = (i + 1) * WINDOW
            /\ (i + 1) * WINDOW = i * WINDOW + WINDOW /\ i * WINDOW \in Nat
        <5>1. (i + 1) * WINDOW = i * WINDOW + WINDOW /\ i * WINDOW \in Nat
          BY <1>1, Z3
        <5> QED
          BY <1>1, <2>3, <3>4, <5>1 DEF LoopInv
      <4>3. Len(out') = i * WINDOW /\ Len(out') = j' - WINDOW
        BY <1>1, <2>2, <3>1, <4>1, <4>2, SMTT(30)
      <4>4. (i * WINDOW) % WINDOW = 0
        BY <1>1, Z3
      <4> QED
        BY <1>2, <2>3, <2>5, <3>2, <4>1, <4>3, <4>4, SMTT(30) DEF OnceInv
    <3> QED
      BY <3>3, <3>4
  <2> QED
    BY <2>4, <2>5
<1>4. CASE start
  <2>1. /\ runs' = runs + 1 /\ out' = out
        /\ j' = 1 * WINDOW /\ pc' \in {"main", "done"}
    BY <1>4 DEF start, Enter
  <2>2. 0 % WINDOW = 0 /\ 1 * WINDOW = WINDOW
    BY <1>1, Z3
  <2> QED
    BY <1>1, <1>2, <2>1, <2>2 DEF OnceInv
<1>5. CASE index_error \/ write_fails \/ kill
  BY <1>2, <1>5 DEF index_error, write_fails, kill, OnceInv
<1>6. CASE UNCHANGED vars
  BY <1>2, <1>6 DEF vars, OnceInv
<1> QED
  BY <1>3, <1>4, <1>5, <1>6 DEF Next

\* The output of an undisturbed run of label.py, which is what the notebook cuts
\* into windows again, consists of whole windows in the order of the log.
THEOREM WholeWindowsAlways == Spec => []WholeWindows
<1>1. Init => OnceInv
  BY DEF Init, OnceInv
<1>2. OnceInv => WholeWindows
  BY DEF OnceInv, WholeWindows
<1> QED
  BY <1>1, <1>2, LoopInit, LoopStep, OnceStep, PTL DEF Spec
-----------------------------------------------------------------------------
\* Until the labeler is started there is no output, and the labeler starts with the
\* second window.
OutInv ==
  /\ pc = "idle" => out = <<>>
  /\ \A k \in 1..Len(out) : out[k].line >= WINDOW

\* A line is written to the log before the labeler is started.
Written == pc = "idle" /\ \E line : write_outfile(line)

LEMMA PipeSteps == [PipeNext]_pipeVars => [Next]_vars \/ Written
<1>1. CASE new_access
  BY <1>1 DEF new_access, generate_line, Generating, Written
<1>2. CASE random_reuse
  BY <1>2 DEF random_reuse, Generating, Written
<1>3. CASE stop
  BY <1>3 DEF stop
<1>4. CASE NotebookNext /\ UNCHANGED allVars
  BY <1>4 DEF allVars
<1>5. CASE UNCHANGED pipeVars
  BY <1>5 DEF pipeVars, allVars
<1> QED
  BY <1>1, <1>2, <1>3, <1>4, <1>5, SMTT(30) DEF PipeNext, TraceNext

\* What holds of the labeler holds of it in the pipeline.
LabelInv == LoopInv /\ OutInv /\ LabelsRight /\ CoverInv /\ OnceInv

LEMMA LabelInit == Init => LabelInv
<1> SUFFICES ASSUME Init PROVE LabelInv
  OBVIOUS
<1>1. out = <<>> /\ pc = "idle" /\ runs = 0
  BY DEF Init
<1> QED
  BY <1>1, LoopInit DEF LabelInv, OutInv, LabelsRight, CoverInv, ErrorOnlyAtEnd, OnceInv

LEMMA OutStepInv == LoopInv /\ OutInv /\ [Next]_vars => OutInv'
<1> SUFFICES ASSUME LoopInv, OutInv, [Next]_vars PROVE OutInv'
  OBVIOUS
<1>1. WINDOW' = WINDOW
  BY OutStep DEF setup
<1>2. pc' = "idle" => pc = "idle" /\ out' = out
  <2>1. CASE label_line
    <3>1. pc = "main" /\ pc' \in {"main", "done"}
      BY <2>1 DEF label_line, Enter
    <3> QED
      BY <3>1
  <2>2. CASE index_error \/ write_fails \/ kill \/ start
    BY <2>2 DEF index_error, write_fails, kill, start, Enter
  <2>3. CASE UNCHANGED vars
    BY <2>3 DEF vars
  <2> QED
    BY <2>1, <2>2, <2>3 DEF Next
<1>3. CASE out' = out
  BY <1>1, <1>2, <1>3 DEF OutInv
<1>4. ASSUME label_line,
             NEW e \in [line : 0..(nr_lines - 1), label : {0, 1}],
             out' = Append(out, e), e.line = j
      PROVE  OutInv'
  <2>1. out \in Seq([line : 0..(nr_lines - 1), label : {0, 1}])
        /\ WINDOW \in Nat \ {0} /\ i \in Nat /\ j \in Nat /\ 1 <= i /\ i * WINDOW <= j
    BY <1>4 DEF LoopInv, label_line
  <2>2. j >= WINDOW
    <3>1. 1 * WINDOW <= i * WINDOW /\ i * WINDOW \in Nat
      BY <2>1, Monotone, Z3
    <3> QED
      BY <2>1, <3>1
  <2>3. /\ Len(out') = Len(out) + 1 /\ out'[Len(out) + 1] = e
        /\ \A k \in 1..Len(out) : out'[k] = out[k]
    BY <1>4, <2>1
  <2>4. \A k \in 1..Len(out') : out'[k].line >= WINDOW
    BY <1>4, <2>1, <2>2, <2>3 DEF OutInv
  <2>5. pc' # "idle"
    BY <1>2, <1>4 DEF label_line
  <2> QED
    BY <1>1, <2>4, <2>5 DEF OutInv
<1> QED
  BY <1>3, <1>4, OutStep

LEMMA WrittenStep == LabelInv /\ Written => LabelInv'
<1> SUFFICES ASSUME LabelInv, NEW line, pc = "idle", write_outfile(line) PROVE LabelInv'
  BY DEF Written
<1>1. /\ UNCHANGED <<WINDOW, pc, i, j, out, runs>> /\ pc = "idle" /\ out = <<>>
      /\ nr_lines' = nr_lines + 1 /\ DOMAIN filecontent' = 0..nr_lines
      /\ nr_lines \in Nat
  BY DEF write_outfile, LabelInv, OutInv, LoopInv
<1>2. LoopInv'
  <2>1. nr_lines' \in Nat /\ nr_lines' - 1 = nr_lines
    BY <1>1
  <2>2. <<>> \in Seq([line : 0..(nr_lines' - 1), label : {0, 1}])
    OBVIOUS
  <2> QED
    BY <1>1, <2>1, <2>2 DEF LoopInv, LabelInv
<1>3. OutInv' /\ LabelsRight' /\ CoverInv' /\ OnceInv'
  BY <1>1 DEF LabelInv, OutInv, LabelsRight, CoverInv, ErrorOnlyAtEnd, OnceInv
<1> QED
  BY <1>2, <1>3 DEF LabelInv

LEMMA LabelStep == LabelInv /\ [PipeNext]_pipeVars => LabelInv'
<1>1. LabelInv /\ [Next]_vars => LabelInv'
  BY LoopStep, OutStepInv, LabelsStep, CoverStep, OnceStep, SMTT(30) DEF LabelInv
<1> QED
  BY <1>1, PipeSteps, WrittenStep

LEMMA LabelAlways == PipeSpec => []LabelInv
<1>1. PipeInit => Init
  BY DEF PipeInit, TraceInit
<1> QED
  BY <1>1, LabelInit, LabelStep, PTL DEF PipeSpec

\* check_access labels the lines of every log as the comment of label.py asks, also
\* of a log that a generator has left unfinished and while the notebook reads it.
THEOREM PipelineLabelsRight == PipeSpec => []LabelsRight
<1>1. LabelInv => LabelsRight
  BY DEF LabelInv
<1> QED
  BY <1>1, LabelAlways, PTL

\* What the notebook relies on: a labelled log written by one undisturbed run of
\* label.py consists of whole windows in the order of the log.
THEOREM PipelineWholeWindows == PipeSpec => []WholeWindows
<1>1. LabelInv => WholeWindows
  BY DEF LabelInv, OnceInv, WholeWindows
<1> QED
  BY <1>1, LabelAlways, PTL
----------------------------------------------------------------------------
LineType == [fd : Fds, offset : Nat, data : Fds \X Nat]

Same(n, m) ==
  filecontent[n].fd = filecontent[m].fd /\ filecontent[n].offset = filecontent[m].offset

\* A generated log: the offsets dealt out so far are below the next one of their
\* file, so that a line can only be equal to an earlier one if random_reuse has
\* taken it from access_list, the first window.
GenInv ==
  gen # "none" =>
    /\ fd_list \in [1..nr_files -> Fds]
    /\ dict_fd_offset \in [Fds -> Nat] /\ dict_fd_size \in [Fds -> Sizes]
    /\ \A n \in 0..(nr_lines - 1) :
         filecontent[n] \in LineType /\ filecontent[n].offset < dict_fd_offset[filecontent[n].fd]
    /\ reused \subseteq WINDOW..(nr_lines - 1)
    /\ \A m \in reused : Same(m, m % WINDOW)
    /\ \A n, m \in 0..(nr_lines - 1) : n < m /\ Same(n, m) => m \in reused
    /\ gen = "random_reuse" =>
         /\ access_list \in Seq(LineType)
         /\ Len(access_list) = IF nr_lines < WINDOW THEN nr_lines ELSE WINDOW
         /\ \A k \in 1..Len(access_list) : access_list[k] = filecontent[k - 1]

LEMMA GenInit == PipeInit => GenInv
<1> SUFFICES ASSUME PipeInit, gen # "none" PROVE GenInv
  BY DEF GenInv
<1>1. /\ nr_lines = 0 /\ init_dicts /\ access_list = <<>> /\ reused = {}
      /\ WINDOW \in Nat \ {0}
  BY LoopInit DEF PipeInit, TraceInit, LoopInv
<1> QED
  BY <1>1 DEF GenInv, init_dicts

\* The log after a line has been written.
LEMMA WriteFacts ==
  ASSUME LoopInv, NEW line, write_outfile(line)
  PROVE  /\ WINDOW' = WINDOW /\ nr_lines' = nr_lines + 1 /\ nr_lines' - 1 = nr_lines
         /\ filecontent'[nr_lines] = line
         /\ \A n \in 0..(nr_lines - 1) : filecontent'[n] = filecontent[n]
         /\ \A n : n \in 0..nr_lines <=> n \in 0..(nr_lines - 1) \/ n = nr_lines
<1>1. nr_lines \in Nat
  BY DEF LoopInv
<1>2. /\ WINDOW' = WINDOW /\ nr_lines' = nr_lines + 1
      /\ filecontent' = [n \in 0..nr_lines |-> IF n = nr_lines THEN line ELSE filecontent[n]]
  BY SMTT(30) DEF write_outfile
<1> QED
  BY <1>1, <1>2

LEMMA NewAccessStep ==
  ASSUME LoopInv, GenInv, new_access
  PROVE  GenInv'
<1> SUFFICES ASSUME gen # "none" PROVE GenInv'
  BY DEF new_access, GenInv
<1>1. PICK n0 \in 1..nr_files :
        /\ generate_line(n0)
        /\ access_list' = IF gen = "random_reuse" /\ nr_lines < window_sz
                          THEN Append(access_list, Line(fd_list[n0])) ELSE access_list
  BY DEF new_access
<1>2. UNCHANGED <<gen, fd_list, dict_fd_size, reused>>
  BY ZenonT(60) DEF new_access
<1> DEFINE f == fd_list[n0]
           line == Line(f)
           step == dict_fd_size[f] * stride
<1>3. /\ fd_list \in [1..nr_files -> Fds] /\ dict_fd_offset \in [Fds -> Nat]
      /\ dict_fd_size \in [Fds -> Sizes] /\ nr_lines \in Nat /\ WINDOW \in Nat \ {0}
  BY DEF GenInv, LoopInv
<1>4. f \in Fds /\ step \in Nat /\ step > 0
  <2>1. f \in Fds /\ dict_fd_size[f] \in Nat \ {0} /\ stride \in Nat \ {0}
    BY <1>3, TraceAssumption, Zenon
  <2> QED
    BY <2>1, Z3
<1>5. /\ write_outfile(line)
      /\ dict_fd_offset' = [dict_fd_offset EXCEPT ![f] = dict_fd_offset[f] + step]
  BY <1>1 DEF generate_line
<1>6. /\ line \in LineType /\ line.fd = f /\ line.offset = dict_fd_offset[f]
  BY <1>3, <1>4 DEF Line, LineType
<1> HIDE DEF line, step, f
<1>7. /\ dict_fd_offset' \in [Fds -> Nat] /\ dict_fd_offset[f] < dict_fd_offset'[f]
      /\ \A d \in Fds : dict_fd_offset[d] <= dict_fd_offset'[d]
  BY <1>3, <1>4, <1>5
<1>8. /\ WINDOW' = WINDOW /\ nr_lines' = nr_lines + 1 /\ nr_lines' - 1 = nr_lines
      /\ filecontent'[nr_lines] = line
      /\ \A n \in 0..(nr_lines - 1) : filecontent'[n] = filecontent[n]
      /\ \A n : n \in 0..nr_lines <=> n \in 0..(nr_lines - 1) \/ n = nr_lines
  BY <1>5, WriteFacts
<1>9. \A n \in 0..(nr_lines - 1) :
        filecontent[n] \in LineType /\ filecontent[n].offset < dict_fd_offset[filecontent[n].fd]
  BY DEF GenInv
<1>10. \A n \in 0..nr_lines :
         filecontent'[n] \in LineType /\ filecontent'[n].offset < dict_fd_offset'[filecontent'[n].fd]
  <2> TAKE n \in 0..nr_lines
  <2>1. CASE n = nr_lines
    BY <1>6, <1>7, <1>8, <2>1, SMTT(30)
  <2>2. CASE n \in 0..(nr_lines - 1)
    <3>1. /\ filecontent[n] \in LineType /\ filecontent[n].offset \in Nat /\ filecontent[n].fd \in Fds
          /\ filecontent[n].offset < dict_fd_offset[filecontent[n].fd]
      BY <1>9, <2>2 DEF LineType
    <3>2. /\ dict_fd_offset[filecontent[n].fd] \in Nat /\ dict_fd_offset'[filecontent[n].fd] \in Nat
          /\ dict_fd_offset[filecontent[n].fd] <= dict_fd_offset'[filecontent[n].fd]
      BY <1>3, <1>7, <3>1, SMTT(30)
    <3> QED
      BY <1>8, <2>2, <3>1, <3>2
  <2> QED
    BY <1>8, <2>1, <2>2
<1>11. reused \subseteq WINDOW..nr_lines /\ reused \subseteq 0..(nr_lines - 1)
  BY <1>2, <1>3 DEF GenInv
<1>12. \A m \in reused : Same(m, m % WINDOW)'
  <2> TAKE m \in reused
  <2>1. m \in 0..(nr_lines - 1) /\ m >= WINDOW /\ Same(m, m % WINDOW)
    BY <1>3 DEF GenInv
  <2>2. m % WINDOW \in 0..(nr_lines - 1)
    <3>1. m % WINDOW \in 0..(WINDOW - 1)
      BY <1>3, <2>1, Division
    <3> QED
      BY <1>3, <2>1, <3>1
  <2> QED
    BY <1>8, <2>1, <2>2 DEF Same
<1>13. \A n, m \in 0..nr_lines : n < m /\ Same(n, m)' => m \in reused
  <2> SUFFICES ASSUME NEW n \in 0..nr_lines, NEW m \in 0..nr_lines, n < m, Same(n, m)'
               PROVE  m \in reused
    OBVIOUS
  <2>1. n \in 0..(nr_lines - 1)
    BY <1>3
  <2>2. CASE m = nr_lines
    <3>1. filecontent[n].fd = f /\ filecontent[n].offset = dict_fd_offset[f]
      BY <1>6, <1>8, <2>1, <2>2, SMTT(30) DEF Same
    <3>2. filecontent[n].offset < dict_fd_offset[f] /\ dict_fd_offset[f] \in Nat
      BY <1>3, <1>4, <1>9, <2>1, <3>1, ZenonT(60)
    <3> QED
      BY <3>1, <3>2
  <2>3. CASE m # nr_lines
    <3>1. m \in 0..(nr_lines - 1)
      BY <1>3, <2>3
    <3>2. Same(n, m)
      BY <1>8, <2>1, <3>1 DEF Same
    <3> QED
      BY <2>1, <3>1, <3>2 DEF GenInv
  <2> QED
    BY <2>2, <2>3
<1>14. gen = "random_reuse" =>
         /\ access_list' \in Seq(LineType)
         /\ Len(access_list') = IF nr_lines' < WINDOW THEN nr_lines' ELSE WINDOW
         /\ \A k \in 1..Len(access_list') : access_list'[k] = filecontent'[k - 1]
  <2> SUFFICES ASSUME gen = "random_reuse"
               PROVE  /\ access_list' \in Seq(LineType)
                      /\ Len(access_list') = IF nr_lines' < WINDOW THEN nr_lines' ELSE WINDOW
                      /\ \A k \in 1..Len(access_list') : access_list'[k] = filecontent'[k - 1]
    OBVIOUS
  <2>1. /\ access_list \in Seq(LineType)
        /\ Len(access_list) = IF nr_lines < WINDOW THEN nr_lines ELSE WINDOW
        /\ \A k \in 1..Len(access_list) : access_list[k] = filecontent[k - 1]
    BY DEF GenInv
  <2>2. \A k \in 1..Len(access_list) : k - 1 \in 0..(nr_lines - 1)
    BY <1>3, <2>1
  <2>3. CASE nr_lines < WINDOW
    <3>1. access_list' = Append(access_list, line)
      BY <1>1, <2>3 DEF window_sz, line, f
    <3>2. /\ access_list' \in Seq(LineType) /\ Len(access_list') = nr_lines + 1
          /\ access_list'[nr_lines + 1] = line
          /\ \A k \in 1..nr_lines : access_list'[k] = access_list[k]
      BY <1>3, <1>6, <2>1, <2>3, <3>1, SMTT(30)
    <3>3. Len(access_list) = nr_lines
      BY <2>1, <2>3
    <3>4. ASSUME NEW k \in 1..(nr_lines + 1) PROVE access_list'[k] = filecontent'[k - 1]
      <4>1. CASE k = nr_lines + 1
        <5>1. k - 1 = nr_lines
          BY <1>3, <4>1
        <5> QED
          BY <1>8, <3>2, <4>1, <5>1, SMTT(30)
      <4>2. CASE k # nr_lines + 1
        <5>1. k \in 1..nr_lines
          BY <1>3, <4>2
        <5> QED
          BY <1>8, <2>1, <2>2, <3>2, <3>3, <5>1, ZenonT(60)
      <4> QED
        BY <4>1, <4>2
    <3>5. nr_lines + 1 = IF nr_lines' < WINDOW THEN nr_lines' ELSE WINDOW
      BY <1>3, <1>8, <2>3
    <3> QED
      BY <3>2, <3>4, <3>5
  <2>4. CASE ~(nr_lines < WINDOW)
    <3>1. access_list' = access_list /\ ~(nr_lines' < WINDOW)
      BY <1>1, <1>3, <1>8, <2>4, SMTT(30) DEF window_sz
    <3> QED
      BY <1>8, <2>1, <2>2, <2>4, <3>1, ZenonT(60)
  <2> QED
    BY <2>3, <2>4
<1> QED
  BY <1>2, <1>3, <1>7, <1>8, <1>10, <1>11, <1>12, <1>13, <1>14, ZenonT(60) DEF GenInv

LEMMA RandomReuseStep ==
  ASSUME LoopInv, GenInv, random_reuse
  PROVE  GenInv'
<1>1. /\ gen = "random_reuse" /\ nr_lines >= WINDOW
      /\ write_outfile(access_list[(nr_lines % WINDOW) + 1])
      /\ reused' = reused \cup {nr_lines}
      /\ UNCHANGED <<gen, fd_list, dict_fd_offset, dict_fd_size, access_list>>
  BY DEF random_reuse, window_sz
<1>2. nr_lines \in Nat /\ WINDOW \in Nat \ {0}
  BY DEF LoopInv
<1> DEFINE a == nr_lines % WINDOW
           line == access_list[a + 1]
<1>3. a \in 0..(WINDOW - 1) /\ a \in 0..(nr_lines - 1)
  <2>1. a \in 0..(WINDOW - 1)
    BY <1>2, Division, SMTT(30)
  <2> QED
    BY <1>1, <1>2, <2>1
<1>4. /\ access_list \in Seq(LineType) /\ Len(access_list) = WINDOW
      /\ \A k \in 1..WINDOW : access_list[k] = filecontent[k - 1]
  BY <1>1, <1>2 DEF GenInv
<1>5. line = filecontent[a]
  <2> HIDE DEF a
  <2>1. a + 1 \in 1..WINDOW /\ (a + 1) - 1 = a
    BY <1>2, <1>3
  <2> QED
    BY <1>4, <2>1
<1>6. /\ WINDOW' = WINDOW /\ nr_lines' = nr_lines + 1 /\ nr_lines' - 1 = nr_lines
      /\ filecontent'[nr_lines] = line
      /\ \A n \in 0..(nr_lines - 1) : filecontent'[n] = filecontent[n]
      /\ \A n : n \in 0..nr_lines <=> n \in 0..(nr_lines - 1) \/ n = nr_lines
  BY <1>1, WriteFacts, SMTT(30)
<1> HIDE DEF line
<1>7. \A n \in 0..nr_lines :
        filecontent'[n] \in LineType /\ filecontent'[n].offset < dict_fd_offset[filecontent'[n].fd]
  BY <1>1, <1>3, <1>5, <1>6, Zenon DEF GenInv
<1>8. reused' \subseteq WINDOW..nr_lines /\ reused \subseteq WINDOW..(nr_lines - 1)
  BY <1>1, <1>2 DEF GenInv
<1>9. \A m \in reused' : Same(m, m % WINDOW)'
  <2> TAKE m \in reused'
  <2>1. CASE m = nr_lines
    BY <1>3, <1>5, <1>6, <2>1, SMTT(30) DEF Same
  <2>2. CASE m \in reused
    <3>1. m \in 0..(nr_lines - 1) /\ m >= WINDOW /\ Same(m, m % WINDOW)
      BY <1>1, <1>2, <1>8, <2>2 DEF GenInv
    <3>2. m % WINDOW \in 0..(nr_lines - 1)
      <4>1. m % WINDOW \in 0..(WINDOW - 1)
        BY <1>2, <3>1, Division, SMTT(30)
      <4> QED
        BY <1>2, <3>1, <4>1
    <3> QED
      BY <1>6, <3>1, <3>2, SMTT(30) DEF Same
  <2> QED
    BY <1>1, <2>1, <2>2
<1>10. \A n, m \in 0..nr_lines : n < m /\ Same(n, m)' => m \in reused'
  <2> SUFFICES ASSUME NEW n \in 0..nr_lines, NEW m \in 0..nr_lines, n < m, Same(n, m)',
                      m # nr_lines
               PROVE  m \in reused
    BY <1>1
  <2>1. n \in 0..(nr_lines - 1) /\ m \in 0..(nr_lines - 1)
    BY <1>2
  <2>2. Same(n, m)
    BY <1>6, <2>1 DEF Same
  <2> QED
    BY <1>1, <2>1, <2>2 DEF GenInv
<1>11. /\ Len(access_list) = IF nr_lines' < WINDOW THEN nr_lines' ELSE WINDOW
       /\ \A k \in 1..WINDOW : access_list[k] = filecontent'[k - 1]
  <2>1. \A k \in 1..WINDOW : k - 1 \in 0..(nr_lines - 1)
    BY <1>1, <1>2, SMTT(30)
  <2> QED
    BY <1>1, <1>2, <1>4, <1>6, <2>1
<1>12. /\ fd_list \in [1..nr_files -> Fds]
       /\ dict_fd_offset \in [Fds -> Nat] /\ dict_fd_size \in [Fds -> Sizes]
  BY <1>1 DEF GenInv
<1> QED
  BY <1>1, <1>4, <1>6, <1>7, <1>8, <1>9, <1>10, <1>11, <1>12, ZenonT(60) DEF GenInv

LEMMA GenStep == LabelInv /\ GenInv /\ [PipeNext]_pipeVars => GenInv'
<1> SUFFICES ASSUME LabelInv, GenInv, [PipeNext]_pipeVars PROVE GenInv'
  OBVIOUS
<1>1. LoopInv
  BY SMTT(30) DEF LabelInv
<1>2. ASSUME UNCHANGED <<setup, genVars>> PROVE GenInv'
  BY <1>2 DEF setup, genVars, GenInv, Same
<1>3. CASE new_access
  BY <1>1, <1>3, NewAccessStep
<1>4. CASE random_reuse
  BY <1>1, <1>4, RandomReuseStep, SMTT(30)
<1>5. CASE stop
  BY <1>5 DEF stop, vars, setup, GenInv, Same
<1>6. CASE Next /\ UNCHANGED genVars
  BY <1>1, <1>2, <1>6, OutStep
<1>7. CASE UNCHANGED allVars
  BY <1>2, <1>7 DEF allVars, vars
<1> QED
  BY <1>3, <1>4, <1>5, <1>6, <1>7 DEF PipeNext, TraceNext, pipeVars

\* After the first window two lines are the same access exactly if both were taken
\* from the same place of the first window.
LEMMA SameIsReused ==
  ASSUME LoopInv, GenInv, gen # "none",
         NEW n \in 0..(nr_lines - 1), NEW m \in 0..(nr_lines - 1), WINDOW <= n, n < m
  PROVE  Same(m, n) <=> n \in reused /\ m \in reused /\ m % WINDOW = n % WINDOW
<1>1. /\ nr_lines \in Nat /\ WINDOW \in Nat \ {0} /\ n \in Nat /\ m \in Nat
      /\ reused \subseteq WINDOW..(nr_lines - 1)
      /\ \A r \in reused : Same(r, r % WINDOW)
      /\ \A r, t \in 0..(nr_lines - 1) : r < t /\ Same(r, t) => t \in reused
  BY DEF LoopInv, GenInv
<1> DEFINE a == m % WINDOW
           b == n % WINDOW
<1>2. a \in 0..(WINDOW - 1) /\ b \in 0..(WINDOW - 1)
  BY <1>1, Division
<1>3. a \in 0..(nr_lines - 1) /\ b \in 0..(nr_lines - 1) /\ a < n /\ a \notin reused /\ b \notin reused
  BY <1>1, <1>2
<1> HIDE DEF a, b
<1>4. ASSUME Same(m, n) PROVE n \in reused /\ m \in reused /\ a = b
  <2>1. m \in reused
    BY <1>1, <1>4 DEF Same
  <2>2. Same(a, n)
    BY <1>1, <1>4, <2>1 DEF Same, a
  <2>3. n \in reused
    BY <1>1, <1>3, <2>2
  <2>4. Same(a, b) /\ Same(b, a)
    BY <1>1, <2>2, <2>3 DEF Same, b
  <2>5. ~(a < b) /\ ~(b < a)
    BY <1>1, <1>3, <2>4
  <2> QED
    BY <1>1, <1>2, <2>1, <2>3, <2>5, SMTT(30)
<1>5. ASSUME n \in reused, m \in reused, a = b PROVE Same(m, n)
  BY <1>1, <1>5 DEF Same, a, b
<1> QED
  BY <1>4, <1>5, ZenonT(60) DEF a, b

\* The windows of lookahead, for lines at the same place of their windows.
LEMMA SamePlace ==
  ASSUME NEW n \in Nat, NEW m \in Nat, NEW w \in Nat \ {0}, NEW l \in Nat, m % w = n % w
  PROVE  ((n \div w) + 1 <= m \div w /\ m \div w <= (n \div w) + l) <=> (n < m /\ m <= n + l * w)
<1> DEFINE c == n \div w
           d == m \div w
           r == n % w
<1>1. /\ c \in Nat /\ d \in Nat /\ r \in 0..(w - 1)
      /\ n = c * w + r /\ m = d * w + r
  BY Division, Zenon
<1> HIDE DEF c, d, r
<1>2. /\ c + 1 <= d => (c + 1) * w <= d * w
      /\ d <= c => d * w <= c * w
      /\ d <= c + l => d * w <= (c + l) * w
      /\ c + l + 1 <= d => (c + l + 1) * w <= d * w
  BY <1>1, Monotone
<1>3. /\ (c + 1) * w = c * w + w /\ (c + l) * w = c * w + l * w
      /\ (c + l + 1) * w = c * w + l * w + w
      /\ c * w \in Nat /\ d * w \in Nat /\ l * w \in Nat
  BY <1>1, Z3
<1>4. (c + 1 <= d /\ d <= c + l) <=> (n < m /\ m <= n + l * w)
  BY <1>1, <1>2, <1>3
<1> QED
  BY <1>4 DEF c, d

LEMMA ElementOf ==
  ASSUME NEW S, NEW s \in Seq(S), NEW k \in 1..Len(s)
  PROVE  s[k] \in S
  OBVIOUS

\* A line of a generated log is labelled 0 exactly if it repeats an access of the first
\* window that one of the next LOOKAHEAD windows repeats as well: offsets that
\* generate_line deals out are never taken for one another, also when the same
\* descriptor was drawn for several files, and seq.py gets label 1 throughout.
THEOREM GeneratedLabels == PipeSpec => []LabelIsReuse
<1>1. LabelInv /\ GenInv => LabelIsReuse
  <2> SUFFICES ASSUME LabelInv, GenInv, gen # "none", NEW k \in 1..Len(out)
               PROVE  out[k].label = 0 <=>
                        /\ out[k].line \in reused
                        /\ \E m \in reused : /\ m % WINDOW = out[k].line % WINDOW
                                             /\ m > out[k].line
                                             /\ m <= out[k].line + LOOKAHEAD * WINDOW
    BY DEF LabelIsReuse, window_sz
  <2> DEFINE n == out[k].line
  <2>1. LoopInv /\ n \in 0..(nr_lines - 1) /\ WINDOW <= n
    <3>1. LoopInv /\ n >= WINDOW
      BY DEF LabelInv, OutInv
    <3>2. out \in Seq([line : 0..(nr_lines - 1), label : {0, 1}]) /\ WINDOW \in Nat /\ nr_lines \in Nat
      BY <3>1 DEF LoopInv
    <3>3. n \in 0..(nr_lines - 1)
      <4>1. out[k] \in [line : 0..(nr_lines - 1), label : {0, 1}]
        BY <3>2, ElementOf, Zenon
      <4> QED
        BY <4>1
    <3> QED
      BY <3>1, <3>2, <3>3
  <2>2. out[k].label = 0 <=> Reused(n)
    BY DEF LabelInv, LabelsRight
  <2>3. /\ nr_lines \in Nat /\ WINDOW \in Nat \ {0} /\ LOOKAHEAD \in Nat
        /\ DOMAIN filecontent = 0..(nr_lines - 1)
        /\ reused \subseteq 0..(nr_lines - 1)
    <3>1. /\ nr_lines \in Nat /\ WINDOW \in Nat \ {0} /\ LOOKAHEAD \in Nat
          /\ DOMAIN filecontent = 0..(nr_lines - 1)
      BY <2>1, LabelerAssumption DEF LoopInv
    <3> QED
      BY <3>1 DEF GenInv
  <2> HIDE DEF n
  <2>4. ASSUME NEW m \in 0..(nr_lines - 1), (n \div WINDOW) + 1 <= m \div WINDOW
        PROVE  n < m
    <3> DEFINE d == (n \div WINDOW) + 1
    <3>1. n \in Nat /\ m \in Nat /\ n \div WINDOW \in Nat /\ m \div WINDOW \in Nat
      <4>1. n \in Nat /\ m \in Nat
        BY <2>1, <2>3
      <4> QED
        BY <2>3, <4>1, Division, Zenon
    <3>2. d * WINDOW <= m /\ ~(d * WINDOW <= n)
      <4>1. d \in Nat /\ d <= m \div WINDOW /\ ~(d <= n \div WINDOW)
        BY <2>4, <3>1
      <4> HIDE DEF d
      <4> QED
        BY <2>3, <3>1, <4>1, WindowFrom
    <3>3. d * WINDOW \in Nat
      BY <2>3, <3>1, Z3
    <3> QED
      BY <3>1, <3>2, <3>3
  <2>5. ASSUME Reused(n)
        PROVE  n \in reused /\ \E m \in reused : m % WINDOW = n % WINDOW /\ m > n /\ m <= n + LOOKAHEAD * WINDOW
    <3>1. PICK m \in 0..(nr_lines - 1) :
            /\ (n \div WINDOW) + 1 <= m \div WINDOW /\ m \div WINDOW <= (n \div WINDOW) + LOOKAHEAD
            /\ Same(m, n)
      BY <2>3, <2>5, Zenon DEF Reused, Same
    <3>2. n < m
      BY <2>4, <3>1
    <3>3. n \in reused /\ m \in reused /\ m % WINDOW = n % WINDOW
      BY <2>1, <3>1, <3>2, SameIsReused
    <3>4. m <= n + LOOKAHEAD * WINDOW
      <4>1. n \in Nat /\ m \in Nat
        BY <2>1, <2>3
      <4> QED
        BY <2>3, <3>1, <3>3, <4>1, SamePlace, Zenon
    <3> QED
      BY <2>1, <2>3, <3>2, <3>3, <3>4
  <2>6. ASSUME n \in reused, NEW m \in reused, m % WINDOW = n % WINDOW, m > n,
               m <= n + LOOKAHEAD * WINDOW
        PROVE  Reused(n)
    <3>1. m \in 0..(nr_lines - 1) /\ n < m
      BY <2>1, <2>3, <2>6
    <3>2. Same(m, n)
      BY <2>1, <2>6, <3>1, SameIsReused
    <3>3. (n \div WINDOW) + 1 <= m \div WINDOW /\ m \div WINDOW <= (n \div WINDOW) + LOOKAHEAD
      <4>1. n \in Nat /\ m \in Nat
        BY <2>1, <2>3, <3>1
      <4> QED
        BY <2>3, <2>6, <3>1, <4>1, SamePlace, Zenon
    <3> QED
      BY <2>3, <3>1, <3>2, <3>3, SMTT(30) DEF Reused, Same
  <2> QED
    BY <2>2, <2>5, <2>6 DEF n
<1> QED
  BY <1>1, GenInit, GenStep, LabelAlways, PTL DEF PipeSpec
----------------------------------------------------------------------------
(***************************************************************************)
(* The notebook.                                                           *)
(***************************************************************************)
Divided == {"eval_acc", "train", "cell15", "cell16", "end", "AssertionError",
            "ZeroDivisionError", "RuntimeError"}

\* The windows are those np.hsplit cuts the labelled log into, which does not change
\* once it is read; from the last get_data_loader on the loaders divide them, the model
\* has been trained with windows of one and evaluated with windows of the other, and
\* no training is done before an evaluation has gone well.
NotebookInv ==
  /\ cell \in {"none", "ValueError", "loaded", "RaggedError"} \cup Divided
  /\ cell \in {"none", "ValueError"} \/ (Len(out) >= window /\ windows = hsplit(Rows))
  /\ cell \notin Divided => trained = {} /\ evaluated = {}
  /\ cell \in Divided =>
       /\ loaders.train \in kSubset(train_set_size(Len(windows)), DOMAIN windows)
       /\ loaders.val = DOMAIN windows \ loaders.train
       /\ loaders.batch_size \in Nat \ {0}
       /\ trained \subseteq loaders.train /\ evaluated \subseteq loaders.val
  /\ cell = "train" \/ trained # {} => ~TooLong
  /\ cell \in {"train", "cell15", "cell16"} => ~NoBatch(loaders.val)
  /\ ZeroOnlyIfFew

\* The lines in the output are those of runs of the labeler, one after another: each
\* begins with line WINDOW and goes on line by line.
RunsInv ==
  /\ out # <<>> => out[1].line = WINDOW
  /\ \A k \in 1..(Len(out) - 1) :
       out[k + 1].line = out[k].line + 1 \/ out[k + 1].line = WINDOW
  /\ pc = "main" /\ j # WINDOW => out # <<>> /\ out[Len(out)].line = j - 1

LEMMA NotebookStart == PipeInit => NotebookInv
  BY ZenonT(60) DEF PipeInit, NotebookInit, NotebookInv, Divided, ZeroOnlyIfFew

\* Until the notebook reads the labelled log nothing is known of the windows, and
\* nothing has to be.
LEMMA NotebookIdle == ASSUME cell = "none", NotebookInv, UNCHANGED nbVars PROVE NotebookInv'
<1>1. cell' = "none" /\ trained' = {} /\ evaluated' = {}
  BY DEF nbVars, NotebookInv, Divided
<1> QED
  BY <1>1, ZenonT(60) DEF NotebookInv, Divided, ZeroOnlyIfFew

\* The sizes of the two parts.
LEMMA Parts ==
  ASSUME NEW n \in Nat, NEW T \in kSubset(train_set_size(n), 1..n)
  PROVE  /\ IsFiniteSet(T) /\ IsFiniteSet((1..n) \ T)
         /\ Cardinality(T) = (9 * n) \div 10
         /\ Cardinality((1..n) \ T) = n - ((9 * n) \div 10)
<1>1. T \subseteq 1..n /\ Cardinality(T) = (9 * n) \div 10
  BY DEF kSubset, train_set_size
<1>2. IsFiniteSet(1..n) /\ Cardinality(1..n) = n
  BY FS_Interval
<1>3. IsFiniteSet(T)
  BY <1>1, <1>2, FS_Subset, Zenon
<1>4. IsFiniteSet((1..n) \ T) /\ Cardinality((1..n) \ T) = n - Cardinality((1..n) \cap T)
  BY <1>2, FS_Difference, Zenon
<1>5. (1..n) \cap T = T
  BY <1>1, Zenon
<1> QED
  BY <1>1, <1>3, <1>4, <1>5, Zenon

\* A division by zero, on either part: less than one batch.
LEMMA FewWindows ==
  ASSUME NEW n \in Nat, NEW T \in kSubset(train_set_size(n), 1..n), NEW b \in Nat \ {0}
  PROVE  /\ Cardinality((1..n) \ T) < b => n <= 10 * (b - 1)
         /\ Cardinality(T) < b /\ ~(Cardinality((1..n) \ T) < b) => n <= 1
<1> DEFINE t == (9 * n) \div 10
<1>1. Cardinality(T) = t /\ Cardinality((1..n) \ T) = n - t
  BY Parts, Zenon
<1>2. t \in Nat /\ 10 * t <= 9 * n /\ 9 * n < 10 * t + 10
  OBVIOUS
<1> HIDE DEF t
<1>3. n - t < b => n <= 10 * (b - 1)
  BY <1>2
<1>4. t < b /\ ~(n - t < b) => n <= 1
  BY <1>2
<1> QED
  BY <1>1, <1>3, <1>4

\* np.hsplit cuts what it is given into pieces that lie one after another, none of
\* which is shorter than the window, and leaves nothing over.
LEMMA Cutting ==
  ASSUME NEW S, NEW rows \in Seq(S), Len(rows) >= window
  PROVE  \E n \in Nat \ {0} : \E begin \in [1..(n + 1) -> 0..Len(rows)] :
           /\ n = Len(rows) \div window
           /\ hsplit(rows) = [k \in 1..n |-> SubSeq(rows, begin[k] + 1, begin[k + 1])]
           /\ begin[1] = 0 /\ begin[n + 1] = Len(rows)
           /\ \A k \in 1..n : begin[k] + window <= begin[k + 1]
<1> DEFINE N == Len(rows)
           n == N \div window
           each == N \div n
           extras == N % n
           Start(k) == (k - 1) * each + (IF k - 1 < extras THEN k - 1 ELSE extras)
           begin == [k \in 1..(n + 1) |-> Start(k)]
<1>1. window \in Nat \ {0} /\ N \in Nat /\ N >= window
  BY LabelerAssumption DEF window
<1>2. n \in Nat \ {0} /\ n * window <= N
  <2>1. n \in Nat /\ (1 <= n <=> 1 * window <= N) /\ (n <= n <=> n * window <= N)
    BY <1>1, Division, WindowFrom, Zenon
  <2> HIDE DEF n
  <2> QED
    BY <1>1, <2>1
<1>3. each \in Nat /\ extras \in 0..(n - 1) /\ N = each * n + extras
  BY <1>1, <1>2, Division, Zenon
<1>4. window <= each
  <2>1. window * n <= N
    BY <1>1, <1>2
  <2> HIDE DEF n
  <2> QED
    BY <1>1, <1>2, <2>1, WindowFrom, ZenonT(60)
<1>5. hsplit(rows) = [k \in 1..n |-> SubSeq(rows, Start(k) + 1, Start(k + 1))]
  BY DEF hsplit
<1> HIDE DEF n, each, extras, N
<1>6. ASSUME NEW k \in 1..n PROVE Start(k) + window <= Start(k + 1)
  <2>1. (k + 1 - 1) * each = (k - 1) * each + each
    BY <1>2, <1>3, Z3
  <2>2. (k - 1) * each \in Nat
    BY <1>2, <1>3, Z3
  <2> QED
    BY <1>1, <1>2, <1>3, <1>4, <2>1, <2>2, SMTT(30)
<1>7. Start(1) = 0 /\ Start(n + 1) = N
  <2>1. (1 - 1) * each = 0 /\ (n + 1 - 1) * each = each * n
    BY <1>2, <1>3, Z3
  <2> QED
    BY <1>2, <1>3, <2>1, SMTT(30)
<1>8. ASSUME NEW k \in 1..(n + 1) PROVE Start(k) \in 0..N
  <2>1. (k - 1) * each \in Nat /\ (k - 1) * each <= n * each /\ n * each = each * n
    <3>1. k - 1 \in Nat /\ k - 1 <= n
      BY <1>2
    <3>2. (k - 1) * each <= n * each
      BY <1>2, <1>3, <3>1, Monotone, SMTT(30)
    <3> QED
      BY <1>2, <1>3, <3>1, <3>2, Z3
  <2> QED
    BY <1>1, <1>2, <1>3, <2>1, SMTT(30)
<1> HIDE DEF Start
<1>9. begin \in [1..(n + 1) -> 0..N]
  BY <1>8, SMTT(30)
<1>10. \A k \in 1..n : begin[k] = Start(k) /\ begin[k + 1] = Start(k + 1)
  BY <1>2
<1>11. begin[1] = 0 /\ begin[n + 1] = N
  BY <1>2, <1>7
<1>12. hsplit(rows) = [k \in 1..n |-> SubSeq(rows, begin[k] + 1, begin[k + 1])]
  BY <1>5, <1>10, ZenonT(60)
<1> HIDE DEF begin
<1> QED
  BY <1>2, <1>6, <1>9, <1>10, <1>11, <1>12, Zenon DEF n, N

LEMMA Piece ==
  ASSUME NEW S, NEW s \in Seq(S), NEW a \in 0..Len(s), NEW b \in 0..Len(s), a <= b
  PROVE  /\ SubSeq(s, a + 1, b) \in Seq(S) /\ Len(SubSeq(s, a + 1, b)) = b - a
         /\ \A k \in 1..(b - a) : SubSeq(s, a + 1, b)[k] = s[a + k]
<1>1. a + 1 \in Int /\ b \in Int /\ Len(s) \in Nat /\ \A k \in (a + 1)..b : s[k] \in S
  OBVIOUS
<1>2. /\ SubSeq(s, a + 1, b) \in Seq(S)
      /\ Len(SubSeq(s, a + 1, b)) = IF a + 1 <= b THEN b - (a + 1) + 1 ELSE 0
      /\ \A k \in 1..(b - (a + 1) + 1) : SubSeq(s, a + 1, b)[k] = s[(a + 1) + k - 1]
  BY <1>1, SubSeqProperties
<1> HIDE DEF SubSeq
<1> QED
  BY <1>1, <1>2

\* What the windows hold: pieces of the labelled log, one after another.
LEMMA TheWindows ==
  ASSUME LoopInv, Len(out) >= window, windows = hsplit(Rows)
  PROVE  \E n \in Nat \ {0} : \E begin \in [1..(n + 1) -> 0..Len(out)] :
           /\ DOMAIN windows = 1..n /\ Len(windows) = n
           /\ begin[1] = 0 /\ begin[n + 1] = Len(out)
           /\ \A w \in 1..n :
                /\ begin[w] + window <= begin[w + 1]
                /\ windows[w] \in Seq(Int) /\ Len(windows[w]) = begin[w + 1] - begin[w]
                /\ \A k \in 1..(begin[w + 1] - begin[w]) : windows[w][k] = out[begin[w] + k].line
<1>1. /\ out \in Seq([line : 0..(nr_lines - 1), label : {0, 1}]) /\ nr_lines \in Nat
      /\ window \in Nat \ {0}
  BY LabelerAssumption DEF LoopInv, window
<1>2. Rows \in Seq(Int) /\ Len(Rows) = Len(out)
  <2>1. \A k \in 1..Len(out) : out[k].line \in Int
    <3> SUFFICES ASSUME NEW k \in 1..Len(out) PROVE out[k].line \in Int
      OBVIOUS
    <3>1. out[k] \in [line : 0..(nr_lines - 1), label : {0, 1}]
      BY <1>1, ElementOf, Zenon
    <3> QED
      BY <1>1, <3>1
  <2>2. Len(out) \in Nat
    BY <1>1
  <2>3. Rows \in [1..Len(out) -> Int]
    BY <2>1 DEF Rows
  <2> QED
    BY <2>2, <2>3
<1> DEFINE Cut(n, begin) ==
        /\ hsplit(Rows) = [k \in 1..n |-> SubSeq(Rows, begin[k] + 1, begin[k + 1])]
        /\ begin[1] = 0 /\ begin[n + 1] = Len(Rows)
        /\ \A k \in 1..n : begin[k] + window <= begin[k + 1]
<1>0. PICK n \in Nat \ {0} : \E begin \in [1..(n + 1) -> 0..Len(Rows)] : Cut(n, begin)
  BY <1>2, Cutting, Zenon
<1>3. PICK begin \in [1..(n + 1) -> 0..Len(Rows)] : Cut(n, begin)
  BY <1>0, Zenon
<1>4. DOMAIN windows = 1..n /\ Len(windows) = n
  BY <1>3
<1>5. ASSUME NEW w \in 1..n
      PROVE  /\ begin[w] + window <= begin[w + 1]
             /\ windows[w] \in Seq(Int) /\ Len(windows[w]) = begin[w + 1] - begin[w]
             /\ \A k \in 1..(begin[w + 1] - begin[w]) : windows[w][k] = out[begin[w] + k].line
  <2> DEFINE a == begin[w]
             b == begin[w + 1]
  <2>1. windows[w] = SubSeq(Rows, a + 1, b)
    BY <1>3, Zenon
  <2>2. a \in 0..Len(out) /\ b \in 0..Len(out) /\ a + window <= b
    <3>1. w \in 1..(n + 1) /\ w + 1 \in 1..(n + 1)
      OBVIOUS
    <3>2. begin[w] + window <= begin[w + 1]
      BY <1>3, Zenon
    <3> QED
      BY <1>2, <3>1, <3>2, Zenon
  <2>3. Len(out) \in Nat
    BY <1>1
  <2> HIDE DEF a, b
  <2>4. /\ windows[w] \in Seq(Int) /\ Len(windows[w]) = b - a
        /\ \A k \in 1..(b - a) : windows[w][k] = Rows[a + k]
    <3>1. a \in 0..Len(Rows) /\ b \in 0..Len(Rows) /\ a <= b
      BY <1>1, <1>2, <2>2, <2>3
    <3>2. /\ SubSeq(Rows, a + 1, b) \in Seq(Int) /\ Len(SubSeq(Rows, a + 1, b)) = b - a
          /\ \A k \in 1..(b - a) : SubSeq(Rows, a + 1, b)[k] = Rows[a + k]
      BY <1>2, <3>1, Piece, ZenonT(60)
    <3> QED
      BY <2>1, <3>2, Zenon
  <2>5. ASSUME NEW k \in 1..(b - a) PROVE windows[w][k] = out[a + k].line
    <3>1. a + k \in 1..Len(out)
      BY <2>2, <2>3
    <3> QED
      BY <2>4, <3>1, Zenon DEF Rows
  <2> QED
    BY <2>2, <2>4, <2>5, Zenon DEF a, b
<1>6. Len(Rows) = Len(out)
  BY <1>2
<1> begin \in [1..(n + 1) -> 0..Len(out)]
  BY <1>6, SMTT(30)
<1> WITNESS n \in Nat \ {0}
<1> WITNESS begin \in [1..(n + 1) -> 0..Len(out)]
<1> QED
  BY <1>3, <1>4, <1>5, <1>6, Zenon

\* eval_acc, on the part for validation or for training, and what follows from it.
LEMMA Evaluated ==
  ASSUME NEW set, NEW next, Evaluate(set, next), next \notin {"ZeroDivisionError", "RuntimeError"}
  PROVE  /\ cell' \in {"ZeroDivisionError", "RuntimeError", next}
         /\ cell' = "ZeroDivisionError" <=> NoBatch(set)
         /\ cell' = next => ~NoBatch(set) /\ ~TooLong
  BY DEF Evaluate

\* A pass over a loader has windows of that loader.
LEMMA BatchesIn == ASSUME NEW set, NEW B \in Batches(set) PROVE B \subseteq set
  BY SMTT(30) DEF Batches, kSubset

LEMMA LoadStep ==
  ASSUME NotebookInv, NEW m, load(m), UNCHANGED out
  PROVE  NotebookInv'
<1>1. /\ cell = "none" /\ trained' = {} /\ evaluated' = {}
      /\ \/ Len(out) >= window /\ windows' = hsplit(Rows) /\ cell' = "loaded"
         \/ cell' = "ValueError"
  BY Zenon DEF load, NotebookInv, Divided
<1>2. Rows' = Rows /\ hsplit(Rows)' = hsplit(Rows') /\ window' = window
  BY DEF Rows, hsplit, window
<1> HIDE DEF hsplit
<1> QED
  BY <1>1, <1>2, ZenonT(60) DEF NotebookInv, Divided, ZeroOnlyIfFew

\* What a step of the notebook that changes neither the windows nor the log leaves.
LEMMA SameWindows ==
  ASSUME NotebookInv, UNCHANGED <<out, windows>>, cell \notin {"none", "ValueError"}
  PROVE  /\ Len(out) >= window /\ windows = hsplit(Rows)
         /\ (Len(out) >= window /\ windows = hsplit(Rows))'
         /\ TooLong' = TooLong
<1>1. Len(out) >= window /\ windows = hsplit(Rows)
  BY Zenon DEF NotebookInv
<1>2. Rows' = Rows /\ hsplit(Rows)' = hsplit(Rows') /\ window' = window /\ TooLong' = TooLong
  BY DEF Rows, hsplit, window, TooLong, MAX_LEN
<1> HIDE DEF hsplit
<1> QED
  BY <1>1, <1>2, SMTT(30)

LEMMA LoaderStep ==
  ASSUME NotebookInv, NEW b \in BatchSizes, get_data_loader(b), UNCHANGED out
  PROVE  NotebookInv'
<1>1. cell = "loaded" /\ UNCHANGED <<out, windows, trained, evaluated>>
  BY SMTT(30) DEF get_data_loader
<1>2. trained = {} /\ evaluated = {}
  BY <1>1 DEF NotebookInv, Divided
<1>3. (Len(out) >= window /\ windows = hsplit(Rows))'
  BY <1>1, SameWindows, SMTT(30)
<1>4. CASE cell' \in {"RaggedError", "loaded"}
  BY <1>1, <1>2, <1>3, <1>4, ZenonT(60) DEF NotebookInv, Divided, ZeroOnlyIfFew
<1>5. CASE cell' = "eval_acc"
  <2>1. PICK s \in Splits : loaders' = [train |-> s.train, val |-> s.val, batch_size |-> b]
    BY <1>1, <1>5, ZenonT(60) DEF get_data_loader
  <2>2. PICK T \in kSubset(train_set_size(Len(windows)), DOMAIN windows) :
          s = [train |-> T, val |-> DOMAIN windows \ T]
    BY SMTT(30) DEF Splits
  <2>3. /\ loaders'.train = T /\ loaders'.val = DOMAIN windows \ T /\ loaders'.batch_size = b
    BY <2>1, <2>2
  <2>4. b \in Nat \ {0}
    BY NotebookAssumption
  <2>5. kSubset(train_set_size(Len(windows)), DOMAIN windows)'
          = kSubset(train_set_size(Len(windows)), DOMAIN windows)
    BY <1>1, SMTT(30) DEF kSubset, train_set_size
  <2> QED
    BY <1>1, <1>2, <1>3, <1>5, <2>2, <2>3, <2>4, <2>5, ZenonT(60)
       DEF NotebookInv, Divided, ZeroOnlyIfFew
<1> QED
  BY <1>1, <1>4, <1>5, SMTT(30) DEF get_data_loader

\* The rest of the notebook, from a step's effect on the places it changes.
LEMMA DividedStep ==
  ASSUME NotebookInv, cell \in Divided, cell' \in Divided, UNCHANGED <<out, windows, loaders>>,
         trained' \subseteq loaders.train, evaluated' \subseteq loaders.val,
         cell' = "train" \/ trained' # {} => ~TooLong,
         cell' \in {"train", "cell15", "cell16"} => ~NoBatch(loaders.val),
         ZeroOnlyIfFew'
  PROVE  NotebookInv'
<1>1. cell \notin {"none", "ValueError"} /\ cell' \notin {"none", "ValueError"}
  BY SMTT(30) DEF Divided
<1>2. (Len(out) >= window /\ windows = hsplit(Rows))' /\ TooLong' = TooLong
  BY <1>1, SameWindows, SMTT(30)
<1>3. /\ NoBatch(loaders.val)' = NoBatch(loaders.val)
      /\ kSubset(train_set_size(Len(windows)), DOMAIN windows)'
          = kSubset(train_set_size(Len(windows)), DOMAIN windows)
  BY SMTT(30) DEF NoBatch, kSubset, train_set_size
<1>4. cell' \in {"none", "ValueError", "loaded", "RaggedError"} \cup Divided
  BY ZenonT(60)
<1>5. /\ loaders.train \in kSubset(train_set_size(Len(windows)), DOMAIN windows)
      /\ loaders.val = DOMAIN windows \ loaders.train
      /\ loaders.batch_size \in Nat \ {0}
  BY DEF NotebookInv
<1>6. Divided' = Divided
  BY DEF Divided
<1> QED
  BY <1>1, <1>2, <1>3, <1>4, <1>5, <1>6, ZenonT(60) DEF NotebookInv

\* The windows that are divided, and what it means that a part has less than a batch.
LEMMA Dividing ==
  ASSUME LoopInv, NotebookInv, cell \in Divided
  PROVE  /\ loaders.train \subseteq DOMAIN windows /\ loaders.val \cap loaders.train = {}
         /\ NoBatch(loaders.val) => Len(windows) <= 10 * (loaders.batch_size - 1)
         /\ NoBatch(loaders.train) /\ ~NoBatch(loaders.val) => Len(windows) = 1
<1> DEFINE T == loaders.train
           b == loaders.batch_size
<1>1. /\ T \in kSubset(train_set_size(Len(windows)), DOMAIN windows)
      /\ loaders.val = DOMAIN windows \ T /\ b \in Nat \ {0}
  BY SMTT(30) DEF NotebookInv
<1>2. PICK n \in Nat \ {0} : DOMAIN windows = 1..n /\ Len(windows) = n
  <2>1. Len(out) >= window /\ windows = hsplit(Rows)
    BY DEF NotebookInv, Divided
  <2> QED
    BY <2>1, TheWindows, ZenonT(60)
<1>3. T \in kSubset(train_set_size(n), 1..n) /\ loaders.val = (1..n) \ T
  BY <1>1, <1>2, Zenon
<1> HIDE DEF T, b
<1>4. /\ Cardinality((1..n) \ T) < b => n <= 10 * (b - 1)
      /\ Cardinality(T) < b /\ ~(Cardinality((1..n) \ T) < b) => n <= 1
  BY <1>1, <1>3, FewWindows, SMTT(30)
<1>5. T \subseteq 1..n
  BY <1>3 DEF kSubset
<1>6. /\ NoBatch(loaders.val) => n <= 10 * (b - 1)
      /\ NoBatch(T) /\ ~NoBatch(loaders.val) => n = 1
  <2>1. /\ NoBatch(loaders.val) <=> Cardinality((1..n) \ T) < b
        /\ NoBatch(T) <=> Cardinality(T) < b
    BY <1>3 DEF NoBatch, b
  <2>2. n <= 1 => n = 1
    BY SMTT(30)
  <2> QED
    BY <1>4, <2>1, <2>2, Zenon
<1>7. T \subseteq DOMAIN windows /\ loaders.val \cap T = {}
  BY <1>2, <1>3, <1>5, ZenonT(60)
<1> QED
  BY <1>2, <1>6, <1>7, Zenon DEF T, b

\* After an evaluation a division by zero is one of too few windows.
LEMMA ZeroStep ==
  ASSUME LoopInv, NotebookInv, cell \in Divided, UNCHANGED <<windows, loaders>>,
         cell' = "ZeroDivisionError" =>
           NoBatch(loaders.val) \/ (NoBatch(loaders.train) /\ ~NoBatch(loaders.val))
  PROVE  ZeroOnlyIfFew'
  BY Dividing, ZenonT(60) DEF ZeroOnlyIfFew

LEMMA EvalStep ==
  ASSUME LoopInv, NotebookInv, eval_acc, UNCHANGED out
  PROVE  NotebookInv'
<1>1. /\ cell = "eval_acc" /\ Evaluate(loaders.val, "train")
      /\ evaluated' \in (IF cell' = "train" THEN Batches(loaders.val) ELSE {evaluated})
      /\ UNCHANGED <<out, windows, loaders, trained>>
  BY DEF eval_acc
<1>2. /\ cell' \in {"ZeroDivisionError", "RuntimeError", "train"}
      /\ cell' = "ZeroDivisionError" <=> NoBatch(loaders.val)
      /\ cell' = "train" => ~NoBatch(loaders.val) /\ ~TooLong
  BY <1>1, Evaluated
<1>3. cell \in Divided /\ cell' \in Divided
  BY <1>1, <1>2, ZenonT(60) DEF Divided
<1>4. /\ trained \subseteq loaders.train /\ evaluated \subseteq loaders.val
      /\ trained # {} => ~TooLong
  BY <1>3 DEF NotebookInv
<1>5. evaluated' \subseteq loaders.val
  BY <1>1, <1>4, BatchesIn, ZenonT(60)
<1>6. ZeroOnlyIfFew'
  BY <1>1, <1>2, <1>3, ZeroStep, SMTT(30)
<1>7. cell' \in {"train", "cell15", "cell16"} => ~NoBatch(loaders.val)
  BY <1>2, ZenonT(60)
<1>8. cell' = "train" \/ trained' # {} => ~TooLong
  BY <1>1, <1>2, <1>4, ZenonT(60)
<1> QED
  BY <1>1, <1>3, <1>4, <1>5, <1>6, <1>7, <1>8, DividedStep, ZenonT(60)

LEMMA TrainStep ==
  ASSUME LoopInv, NotebookInv, train, UNCHANGED out
  PROVE  NotebookInv'
<1>1. /\ cell = "train" /\ cell' \in {"eval_acc", "cell15", "end"}
      /\ UNCHANGED <<out, windows, loaders, evaluated>>
  BY DEF train
<1>2. PICK B \in Batches(loaders.train) : trained' = trained \cup B
  BY DEF train
<1>3. cell \in Divided /\ cell' \in Divided
  BY <1>1, ZenonT(60) DEF Divided
<1>4. /\ trained \subseteq loaders.train /\ evaluated \subseteq loaders.val
      /\ ~TooLong /\ ~NoBatch(loaders.val)
  BY <1>1, <1>3 DEF NotebookInv
<1>5. trained' \subseteq loaders.train
  BY <1>2, <1>4, BatchesIn
<1>6. ZeroOnlyIfFew'
  BY <1>1 DEF ZeroOnlyIfFew
<1> QED
  BY <1>1, <1>3, <1>4, <1>5, <1>6, DividedStep, SMTT(30)

LEMMA FinalStep ==
  ASSUME LoopInv, NotebookInv, cell15 \/ cell16, UNCHANGED out
  PROVE  NotebookInv'
<1>1. /\ cell \in {"cell15", "cell16"} /\ cell \in Divided
      /\ UNCHANGED <<out, windows, loaders, trained>>
  BY ZenonT(60) DEF cell15, cell16, Divided
<1>2. /\ trained \subseteq loaders.train /\ evaluated \subseteq loaders.val
      /\ trained # {} => ~TooLong
      /\ ~NoBatch(loaders.val)
  BY <1>1, SMTT(30) DEF NotebookInv
<1>3. CASE cell15
  <2>1. Evaluate(loaders.train, "cell16") /\ evaluated' = evaluated
    BY <1>3 DEF cell15
  <2>2. /\ cell' \in {"ZeroDivisionError", "RuntimeError", "cell16"}
        /\ cell' = "ZeroDivisionError" <=> NoBatch(loaders.train)
    BY <2>1, Evaluated
  <2>3. cell' \in Divided /\ cell' # "train"
    BY <2>2, ZenonT(60) DEF Divided
  <2>4. ZeroOnlyIfFew'
    BY <1>1, <1>2, <2>2, ZeroStep, ZenonT(60)
  <2> QED
    BY <1>1, <1>2, <2>1, <2>3, <2>4, DividedStep, ZenonT(60)
<1>4. CASE cell16
  <2>1. evaluated' \in Batches(loaders.val) /\ cell' \in {"end", "AssertionError"}
    BY <1>4 DEF cell16
  <2>2. cell' \in Divided /\ cell' \notin {"train", "cell15", "cell16", "ZeroDivisionError"}
    BY <2>1 DEF Divided
  <2>3. ZeroOnlyIfFew' /\ evaluated' \subseteq loaders.val
    BY <2>1, <2>2, BatchesIn DEF ZeroOnlyIfFew
  <2> QED
    BY <1>1, <1>2, <2>2, <2>3, DividedStep, SMTT(30)
<1> QED
  BY <1>3, <1>4

LEMMA NotebookStep == LabelInv /\ NotebookInv /\ [PipeNext]_pipeVars => NotebookInv'
<1> SUFFICES ASSUME LabelInv, NotebookInv, [PipeNext]_pipeVars PROVE NotebookInv'
  OBVIOUS
<1>1. LoopInv
  BY DEF LabelInv
<1>2. CASE cell = "none" /\ UNCHANGED nbVars
  BY <1>2, NotebookIdle
<1>3. CASE NotebookNext /\ UNCHANGED allVars
  <2>1. UNCHANGED out
    BY <1>3, ZenonT(60) DEF allVars, vars
  <2> QED
    BY <1>1, <1>3, <2>1, LoadStep, LoaderStep, EvalStep, TrainStep, FinalStep, ZenonT(60)
       DEF NotebookNext
<1>4. CASE UNCHANGED pipeVars
  <2>1. UNCHANGED <<cell, windows, loaders, trained, evaluated, out>>
    BY <1>4 DEF pipeVars, allVars, vars, nbVars
  <2>2. /\ Rows' = Rows /\ hsplit(Rows)' = hsplit(Rows') /\ window' = window /\ TooLong' = TooLong
        /\ NoBatch(loaders.val)' = NoBatch(loaders.val) /\ ZeroOnlyIfFew' = ZeroOnlyIfFew
        /\ kSubset(train_set_size(Len(windows)), DOMAIN windows)'
             = kSubset(train_set_size(Len(windows)), DOMAIN windows)
    BY <2>1 DEF Rows, hsplit, window, TooLong, MAX_LEN, NoBatch, ZeroOnlyIfFew, kSubset, train_set_size
  <2> HIDE DEF hsplit
  <2> QED
    BY <2>1, <2>2 DEF NotebookInv, Divided
<1> QED
  BY <1>2, <1>3, <1>4 DEF PipeNext

LEMMA NotebookAlways == PipeSpec => [](LabelInv /\ NotebookInv)
<1> QED
  BY NotebookStart, NotebookStep, LabelAlways, PTL DEF PipeSpec

\* The accuracy eval_acc computes is a division by zero only if the labelled log has too
\* few windows for one batch of a tenth of them: for every log, batch size, number of
\* epochs and way to shuffle.
THEOREM ZeroDivisionOnlyIfFew == PipeSpec => []ZeroOnlyIfFew
<1>1. NotebookInv => ZeroOnlyIfFew
  BY DEF NotebookInv
<1> QED
  BY <1>1, NotebookAlways, PTL

\* Windows do not overlap.
LEMMA Ascending ==
  ASSUME NEW n \in Nat, NEW N \in Nat, NEW begin \in [1..(n + 1) -> 0..N],
         \A k \in 1..n : begin[k] <= begin[k + 1]
  PROVE  \A a, b \in 1..(n + 1) : a <= b => begin[a] <= begin[b]
<1> TAKE a, b \in 1..(n + 1)
<1> HAVE a <= b
<1> DEFINE S == {d \in Nat : a + d <= n + 1 => begin[a] <= begin[a + d]}
<1>1. 0 \in S
  OBVIOUS
<1>2. ASSUME NEW d \in Nat, d \in S PROVE d + 1 \in S
  <2> SUFFICES ASSUME a + (d + 1) <= n + 1 PROVE begin[a] <= begin[a + (d + 1)]
    OBVIOUS
  <2>1. a + d \in 1..n /\ a + (d + 1) = (a + d) + 1
    OBVIOUS
  <2>2. begin[a] <= begin[a + d] /\ begin[a + d] <= begin[a + (d + 1)]
    BY <1>2, <2>1
  <2>3. begin[a] \in Int /\ begin[a + d] \in Int /\ begin[a + (d + 1)] \in Int
    BY <2>1
  <2> QED
    BY <2>2, <2>3
<1> HIDE DEF S
<1>3. Nat \subseteq S
  BY <1>1, <1>2, NatIn, Zenon
<1>4. b - a \in S
  BY <1>3
<1> QED
  BY <1>4 DEF S

\* Every line is in the labelled log once.
LEMMA NoneTwice ==
  ASSUME NEW N \in Nat, NEW f, DOMAIN f = 1..N, Cardinality({f[k] : k \in 1..N}) = N,
         NEW a \in 1..N, NEW b \in 1..N, f[a] = f[b]
  PROVE  a = b
<1> DEFINE R == {f[k] : k \in 1..N}
           g == [k \in 1..N |-> f[k]]
<1>1. IsFiniteSet(1..N) /\ Cardinality(1..N) = N
  BY FS_Interval
<1>2. g \in Surjection(1..N, R)
  BY DEF Surjection
<1>3. Cardinality(R) = Cardinality(1..N)
  BY <1>1
<1> HIDE DEF R
<1>4. g \in Injection(1..N, R)
  BY <1>1, <1>2, <1>3, FS_SurjSameCardinalityImpliesInj, SMTT(30)
<1>5. g[a] = g[b]
  OBVIOUS
<1> HIDE DEF g
<1> QED
  BY <1>4, <1>5 DEF Injection, IsInjective

\* Pieces of at least c places each: the first c places of each are its own.
PiecesApart(n, N, begin, c) ==
  \A w, v \in 1..n : \A k, m \in 1..c :
    /\ begin[w] + k \in 1..N /\ k \in 1..(begin[w + 1] - begin[w])
    /\ w # v => begin[w] + k # begin[v] + m

LEMMA Apart ==
  ASSUME NEW n \in Nat, NEW N \in Nat, NEW begin \in [1..(n + 1) -> 0..N], NEW c \in Nat,
         \A x \in 1..n : begin[x] + c <= begin[x + 1]
  PROVE  PiecesApart(n, N, begin, c)
<1> SUFFICES ASSUME NEW w \in 1..n, NEW v \in 1..n, NEW k \in 1..c, NEW m \in 1..c
             PROVE  /\ begin[w] + k \in 1..N /\ k \in 1..(begin[w + 1] - begin[w])
                    /\ w # v => begin[w] + k # begin[v] + m
  BY ZenonT(60) DEF PiecesApart
<1>1. ASSUME NEW x \in 1..n
      PROVE  begin[x] \in 0..N /\ begin[x + 1] \in 0..N /\ begin[x] + c <= begin[x + 1]
  BY <1>1
<1>2. \A x \in 1..n : begin[x] <= begin[x + 1]
  BY <1>1
<1>3. \A a, b \in 1..(n + 1) : a <= b => begin[a] <= begin[b]
  BY <1>2, Ascending, Zenon
<1>4. /\ begin[w] \in 0..N /\ begin[w + 1] \in 0..N /\ begin[w] + c <= begin[w + 1]
      /\ begin[v] \in 0..N /\ begin[v + 1] \in 0..N /\ begin[v] + c <= begin[v + 1]
      /\ w < v => begin[w + 1] <= begin[v]
      /\ v < w => begin[v + 1] <= begin[w]
  <2>1. /\ w \in 1..(n + 1) /\ w + 1 \in 1..(n + 1) /\ v \in 1..(n + 1) /\ v + 1 \in 1..(n + 1)
        /\ w < v => w + 1 <= v
        /\ v < w => v + 1 <= w
    OBVIOUS
  <2> QED
    BY <1>1, <1>3, <2>1, Zenon
<1> DEFINE a == begin[w]
           b == begin[v]
           aa == begin[w + 1]
           bb == begin[v + 1]
<1> HIDE DEF a, b, aa, bb
<1>5. a + k \in 1..N /\ k \in 1..(aa - a)
  <2>1. a \in 0..N /\ aa \in 0..N /\ a + c <= aa
    BY <1>4 DEF a, aa
  <2> QED
    BY <2>1
<1>6. w # v => a + k # b + m
  <2>1. /\ a \in 0..N /\ aa \in 0..N /\ a + c <= aa
        /\ b \in 0..N /\ bb \in 0..N /\ b + c <= bb
        /\ w < v => aa <= b
        /\ v < w => bb <= a
    BY <1>4 DEF a, b, aa, bb
  <2>2. CASE w < v
    BY <2>1, <2>2, SMTT(30)
  <2>3. CASE v < w
    BY <2>1, <2>3
  <2> QED
    BY <2>2, <2>3, SMTT(30)
<1> QED
  BY <1>5, <1>6 DEF a, b, aa

\* What eval_acc measures on the validation set it measures on lines of the log that
\* train has not seen, for every way to shuffle the windows and to divide them, as often
\* as loaders are made anew: if no line is twice in the labelled log.
THEOREM EvaluationUnseen == PipeSpec => []EvaluatedUnseen
<1>1. ASSUME LabelInv, NotebookInv, Cardinality(LabelledLines) = Len(out),
             NEW w \in trained, NEW v \in evaluated, NEW k \in 1..window, NEW m \in 1..window
      PROVE  windows[w][k] # windows[v][m]
  <2>1. LoopInv /\ cell \in Divided
    BY <1>1, Zenon DEF LabelInv, NotebookInv
  <2>2. w \in DOMAIN windows /\ v \in DOMAIN windows /\ w # v
    BY <1>1, <2>1, Dividing, ZenonT(60) DEF NotebookInv
  <2>3. Len(out) >= window /\ windows = hsplit(Rows)
    BY <1>1, <2>1, ZenonT(60) DEF NotebookInv, Divided
  <2> DEFINE Cut(n, begin) ==
        /\ DOMAIN windows = 1..n
        /\ \A x \in 1..n :
             /\ begin[x] + window <= begin[x + 1]
             /\ \A l \in 1..(begin[x + 1] - begin[x]) : windows[x][l] = out[begin[x] + l].line
  <2>4. PICK n \in Nat \ {0} : \E begin \in [1..(n + 1) -> 0..Len(out)] : Cut(n, begin)
    BY <2>1, <2>3, TheWindows, Zenon
  <2>5. PICK begin \in [1..(n + 1) -> 0..Len(out)] : Cut(n, begin)
    BY <2>4, Zenon
  <2>6. window \in Nat /\ Len(out) \in Nat
    <3>1. out \in Seq([line : 0..(nr_lines - 1), label : {0, 1}])
      BY <2>1 DEF LoopInv
    <3> QED
      BY <3>1, LabelerAssumption DEF window
  <2>7. w \in 1..n /\ v \in 1..n
    BY <2>2, <2>5, Zenon
  <2>8. /\ begin[w] + k \in 1..Len(out) /\ k \in 1..(begin[w + 1] - begin[w])
        /\ begin[v] + m \in 1..Len(out) /\ m \in 1..(begin[v + 1] - begin[v])
        /\ begin[w] + k # begin[v] + m
    <3>1. \A x \in 1..n : begin[x] + window <= begin[x + 1]
      BY <2>5, Zenon
    <3>2. PiecesApart(n, Len(out), begin, window)
      <4>1. n \in Nat
        OBVIOUS
      <4> QED
        BY <2>6, <3>1, <4>1, Apart, ZenonT(60)
    <3> QED
      BY <2>2, <2>7, <3>2, Zenon DEF PiecesApart
  <2>9. windows[w][k] = out[begin[w] + k].line /\ windows[v][m] = out[begin[v] + m].line
    BY <2>5, <2>7, <2>8, Zenon
  <2> DEFINE f == [x \in 1..Len(out) |-> out[x].line]
  <2>10. {f[x] : x \in 1..Len(out)} = LabelledLines
    BY DEF LabelledLines
  <2>11. windows[w][k] = f[begin[w] + k] /\ windows[v][m] = f[begin[v] + m]
    BY <2>8, <2>9
  <2>12. DOMAIN f = 1..Len(out)
    OBVIOUS
  <2> HIDE DEF f
  <2> QED
    BY <1>1, <2>6, <2>8, <2>10, <2>11, <2>12, NoneTwice, ZenonT(60)
<1>2. LabelInv /\ NotebookInv => EvaluatedUnseen
  <2>1. EvaluatedUnseen <=> (Cardinality(LabelledLines) = Len(out) =>
                               LinesOf(trained) \cap LinesOf(evaluated) = {})
    BY SMTT(30) DEF EvaluatedUnseen, LabelledLines
  <2>2. ASSUME LabelInv, NotebookInv, Cardinality(LabelledLines) = Len(out),
               NEW l \in LinesOf(trained), l \in LinesOf(evaluated)
        PROVE  FALSE
    <3>1. PICK w \in trained, k \in 1..window : l = windows[w][k]
      BY DEF LinesOf
    <3>2. PICK v \in evaluated, m \in 1..window : l = windows[v][m]
      BY <2>2 DEF LinesOf
    <3> QED
      BY <1>1, <2>2, <3>1, <3>2, Zenon
  <2> QED
    BY <2>1, <2>2, Zenon
<1> QED
  BY <1>2, NotebookAlways, PTL

----------------------------------------------------------------------------
LEMMA RunsStep == LabelInv /\ RunsInv /\ [PipeNext]_pipeVars => RunsInv'
<1> SUFFICES ASSUME LabelInv, RunsInv, [PipeNext]_pipeVars PROVE RunsInv'
  OBVIOUS
<1>1. LoopInv /\ OutInv
  BY DEF LabelInv
<1>2. CASE Written
  BY <1>1, <1>2, SMTT(30) DEF Written, write_outfile, OutInv, RunsInv
<1>3. CASE label_line
  <2>1. PICK e \in [line : 0..(nr_lines - 1), label : {0, 1}] : out' = Append(out, e) /\ e.line = j
    BY <1>1, <1>3, Appended, ZenonT(60)
  <2>2. /\ out \in Seq([line : 0..(nr_lines - 1), label : {0, 1}])
        /\ WINDOW \in Nat \ {0} /\ i \in Nat /\ j \in Nat /\ pc = "main"
        /\ i * WINDOW <= j /\ j < (i + 1) * WINDOW /\ WINDOW' = WINDOW
    BY <1>1, <1>3 DEF LoopInv, label_line, setup
  <2>3. /\ Len(out') = Len(out) + 1 /\ Len(out) \in Nat
        /\ out'[Len(out) + 1] = e /\ \A k \in 1..Len(out) : out'[k] = out[k]
        /\ out = <<>> <=> Len(out) = 0
        /\ out' # <<>>
    BY <2>1, <2>2
  <2>4. j' = j + 1
    <3>1. (i + 1) * WINDOW \in Nat
      BY <2>2, Z3
    <3>2. CASE j + 1 < (i + 1) * WINDOW
      BY <1>3, <3>2 DEF label_line
    <3>3. CASE ~(j + 1 < (i + 1) * WINDOW)
      <4>1. j' = (i + 1) * WINDOW
        BY <1>3, <3>3 DEF label_line, Enter
      <4> QED
        BY <2>2, <3>1, <3>3, <4>1, SMTT(30)
    <3> QED
      BY <3>2, <3>3
  <2>5. out'[1].line = WINDOW
    <3>1. CASE Len(out) = 0
      BY <2>1, <2>2, <2>3, <3>1, SMTT(30) DEF RunsInv
    <3>2. CASE Len(out) # 0
      <4>1. 1 \in 1..Len(out) /\ out # <<>>
        BY <2>3, <3>2
      <4> QED
        BY <2>3, <4>1 DEF RunsInv
    <3> QED
      BY <3>1, <3>2
  <2>6. ASSUME NEW k \in 1..(Len(out') - 1)
        PROVE  out'[k + 1].line = out'[k].line + 1 \/ out'[k + 1].line = WINDOW
    <3>1. k \in 1..Len(out) /\ out'[k] = out[k]
      BY <2>3
    <3>2. CASE k = Len(out)
      <4>1. out # <<>> /\ out'[k + 1].line = j
        BY <2>1, <2>3, <3>1, <3>2
      <4>2. CASE j # WINDOW
        <5>1. out'[k].line = j - 1
          BY <2>2, <3>1, <3>2, <4>2, ZenonT(60) DEF RunsInv
        <5> QED
          BY <2>2, <4>1, <5>1, SMTT(30)
      <4> QED
        BY <4>1, <4>2
    <3>3. CASE k # Len(out)
      <4>1. k + 1 \in 1..Len(out) /\ k \in 1..(Len(out) - 1)
        BY <2>3, <3>1, <3>3
      <4>2. out'[k + 1] = out[k + 1]
        BY <2>3, <4>1, ZenonT(60)
      <4> QED
        BY <3>1, <4>1, <4>2 DEF RunsInv
    <3> QED
      BY <3>2, <3>3
  <2>7. out'[Len(out')].line = j' - 1
    BY <2>1, <2>2, <2>3, <2>4, SMTT(30)
  <2> QED
    BY <2>2, <2>3, <2>5, <2>6, <2>7, ZenonT(60) DEF RunsInv
<1>4. CASE start
  <2>1. UNCHANGED <<out, WINDOW>> /\ j' = 1 * WINDOW /\ WINDOW \in Nat
    BY <1>1, <1>4, ZenonT(60) DEF start, Enter, setup, LoopInv
  <2> QED
    BY <2>1 DEF RunsInv
<1>5. CASE index_error \/ write_fails \/ kill
  BY <1>5, ZenonT(60) DEF index_error, write_fails, kill, setup, RunsInv
<1>6. CASE UNCHANGED vars
  BY <1>6 DEF vars, setup, RunsInv
<1> QED
  BY <1>2, <1>3, <1>4, <1>5, <1>6, PipeSteps, SMTT(30) DEF Next

LEMMA RunsAlways == PipeSpec => []RunsInv
<1>1. PipeInit => RunsInv
  BY DEF PipeInit, TraceInit, Init, RunsInv
<1> QED
  BY <1>1, RunsStep, LabelAlways, PTL DEF PipeSpec

\* What is left of a whole number of windows, less a whole number of windows.
LEMMA WholeLess ==
  ASSUME NEW N \in Nat, NEW t \in 0..N, NEW w \in Nat \ {0}, N % w = 0, (N - t) % w = 0
  PROVE  t % w = 0
<1> DEFINE c == (N - t) \div w
           q == N \div w
<1>1. N - t \in Nat /\ c \in Nat /\ q \in Nat
  BY Division
<1>2. N - t = c * w + 0 /\ N = q * w + 0
  <2>1. N - t = c * w + ((N - t) % w) /\ N = q * w + (N % w)
    BY <1>1, Division
  <2> QED
    BY <2>1, Zenon
<1> HIDE DEF c, q
<1>3. c * w \in Nat /\ q * w \in Nat /\ (q - c) * w = q * w - c * w
  BY <1>1, Z3
<1>4. t = (q - c) * w
  <2>1. \A x, y \in Nat : N - t = x + 0 /\ N = y + 0 => t = y - x
    OBVIOUS
  <2> QED
    BY <1>2, <1>3, <2>1, Zenon
<1>5. q - c \in Nat
  <2>1. q <= c => q * w <= c * w
    BY <1>1, Monotone
  <2>2. CASE q <= c
    <3>1. t = 0
      BY <1>2, <1>3, <2>1, <2>2, SMTT(30)
    <3>2. q * w = c * w
      BY <1>2, <1>3, <3>1, SMTT(30)
    <3>3. q < c => (q + 1) * w <= c * w
      BY <1>1, Monotone
    <3>4. (q + 1) * w = q * w + w
      BY <1>1, Z3
    <3> QED
      BY <1>1, <1>3, <2>2, <3>2, <3>3, <3>4, SMTT(30)
  <2> QED
    BY <1>1, <2>2
<1>6. t \in Nat /\ 0 \in 0..(w - 1) /\ t = (q - c) * w + 0
  BY <1>4, <1>5
<1> QED
  BY <1>5, <1>6, Remainder, Zenon

LEMMA Listed == ASSUME NEW S, NEW s \in Seq(S) PROVE s = [k \in 1..Len(s) |-> s[k]]
  BY SMTT(30)

\* Lines f[1] to f[N]: a run goes on line by line or another begins with line w; and
\* none of the lines from a to b is the last of a run that was cut short inside a window.
Onward(f, N, w) == \A k \in 1..(N - 1) : f[k + 1] = f[k] + 1 \/ f[k + 1] = w
Untorn(f, w, a, b) == \A k \in a..b : f[k] % w = w - 1 \/ f[k + 1] = f[k] + 1

\* From a line that begins a window on, the places in their windows go on as long as
\* no run is cut short inside a window.
LEMMA Places ==
  ASSUME NEW N \in Nat, NEW w \in Nat \ {0}, NEW f \in [1..N -> Nat],
         Onward(f, N, w), NEW b \in 0..(N - 1), f[b + 1] % w = 0,
         NEW m \in (b + 1)..N, Untorn(f, w, b + 1, m - 1)
  PROVE  f[m] % w = (m - b - 1) % w
<1> DEFINE S == {d \in Nat : b + 1 + d <= m => f[b + 1 + d] % w = d % w}
<1>1. 0 \in S
  BY Remainder, SMTT(30)
<1>2. ASSUME NEW d \in Nat, d \in S PROVE d + 1 \in S
  <2> SUFFICES ASSUME b + 1 + (d + 1) <= m PROVE f[b + 1 + (d + 1)] % w = (d + 1) % w
    OBVIOUS
  <2> DEFINE k == b + 1 + d
  <2>1. /\ k \in (b + 1)..(m - 1) /\ k \in 1..(N - 1) /\ k + 1 = b + 1 + (d + 1)
        /\ k \in 1..N /\ k + 1 \in 1..N
    OBVIOUS
  <2>2. f[k] % w = d % w
    BY <1>2, SMTT(30)
  <2>3. /\ f[k] % w = w - 1 \/ f[k + 1] = f[k] + 1
        /\ f[k + 1] = f[k] + 1 \/ f[k + 1] = w
    BY <2>1, Zenon DEF Onward, Untorn
  <2>4. f[k] \in Nat
    BY <2>1
  <2> HIDE DEF k
  <2>5. /\ (d + 1) % w = IF d % w = w - 1 THEN 0 ELSE (d % w) + 1
        /\ (f[k] + 1) % w = IF f[k] % w = w - 1 THEN 0 ELSE (f[k] % w) + 1
    BY <2>4, NextPlace, Zenon
  <2>6. w % w = 0
    BY OneWhole
  <2>7. f[k + 1] % w = (d + 1) % w
    BY <2>2, <2>3, <2>5, <2>6, Zenon
  <2> QED
    BY <2>1, <2>7, Zenon
<1> HIDE DEF S
<1>3. Nat \subseteq S
  BY <1>1, <1>2, NatIn, Zenon
<1>4. m - b - 1 \in S
  BY <1>3
<1>5. m - b - 1 \in Nat /\ b + 1 + (m - b - 1) = m
  OBVIOUS
<1> QED
  BY <1>4, <1>5, SMTT(30) DEF S

LEMMA FromFirst ==
  ASSUME NEW N \in Nat, NEW w \in Nat \ {0}, NEW f \in [1..N -> Nat],
         Onward(f, N, w), f[1] % w = 0,
         NEW m \in 1..N, Untorn(f, w, 1, m - 1)
  PROVE  f[m] % w = (m - 1) % w
<1>1. 0 \in 0..(N - 1) /\ 0 + 1 = 1 /\ m \in (0 + 1)..N /\ m - 0 - 1 = m - 1
  OBVIOUS
<1>2. f[0 + 1] % w = 0 /\ Untorn(f, w, 0 + 1, m - 1)
  BY <1>1, Zenon
<1>3. f[m] % w = (m - 0 - 1) % w
  BY <1>1, <1>2, Places, Zenon
<1> QED
  BY <1>1, <1>3, Zenon

\* If the lines make up windows by their number, one run that was cut short inside a
\* window cannot be the only one: the last line would be inside a window as well.
LEMMA NoneTorn ==
  ASSUME NEW N \in Nat, NEW w \in Nat \ {0}, NEW f \in [1..N -> Nat],
         f[1] = w, Onward(f, N, w), N % w = 0, NEW t \in 1..N,
         f[t] % w # w - 1, t < N => f[t + 1] # f[t] + 1,
         Untorn(f, w, 1, t - 1), Untorn(f, w, t + 1, N - 1), t < N => f[N] % w = w - 1
  PROVE  FALSE
<1>1. w % w = 0
  BY OneWhole
<1>2. f[t] % w = (t - 1) % w
  BY <1>1, FromFirst, Zenon
<1>3. t % w # 0
  <2>1. t - 1 \in Nat /\ (t - 1) + 1 = t
    OBVIOUS
  <2>2. ((t - 1) + 1) % w = IF (t - 1) % w = w - 1 THEN 0 ELSE ((t - 1) % w) + 1
    BY <2>1, NextPlace, SMTT(30)
  <2>3. (t - 1) % w \in Nat
    BY <2>1, Division
  <2>4. CASE (t - 1) % w = w - 1
    BY <1>2, <2>4, Zenon
  <2>5. CASE (t - 1) % w # w - 1
    <3>1. t % w = ((t - 1) % w) + 1
      BY <2>1, <2>2, <2>5, Zenon
    <3> QED
      BY <2>3, <3>1
  <2> QED
    BY <2>4, <2>5, SMTT(30)
<1>4. t < N
  <2>1. t # N
    BY <1>3, Zenon
  <2> QED
    BY <2>1
<1>5. f[N] % w = (N - t - 1) % w
  <2>1. t \in 0..(N - 1) /\ N \in (t + 1)..N /\ t \in 1..(N - 1)
    BY <1>4
  <2>2. f[t + 1] = w
    BY <1>4, <2>1, Zenon DEF Onward
  <2>3. f[t + 1] % w = 0
    BY <1>1, <2>2, Zenon
  <2> QED
    BY <2>1, <2>3, Places, Zenon
<1>6. f[N] % w = w - 1
  BY <1>4, Zenon
<1>7. (N - t) % w = 0
  <2>1. N - t - 1 \in Nat /\ (N - t - 1) + 1 = N - t
    BY <1>4, SMTT(30)
  <2>2. ((N - t - 1) + 1) % w = IF (N - t - 1) % w = w - 1 THEN 0 ELSE ((N - t - 1) % w) + 1
    BY <2>1, NextPlace, Zenon
  <2> QED
    BY <1>5, <1>6, <2>1, <2>2, Zenon
<1>8. t \in 0..N
  OBVIOUS
<1> QED
  BY <1>3, <1>7, <1>8, WholeLess, Zenon

\* Pieces of w places each: the n-th begins at place (n - 1) * w.
Even(n, begin, w) == \A k \in 1..(n + 1) : begin[k] = (k - 1) * w

LEMMA EvenPieces ==
  ASSUME NEW n \in Nat, NEW N \in Nat, NEW begin \in [1..(n + 1) -> 0..N], NEW w \in Nat,
         begin[1] = 0, \A k \in 1..n : begin[k + 1] - begin[k] = w
  PROVE  Even(n, begin, w)
<1> DEFINE S == {d \in Nat : d <= n => begin[d + 1] = d * w}
<1>1. 0 \in S
  BY Z3
<1>2. ASSUME NEW d \in Nat, d \in S PROVE d + 1 \in S
  <2> SUFFICES ASSUME d + 1 <= n PROVE begin[(d + 1) + 1] = (d + 1) * w
    OBVIOUS
  <2>1. d + 1 \in 1..n /\ begin[d + 1] \in Int /\ begin[(d + 1) + 1] \in Int /\ w \in Int
    OBVIOUS
  <2>2. begin[(d + 1) + 1] - begin[d + 1] = w /\ begin[d + 1] = d * w
    BY <1>2, <2>1
  <2>3. (d + 1) * w = d * w + w /\ d * w \in Int
    BY OneMore
  <2>4. \A x, y, z \in Int : x - y = z => x = y + z
    BY Z3
  <2>5. begin[(d + 1) + 1] = begin[d + 1] + w
    BY <2>1, <2>2, <2>4, Zenon
  <2> QED
    BY <2>2, <2>3, <2>5, Zenon
<1> HIDE DEF S
<1>3. Nat \subseteq S
  BY <1>1, <1>2, NatIn, Zenon
<1>4. ASSUME NEW k \in 1..(n + 1) PROVE begin[k] = (k - 1) * w
  <2>1. k - 1 \in S /\ k - 1 <= n /\ (k - 1) + 1 = k
    BY <1>3
  <2> QED
    BY <2>1 DEF S
<1> QED
  BY <1>4 DEF Even

\* A whole window of the log is a window again if it was not cut.
InPlace(f, w, a) == \A k \in 1..w : f[a + k] % w = (k - 1) % w
InOrder(f, w, a) == \A k \in 1..w : f[a + k] = (f[a + 1] \div w) * w + k - 1

LEMMA WindowOf ==
  ASSUME NEW N \in Nat, NEW w \in Nat \ {0}, NEW f \in [1..N -> Nat],
         NEW a \in Nat, a + w <= N,
         InPlace(f, w, a), Untorn(f, w, a + 1, a + w)
  PROVE  InOrder(f, w, a)
<1>0. \A k \in 1..w : f[a + k] % w = (k - 1) % w
  BY DEF InPlace
<1> DEFINE n == f[a + 1] \div w
           S == {d \in Nat : d < w => f[a + 1 + d] = n * w + d}
<1>1. n \in Nat /\ f[a + 1] = n * w
  <2>1. f[a + 1] \in Nat /\ 1 \in 1..w /\ 1 - 1 = 0 /\ 0 \in 0..(w - 1)
    OBVIOUS
  <2>2. f[a + 1] % w = 0 % w
    BY <1>0, <2>1, Zenon
  <2>3. 0 % w = 0
    BY OneWhole, Z3
  <2>4. n \in Nat /\ f[a + 1] = n * w + (f[a + 1] % w)
    BY <2>1, Division, Zenon
  <2>5. f[a + 1] = n * w + 0
    BY <2>2, <2>3, <2>4, Zenon
  <2> HIDE DEF n
  <2>6. n * w \in Nat
    BY <2>4, Z3
  <2> QED
    BY <2>4, <2>5, <2>6
<1> HIDE DEF n
<1>2. n * w \in Nat
  BY <1>1, Z3
<1>3. 0 \in S
  BY <1>1, <1>2
<1>4. ASSUME NEW d \in Nat, d \in S PROVE d + 1 \in S
  <2> SUFFICES ASSUME d + 1 < w PROVE f[a + 1 + (d + 1)] = n * w + (d + 1)
    OBVIOUS
  <2> DEFINE k == a + 1 + d
  <2>1. k \in (a + 1)..(a + w) /\ k + 1 = a + 1 + (d + 1) /\ k = a + (d + 1) /\ d + 1 \in 1..w
        /\ (d + 1) - 1 = d
    OBVIOUS
  <2>2. d % w = d
    <3>1. d \in 0..(w - 1)
      OBVIOUS
    <3> QED
      BY <3>1, SmallRemainder, Zenon
  <2>3. f[k] % w = d
    BY <1>0, <2>1, <2>2, Zenon
  <2>4. d # w - 1
    OBVIOUS
  <2>5. f[k + 1] = f[k] + 1
    BY <2>1, <2>3, <2>4, Zenon DEF Untorn
  <2>6. f[k] = n * w + d
    BY <1>4
  <2> HIDE DEF k
  <2> QED
    BY <1>2, <2>1, <2>5, <2>6, SMTT(30)
<1> HIDE DEF S
<1>5. Nat \subseteq S
  BY <1>3, <1>4, NatIn, Zenon
<1>6. ASSUME NEW k \in 1..w PROVE f[a + k] = n * w + k - 1
  <2>1. k - 1 \in S /\ k - 1 < w /\ a + 1 + (k - 1) = a + k
    BY <1>5
  <2>2. f[a + 1 + (k - 1)] = n * w + (k - 1)
    BY <2>1 DEF S
  <2> QED
    BY <1>2, <2>1, <2>2
<1> QED
  BY <1>6 DEF n, InOrder

LEMMA OnlyOne ==
  ASSUME NEW N \in Nat, NEW T \in SUBSET (1..N), Cardinality(T) <= 1, NEW k \in T
  PROVE  \A t \in T : t = k
<1> SUFFICES ASSUME NEW t \in T, t # k PROVE FALSE
  OBVIOUS
<1>1. IsFiniteSet(T) /\ Cardinality(T) \in Nat
  <2>1. IsFiniteSet(1..N)
    BY FS_Interval
  <2>2. IsFiniteSet(T)
    BY <2>1, FS_Subset, Zenon
  <2> QED
    BY <2>2, FS_CardinalityType
<1>2. IsFiniteSet({k}) /\ Cardinality({k}) = 1
  BY FS_Singleton, Zenon
<1>3. Cardinality({k} \cup {t}) = 2
  <2>1. t \notin {k} /\ 1 + 1 = 2
    OBVIOUS
  <2> QED
    BY <1>2, <2>1, FS_AddElement, Zenon
<1>4. {k} \cup {t} \subseteq T
  OBVIOUS
<1>5. Cardinality({k} \cup {t}) <= Cardinality(T)
  BY <1>1, <1>4, FS_Subset
<1> QED
  BY <1>1, <1>3, <1>5

\* The model is trained only with windows of the log as the labeler has them, if at most
\* one run of the labeler was cut short inside a window: whatever the log, the place of
\* the cut, the runs before and after it and the way the windows are divided.
THEOREM TrainingWindows == PipeSpec => []TrainedWithWindows
<1>1. ASSUME LabelInv, NotebookInv, RunsInv, WINDOW = HUNDRED, Cardinality(Torn) <= 1,
             NEW w \in trained
      PROVE  \E n \in 1..nr_lines : windows[w] = [k \in 1..WINDOW |-> n * WINDOW + k - 1]
  <2> DEFINE W == WINDOW
             N == Len(out)
             f == [k \in 1..N |-> out[k].line]
  <2>1. LoopInv /\ OutInv /\ cell \in Divided /\ ~TooLong
    BY <1>1 DEF LabelInv, NotebookInv
  <2>2. /\ out \in Seq([line : 0..(nr_lines - 1), label : {0, 1}]) /\ nr_lines \in Nat
        /\ W \in Nat \ {0} /\ window = W /\ MAX_LEN = W
    BY <1>1, <2>1 DEF LoopInv, window, MAX_LEN
  <2>3. N \in Nat /\ f \in [1..N -> Nat] /\ \A k \in 1..N : f[k] \in W..(nr_lines - 1)
    <3>1. N \in Nat
      BY <2>2
    <3>2. \A k \in 1..N : out[k] \in [line : 0..(nr_lines - 1), label : {0, 1}] /\ out[k].line >= W
      BY <2>1, <2>2, ElementOf, ZenonT(60) DEF OutInv
    <3>3. \A k \in 1..N : f[k] = out[k].line /\ out[k].line \in W..(nr_lines - 1)
      BY <2>2, <3>2
    <3> QED
      BY <2>2, <3>1, <3>3
  <2>4. \A k \in 1..N : f[k] = out[k].line
    OBVIOUS
  <2>5. Len(out) >= window /\ windows = hsplit(Rows) /\ w \in DOMAIN windows
    BY <1>1, <2>1, Dividing, Zenon DEF NotebookInv, Divided
  <2> DEFINE Cut(n, begin) ==
        /\ DOMAIN windows = 1..n /\ begin[1] = 0 /\ begin[n + 1] = N
        /\ \A x \in 1..n :
             /\ begin[x] + window <= begin[x + 1]
             /\ windows[x] \in Seq(Int) /\ Len(windows[x]) = begin[x + 1] - begin[x]
             /\ \A l \in 1..(begin[x + 1] - begin[x]) : windows[x][l] = out[begin[x] + l].line
  <2>6. PICK n \in Nat \ {0} : \E begin \in [1..(n + 1) -> 0..N] : Cut(n, begin)
    BY <2>1, <2>5, TheWindows, Zenon
  <2>7. PICK begin \in [1..(n + 1) -> 0..N] : Cut(n, begin)
    BY <2>6, Zenon
  <2> HIDE DEF f, N, W
  <2>8. ASSUME NEW x \in 1..n PROVE begin[x + 1] - begin[x] = W
    <3>1. begin[x] + W <= begin[x + 1] /\ Len(windows[x]) = begin[x + 1] - begin[x]
      BY <2>2, <2>7, Zenon
    <3>2. ~(Len(windows[x]) > W)
      BY <2>1, <2>2, <2>7, Zenon DEF TooLong
    <3>3. begin[x] \in Int /\ begin[x + 1] \in Int
      BY <2>3
    <3> QED
      BY <2>2, <3>1, <3>2, <3>3, SMTT(30)
  <2>9. Even(n, begin, W)
    <3>1. n \in Nat /\ W \in Nat /\ N \in Nat /\ begin[1] = 0
      BY <2>2, <2>3, <2>7
    <3> QED
      BY <2>8, <3>1, EvenPieces, Zenon
  <2>10. N % W = 0 /\ 1 \in 1..N
    <3>1. n + 1 \in 1..(n + 1) /\ (n + 1) - 1 = n /\ begin[n + 1] = N
      BY <2>7
    <3>2. N = n * W
      BY <2>9, <3>1, SMTT(30) DEF Even
    <3>3. n \in Nat /\ 0 \in 0..(W - 1) /\ N = n * W + 0
      <4>1. n * W \in Nat
        BY <2>2, OneMore, SMTT(30)
      <4> QED
        BY <2>2, <3>2, <4>1, SMTT(30)
    <3>4. N >= W
      BY <2>2, <2>5, SMTT(30) DEF N
    <3>5. N % W = 0
      BY <2>2, <2>3, <3>3, Remainder, Zenon
    <3>6. 1 \in 1..N
      BY <2>2, <2>3, <3>4, SMTT(30)
    <3> QED
      BY <3>5, <3>6, ZenonT(60)
  <2>11. f[1] = W /\ Onward(f, N, W)
    <3>1. out # <<>>
      BY <2>2, <2>10 DEF N
    <3>2. \A k \in 1..(N - 1) : k \in 1..N /\ k + 1 \in 1..N
      BY <2>3
    <3> QED
      BY <1>1, <2>4, <2>10, <3>1, <3>2, ZenonT(60) DEF RunsInv, Onward, N, W
  <2>12. ASSUME NEW k \in 1..N PROVE f[k] % W = W - 1 \/ (k < N /\ f[k + 1] = f[k] + 1)
    <3>1. \A t \in 1..N : t \in Torn <=> f[t] % W # W - 1 /\ (t < N => f[t + 1] # f[t] + 1)
      <4> SUFFICES ASSUME NEW t \in 1..N
                   PROVE  t \in Torn <=> f[t] % W # W - 1 /\ (t < N => f[t + 1] # f[t] + 1)
        BY SMTT(30)
      <4>1. f[t] = out[t].line /\ (t < N => f[t + 1] = out[t + 1].line)
        <5>1. t < N => t + 1 \in 1..N
          BY <2>3, SMTT(30)
        <5> QED
          BY <2>4, <5>1, SMTT(30)
      <4>2. t \in Torn <=> out[t].line % W # W - 1 /\ (t < N => out[t + 1].line # out[t].line + 1)
        BY DEF Torn, N, W
      <4> QED
        BY <4>1, <4>2, Zenon
    <3>2. ASSUME k \in Torn PROVE FALSE
      <4>1. \A t \in Torn : t = k
        <5>1. Torn \in SUBSET (1..N)
          BY DEF Torn, N
        <5> QED
          BY <1>1, <2>3, <3>2, <5>1, OnlyOne, Zenon
      <4>2. \A t \in 1..N : t # k => f[t] % W = W - 1 \/ (t < N /\ f[t + 1] = f[t] + 1)
        BY <3>1, <4>1, Zenon
      <4>3. f[k] % W # W - 1 /\ (k < N => f[k + 1] # f[k] + 1)
        BY <3>1, <3>2, Zenon
      <4>4. \A t \in 1..(k - 1) : t \in 1..N /\ t # k
        BY <2>3, SMTT(30)
      <4>5. \A t \in (k + 1)..(N - 1) : t \in 1..N /\ t # k
        BY <2>3
      <4>6. Untorn(f, W, 1, k - 1) /\ Untorn(f, W, k + 1, N - 1)
        BY <4>2, <4>4, <4>5, Zenon DEF Untorn
      <4>7. k < N => N \in 1..N /\ N # k /\ ~(N < N)
        BY <2>3
      <4>8. k < N => f[N] % W = W - 1
        BY <4>2, <4>7, Zenon
      <4>9. N \in Nat /\ W \in Nat \ {0} /\ f \in [1..N -> Nat] /\ N % W = 0 /\ f[1] = W
        BY <2>2, <2>3, <2>10, <2>11, Zenon
      <4> QED
        BY <2>11, <4>3, <4>6, <4>8, <4>9, NoneTorn, Zenon
    <3> QED
      BY <3>1, <3>2, Zenon
  <2>13. ASSUME NEW k \in 1..N PROVE f[k] % W = (k - 1) % W
    <3>1. \A t \in 1..(k - 1) : t \in 1..N
      BY <2>3
    <3>2. Untorn(f, W, 1, k - 1)
      BY <2>12, <3>1, Zenon DEF Untorn
    <3>3. f[1] % W = 0
      BY <2>2, <2>11, OneWhole, Zenon
    <3>4. N \in Nat /\ W \in Nat \ {0} /\ f \in [1..N -> Nat]
      BY <2>2, <2>3, Zenon
    <3> QED
      BY <2>11, <3>2, <3>3, <3>4, FromFirst, Zenon
  <2> DEFINE a == (w - 1) * W
             nn == f[a + 1] \div W
  <2>14. w \in 1..n /\ begin[w] = a /\ begin[w + 1] = a + W /\ a \in Nat /\ a + W <= N
    <3>1. w \in 1..n
      BY <2>5, <2>7, Zenon
    <3>2. w \in 1..(n + 1) /\ w - 1 \in Nat /\ begin[w] \in Int /\ begin[w + 1] \in 0..N
      BY <2>3, <3>1
    <3>3. begin[w] = a
      BY <2>9, <3>2 DEF Even
    <3>4. a \in Nat
      BY <2>2, <3>2, OneMore, Zenon
    <3>5. begin[w + 1] - begin[w] = W
      BY <2>8, <3>1
    <3> HIDE DEF a
    <3>6. W \in Nat /\ N \in Nat
      BY <2>2, <2>3
    <3>7. \A x, y \in Int : x = a /\ y \in 0..N /\ y - x = W => y = a + W /\ a + W <= N
      BY <3>4, <3>6
    <3>8. begin[w + 1] \in Int
      BY <3>2
    <3>9. begin[w + 1] = a + W /\ a + W <= N
      BY <3>2, <3>3, <3>5, <3>7, <3>8, Zenon
    <3> QED
      BY <3>1, <3>3, <3>4, <3>9
  <2>15. ASSUME NEW k \in 1..W PROVE a + k \in 1..N /\ f[a + k] % W = (k - 1) % W
    <3>0. w \in 1..n /\ a \in Nat /\ a + W <= N /\ W \in Nat \ {0} /\ N \in Nat
      BY <2>2, <2>3, <2>14, Zenon
    <3>1. k - 1 \in 0..(W - 1) /\ w - 1 \in Nat
      <4> HIDE DEF a
      <4> QED
        BY <3>0
    <3>2. a + k \in 1..N /\ (a + k) - 1 = a + (k - 1) /\ a + (k - 1) \in Nat
      <4> HIDE DEF a
      <4> QED
        BY <3>0
    <3>3. (a + (k - 1)) % W = k - 1
      BY <3>0, <3>1, <3>2, Remainder, Zenon
    <3>4. (k - 1) % W = k - 1
      BY <3>0, <3>1, SmallRemainder, Zenon
    <3> HIDE DEF a
    <3> QED
      BY <2>13, <3>2, <3>3, <3>4, Zenon
  <2> HIDE DEF a
  <2>16. \A k \in 1..W : f[a + k] = nn * W + k - 1
    <3>0. a \in Nat /\ a + W <= N /\ W \in Nat \ {0} /\ N \in Nat
      BY <2>2, <2>3, <2>14, Zenon
    <3>1. \A k \in (a + 1)..(a + W) : k \in 1..N
      BY <3>0
    <3>2. Untorn(f, W, a + 1, a + W)
      BY <2>12, <3>1, Zenon DEF Untorn
    <3>3. W \in Nat \ {0} /\ N \in Nat /\ f \in [1..N -> Nat]
      BY <2>2, <2>3, Zenon
    <3> QED
      <4>1. InPlace(f, W, a)
        BY <2>15, Zenon DEF InPlace
      <4>2. InOrder(f, W, a)
        BY <3>0, <3>2, <3>3, <4>1, WindowOf, Zenon
      <4> QED
        BY <4>2, Zenon DEF InOrder
  <2>17. nn \in 1..nr_lines
    <3>1. 1 \in 1..W /\ a + 1 \in 1..N
      BY <2>2, <2>15
    <3>2. f[a + 1] \in Nat /\ f[a + 1] >= W /\ f[a + 1] < nr_lines
      BY <2>2, <2>3, <3>1
    <3>3. nn \in Nat /\ (1 <= nn <=> 1 * W <= f[a + 1]) /\ (nn <= nn <=> nn * W <= f[a + 1])
      BY <2>2, <3>2, Division, WindowFrom, Zenon
    <3> HIDE DEF nn
    <3>4. nn <= nn * W /\ nn * W \in Nat
      BY <2>2, <3>3, AtLeast
    <3>5. \A x, y, z, m \in Nat :
            1 <= x /\ x <= y /\ y <= z /\ z < m => x \in 1..m
      BY Z3
    <3>6. 1 * W = W /\ W <= f[a + 1] /\ nn <= nn
      BY <2>2, <3>2, <3>3
    <3>7. 1 <= nn /\ nn * W <= f[a + 1]
      BY <3>3, <3>6, Zenon
    <3> QED
      BY <2>2, <3>2, <3>3, <3>4, <3>5, <3>7, Zenon
  <2> HIDE DEF nn
  <2>18. windows[w] = [k \in 1..W |-> nn * W + k - 1]
    <3>1. windows[w] \in Seq(Int) /\ Len(windows[w]) = W
      <4>1. windows[w] \in Seq(Int) /\ Len(windows[w]) = begin[w + 1] - begin[w]
        BY <2>7, <2>14, Zenon
      <4> QED
        BY <2>2, <2>14, <4>1, SMTT(30)
    <3>2. ASSUME NEW k \in 1..W PROVE windows[w][k] = nn * W + k - 1
      <4>1. k \in 1..(begin[w + 1] - begin[w])
        BY <2>2, <2>14
      <4>2. windows[w][k] = out[begin[w] + k].line
        BY <2>7, <2>14, <4>1, Zenon
      <4> QED
        BY <2>4, <2>14, <2>15, <2>16, <4>2, Zenon
    <3>3. windows[w] = [k \in 1..W |-> windows[w][k]]
      BY <3>1, Listed, Zenon
    <3> QED
      BY <3>2, <3>3
  <2> QED
    BY <2>17, <2>18 DEF W
<1>2. LabelInv /\ NotebookInv /\ RunsInv => TrainedWithWindows
  BY <1>1 DEF TrainedWithWindows
<1> QED
  BY <1>2, NotebookAlways, RunsAlways, PTL
=============================================================================
