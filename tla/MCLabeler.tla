----------------------------- MODULE MCLabeler -----------------------------
(***************************************************************************)
(* Instances of Labeler for what the comment at the head of label.py says. *)
(***************************************************************************)
EXTENDS Labeler

Setup(w, lines, n) == {[WINDOW |-> w, faults |-> {}, logs |-> [0..(n - 1) -> lines]]}

\* The window of the comment's example.
ExampleSetups ==
  Setup(5, {[fd |-> 3, offset |-> 0, data |-> "a"], [fd |-> 3, offset |-> 8, data |-> "b"]}, 11)

\* One block of a file that two processes have open, under different descriptors.
TwoProcessesSetups ==
  Setup(2, {[fd |-> 3, offset |-> 0, data |-> "a"], [fd |-> 4, offset |-> 0, data |-> "a"]}, 6)
============================================================================
