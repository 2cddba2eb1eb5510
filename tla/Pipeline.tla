------------------------------ MODULE Pipeline ------------------------------
(***************************************************************************)
(* From the log to the model: a log of an application or of a generator,   *)
(* the labeler, and the notebook that reads the labelled log once no       *)
(* labeler is running.                                                     *)
(***************************************************************************)
EXTENDS SyntheticTrace, Notebook

pipeVars == <<allVars, nbVars>>

PipeInit == TraceInit /\ NotebookInit

PipeNext ==
  \/ cell = "none" /\ TraceNext /\ UNCHANGED nbVars
  \/ NotebookNext /\ UNCHANGED allVars

\* A script that runs is given the processor.
PipeSpec ==
  /\ PipeInit /\ [][PipeNext]_pipeVars
  /\ WF_pipeVars((label_line \/ index_error) /\ UNCHANGED <<genVars, nbVars>>)
============================================================================
