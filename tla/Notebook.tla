------------------------------ MODULE Notebook ------------------------------
(***************************************************************************)
(* src/code/transformer/final_project.ipynb, run in document order: the    *)
(* labelled log is cut into windows (cell 3; cell 23 for the transfer), a  *)
(* random 90% of them are for training (get_data_loader), and training     *)
(* alternates with evaluation on the rest (train, eval_acc). The labelled  *)
(* log is the output of the labeler, however many runs have written it.    *)
(*                                                                         *)
(* Windows are known by their place in the list that np.hsplit returns.    *)
(* random.shuffle changes the order of that list, which only matters for   *)
(* which part of it is for training: any part of the right size. The       *)
(* values of the parameters, and so the accuracy, are not modelled; the    *)
(* notebook's window and MAX_LEN, 100, are the constant HUNDRED.           *)
(***************************************************************************)
EXTENDS Labeler, FiniteSetsExt

CONSTANTS
  BatchSizes,   \* the batch sizes get_data_loader is called with
  num_epochs,
  LogsRead      \* bound: the lengths of the logs whose labels are read

ASSUME NotebookAssumption == BatchSizes \subseteq Nat \ {0}

VARIABLES
  cell,         \* where in the notebook, or the exception that ended it
  pass,         \* the model that is trained: "model", "model_transfer"
  windows,      \* data, after np.hsplit: sequences of line numbers
  loaders,      \* [train, val, batch_size], the loaders made last
  made,         \* how many times loaders have been made
  epoch,
  trained,      \* the windows the model has been trained with
  evaluated     \* the windows of the last evaluation on the validation set

nbVars == <<cell, pass, windows, loaders, made, epoch, trained, evaluated>>

NotebookInit ==
  /\ cell = "none" /\ pass = "model"
  /\ windows = <<>>
  /\ loaders = [train |-> {}, val |-> {}, batch_size |-> 1]
  /\ made = 0 /\ epoch = 0
  /\ trained = {} /\ evaluated = {}
----------------------------------------------------------------------------
window == HUNDRED
MAX_LEN == HUNDRED
Rows == [k \in 1..Len(out) |-> out[k].line]

\* Mutant: what is left over is cut off.
MutantHsplit(rows) ==
  [k \in 1..(Len(rows) \div window) |-> SubSeq(rows, (k - 1) * window + 1, k * window)]

\* np.hsplit(rows, len / window). The number of sections is a float, of which numpy
\* takes the integral part; the first sections are longer by one if need be.
hsplit(rows) ==
  LET sections == Len(rows) \div window
      each == Len(rows) \div sections
      extras == Len(rows) % sections
      Start(k) == (k - 1) * each + (IF k - 1 < extras THEN k - 1 ELSE extras)
  IN  [k \in 1..sections |-> SubSeq(rows, Start(k) + 1, Start(k + 1))]

\* Cells 3 and 23. The check of numpy that the sections are equal compares floats:
\* for a length that is no multiple of window the outcome depends on the rounding.
load(which) ==
  /\ cell = "none" /\ pc \notin {"idle", "main"}
  /\ nr_lines \in LogsRead
  /\ pass' = which
  /\ \/ Len(out) >= window /\ windows' = hsplit(Rows) /\ cell' = "loaded"
     \/ /\ Len(out) < window \/ Len(out) % window # 0
        /\ cell' = "ValueError" /\ UNCHANGED windows
  /\ UNCHANGED <<loaders, made, epoch, trained, evaluated>>

Ragged == \E k, m \in DOMAIN windows : Len(windows[k]) # Len(windows[m])

\* Mutant: the size is rounded up.
MutantTrainSetSize(n) == (9 * n + 9) \div 10
train_set_size(n) == (9 * n) \div 10

\* Mutant: the last window for training is the first one for validation as well.
MutantSplits ==
  {[train |-> T, val |-> {w \in DOMAIN windows : w \notin T \/ w = Max(T)}] :
     T \in kSubset(train_set_size(Len(windows)), DOMAIN windows)}

\* The ways to shuffle and divide the windows.
Splits ==
  {[train |-> T, val |-> DOMAIN windows \ T] :
     T \in kSubset(train_set_size(Len(windows)), DOMAIN windows)}

\* get_data_loader, called in cells 5, 6 and 13, and in cells 23 and 24; np.array
\* fails for windows of different lengths. The last call is followed by train.
get_data_loader(b) ==
  /\ cell = "loaded"
  /\ IF Ragged
     THEN cell' = "RaggedError" /\ UNCHANGED <<loaders, made>>
     ELSE /\ \E s \in Splits : loaders' = [train |-> s.train, val |-> s.val, batch_size |-> b]
          /\ made' = made + 1
          /\ cell' = IF made' = (IF pass = "model" THEN 3 ELSE 2) THEN "eval_acc" ELSE cell
  /\ UNCHANGED <<pass, windows, epoch, trained, evaluated>>

\* The windows one pass over a loader may get: full batches of shuffled windows.
Batches(set) ==
  kSubset(loaders.batch_size * (Cardinality(set) \div loaders.batch_size), set)
NoBatch(set) == Cardinality(set) < loaders.batch_size
TooLong == \E k \in DOMAIN windows : Len(windows[k]) > MAX_LEN

\* eval_acc on a set, going on to next: without a batch the accuracy is 0 / 0, and
\* the positional encoding has MAX_LEN places.
Evaluate(set, next) ==
  cell' = CASE NoBatch(set) -> "ZeroDivisionError"
            [] ~NoBatch(set) /\ TooLong -> "RuntimeError"
            [] OTHER -> next

\* The begin of an epoch of train.
eval_acc ==
  /\ cell = "eval_acc"
  /\ Evaluate(loaders.val, "train")
  /\ evaluated' \in IF cell' = "train" THEN Batches(loaders.val) ELSE {evaluated}
  /\ UNCHANGED <<pass, windows, loaders, made, epoch, trained>>

\* The rest of the epoch.
train ==
  /\ cell = "train"
  /\ \E S \in Batches(loaders.train) : trained' = trained \cup S
  /\ epoch' = epoch + 1
  /\ cell' = CASE epoch' < num_epochs -> "eval_acc"
               [] epoch' = num_epochs /\ pass = "model" -> "cell15"
               [] OTHER -> "end"
  /\ UNCHANGED <<pass, windows, loaders, made, evaluated>>

\* Training Accuracy
cell15 ==
  /\ cell = "cell15"
  /\ Evaluate(loaders.train, "cell16")
  /\ UNCHANGED <<pass, windows, loaders, made, epoch, trained, evaluated>>

\* Validation Accuracy, which has to be 38% at least
cell16 ==
  /\ cell = "cell16"
  /\ evaluated' \in Batches(loaders.val)
  /\ cell' \in {"end", "AssertionError"}
  /\ UNCHANGED <<pass, windows, loaders, made, epoch, trained>>

NotebookNext ==
  \/ \E m \in {"model", "model_transfer"} : load(m)
  \/ \E b \in BatchSizes : get_data_loader(b)
  \/ eval_acc \/ train \/ cell15 \/ cell16
----------------------------------------------------------------------------
LinesOf(W) == {windows[w][k] : w \in W, k \in 1..window}

\* The runs of the labeler that have left a part of a window in the labelled log.
Torn == {k \in 1..Len(out) :
           /\ out[k].line % WINDOW # WINDOW - 1
           /\ k < Len(out) => out[k + 1].line # out[k].line + 1}

\* The model is trained with windows of the log, as the labeler has them, if at most
\* one run of the labeler was cut short inside a window: although the labelled log is
\* cut by counting lines, and can be cut into windows of another length, one that is
\* out of step fails before training. (Two such runs can make up for each other.)
TrainedWithWindows ==
  WINDOW = HUNDRED /\ Cardinality(Torn) <= 1 =>
    \A w \in trained :
      \E n \in 1..nr_lines : windows[w] = [k \in 1..WINDOW |-> n * WINDOW + k - 1]

\* The accuracy is measured with data the model has not been trained with, although
\* loaders are made anew before training and every epoch is shuffled: no access is in
\* both, if none is twice in the labelled log.
EvaluatedUnseen ==
  Cardinality({out[k].line : k \in 1..Len(out)}) = Len(out) =>
    LinesOf(trained) \cap LinesOf(evaluated) = {}

\* The accuracy is a division by zero only if there are too few windows for one batch
\* of a tenth of them: at most 10 * (batch_size - 1), or a single one.
ZeroOnlyIfFew ==
  cell = "ZeroDivisionError" =>
    Len(windows) <= 10 * (loaders.batch_size - 1) \/ Len(windows) = 1
============================================================================
