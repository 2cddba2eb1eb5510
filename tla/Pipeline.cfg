SPECIFICATION PipeSpec
CONSTANTS
  LOOKAHEAD = 2
  HUNDRED = 2
  Setups <- AllSetups
  MaxRuns = 2
  MaxOut = 8
  Fds = {3, 4}
  Sizes = {1}
  nr_files = 2
  stride = 3
  nr_entries = 9
  BatchSizes = {1, 2}
  num_epochs = 2
  LogsRead = {11, 25}
INVARIANTS
  LoopsInside LabelsRight WholeWindows LaterWindowsLabelled ErrorOnlyAtEnd
  LabelIsReuse
  TrainedWithWindows EvaluatedUnseen ZeroOnlyIfFew
PROPERTY Terminates
CHECK_DEADLOCK FALSE
