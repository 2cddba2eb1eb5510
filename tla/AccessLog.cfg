SPECIFICATION FrontSpec
CONSTANTS
  p1 = p1 t1 = t1 t2 = t2
  Procs <- MCProcs
  Threads <- MCThreads
  Owner <- MCOwner
  Args <- MCArgs
  Fds <- MCFds
  Requests <- MCRequests
  MaxPos = 1
  SIZE_MOD = 4
  MaxCalls = 2
  MaxSems = 1
  Faults = {"eintr"}
INVARIANTS LinesExact NoneMissed LoggedOnReturn
SYMMETRY Symmetry
CHECK_DEADLOCK FALSE
