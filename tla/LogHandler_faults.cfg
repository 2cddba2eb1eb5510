SPECIFICATION Spec
CONSTANTS
  p1 = p1 p2 = p2 t1 = t1 t2 = t2 t3 = t3
  Args <- MCArgs
  Procs <- Procs2
  Threads <- Threads3
  Owner <- Owner3
  MaxCalls = 2
  MaxSems = 2
  Faults = {"semfail", "eintr", "logfail", "kill", "reapbusy"}
INVARIANTS TypeOK SemConservation MutexPerSemaphore StuckOnlyByDeadHolder SplitOnlyAfterExit OncePerCall
PROPERTY ImplementsCallLog
CHECK_DEADLOCK FALSE
