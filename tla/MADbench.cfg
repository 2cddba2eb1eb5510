\* Two to four PEs in one to four gangs. AllFinish covers deadlock.
CONSTANTS
  Configs <- AllRuns
SPECIFICATION MadSpec
INVARIANTS
  OneOfGroup
  TokenStaysInGang
  TokensUsedUp
  ReadsItsMatrix
  AllWritten
  BuffersQuiet
  AccessesApart
PROPERTIES
  AllFinish
CHECK_DEADLOCK FALSE
