CONSTANTS
  Size = 3
  CheckSize = 2
  WindowSize = 2
  PipeSize = 1
  MaxChildren = 6
  MAX_SUBPROCS = 4
  Commands <- MCCommands
  MaxReadErrors = 1
SPECIFICATION Spec
INVARIANTS
  ExitTrue
  VerifiedFirst
PROPERTIES
  Finishes
