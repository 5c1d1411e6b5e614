CONSTANTS
  Size = 3
  CheckSize = 2
  WindowSize = 2
  PipeSize = 1
  MaxChildren = 6
  MAX_SUBPROCS = 4
  Commands <- MCBothCompressed
  MaxReadErrors = 1
SPECIFICATION Spec
INVARIANTS
  SubprocsFit
