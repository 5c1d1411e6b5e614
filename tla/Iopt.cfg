SPECIFICATION FairSpec
CONSTANTS
  Profiles <- MCProfiles
  Elts = 2
  MinMatch = 4
  MinRun = 8
  MaxSplit = 5
  SLook = 4
  LLook = 5
INVARIANTS
  BufferSound
  NothingBehind
  SlotsKept
PROPERTIES
  CompactionLosesLittle
  WindowEnds
