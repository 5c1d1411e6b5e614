SPECIFICATION FairSpec
CONSTANTS
  LLook = 3
  LStep = 2
  SLook = 2
  MinMatch = 2
  MinRun = 4
  MaxLazy = 6
  OffMod = 16
  Mult = 3
  CksumMod = 32
  LSlots = 7
  SSlots = 5
  Slot <- MCSlot
  SChain = 4
  SLChain = 2
  LongEnough = 4
  SPrevSz = 8
  Far <- MCFar
  Encodings <- MCEncodings
INVARIANTS
  CopiesTrue
  Assumptions
PROPERTIES
  WindowsEnd
