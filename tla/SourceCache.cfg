SPECIFICATION FairSpec
CONSTANTS
  BlkBytes = 2
  MinWin = 2
  Sources <- MCSources
  MaxBlk = 6
INVARIANTS
  BlocksTrue
  EofTrue
  RefusedOnlyBehind
PROPERTIES
  Answered
