SPECIFICATION FairSpec
CONSTANTS
  Deltas <- MCDeltas
  Base = 8
  MaxPiece = 4
  BlkSize = 4
  SourceLen = 12
  ShortLen = 6
  Modes = {"decode", "nover", "header", "headers", "sections"}
  MaySkip = TRUE
  Truncated = {"decode", "headers"}
INVARIANTS
  InputRead
  ResultsTrue
PROPERTIES
  ImplementsWindows
  Ended
