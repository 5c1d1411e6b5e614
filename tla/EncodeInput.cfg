SPECIFICATION FairSpec
CONSTANTS
  WinSize = 3
  MaxPiece = 3
  Totals = {0, 1, 3, 5}
  Styles = {"main", "memory", "pieces"}
  MaxGets = 1
  PageSize = 2
  Counts = {0, 1, 3}
INVARIANTS
  InputKept
  OutputInOrder
PROPERTIES
  Ended
