SPECIFICATION Spec
CONSTANTS
  PageSize = 8
  MaxMappedPages = 2
  LastPage = 4
  QUERY_SIZE = 2
  ChecksumMod = 4
  TableSize = 5
  CHEW <- MCCHEW
  CHash <- MCCHash
  Inputs <- MCInputs
INVARIANTS
  PatchTrue
  AssertsHold
  PagesSound
