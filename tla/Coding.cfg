CONSTANTS
  Bits = 2
  Width = 7
  MaxBytes = 5
  InstSizes = {1, 4, 5, 6, 7, 17, 18, 19}
  InstModes = {0, 5, 6, 8}
  MaxInsts = 3
  SecIds = {1, 2}
  AppHeaders = {0, 5}
  Windows <- MCWindows
  PackedSizes = {3, 4}
  Recodings <- MCRecodings
  Leftover <- MCLeftover
  MaxWindows = 2
  ByteBits = 4
  ALPHABET_SIZE = 4
  DJW_MAX_CODELEN = 2
  djw_encode_12basic <- MCBasic
  djw_encode_12extra <- MCExtra
  EFFICIENCY_BITS = 16
  Thousand = 10
  SECONDARY_MIN_INPUT = 2
  SECONDARY_MIN_SAVINGS = 0
  SectionSizes = {1, 3}
  InefficientCfgs = {TRUE, FALSE}
  DjwSections <- MCDjwSections
  MaxSections = 3
  Origin <- MCOrigin
  Chains <- MCChains
  MaxTargets <- MCTargets
  DeltaWindows <- MCDeltaWindows
SPECIFICATION Spec
INVARIANTS
  IntegersRead
  InstructionsRead
  PairsTaken
  HeadersRead
  SectionsDecoded
  TreesAgree
  TreesSound
  MergedTrue
  MergeHolds
  RearmedTrue
