SPECIFICATION Spec
CONSTANTS
  SNear = 2
  SSame = 2
  Radix = 2
  SmallMax = 1
  Segments <- MCSegments
  Lengths <- MCLengths
  Sizes <- MCSizes
  MaxPending = 3
INVARIANTS
  TypeOK
  Lockstep
  AddrAgree
  NeverRejects
  CheapestAddress
