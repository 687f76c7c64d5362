SPECIFICATION IssuedSpec
CONSTANTS
  Asked <- AllAsked
  FullThreshold = 25000000
  MaxSignings = 3
  JobAttempts = 2
  MaxStalls = 1
  AnnulNumbers <- FourNumbers
  AnnulTypes <- TwoTypes
  MaxRanges = 3
  SheetIndexes <- TwoIndexes
  SheetRows <- ThreeRows
CHECK_DEADLOCK FALSE
INVARIANT SchemaKept
INVARIANT HeaderBalances
 
INVARIANT PrintedIsDeclared
INVARIANT NothingLost
INVARIANT PrintedAsHeld
INVARIANT VerdictKept
INVARIANT MessagesSay
INVARIANT SheetKept
