SPECIFICATION CopiesSpec
CONSTANTS
  MaxSignings = 3
  JobAttempts = 2
  MaxStalls = 1
CHECK_DEADLOCK FALSE
INVARIANT PrintsSigningTime
