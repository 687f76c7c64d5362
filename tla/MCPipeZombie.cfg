SPECIFICATION FairSpec
CONSTANTS
  e = e
  p = p
  c1 = c1
  q = q
  v = v
  m = m
  EcfWorker = e
  PollWorker = p
  Runs <- None
  Queries <- None
  Voids <- OneVoid
  Marks <- None
  IsRfce = FALSE
  HasReference = FALSE
  MaxAttempts = 2
  MaxPolls = 1
  MaxSubmits = 2
  Faults <- NoLostJob
CHECK_DEADLOCK FALSE
 
PROPERTY JobsEnd
