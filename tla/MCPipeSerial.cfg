SPECIFICATION Spec
ACTION_CONSTRAINT OneHandler
CONSTANTS
  e = e
  p = p
  c1 = c1
  q = q
  v = v
  m = m
  EcfWorker = e
  PollWorker = p
  Runs <- OneRun
  Queries <- None
  Voids <- OneVoid
  Marks <- OneMark
  IsRfce = FALSE
  HasReference = TRUE
  MaxAttempts = 3
  MaxPolls = 2
  MaxSubmits = 2
  Faults <- EmitOnly
CHECK_DEADLOCK FALSE
 
PROPERTY AcceptedStays
