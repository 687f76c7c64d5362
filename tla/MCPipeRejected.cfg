SPECIFICATION FairSpec
CONSTANTS
  e = e
  p = p
  c1 = c1
  q = q
  v = v
  m = m
  EcfWorker = e
  PollWorker = p
  Runs <- OneRun
  Queries <- OneQuery
  Voids <- OneVoid
  Marks <- None
  IsRfce = FALSE
  HasReference = FALSE
  MaxAttempts = 1
  MaxPolls = 1
  MaxSubmits = 2
  Faults <- RefundCompletes
CHECK_DEADLOCK FALSE
PROPERTIES RejectedIsRefunded 
