SPECIFICATION Spec
CONSTANTS
  e = e
  p = p
  c1 = c1
  q = q
  v = v
  m = m
  EcfWorker = e
  PollWorker = p
  Runs <- OneRun
  Queries <- None
  Voids <- OneVoid
  Marks <- None
  IsRfce = FALSE
  HasReference = FALSE
  MaxAttempts = 2
  MaxPolls = 1
  MaxSubmits = 1
  Faults <- NoFaults
CHECK_DEADLOCK FALSE
PROPERTY AcceptedNeverVoided
