SPECIFICATION BackgroundSpec
CONSTANTS
  p1 = p1
  p2 = p2
  c1 = c1
  c2 = c2
  s1 = s1
  s2 = s2
  j1 = j1
  j2 = j2
  Pods <- TwoPods
  Keys <- CleanupOnly
  MaxTokens = 3
  Calls <- TwoCalls
  MaxAuth = 2
  MaxTokenRows = 2
  Subs <- TwoSubs
  Jobs <- TwoJobs
  Flaky <- OneFlaky
  MaxAttempts = 2
  Threshold = 3
  MaxUpsets = 1
CHECK_DEADLOCK FALSE
INVARIANT Exclusive
 
INVARIANT NoSilentLoss
INVARIANT FailingIsOff
PROPERTY JobsSettle
