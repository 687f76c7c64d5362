SPECIFICATION Spec
CONSTRAINT OneCertificate
SYMMETRY Symmetric
CONSTANTS
  u1 = u1
  u2 = u2
  e1 = e1
  e2 = e2
  r1 = r1
  r2 = r2
  a1 = a1
  a2 = a2
  n1 = n1
  n2 = n2
  w1 = w1
  w2 = w2
  k1 = k1
  k2 = k2
  Uploads <- TwoUploads
  MaxCerts = 2
  MaxNow = 4
  Files <- Uploaded
  Emitters <- TwoEmitters
  Receipts <- TwoReceipts
  Approvals <- TwoApprovals
  Numbers <- OneNumber
  Companies <- TwoCompanies
  Workers <- TwoWorkers
CHECK_DEADLOCK FALSE
INVARIANT RenewalKept
 
INVARIANT StatusBacked
INVARIANT AcecfSettled
