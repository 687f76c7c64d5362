SPECIFICATION Spec
CONSTANTS
  e1 = e1
  e2 = e2
  f1 = f1
  t1 = t1
  n1 = n1
  n2 = n2
  a1 = a1
  r1 = r1
  r2 = r2
  c1 = c1
  c2 = c2
  c3 = c3
  k1 = k1
  k2 = k2
  k3 = k3
  x1 = x1
  x2 = x2
  q1 = q1
  u1 = u1
  u2 = u2
  u3 = u3
  b1 = b1
  b2 = b2
  TenantRows <- OneRow
  Admins <- OneAdmin
  TenantIncluded = 1
  Emissions <- TwoEmissions
  Refunds <- OneRefund
  Topups <- OneTopup
  Renewals <- TwoRenewals
  Exempt <- None
  Codes <- OnePlan
  Included <- OneInvoicePlan
  PackSize = 1
  MaxInvoices = 3
  MaxAssigns = 1
  MaxRenewed = 2
  MaxTopups = 1
  Creations <- ThreeCreations
  Bootstraps <- OneBootstrap
  Planned <- OnePlanned
  KeyCalls <- TwoKeyCalls
  KeyIds <- ThreeKeys
  ApiRequests <- OneRequest
  CompanyCalls <- ThreeCompanyCalls
  BuyerCalls <- TwoBuyerCalls
  Names <- SomeNames
  Categories <- SomeCategories
  RegistryStates <- SomeStates
  Envs <- TwoEnvs
SYMMETRY Symmetric
ACTION_CONSTRAINT TwoAtATime
CHECK_DEADLOCK FALSE
INVARIANT WithinQuota
INVARIANT UsageLostOnlyToRefunds
INVARIANT TenantOverrunBounded
INVARIANT RenewalNeverBlocked
INVARIANT CreatedComplete
