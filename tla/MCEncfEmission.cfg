SPECIFICATION FairSpec
CONSTANTS
  r1 = r1
  r2 = r2
  r3 = r3
  a1 = a1
  a2 = a2
  c1 = c1
  c2 = c2
  k1 = k1
  NoKey = NoKey
  NoSeq = NoSeq
  Requests = {r1, r2, r3}
  Registrations = {c1}
  Annulments = {a1}
  MaxNumber = 3
  RegisterRanges <- OneRange
  AnnulLists <- AnnulLists1
  KeyOf <- KeyOfDef
  Overrides <- NoOverrides
INVARIANTS CounterNeverCollides OneInvoicePerKey FreeNumbersNotAnnulled
PROPERTY EveryEmissionAnswered
CHECK_DEADLOCK FALSE
