SPECIFICATION Spec
CONSTANTS
  r1 = r1
  r2 = r2
  r3 = r3
  a1 = a1
  a2 = a2
  c1 = c1
  c2 = c2
  k1 = k1
  NoKey = NoKey
  NoSeq = NoSeq
  Requests = {r1, r2}
  Registrations = {c1, c2}
  Annulments = {a1}
  MaxNumber = 3
  RegisterRanges <- MeetingRanges
  AnnulLists <- RegisteredLists
  KeyOf <- NoKeys
  Overrides <- SomeOverrides
INVARIANTS NoOrphanSecuencial CounterCoversInvoices
PROPERTIES CounterNeverGoesBack OfferedIsNotRefused ImplementsRegistry
CHECK_DEADLOCK FALSE
