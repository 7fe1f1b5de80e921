CONSTANTS
  l1 = l1  l2 = l2  l3 = l3  l4 = l4
  a = a  b = b  c = c  d = d
  lms = lms  ds4 = ds4  llama = llama
  None = None
  Leases = {l1, l2, l3}
  ModelIds = {a, b}
  Providers = {lms, ds4}
  ProviderOf <- TwoProviderOf
  SingleResident = {ds4}
  Mem <- Sizes
  Budget = 4
  Protected = {b}
  Pruners = {"ttl"}
  Impatient = {l1}
  Flaky = {lms}
SPECIFICATION FairSpec
INVARIANTS
  TypeOK
  NoLeakedClaim
  NoLostRequest
  QueuedAreLive
PROPERTIES
  ProtectedStay
  Answered
