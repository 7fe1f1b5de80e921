CONSTANTS
  l1 = l1  l2 = l2  l3 = l3  l4 = l4
  a = a  b = b  c = c  d = d
  lms = lms  ds4 = ds4  llama = llama
  None = None
  Leases = {l1, l2, l3}
  ModelIds = {a, b, c}
  Providers = {lms}
  ProviderOf <- LmsProviderOf
  SingleResident = {}
  Mem <- Sizes
  Budget = 5
  Protected = {}
  Pruners = {"ttl"}
  Impatient = {}
  Flaky = {}
SYMMETRY Perms
SPECIFICATION Spec
INVARIANTS
  GenerationNeverCut
