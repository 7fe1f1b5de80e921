CONSTANTS
  l1 = l1  l2 = l2  l3 = l3  l4 = l4
  a = a  b = b  c = c  d = d
  lms = lms  ds4 = ds4  llama = llama
  None = None
  Leases = {l1, l2, l3, l4}
  ModelIds = {a, b, c, d}
  Providers = {lms, ds4}
  ProviderOf <- AliasProviderOf
  SingleResident = {ds4}
  Mem <- Sizes
  Budget = 9
  Protected = {}
  Pruners = {"ttl"}
  Impatient = {}
  Flaky = {}
SYMMETRY Perms
SPECIFICATION Spec
INVARIANTS
  GenerationNeverCut
  OneResidentPerSlot
  ResidentIsUp
PROPERTIES
  NoGrantWhileDying
  PruneSparesNamed
