CONSTANTS
  m1 = m1  m2 = m2  m3 = m3
  Models = {m1, m2, m3}
  MaxSize = 4
  MaxNeed = 8
  None = None
SPECIFICATION Spec
INVARIANTS
  TypeOK
  ReturnsAChoice
  FreesEnough
  RaisesOnlyIfHopeless
  NeverBeatenBySingle
  GreedyCoversSingle
