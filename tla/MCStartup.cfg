CONSTANTS
  none = none
  None = none
  NoRef = noref
  NoAlias = noalias
  Absent = absent
  Torn = torn
  Instances <- MCInstances
  Callers = {"loop", "worker"}
  Ctxs = {1, 2}
  Profiles <- MCProfiles
  DefaultFamily = "deepseek"
  FlatFamilies = {"deepseek"}
  NoDrafterGraph = {"qwen"}
  Measured <- MCMeasured
  FileBytes <- MCFileBytes
  Limit = 1
  Configs <- MCConfigs
  Dflash <- MCDflash
  Refs <- MCRefs
  LocalDirs <- MCLocalDirs
  Registry <- MCRegistry
  Checkpoint <- MCCheckpoint
  Versions = 2
  Sites <- MCSites
  Ds4 <- MCDs4
  Tree <- MCTree
  DefaultCtx = 1
  Replaceable <- MCReplaceable
SPECIFICATION Spec
INVARIANTS
  TypeOK
  MemoBounded
  PricesItsOwn
  NamedAfterGguf
  EachIdReachesItsInstance
  RecallAgrees
  TornOnlyWhenCutShort
PROPERTIES
  ServesOnlyPriced
