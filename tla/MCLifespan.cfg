CONSTANTS
  a = a
  b = b
  r = r
  NoModel = none
  NoServer = noserver
  Models = {a, b, r}
  Spawned = {a}
  Port <- MCPort
  MaxAtOnce <- MCMaxAtOnce
  Threads = {"loader", "loop", "ttl", "ctrl_e"}
  Sites <- CarefulSites
  Clients = {"c1", "c2"}
  Size <- MCSize
  Wired = 5
  MaxObjects = 2
SPECIFICATION Spec
INVARIANTS
  TypeOK
  NoOrphan
  OwnAnswers
  OnlyCutLoadsOutlive
  StartedAsPlanned
PROPERTIES
  StopReturns
