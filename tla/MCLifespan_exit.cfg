CONSTANTS
  a = a
  b = b
  r = r
  NoModel = none
  NoServer = noserver
  Models = {a, b, r}
  Spawned = {a, b}
  Port <- MCPort
  MaxAtOnce <- MCMaxAtOnce
  Threads = {"loader", "loop", "ttl", "ctrl_e"}
  Sites <- SweptSites
  Clients = {"c1"}
  Size <- MCSize
  Wired = 4
  MaxObjects = 2
SPECIFICATION Spec
INVARIANTS
  UnloadsEveryResident
