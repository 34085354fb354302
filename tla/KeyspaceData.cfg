SPECIFICATION FairSpec
CONSTANTS
  c1 = c1
  c2 = c2
  k1 = k1
  k2 = k2
  v1 = v1
  v2 = v2
  None = None
  Nobody = Nobody
  Clients = {c1}
  Keys = {k1, k2}
  Vals = {v1, v2}
  Dbs = {0, 1}
  Commands <- DataCommands
  Watchable = {}
  MaxTime = 2
  MaxQueue = 2
  Slave = FALSE
  Policy = "allkeys"
INVARIANTS
  ExpiresInDict
  SlaveAgrees
PROPERTY RandomKeyReturns
