SPECIFICATION Spec
CONSTANTS
  c1 = c1
  c2 = c2
  k1 = k1
  k2 = k2
  v1 = v1
  v2 = v2
  None = None
  Nobody = Nobody
  Clients = {c1, c2}
  Keys = {k1}
  Vals = {v1, v2}
  Dbs = {0, 1}
  Commands <- WatchCommands
  Watchable = {k1}
  MaxTime = 2
  MaxQueue = 1
  Slave = FALSE
  Policy = "volatile"
SYMMETRY Sym
INVARIANTS
  WatchListsMirror
  ChangedWatchAborts
