SPECIFICATION Spec
CONSTANTS
  c1 = c1
  c2 = c2
  Clients <- MCClients
  Dbs <- MCDbs
  MaxCmds = 3
  MaxJobs = 2
  MaxSkew = 2
  Fsync = "always"
  NoFsyncOnRewrite = FALSE
  Pipelining = FALSE
  ConfigSet = FALSE
SYMMETRY Symmetry
INVARIANTS
  RecoversPrefix
  AckedAreDurable
  CleanExitKeepsAcked
PROPERTIES
  DurableNeverShrinks
