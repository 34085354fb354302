SPECIFICATION FairSpec
CONSTANTS
  c1 = c1
  c2 = c2
  Clients <- OneClient
  Dbs <- OneDb
  MaxCmds = 2
  MaxJobs = 1
  MaxSkew = 1
  Fsync = "everysec"
  NoFsyncOnRewrite = FALSE
  Pipelining = FALSE
  ConfigSet = TRUE
INVARIANTS
  RewriteMerges
PROPERTIES
  BufferGetsWritten
