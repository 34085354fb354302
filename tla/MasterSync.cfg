CONSTANTS
  s1 = s1
  s2 = s2
  Slaves <- TwoSlaves
  Dbs <- TwoDbs
  MaxCmds = 3
  SaveParams = TRUE
  ForkFails = FALSE
  Kills = FALSE
  Pipelines = FALSE
  Joins = FALSE
SPECIFICATION FairSpec
CHECK_DEADLOCK FALSE
INVARIANTS
  CaughtUpIsInSync
  NothingBeforeDump
PROPERTIES
  SyncAnswered
