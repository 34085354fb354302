CONSTANTS
  s1 = s1
  s2 = s2
  Slaves <- TwoSlaves
  Dbs <- TwoDbs
  MaxCmds = 3
  SaveParams = TRUE
  ForkFails = FALSE
  Kills = FALSE
  Pipelines = FALSE
  Joins = TRUE
SPECIFICATION Spec
INVARIANT CaughtUpIsInSync
CHECK_DEADLOCK FALSE
