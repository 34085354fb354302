CONSTANTS
  s1 = s1
  s2 = s2
  Slaves <- TwoSlaves
  Dbs <- TwoDbs
  MaxCmds = 2
  SaveParams = TRUE
  ForkFails = TRUE
  Kills = TRUE
  Pipelines = TRUE
  Joins = TRUE
SPECIFICATION Spec
SYMMETRY Symmetry
CHECK_DEADLOCK FALSE
INVARIANTS
  StartComes
  OutputScheduled
