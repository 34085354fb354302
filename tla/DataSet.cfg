CONSTANTS
  m1 = m1
  m2 = m2
  Nobody = Nobody
  Masters <- TwoMasters
  Fds = {1, 2}
  MaxSyncs = 5
  Chunks = 3
  Appendonly = TRUE
  Saves = FALSE
  Failures = TRUE
  Impatient = FALSE
  Promoted = FALSE
  Pids = {1, 2}
  NoPid = NoPid
  MaxChanges = 3
  MaxCommands = 4
  MaxFaults = 2
SPECIFICATION MCSpec
INVARIANTS
  LoadedFromMaster
  SubFollows
  SavingSound
PROPERTIES
  DumpNeverGoesBack
  DueWorkGetsDone
