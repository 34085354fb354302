CONSTANTS
  m1 = m1
  m2 = m2
  Nobody = Nobody
  Masters <- TwoMasters
  Fds = {1, 2}
  MaxSyncs = 3
  Chunks = 2
  Appendonly = TRUE
  Saves = TRUE
  Failures = TRUE
  Impatient = FALSE
  Promoted = TRUE
SPECIFICATION MCSpec
INVARIANTS
  LinkSound
  DumpReadsBack
PROPERTIES
  NoOneIsFinal
