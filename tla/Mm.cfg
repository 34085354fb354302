CONSTANTS
  v1 = v1
  v2 = v2
  c1 = c1
  x1 = x1
  o1 = o1
  o2 = o2
  r1 = r1
  r2 = r2
  None = None
  Logs <- AllLogs
  Outs <- TwoOuts
  Kind <- KindAll
  Runs = {r1}
  Transactional = FALSE
  Failures = FALSE
SPECIFICATION MCSpec
INVARIANTS
  CalmArchiveAgrees
  UploadedWereLoaded
PROPERTIES
  NothingLost
  CalmViewsGetArchived
