CONSTANTS
    k1 = k1
    k2 = k2
    Members = {1, 2, 3}
    LongMembers = {3}
    Scores = {1, 2, 3}
    ZsetMaxZiplist = 2
    MaxLevel = 2
    OtherZset <- MCOtherZset
    DictKeys = {1, 2, 3}
    DictVals <- MCDictVals
    DictHash <- MCDictHash
    InitialSize = 1
    ForceRatio = 1
    MinFill = 30
    RehashBatch = 2
    ExpiredKeys = {}
    SetKeys = {1, 2}
    SetElems <- MCSetElems
    SetWords = {100}
    Max16 = 1
    Max32 = 7
    SetMaxIntset = 3
    ListVals = {1, 2, 3, 4}
    ZlBody <- MCZlBody
    ZlBig = 12
    ZlMaxLen = 3
    ListLong = {4}
    ListMaxZiplist = 4
    MaxListLen = 5
    VmClients = {c1, c2}
    VmKeys = {k1, k2}
    VmPagesOf <- MCVmPagesOf
    VmPages = 2
    VmMaxThreads = 2
    VmArgs <- MCVmArgs
    VmOps = {"append", "del", "flush"}
    VmMaxWrites = 1
    VmWriteFails = FALSE
SPECIFICATION MCSpec
SYMMETRY Sym
INVARIANTS
  SortedSetSound
  SetsSound
  ListSound
  SwapSound
  TableSound
PROPERTIES
  ImplementsMap
