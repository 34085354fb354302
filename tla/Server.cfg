CONSTANTS
    k1 = k1
    k2 = k2
    ch1 = ch1
    ch2 = ch2
    p1 = p1
    p2 = p2
    Clients = {c1, c2, c3}
    ListKeys = {k1, k2}
    NoTarget = NoTarget
    Str = Str
    MaxElems = 2
    MaxArgs = 2
    MaxRead = 1
    MaxIssued = 4
    Kinds = {"lpush", "rpoplpush", "blpop", "brpoplpush", "rename"}
    KeyTuples <- MCKeyTuples
    Timeouts = {"later", "multi"}
    PsClients = {c1, c2, c3}
    Channels = {ch1, ch2}
    Patterns = {p1, p2}
    MaxTopics = 2
    MaxPatterns = 3
    Matching <- MCMatching
    MaxPieces = 4
    InlineMax = 9
    QuerybufMax = 14
SPECIFICATION MCSpec
SYMMETRY Sym
INVARIANTS
  BlockingSound
  ElementsOnce
  ServedInOrder
  ReplicaFollows
  RequestsAreParsed
PROPERTIES
  ImplementsSubscriptions
