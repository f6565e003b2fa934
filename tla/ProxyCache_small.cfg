SPECIFICATION FairSpec
CONSTANTS
  Threads = {t1, t2}
  Uris = {"large", "medium", "small", "huge"}
  NoUri = NoUri
  Lines = {l1, l2, l3}
  Null = Null
  SizeOf <- MixedSizes
  MAX_CACHE_SIZE = 4
  MAX_OBJECT_SIZE = 3
  Requests <- MixedRequests
  Interrupted = "at rest"
INVARIANTS
  TypeOK
  FoundStays
  SpaceAccounted
  IInv
  ListShape
  FreesAll
PROPERTIES
  TraversalFrozen
  ImplementsLRU
  RequestsComplete
CHECK_DEADLOCK FALSE
