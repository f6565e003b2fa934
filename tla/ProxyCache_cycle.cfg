SPECIFICATION Spec
CONSTANTS
  Threads = {t1}
  Uris = {a, b}
  NoUri = NoUri
  Lines = {l1, l2}
  Null = Null
  SizeOf <- UnitSizes
  MAX_CACHE_SIZE = 2
  MAX_OBJECT_SIZE = 2
  Requests <- Thrice
  Interrupted = "never"
INVARIANTS
  ListShape
CHECK_DEADLOCK FALSE
