SPECIFICATION Spec
CONSTANTS
  Threads = {t1, t2}
  Uris = {a, b, c}
  NoUri = NoUri
  Lines = {l1, l2, l3}
  Null = Null
  SizeOf <- UnitSizes
  MAX_CACHE_SIZE = 2
  MAX_OBJECT_SIZE = 2
  Requests <- Twice
  Interrupted = "never"
INVARIANTS
  WalkSafe
CHECK_DEADLOCK FALSE
