SPECIFICATION Spec
CONSTANTS
  LIST_NUM = 3
  LIST_THR = 2
  INISIZE = 80
  CHUNKSIZE = 16
  MaxHeap = 34
  SizeMax = 128
  Sizes = {0, 8, 24}
  Counts = {3}
INVARIANTS CheckheapSilent BlocksHeld
PROPERTIES ContentsKept NoNeedlessGrowth ImplementsAllocator
CHECK_DEADLOCK FALSE
