SPECIFICATION SessionSpec
CONSTANTS
  Pids = {p1, p2}
  NoPid = NoPid
  MAXJOBS = 2
  Commands = {"run", "run&"}
  Resumable = {}
  Keys = {"INT", "TSTP"}
  Outside = {}
  GarbageMasks = {{}}
  JidBound = 2
PROPERTIES
  ZombiesCollected
  ForegroundEnds
  KeysWork
CHECK_DEADLOCK FALSE
