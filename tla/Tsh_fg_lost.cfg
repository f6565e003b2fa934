SPECIFICATION FairSpec
CONSTANTS
  Pids = {p1}
  NoPid = NoPid
  MAXJOBS = 1
  Commands = {"run&", "fg"}
  Resumable = {"BG"}
  Keys = {}
  Outside = {}
  GarbageMasks = {{}}
  JidBound = 1
PROPERTIES
  FgEnds
CHECK_DEADLOCK FALSE
