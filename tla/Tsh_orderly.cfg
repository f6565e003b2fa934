SPECIFICATION Spec
CONSTANTS
  Pids = {p1, p2}
  NoPid = NoPid
  MAXJOBS = 3
  Commands = {"run", "run&", "fg", "bg"}
  Resumable = {"ST"}
  Keys = {"INT", "TSTP"}
  Outside = {}
  GarbageMasks = {{}}
  JidBound = 2
INVARIANTS
  AtMostOneFG
  JobIdsDistinct
  QuietListing
PROPERTIES
  ForegroundWaited
  ImplementsJobControl
SYMMETRY Symmetry
CHECK_DEADLOCK FALSE
