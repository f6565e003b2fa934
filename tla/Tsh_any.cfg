SPECIFICATION Spec
CONSTANTS
  Pids = {p1, p2}
  NoPid = NoPid
  MAXJOBS = 2
  Commands = {"run", "run&", "fg", "bg", "unknown", "quit"}
  Resumable = {"FG", "BG", "ST"}
  Keys = {"INT", "TSTP"}
  Outside = {"stop", "kill"}
  GarbageMasks = {{}, {"CHLD"}}
  JidBound = 2
INVARIANTS
  TypeOK
  ListedAreChildren
  ChildrenAreListed
PROPERTIES
  BackgroundSpared
SYMMETRY Symmetry
CHECK_DEADLOCK FALSE
