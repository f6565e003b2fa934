SPECIFICATION FairSpec
CONSTANTS
  MAXJOBS = 2
  Pids = {p1, p2}
  NoPid = NoPid
  MAXARGS = 4
  MAXLINE = 14
  Symbols <- SomeSymbols
  Lines <- SomeLines
  Malformed = Malformed
  LineBound = 3
INVARIANTS TypeOK ParsedAsTyped ListingTellsJobs
PROPERTIES Prompted
CHECK_DEADLOCK FALSE
