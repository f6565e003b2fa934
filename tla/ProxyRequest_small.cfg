SPECIFICATION FairSpec
CONSTANTS
  Threads = {t1, t2}
  Symbols <- SomeSymbols
  Requests <- SomeRequests
  Text <- SomeText
  Named <- WhatTheyName
  Site <- SomeSite
  Faults = {"client", "server", "lookup"}
  MAXLINE = 6
  MAX_OBJECT_SIZE = 4
  RIO_BUFSIZE = 3
INVARIANTS TypeOK AnswersTheObject ForwardsTheRequest
PROPERTIES Answered
CHECK_DEADLOCK FALSE
