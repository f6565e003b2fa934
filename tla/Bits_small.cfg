SPECIFICATION FairSpec
CONSTANTS
  W = 8
  E = 4
  F = 3
  Others <- SomeOthers
INVARIANTS AnswersRight
PROPERTIES Returns
CHECK_DEADLOCK FALSE
