\* Two cases; up to two lines that answer nothing.
SPECIFICATION Spec
CONSTANTS
  MaxRuns = 2
  MaxExtras = 2
INVARIANTS EveryLineAccounted AnswersMatch StreamsNotShared
PROPERTY NothingHangs
CHECK_DEADLOCK FALSE
