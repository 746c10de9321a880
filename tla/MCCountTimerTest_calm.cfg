\* Threads that take turns, for each of the four tests.
CONSTANTS
  Kinds <- AllKinds
  Targets <- NonNegative
  Calm = TRUE
  MaxDialogs = 2
  MaxStarts = 2
  MaxTests = 3
SPECIFICATION FairSpec
INVARIANTS TypeOK HoldsWhileRunning CountsTests TrueReport
PROPERTY RunEnds
CHECK_DEADLOCK FALSE
