\* The run with what the receiver itself starts.
CONSTANTS
  Targets = {2}
  Delay = 1
  Caller = FALSE
  Orderly = FALSE
  FailsInStop = FALSE
  MaxCuts = 0
  MaxEntries = 0
  MaxErrors = 0
SPECIFICATION FairSpec
PROPERTY RunEnds
