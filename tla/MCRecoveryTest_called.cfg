\* The run when the command is sent after each start, with power failures
\* outside stop(), an error of the file or of the reboot, a return to the app.
CONSTANTS
  Targets = {1, 3}
  Delay = 1
  Caller = TRUE
  Orderly = TRUE
  FailsInStop = FALSE
  MaxCuts = 2
  MaxEntries = 1
  MaxErrors = 1
SPECIFICATION FairSpec
INVARIANTS TypeOK RoundsAsAsked
PROPERTIES LivesOn EachRoundEnds
