\* The run, whatever the user does and wherever outside stop() the power fails.
CONSTANTS
  Kinds = {"reboot", "timing"}
  Targets = {1, 2}
  Delay = 3
  Lead = 1
  CutInStop = FALSE
  Patient = FALSE
  MaxCuts = 2
  MaxEntries = 1
SPECIFICATION FairSpec
PROPERTIES LivesOn RunEnds
