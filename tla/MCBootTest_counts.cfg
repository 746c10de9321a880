\* The numbers, for a user who does not come back to the app.
CONSTANTS
  Kinds = {"reboot", "timing"}
  Targets = {1, 2, 3}
  Delay = 3
  Lead = 1
  CutInStop = FALSE
  Patient = TRUE
  MaxCuts = 2
  MaxEntries = 0
SPECIFICATION Spec
INVARIANTS TypeOK RoundsKept
