\* A user, broadcasts and checks that take turns.
CONSTANTS
  Targets <- MCTargets
  Calm = TRUE
  MaxDialogs = 2
  MaxTouches = 2
SPECIFICATION Spec
INVARIANTS TypeOK GivesBack CountsWakes
PROPERTY CheckedRounds
CHECK_DEADLOCK FALSE
