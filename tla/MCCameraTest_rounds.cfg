\* Two rounds, in which the user may leave and an open camera may fail.
CONSTANTS
  MaxRounds = 2
  MaxLeaves = 2
  MaxErrors = 1
SPECIFICATION FairSpec
INVARIANTS TypeOK SavesSafely CanLeave OneTruePicture
PROPERTY RoundsEnd
CHECK_DEADLOCK FALSE
