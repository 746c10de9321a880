\* An impatient user: several clicks and dialogs under way.
CONSTANTS
  Tests <- WifiTests
  Row <- WifiRow
  Supported <- WifiTests
  Resumable <- Sleeps
  Fallible <- NoTests
  Patient = FALSE
  MaxPending = 2
  NoTest = NoTest
SPECIFICATION FairSpec
INVARIANTS ButtonsFollow TouchesAreFresh
PROPERTY Reenabled
