\* A patient user, a test that can fail to start and a one-sided row.
CONSTANTS
  Tests <- NetTests
  Row <- NetRow
  Supported <- NetTests
  Resumable <- Reboots
  Fallible <- CpuOnly
  Patient = TRUE
  MaxPending = 3
  NoTest = NoTest
SPECIFICATION Spec
INVARIANTS TypeOK MutualExclusion WaysOut
