----------------------------- MODULE MCTestBoard -----------------------------
(***************************************************************************)
(* Instances of TestBoard on parts of the table MainActivity builds.       *)
(***************************************************************************)
EXTENDS TestBoard, MutexTable

\* The rows of MutexTests, cut down to the tests of the instance.
CutDown(tests) == [t \in tests |-> MutexTests[t] \cap tests]

\* A test that runs alone, two tests that list each other, the one test whose
\* row is not answered by the rows of the tests it lists, and one that can fail
\* to start.
NetTests == {"CPU", "WIFI", "AIRPLANE_MODE", "NETWORK", "REBOOT"}
NetRow   == CutDown(NetTests)

\* Three tests with a one-sided entry, for the impatient user.
WifiTests == {"WIFI", "NETWORK", "SLEEP"}
WifiRow   == CutDown(WifiTests)

Reboots == {"REBOOT"}
Sleeps  == {"SLEEP"}
NoTests == {}
CpuOnly == {"CPU"}
===============================================================================
