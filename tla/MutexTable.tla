------------------------------ MODULE MutexTable ------------------------------
(***************************************************************************)
(* The table of mutually exclusive tests MainActivity builds once, when    *)
(* the activity is created (initView), as a function from a test to the    *)
(* tests listed in its row.  A test is named by its TestType constant      *)
(* without the TYPE_ and _TEST that all fifteen share.                     *)
(***************************************************************************)
EXTENDS Naturals, FiniteSets

\* The values of the enum TestType.
TestType == {"CPU", "MEMORY", "DDR", "VIDEO", "AUDIO", "WIFI", "BT",
             "AIRPLANE_MODE", "REBOOT", "SLEEP", "RECOVERY", "TIMING_BOOT",
             "NETWORK", "CAMERA", "UVCCAMERA"}

\* A row that conflicts with the tests that take the system down, and with sub.
CreateRebootMutex(sub) == {"REBOOT", "SLEEP", "RECOVERY", "TIMING_BOOT"} \cup sub

\* The row of a test that runs alone.
CreateSingleMutex(self) == TestType \ {self}

\* mMutexTests, the rows added at the end of initView.
MutexTests ==
  [t \in TestType |->
     CASE t \in {"CPU", "VIDEO", "AUDIO"} -> CreateRebootMutex({})
       [] t = "MEMORY"                    -> CreateRebootMutex({"DDR"})
       [] t = "DDR"                       -> CreateRebootMutex({"MEMORY"})
       [] t \in {"WIFI", "BT"}            -> CreateRebootMutex({"AIRPLANE_MODE"})
       [] t = "AIRPLANE_MODE"             -> CreateRebootMutex({"WIFI", "BT"})
       [] t = "NETWORK"                   -> CreateRebootMutex({"AIRPLANE_MODE", "WIFI"})
       [] t = "CAMERA"                    -> CreateRebootMutex({"UVCCAMERA"})
       [] t = "UVCCAMERA"                 -> CreateRebootMutex({"CAMERA"})
       [] OTHER                           -> CreateSingleMutex(t)]
===============================================================================
