----------------------------- MODULE CountTimerTest -----------------------------
(***************************************************************************)
(* A test that repeats one action a set number of times: the classes       *)
(* BaseCountTestWithTimerFragment, BaseCountTestFragment and               *)
(* BaseTestFragment under the airplane mode, Wifi, Bluetooth and network   *)
(* tests.  start() and stop() run on the main thread; a java.util.Timer of *)
(* the run executes testOnce() and next() on a thread of its own, and      *)
(* next() calls stop() there when the target is reached.  cancel() does    *)
(* not wait for a task that has begun, so that a task may outlive its run. *)
(*                                                                         *)
(* The radio is the airplane mode flag, the Wifi or the Bluetooth adapter. *)
(* Calm tells that the two threads take turns: the user confirms between   *)
(* two tasks and while the test is as the dialog found it, and start() is  *)
(* over when the Timer's first second is.                                  *)
(***************************************************************************)
EXTENDS Integers, Sequences

CONSTANTS Kinds,         \* which of the four tests
          Targets,       \* the numbers the user types
          Calm,          \* the main thread and the tasks take turns
          MaxDialogs,    \* clicks that can be under way at once
          MaxStarts,     \* bound on the starts, each of which makes a Timer
          MaxTests       \* bound on the tests of a run whose Timer is lost

ASSUME CountTimerAssumption ==
  /\ Kinds \subseteq {"airplane", "wifi", "bluetooth", "network"}
  /\ Targets \subseteq Nat
  /\ Calm \in BOOLEAN
  /\ MaxDialogs \in Nat \ {0}
  /\ MaxStarts \in Nat /\ MaxTests \in Nat

VARIABLES kind,           \* the test
          checkConnect,   \* its box "check the connection" is ticked
          mState,         \* State.RUNNING or State.STOP
          mTargetCount, mCurrentCount, mFailureCount,
          mTimer,         \* the Timer of the last start, 0 for null
          live,           \* the Timers that have not been cancelled
          task,           \* where the TimerTask of each Timer is
          held,           \* the mCurrentCount a task has read in next()
          radio, preState,
          registered,     \* the fragment's BroadcastReceiver is registered
          main,           \* the main thread: idle, or inside start or stop
          dialogs,        \* the dialogs shown, the topmost first
          dirty,          \* an MSG_UPDATE of update() is in the looper's queue
          shown,          \* the numbers the fragment's two text views show
          crashed,        \* an exception nobody catches has ended the process
          performed,      \* history: the calls of testOnce() in this run
          late            \* history: the radio was still changing when this
                          \* run looked at it

moving == <<mState, mTargetCount, mCurrentCount, mFailureCount, mTimer, live,
            task, held, radio, preState, registered, main, dialogs, dirty,
            shown, crashed, performed, late>>
vars   == <<kind, checkConnect, moving>>

Timers == 1 .. MaxStarts
Where  == {"idle", "test", "read", "write", "stop", "halt"}

TypeOK ==
  /\ kind \in Kinds /\ checkConnect \in BOOLEAN
  /\ mState \in {"RUNNING", "STOP"}
  /\ mTargetCount \in Nat /\ mCurrentCount \in Nat /\ mFailureCount \in Nat
  /\ mTimer \in 0 .. MaxStarts
  /\ live \in SUBSET Timers
  /\ task \in [Timers -> Where]
  /\ held \in [Timers -> Nat]
  /\ radio \in {"on", "off", "turning_on", "turning_off"}
  /\ preState \in {"enabled", "disabled"}
  /\ registered \in BOOLEAN
  /\ main \in {"idle", "starting", "stopping"}
  /\ dialogs \in Seq({"target", "stop"})
  /\ dirty \in BOOLEAN
  /\ shown \in [count : Nat, failures : Nat]
  /\ crashed \in {"no", "receiver", "division"}
  /\ performed \in Nat /\ late \in BOOLEAN

-------------------------------------------------------------------------------
Alive   == crashed = "no"
Settled == radio \in {"on", "off"}
AllIdle == \A i \in Timers : task[i] = "idle"
Quiet   == Alive /\ main = "idle" /\ AllIdle
HasReceiver == kind # "network"

\* What asking the radio to change does.  The airplane mode is a setting
\* and changes at once, an adapter takes its time.
Switched(on) ==
  LET wanted == IF on THEN "on" ELSE "off"
  IN  IF kind = "airplane" \/ radio = wanted THEN wanted
      ELSE IF on THEN "turning_on" ELSE "turning_off"

RadioSettles ==
  /\ Alive /\ ~Settled
  /\ radio' = IF radio = "turning_on" THEN "on" ELSE "off"
  /\ UNCHANGED <<mState, mTargetCount, mCurrentCount, mFailureCount, mTimer,
                 live, task, held, preState, registered, main, dialogs, dirty,
                 shown, crashed, performed, late>>

-------------------------------------------------------------------------------
\* The main thread.

\* onStartClicked, once for each click that is under way.
Ask ==
  /\ Alive /\ main = "idle" /\ dialogs = <<>>
  /\ \E n \in 1 .. MaxDialogs :
       dialogs' = [d \in 1 .. n |->
                     IF mState = "RUNNING" THEN "stop" ELSE "target"]
  /\ UNCHANGED <<mState, mTargetCount, mCurrentCount, mFailureCount, mTimer,
                 live, task, held, radio, preState, registered, main, dirty,
                 shown, crashed, performed, late>>

Answers(what) ==
  /\ Alive /\ main = "idle"
  /\ dialogs # <<>> /\ Head(dialogs) = what
  /\ dialogs' = Tail(dialogs)

Confirms(what) ==
  /\ Answers(what)
  /\ Calm => AllIdle /\ (mState = "RUNNING" <=> what = "stop")

Dismiss ==
  /\ \E what \in {"target", "stop"} : Answers(what)
  /\ UNCHANGED <<mState, mTargetCount, mCurrentCount, mFailureCount, mTimer,
                 live, task, held, radio, preState, registered, main, dirty,
                 shown, crashed, performed, late>>

\* The target is taken over before it is looked at.
ConfirmNothing ==
  /\ Confirms("target")
  /\ 0 \in Targets
  /\ mTargetCount' = 0
  /\ UNCHANGED <<mState, mCurrentCount, mFailureCount, mTimer, live, task,
                 held, radio, preState, registered, main, dirty, shown,
                 crashed, performed, late>>

\* The Timer of a start, which replaces the last one, and a variant that makes
\* one Timer for all runs.
ScheduleOnce == live' = IF mTimer = 0 THEN {1} ELSE live
Schedule     == live' = live \cup {mTimer + 1}

\* The state testOnce() must not find first, and a variant that is blind to it.
BlindState == "enabled"
FirstState == IF radio = "on" THEN "disabled" ELSE "enabled"

\* start() up to BaseTestFragment.start: the receiver, a new Timer, the count.
ConfirmTarget ==
  /\ Confirms("target")
  /\ mTimer < MaxStarts
  /\ late' = ~Settled
  /\ \E n \in Targets \ {0} : mTargetCount' = n
  /\ registered' = HasReceiver
  /\ preState' = FirstState
  /\ mTimer' = mTimer + 1
  /\ Schedule
  /\ mCurrentCount' = 0
  /\ performed' = 0
  /\ main' = "starting"
  /\ UNCHANGED <<mState, mFailureCount, task, held, radio, dirty, shown,
                 crashed>>

\* update().
Update == dirty' = TRUE

\* BaseTestFragment.start.
Started ==
  /\ Alive /\ main = "starting"
  /\ main' = "idle"
  /\ Update
  /\ mState' = "RUNNING"
  /\ mFailureCount' = 0
  /\ UNCHANGED <<mTargetCount, mCurrentCount, mTimer, live, task, held, radio,
                 preState, registered, dialogs, shown, crashed, performed,
                 late>>

\* What stop() does before BaseTestFragment.stop, on either thread: the radio
\* is put back, the receiver is given back (the framework throws when it is not
\* registered) and the Timer of the last start is cancelled.
PutBack ==
  IF kind = "airplane" /\ radio = "on" THEN Switched(FALSE)
  ELSE IF kind = "wifi" /\ radio = "off" THEN Switched(TRUE)
  ELSE radio

\* mTimer.cancel(), and a variant without it.
KeepTimer == UNCHANGED live
Cancel    == live' = live \ {mTimer}

Release ==
  IF HasReceiver /\ ~registered
  THEN /\ crashed' = "receiver"
       /\ radio' = IF kind = "wifi" THEN PutBack ELSE radio
       /\ UNCHANGED <<live, registered>>
  ELSE /\ radio' = PutBack
       /\ registered' = FALSE
       /\ Cancel
       /\ UNCHANGED crashed

ConfirmStop ==
  /\ Confirms("stop")
  /\ Release
  /\ main' = "stopping"
  /\ UNCHANGED <<mState, mTargetCount, mCurrentCount, mFailureCount, mTimer,
                 task, held, preState, dirty, shown, performed, late>>

\* BaseTestFragment.stop.
Stopped ==
  /\ Alive /\ main = "stopping"
  /\ main' = "idle"
  /\ Update
  /\ mState' = "STOP"
  /\ UNCHANGED <<mTargetCount, mCurrentCount, mFailureCount, mTimer, live,
                 task, held, radio, preState, registered, dialogs, shown,
                 crashed, performed, late>>

\* updateImpl, asked for by the test itself, by the activity when another test
\* starts or stops, or by onResume: the progress bar divides by the target.
UpdateImpl ==
  /\ Alive /\ main = "idle"
  /\ dirty' = FALSE
  /\ shown' = IF mTargetCount > 0
              THEN [count |-> mCurrentCount, failures |-> mFailureCount]
              ELSE shown
  /\ crashed' = IF mCurrentCount > 0 /\ mTargetCount = 0
                THEN "division" ELSE crashed
  /\ UNCHANGED <<mState, mTargetCount, mCurrentCount, mFailureCount, mTimer,
                 live, task, held, radio, preState, registered, main, dialogs,
                 performed, late>>

-------------------------------------------------------------------------------
\* The Timer threads.
Goes(i, from, to) ==
  /\ Alive /\ task[i] = from
  /\ task' = [task EXCEPT ![i] = to]

Fire(i) ==
  /\ i \in live
  /\ performed < MaxTests
  /\ Calm => main = "idle"
  /\ late' = (late \/ ~Settled)
  /\ Goes(i, "idle", "test")
  /\ UNCHANGED <<mState, mTargetCount, mCurrentCount, mFailureCount, mTimer,
                 live, held, radio, preState, registered, main, dialogs,
                 dirty, shown, crashed, performed>>

Marks(n) == mFailureCount' = mFailureCount + n

\* A failure of the optional check, which is made while the radio is on.
Unconnected == IF checkConnect THEN {0, 1} ELSE {0}

\* testOnce() and the markFailure() of the TimerTask.
ToggleAirplane ==
  /\ radio' = Switched(radio # "on")
  /\ IF radio = "on" THEN Marks(0) ELSE \E n \in Unconnected : Marks(n)
  /\ UNCHANGED preState

ToggleWifi ==
  LET cur == IF radio = "on" THEN "enabled" ELSE "disabled"
      stuck == IF cur = preState THEN 1 ELSE 0
  IN  /\ radio' = Switched(radio # "on")
      /\ \E n \in (IF radio = "on" THEN Unconnected ELSE {0}) : Marks(n + stuck)
      /\ preState' = cur

ToggleBluetooth ==
  /\ \E accepted \in BOOLEAN,
        n \in (IF radio = "on" THEN Unconnected ELSE {0}) :
       /\ radio' = IF accepted THEN Switched(radio # "on") ELSE radio
       /\ Marks(n + (IF accepted THEN 0 ELSE 1))
  /\ UNCHANGED preState

AskDns ==
  /\ \E failed \in {0, 1} : Marks(failed)
  /\ UNCHANGED <<radio, preState>>

Test(i) ==
  /\ Goes(i, "test", "read")
  /\ \/ kind = "airplane" /\ ToggleAirplane
     \/ kind = "wifi" /\ ToggleWifi
     \/ kind = "bluetooth" /\ ToggleBluetooth
     \/ kind = "network" /\ AskDns
  /\ performed' = performed + 1
  /\ dirty' = (dirty \/ mFailureCount' > mFailureCount)
  /\ UNCHANGED <<mState, mTargetCount, mCurrentCount, mTimer, live, held,
                 registered, main, dialogs, shown, crashed, late>>

\* next(): mCurrentCount++ is a read and a write.
ReadCount(i) ==
  /\ Goes(i, "read", "write")
  /\ held' = [held EXCEPT ![i] = mCurrentCount]
  /\ UNCHANGED <<mState, mTargetCount, mCurrentCount, mFailureCount, mTimer,
                 live, radio, preState, registered, main, dialogs, dirty,
                 shown, crashed, performed, late>>

\* mCurrentCount++ and the test for the target, each with a variant.
CountedDown(i) == held[i] - 1
Counted(i)     == held[i] + 1
PassedBy(n)    == n > mTargetCount
Reached(n)     == n >= mTargetCount

WriteCount(i) ==
  /\ mCurrentCount' = Counted(i)
  /\ IF mState # "RUNNING" \/ Reached(Counted(i))
     THEN Goes(i, "write", "stop") /\ UNCHANGED dirty
     ELSE Goes(i, "write", "idle") /\ Update
  /\ UNCHANGED <<mState, mTargetCount, mFailureCount, mTimer, live, held,
                 radio, preState, registered, main, dialogs, shown, crashed,
                 performed, late>>

\* stop(), called by next().
NextStops(i) ==
  /\ Goes(i, "stop", "halt")
  /\ Release
  /\ UNCHANGED <<mState, mTargetCount, mCurrentCount, mFailureCount, mTimer,
                 held, preState, main, dialogs, dirty, shown, performed, late>>

Halt(i) ==
  /\ Goes(i, "halt", "idle")
  /\ mState' = "STOP"
  /\ Update
  /\ UNCHANGED <<mTargetCount, mCurrentCount, mFailureCount, mTimer, live,
                 held, radio, preState, registered, main, dialogs, shown,
                 crashed, performed, late>>

-------------------------------------------------------------------------------
Init ==
  /\ kind \in Kinds /\ checkConnect \in BOOLEAN /\ late = FALSE
  /\ mState = "STOP"
  /\ mTargetCount = 0 /\ mCurrentCount = 0 /\ mFailureCount = 0
  /\ mTimer = 0 /\ live = {}
  /\ task = [i \in Timers |-> "idle"]
  /\ held = [i \in Timers |-> 0]
  /\ radio \in {"on", "off"}
  /\ preState = "enabled"
  /\ registered = FALSE
  /\ main = "idle" /\ dialogs = <<>> /\ crashed = "no"
  /\ dirty = FALSE /\ shown = [count |-> 0, failures |-> 0]
  /\ performed = 0

User    == Ask \/ Dismiss \/ ConfirmNothing \/ ConfirmTarget \/ ConfirmStop
Threads == Started \/ Stopped \/ UpdateImpl \/ RadioSettles
Tasks(i) == Fire(i) \/ Test(i) \/ ReadCount(i) \/ WriteCount(i)
              \/ NextStops(i) \/ Halt(i)

Next ==
  /\ User \/ Threads \/ \E i \in Timers : Tasks(i)
  /\ UNCHANGED <<kind, checkConnect>>

Spec == Init /\ [][Next]_vars

\* The threads run and the radio does what it is asked; nothing is asked of the
\* user.
Fairness ==
  /\ WF_moving(Started \/ Stopped) /\ WF_moving(UpdateImpl) /\ WF_moving(RadioSettles)
  /\ \A i \in Timers : WF_moving(Tasks(i))

FairSpec == Spec /\ Fairness

-------------------------------------------------------------------------------
(* What a test that counts its own runs promises.                          *)

\* The target is what the user asked for: the count is the number of calls of
\* testOnce(), a run goes on below the target and ends when testOnce() has been
\* called exactly mTargetCount times (next, start).
CountsTests ==
  /\ Quiet /\ mState = "RUNNING" =>
       mCurrentCount = performed /\ performed < mTargetCount
  /\ \A i \in Timers : Alive /\ task[i] = "halt" => performed = mTargetCount

\* A stopped test leaves nothing behind: no Timer, no registered receiver, and
\* an airplane mode that is off (stop of the four fragments).
NothingLeft ==
  Quiet /\ mState = "STOP" /\ mTimer # 0 =>
    /\ live = {}
    /\ ~registered
    /\ kind = "airplane" => radio = "off"

\* A running test has its one Timer and its receiver, so that it goes on and
\* can be stopped (start against stop of an earlier run).
Equipped ==
  Quiet /\ mState = "RUNNING" => live = {mTimer} /\ registered = HasReceiver

\* unregisterReceiver is called once for each registerReceiver: the framework
\* throws the second time (start, stop).
GivenBackOnce == crashed # "receiver"

\* A test holds what it takes exactly while it runs (start against stop, of the
\* same run and of an earlier one).
HoldsWhileRunning == NothingLeft /\ Equipped /\ GivenBackOnce

\* A radio that does what it is asked in time is never counted as a failure,
\* whatever it was when the run began (WifiTestFragment.start, testOnce).
NoFalseFailure ==
  kind = "wifi" /\ ~checkConnect /\ ~late /\ main # "starting" =>
    mFailureCount = 0

\* When the threads are quiet and no MSG_UPDATE is on its way, the screen shows
\* the outcome of the run, whatever the two threads have done to one another
\* (update() follows each change in next, markFailure, start and stop).
Displayed ==
  Quiet /\ ~dirty /\ mTargetCount > 0 =>
    shown = [count |-> mCurrentCount, failures |-> mFailureCount]

\* Both: what the user reads of a run is what has happened.
TrueReport == NoFalseFailure /\ Displayed

\* Every run ends (next, with the Timer that start has scheduled).
RunEnds == mState = "RUNNING" ~> mState = "STOP" \/ ~Alive
===============================================================================
