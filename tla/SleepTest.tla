------------------------------- MODULE SleepTest -------------------------------
(***************************************************************************)
(* The sleep test, SleepTestFragment over BaseCountTestFragment: it lets   *)
(* the device go to sleep and wakes it by an alarm, a set number of times. *)
(* All of it runs on the main thread but the check of the network, which a *)
(* worker makes shortly before the screen goes off again.  A test takes    *)
(* three things of the system and has to give them back: the screen's      *)
(* timeout, the wake lock that keeps the screen on and the alarm.          *)
(*                                                                         *)
(* Calm tells that the user confirms a dialog, or leaves, while no         *)
(* broadcast is on its way and the test is as the dialog found it, that    *)
(* broadcasts come one by one, and that no check is under way when one     *)
(* comes: what has begun is over before the screen or the alarm goes off.  *)
(***************************************************************************)
EXTENDS Integers, Sequences, SequencesExt

CONSTANTS Targets,     \* the numbers the user types
          Calm,        \* user, broadcasts and checks take turns
          MaxDialogs,  \* clicks that can be under way at once
          MaxTouches   \* bound on the times the user wakes the device in a run

ASSUME SleepAssumption ==
  /\ Targets \subseteq Nat
  /\ Calm \in BOOLEAN
  /\ MaxDialogs \in Nat \ {0} /\ MaxTouches \in Nat

VARIABLES view,                   \* the fragment is there
          mState, mTargetCount, mCurrentCount, mFailureCount,
          isCheckNetwork, mNetworkActivate,
          mDefaultScreenOffTime,  \* the timeout to be restored
          timeout,                \* the system's: the user's or the test's
          held,                   \* mWakeLock is held
          leaked,                 \* a lock is held that nobody can release
          alarm,                  \* the alarm is set
          events,                 \* broadcasts on their way to the receiver
          screen,                 \* the screen is on
          check,                  \* mCheckNetworkRunnable: whether it is posted,
                                  \* and whether it runs, for its "own" round or
                                  \* for one that is over, "late"
          dialogs,                \* the dialogs shown, the topmost first
          crashed,                \* the exception that has ended the process
          touches,                \* counted for its bound
          wakes,                  \* history: the alarms of this run
          result                  \* history: whether this round has asked for a
                                  \* check, and what its own check has found

test   == <<mState, mTargetCount, mCurrentCount, mFailureCount>>
net    == <<isCheckNetwork, mNetworkActivate, check, result>>
taken  == <<mDefaultScreenOffTime, timeout, held, leaked, alarm>>
device == <<events, screen, touches>>
vars   == <<view, test, net, taken, device, dialogs, crashed, wakes>>

TypeOK ==
  /\ view \in BOOLEAN
  /\ mState \in {"RUNNING", "STOP"}
  /\ mTargetCount \in Nat /\ mCurrentCount \in Nat /\ mFailureCount \in Nat
  /\ isCheckNetwork \in BOOLEAN /\ mNetworkActivate \in BOOLEAN
  /\ mDefaultScreenOffTime \in {"none", "user", "test"}
  /\ timeout \in {"none", "user", "test"}
  /\ held \in BOOLEAN /\ leaked \in BOOLEAN /\ alarm \in BOOLEAN
  /\ events \in Seq({"alarm", "off"})
  /\ screen \in BOOLEAN
  /\ check \in [posted : BOOLEAN, running : {"no", "own", "late"}]
  /\ dialogs \in Seq({"target", "stop"})
  /\ crashed \in {"no", "lock", "division"}
  /\ touches \in 0 .. MaxTouches
  /\ wakes \in Nat /\ result \in {"none", "unknown", "yes", "no"}

-------------------------------------------------------------------------------
Alive == crashed = "no"
Idle  == view /\ Alive
Used  == Idle /\ screen

NoCheck == [posted |-> FALSE, running |-> "no"]

\* A round that is over: a check of it that runs is late from now on.
Overtaken == IF check.running = "own" THEN "late" ELSE check.running

Count(what) == Cardinality({i \in DOMAIN events : events[i] = what})

\* What stop() puts into the system's settings: what start() found there.
Found == timeout

\* onDestroyView and stop() take the lock that is held, or leave it to nobody;
\* a variant that keeps the lock in start().
KeepLock == held' = held
Release  == held' = FALSE
NewLock  == held' = TRUE /\ leaked' = (leaked \/ held)

\* SleepTestFragment.stop and BaseTestFragment.stop.
Stop ==
  /\ timeout' = mDefaultScreenOffTime
  /\ alarm' = FALSE
  /\ NewLock
  /\ mState' = "STOP"

-------------------------------------------------------------------------------
\* The user.

\* onStartClicked, once for each click that is under way.
Ask ==
  /\ Used /\ dialogs = <<>>
  /\ \E n \in 1 .. MaxDialogs :
       dialogs' = [d \in 1 .. n |->
                     IF mState = "RUNNING" THEN "stop" ELSE "target"]
  /\ isCheckNetwork' \in BOOLEAN
  /\ UNCHANGED <<view, test, mNetworkActivate, check, result, taken, device,
                 crashed, wakes>>

Answers(what) ==
  /\ Used
  /\ dialogs # <<>> /\ Head(dialogs) = what
  /\ dialogs' = Tail(dialogs)

Confirms(what) ==
  /\ Answers(what)
  /\ Calm => events = <<>> /\ (mState = "RUNNING" <=> what = "stop")

Dismiss ==
  /\ \E what \in {"target", "stop"} : Answers(what)
  /\ UNCHANGED <<view, test, net, taken, device, crashed, wakes>>

\* The target is taken over before it is looked at.
ConfirmNothing ==
  /\ Confirms("target")
  /\ 0 \in Targets
  /\ mTargetCount' = 0
  /\ UNCHANGED <<view, mState, mCurrentCount, mFailureCount, net, taken, device,
                 crashed, wakes>>

\* updateImpl, which onResume, the other tests and this one ask for at any time:
\* the progress bar divides by the target.
Repaint ==
  /\ Idle
  /\ mCurrentCount > 0 /\ mTargetCount = 0
  /\ crashed' = "division"
  /\ UNCHANGED <<view, test, net, taken, device, dialogs, wakes>>

\* start(): a lock that is not held cannot be released.
Start ==
  /\ Confirms("target")
  /\ mTargetCount' \in Targets \ {0}
  /\ mDefaultScreenOffTime' = Found
  /\ timeout' = "test"
  /\ alarm' = TRUE
  /\ IF held
     THEN /\ Release
          /\ mState' = "RUNNING" /\ mCurrentCount' = 0 /\ mFailureCount' = 0
          /\ UNCHANGED crashed
     ELSE /\ crashed' = "lock"
          /\ UNCHANGED <<held, mState, mCurrentCount, mFailureCount>>
  /\ wakes' = 0 /\ touches' = 0 /\ result' = "none"
  /\ check' = [check EXCEPT !.running = Overtaken]
  /\ UNCHANGED <<view, isCheckNetwork, mNetworkActivate, leaked, events,
                 screen>>

ConfirmStop ==
  /\ Confirms("stop")
  /\ Stop
  /\ UNCHANGED <<view, mTargetCount, mCurrentCount, mFailureCount, net,
                 mDefaultScreenOffTime, device, crashed, wakes>>

\* onDestroyView: the user leaves the app.  The lock stop() has just taken is
\* released, no broadcast reaches the receiver any more, and a check that goes
\* on tells nobody.
Leave ==
  /\ Idle
  /\ Calm => events = <<>>
  /\ view' = FALSE /\ dialogs' = <<>> /\ events' = <<>>
  /\ IF mState = "RUNNING"
     THEN /\ timeout' = mDefaultScreenOffTime
          /\ alarm' = FALSE
          /\ leaked' = (leaked \/ held)
          /\ UNCHANGED crashed
     ELSE /\ crashed' = IF held THEN crashed ELSE "lock"
          /\ UNCHANGED <<timeout, alarm, leaked>>
  /\ held' = FALSE
  /\ mState' = "STOP"
  /\ check' = NoCheck
  /\ UNCHANGED <<mTargetCount, mCurrentCount, mFailureCount, isCheckNetwork,
                 mNetworkActivate, result, mDefaultScreenOffTime, screen,
                 touches, wakes>>

\* onCreate.
Open ==
  /\ ~view /\ Alive /\ screen
  /\ view' = TRUE
  /\ held' = TRUE
  /\ mTargetCount' = 0 /\ mCurrentCount' = 0 /\ mFailureCount' = 0
  /\ isCheckNetwork' = FALSE /\ mNetworkActivate' = FALSE
  /\ mDefaultScreenOffTime' = "none"
  /\ result' = "none" /\ wakes' = 0
  /\ UNCHANGED <<mState, check, timeout, leaked, alarm, device, dialogs,
                 crashed>>

\* The user wakes the device.
Touch ==
  /\ ~screen /\ touches < MaxTouches
  /\ touches' = touches + 1
  /\ screen' = TRUE
  /\ UNCHANGED <<view, test, net, taken, events, dialogs, crashed, wakes>>

-------------------------------------------------------------------------------
\* The system: the screen goes off by its timeout or by the power key, the alarm
\* goes off, and either is broadcast.  Broadcasts may overtake one another.

Sends(what) ==
  /\ Alive
  /\ Calm => check.running = "no" /\ events = <<>>
  /\ events' = IF view THEN Append(events, what) ELSE events

ScreenOff ==
  /\ screen
  /\ Sends("off")
  /\ screen' = FALSE
  /\ UNCHANGED <<view, test, net, taken, touches, dialogs, crashed, wakes>>

AlarmFires ==
  /\ alarm
  /\ Sends("alarm")
  /\ alarm' = FALSE
  /\ wakes' = wakes + 1
  /\ UNCHANGED <<view, test, net, mDefaultScreenOffTime, timeout, held, leaked,
                 screen, touches, dialogs, crashed>>

Receives(what) ==
  /\ Idle
  /\ \E i \in 1 .. Len(events) :
       events[i] = what /\ events' = RemoveAt(events, i)

-------------------------------------------------------------------------------
\* mSleepTestReceiver and mCheckNetworkRunnable.

\* mNetworkActivate when a round begins, and a variant that keeps it.
KeepActivate == mNetworkActivate
Deactivate   == FALSE

\* The alarm of the next round.
SetAlarm == alarm' = TRUE

\* next(), each part with a variant.
CountedDown == mCurrentCount - 1
Counted     == mCurrentCount + 1
PassedBy(n) == n > mTargetCount
Reached(n)  == n >= mTargetCount

\* onReceive, ACTION_TEST_CASE_SLEEP: an alarm that comes early or late is a
\* failure.  The screen is lit by a lock of its own, which times out and is given
\* back by the system; the round before is over.
ReceiveAlarm ==
  /\ Receives("alarm")
  /\ \E failed \in {0, 1} : mFailureCount' = mFailureCount + failed
  /\ screen' = TRUE
  /\ IF isCheckNetwork
     THEN /\ mNetworkActivate' = Deactivate
          /\ check' = [posted |-> TRUE, running |-> Overtaken]
          /\ result' = "unknown"
     ELSE /\ result' = "none"
          /\ check' = [check EXCEPT !.running = Overtaken]
          /\ UNCHANGED mNetworkActivate
  /\ mCurrentCount' = Counted
  /\ IF mState # "RUNNING" \/ Reached(Counted)
     THEN Stop
     ELSE SetAlarm /\ UNCHANGED <<mState, timeout, held, leaked>>
  /\ UNCHANGED <<view, mTargetCount, isCheckNetwork, mDefaultScreenOffTime,
                 touches, dialogs, crashed, wakes>>

\* onReceive, ACTION_SCREEN_OFF: whatever the state of the test.
ReceiveOff ==
  /\ Receives("off")
  /\ IF isCheckNetwork
     THEN /\ check' = [check EXCEPT !.posted = FALSE]
          /\ mFailureCount' = mFailureCount + (IF mNetworkActivate THEN 0 ELSE 1)
     ELSE UNCHANGED <<check, mFailureCount>>
  /\ UNCHANGED <<view, mState, mTargetCount, mCurrentCount, isCheckNetwork,
                 mNetworkActivate, result, taken, screen, touches, dialogs,
                 crashed, wakes>>

\* A check that was posted by a run before this one is late from the start.
CheckStarts ==
  /\ Idle /\ check.posted /\ check.running = "no"
  /\ Calm => events = <<>>
  /\ check' = [posted  |-> FALSE,
               running |-> IF result = "unknown" THEN "own" ELSE "late"]
  /\ UNCHANGED <<view, test, isCheckNetwork, mNetworkActivate, result, taken,
                 device, dialogs, crashed, wakes>>

CheckEnds ==
  /\ Idle /\ check.running # "no"
  /\ check' = [check EXCEPT !.running = "no"]
  /\ mNetworkActivate' \in BOOLEAN
  /\ result' = IF check.running = "late" THEN result
               ELSE IF mNetworkActivate' THEN "yes" ELSE "no"
  /\ UNCHANGED <<view, test, isCheckNetwork, taken, device, dialogs, crashed,
                 wakes>>

-------------------------------------------------------------------------------
Init ==
  /\ view = TRUE
  /\ mState = "STOP"
  /\ mTargetCount = 0 /\ mCurrentCount = 0 /\ mFailureCount = 0
  /\ isCheckNetwork = FALSE /\ mNetworkActivate = FALSE
  /\ mDefaultScreenOffTime = "none" /\ timeout = "user"
  /\ held = TRUE /\ leaked = FALSE /\ alarm = FALSE
  /\ events = <<>> /\ screen = TRUE /\ check = NoCheck
  /\ dialogs = <<>> /\ crashed = "no"
  /\ touches = 0 /\ wakes = 0 /\ result = "none"

User    == \/ Ask \/ Dismiss \/ Start \/ ConfirmNothing \/ ConfirmStop
           \/ Leave \/ Open \/ Touch
System  == ScreenOff \/ AlarmFires
Handler == ReceiveAlarm \/ ReceiveOff \/ Repaint
Worker  == CheckStarts \/ CheckEnds

Next == User \/ System \/ Handler \/ Worker

Spec == Init /\ [][Next]_vars

-------------------------------------------------------------------------------
(* What the test promises about what it takes.                             *)

\* The user's screen timeout is back whenever no test runs, also after the user
\* has left in the middle of one (start, stop, onDestroyView).
TimeoutRestored == Alive /\ mState = "STOP" => timeout = "user"

\* One wake lock keeps the screen on while no test runs, none while one runs,
\* so that the device can fall asleep at all, none is left behind when the user
\* has gone, and none is released that is not held, which throws (onCreate,
\* start, stop, onDestroyView).
LocksBalanced ==
  /\ crashed # "lock"
  /\ Alive => (held <=> (view /\ mState = "STOP"))
  /\ ~leaked

\* A device that sleeps is woken: while a test runs its alarm is set or on its
\* way, and when it has stopped none wakes the device (setAlarm, stopAlarm).
AlarmPending ==
  Alive => (mState = "RUNNING" <=> alarm \/ "alarm" \in {events[i] : i \in DOMAIN events})

\* All three: what a run takes of the device it gives back, once.
GivesBack == TimeoutRestored /\ LocksBalanced /\ AlarmPending

\* The count is the number of times this run has been woken, and the run stops
\* at its target and nowhere behind it (next).
CountsWakes ==
  Alive /\ mState = "RUNNING" =>
    /\ mCurrentCount + Count("alarm") = wakes
    /\ mCurrentCount < mTargetCount

\* When the screen goes off, a round that has asked for a check of the network is a
\* failure exactly if the check it has asked for has not found the network by then:
\* neither the answer of a round before nor that of a check which ran into this
\* round stands for it (mCheckNetworkRunnable, onReceive).  A time in which no check
\* was asked for, before the first alarm of a run or with the box ticked since, is
\* a failure or none by what was left behind, which nothing speaks for: it is not
\* judged here.
CheckedRounds ==
  [][ReceiveOff /\ isCheckNetwork /\ result # "none" =>
       (mFailureCount' = mFailureCount <=> result = "yes")]_vars
===============================================================================
