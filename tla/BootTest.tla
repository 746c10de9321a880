-------------------------------- MODULE BootTest --------------------------------
(***************************************************************************)
(* The tests that restart the device: RebootTestFragment (it reboots) and  *)
(* TimingBootTestFragment (it shuts down and the MCU starts the device     *)
(* again), over BaseCountTestFragment and with RebootReceiver.  All of it  *)
(* runs on the main thread.  A run lives through the restart in eight      *)
(* SharedPreferences, each committed on its own, of which the model keeps  *)
(* the four that decide about the run; the power may fail between any two. *)
(*                                                                         *)
(* Time is counted in seconds, the distance of the countdown's messages.   *)
(***************************************************************************)
EXTENDS Integers, Sequences

CONSTANTS Kinds,       \* the two tests: "reboot" and "timing"
          Targets,     \* the numbers the user types
          Delay,       \* mDelayTime, the seconds of the countdown
          Lead,        \* the check is made this long before its end
          CutInStop,   \* the power may fail inside stop(), too
          Patient,     \* no run is started while a check is due
          MaxCuts,     \* bound on the power failures
          MaxEntries   \* bound on the times the user comes back to the app

ASSUME BootAssumption ==
  /\ Kinds \subseteq {"reboot", "timing"}
  /\ Targets \subseteq Nat \ {0}
  /\ Delay \in Nat /\ Lead \in Nat /\ 0 < Lead /\ Lead < Delay
  /\ CutInStop \in BOOLEAN /\ Patient \in BOOLEAN
  /\ MaxCuts \in Nat /\ MaxEntries \in Nat

RUNNING == 1
STOP    == 2

VARIABLES kind,           \* the test
          phase,          \* the device: up, leaving (it shuts down) or off
          app,            \* the activity: none, shown or hidden
          mState, mTargetCount, mCurrentCount, mFailureCount, mCountDownTime,
          ready,          \* MSG_..._COUNTDOWN messages that are due
          later,          \* those due in a second
          checks,         \* the seconds to each posted check, in their order
          confirm,        \* start()'s dialog, OK or Cancel, is shown
          job,            \* the series of commits under way, and what follows
          step,           \* the next of its commits
          sp,             \* the SharedPreferences
          cuts, entries,  \* counted for their bounds
          goal,           \* history: the number the last run was started with
          boots,          \* history: the device's starts since then
          failed          \* history: the failures marked since then

mem  == <<mState, mTargetCount, mCurrentCount, mFailureCount, mCountDownTime>>
msgs == <<ready, later, checks>>
work == <<job, step>>
past == <<goal, boots, failed>>
moving == <<phase, app, mem, msgs, confirm, work, sp, cuts, entries, past>>
vars   == <<kind, moving>>

Keys == <<"flag", "count", "fails", "max">>
Jobs == {"none", "save", "stop", "leave"}

TypeOK ==
  /\ kind \in Kinds
  /\ phase \in {"up", "leaving", "off"}
  /\ app \in {"none", "shown", "hidden"}
  /\ mState \in {RUNNING, STOP}
  /\ mTargetCount \in Nat /\ mCurrentCount \in Nat /\ mFailureCount \in Nat
  /\ mCountDownTime \in 0 .. Delay
  /\ ready \in Nat /\ later \in Nat
  /\ checks \in Seq(0 .. Delay)
  /\ confirm \in BOOLEAN
  /\ job \in Jobs /\ step \in 1 .. 5
  /\ sp \in [flag : {RUNNING, STOP}, count : Nat, fails : Nat, max : Nat]
  /\ cuts \in 0 .. MaxCuts /\ entries \in 0 .. MaxEntries
  /\ goal \in Nat /\ boots \in Nat /\ failed \in Nat

-------------------------------------------------------------------------------
Idle  == phase # "off" /\ app # "none" /\ job = "none"
Shown == Idle /\ app = "shown"
Due   == checks # <<>> /\ Head(checks) = 0

Works(what) == job' = what /\ step' = 1

\* What a check may find.
Found == {0, 1}

\* The delay of the posted check.
CheckAfter == Delay - Lead

Reached(n, target) == n >= target

\* check(), called by onStart with the state, the count, the target and the
\* failures of the test; it calls next().
Check(state, count, target, fails) ==
  /\ mState' = state /\ mTargetCount' = target
  /\ IF state = RUNNING
     THEN /\ \E f \in (IF kind = "timing" THEN Found ELSE {0}) :
               mFailureCount' = fails + f /\ failed' = failed + f
          /\ checks' = IF kind = "timing" THEN checks
                       ELSE Append(checks, CheckAfter)
          /\ mCurrentCount' = count + 1
          /\ IF Reached(count + 1, target)
             THEN Works("stop") /\ ready' = 0 /\ later' = 0
                    /\ UNCHANGED mCountDownTime
             ELSE ready' = ready + 1 /\ mCountDownTime' = Delay
                    /\ UNCHANGED <<later, work>>
     ELSE /\ mCurrentCount' = count /\ mFailureCount' = fails
          /\ UNCHANGED <<failed, msgs, mCountDownTime, work>>

\* onCreate, onViewCreated and onStart of a new activity.
Load ==
  /\ app' = "shown"
  /\ Check(sp.flag, sp.count, sp.max, sp.fails)

\* The process is gone, with all it held in memory.
Forget ==
  /\ app' = "none"
  /\ mState' = STOP /\ mTargetCount' = 0 /\ mCurrentCount' = 0
  /\ mFailureCount' = 0 /\ mCountDownTime' = 0
  /\ ready' = 0 /\ later' = 0 /\ checks' = <<>>
  /\ confirm' = FALSE
  /\ Works("none")

-------------------------------------------------------------------------------
\* The user.

\* start(): its dialog is shown and the test is running at once.
Start ==
  /\ Shown /\ ~confirm /\ mState = STOP
  /\ Patient => checks = <<>>
  /\ confirm' = TRUE
  /\ mTargetCount' \in Targets
  /\ mState' = RUNNING /\ mCurrentCount' = 0 /\ mFailureCount' = 0
  /\ goal' = mTargetCount' /\ boots' = 0 /\ failed' = 0
  /\ UNCHANGED <<phase, app, mCountDownTime, msgs, work, sp, cuts, entries>>

Confirm ==
  /\ Shown /\ confirm
  /\ confirm' = FALSE
  /\ mCountDownTime' = Delay
  /\ ready' = ready + 1
  /\ UNCHANGED <<phase, app, mState, mTargetCount, mCurrentCount,
                 mFailureCount, later, checks, work, sp, cuts, entries, past>>

\* The dialog is left by the back key: no button, no call.
Dismiss ==
  /\ Shown /\ confirm
  /\ confirm' = FALSE
  /\ UNCHANGED <<phase, app, mem, msgs, work, sp, cuts, entries, past>>

\* stop() up to cleanState(): by Cancel or by the stop dialog.
UserStops ==
  /\ Shown
  /\ confirm \/ mState = RUNNING
  /\ confirm' = FALSE
  /\ ready' = 0 /\ later' = 0
  /\ Works("stop")
  /\ UNCHANGED <<phase, app, mem, checks, sp, cuts, entries, past>>

Hide ==
  /\ Shown
  /\ app' = "hidden"
  /\ UNCHANGED <<phase, mem, msgs, confirm, work, sp, cuts, entries, past>>

\* onStart of an activity that was hidden.
Return ==
  /\ Idle /\ app = "hidden"
  /\ entries < MaxEntries
  /\ entries' = entries + 1
  /\ app' = "shown"
  /\ Check(mState, mCurrentCount, mTargetCount, mFailureCount)
  /\ UNCHANGED <<phase, confirm, sp, cuts, goal, boots>>

\* onDestroyView: the user leaves the app, or the system destroys the activity.
Leave ==
  /\ Idle
  /\ IF mState = RUNNING
     THEN /\ Works("leave") /\ ready' = 0 /\ later' = 0
          /\ UNCHANGED <<app, mem, checks, confirm>>
     ELSE Forget
  /\ UNCHANGED <<phase, sp, cuts, entries, past>>

Open ==
  /\ phase # "off" /\ app = "none"
  /\ Load
  /\ UNCHANGED <<phase, confirm, sp, cuts, entries, goal, boots>>

-------------------------------------------------------------------------------
\* The main thread.

\* handleMsg, and a variant that counts past zero.
CountingPast == mCountDownTime >= 0
Counting     == mCountDownTime > 0

Handle ==
  /\ Idle /\ ready > 0
  /\ ready' = ready - 1
  /\ IF mState # RUNNING THEN UNCHANGED <<mCountDownTime, later, work>>
     ELSE IF Counting
     THEN /\ mCountDownTime' = mCountDownTime - 1
          /\ later' = later + 1
          /\ UNCHANGED work
     ELSE Works("save") /\ UNCHANGED <<mCountDownTime, later>>
  /\ UNCHANGED <<phase, app, mState, mTargetCount, mCurrentCount,
                 mFailureCount, checks, confirm, sp, cuts, entries, past>>

\* The posted check, which asks neither whether the test still runs nor whether
\* it is still the same run.
RunCheck ==
  /\ Idle /\ Due
  /\ checks' = Tail(checks)
  /\ \E f \in Found : mFailureCount' = mFailureCount + f /\ failed' = failed + f
  /\ UNCHANGED <<phase, app, mState, mTargetCount, mCurrentCount,
                 mCountDownTime, ready, later, confirm, work, sp, cuts,
                 entries, goal, boots>>

\* A second passes.
Tick ==
  /\ Idle /\ ready = 0 /\ ~Due
  /\ later > 0 \/ checks # <<>>
  /\ ready' = later /\ later' = 0
  /\ checks' = [i \in 1 .. Len(checks) |-> checks[i] - 1]
  /\ UNCHANGED <<phase, app, mem, confirm, work, sp, cuts, entries, past>>

\* What saveState() and cleanState() commit, with variants that drop the
\* failures, and clean nothing.
Running   == [flag |-> mState, count |-> mCurrentCount,
              fails |-> mFailureCount, max |-> mTargetCount]
Forgetful == [Running EXCEPT !.fails = 0]
Saved     == Running

Kept    == sp
Cleaned == [flag |-> STOP, count |-> 0, fails |-> 0, max |-> 0]

Commit ==
  /\ job # "none" /\ step <= Len(Keys)
  /\ LET value == IF job = "save" THEN Saved ELSE Cleaned
     IN  sp' = [sp EXCEPT ![Keys[step]] = value[Keys[step]]]
  /\ step' = step + 1
  /\ UNCHANGED <<phase, app, mem, msgs, confirm, job, cuts, entries, past>>

\* reboot() or the request to shut down, BaseTestFragment.stop, and the end of
\* the activity.
Finish ==
  /\ job # "none" /\ step > Len(Keys)
  /\ \/ /\ job = "save" /\ kind = "reboot"
        /\ phase' = "off"
        /\ Forget
     \/ /\ job = "save" /\ kind = "timing"
        /\ phase' = "leaving"
        /\ Works("none")
        /\ UNCHANGED <<app, mem, msgs, confirm>>
     \/ /\ job = "stop"
        /\ mState' = STOP
        /\ Works("none")
        /\ UNCHANGED <<phase, app, mTargetCount, mCurrentCount, mFailureCount,
                       mCountDownTime, msgs, confirm>>
     \/ /\ job = "leave"
        /\ Forget
        /\ UNCHANGED phase
  /\ UNCHANGED <<sp, cuts, entries, past>>

-------------------------------------------------------------------------------
\* The device.

MayFail == job \in {"stop", "leave"} => CutInStop

PowersDown ==
  /\ phase = "leaving" /\ MayFail
  /\ phase' = "off"
  /\ Forget
  /\ UNCHANGED <<sp, cuts, entries, past>>

Cut ==
  /\ phase # "off" /\ MayFail
  /\ cuts < MaxCuts
  /\ cuts' = cuts + 1
  /\ phase' = "off"
  /\ Forget
  /\ UNCHANGED <<sp, entries, past>>

\* RebootReceiver.onReceive, and a variant that resumes nothing.
ResumesNone == FALSE
Resumes     == sp.flag = RUNNING

Boot ==
  /\ phase = "off"
  /\ phase' = "up"
  /\ boots' = boots + 1
  /\ IF Resumes THEN Load ELSE UNCHANGED <<app, mem, msgs, work, failed>>
  /\ UNCHANGED <<confirm, sp, cuts, entries, goal>>

-------------------------------------------------------------------------------
Init ==
  /\ kind \in Kinds
  /\ phase = "up" /\ app = "none"
  /\ mState = STOP /\ mTargetCount = 0 /\ mCurrentCount = 0
  /\ mFailureCount = 0 /\ mCountDownTime = 0
  /\ ready = 0 /\ later = 0 /\ checks = <<>>
  /\ confirm = FALSE
  /\ job = "none" /\ step = 1
  /\ sp = [flag |-> STOP, count |-> 0, fails |-> 0, max |-> 0]
  /\ cuts = 0 /\ entries = 0
  /\ goal = 0 /\ boots = 0 /\ failed = 0

User   == Start \/ Confirm \/ Dismiss \/ UserStops \/ Hide \/ Return \/ Leave \/ Open
Looper == Handle \/ RunCheck \/ Commit \/ Finish
Next   == (User \/ Looper \/ Tick \/ PowersDown \/ Cut \/ Boot) /\ UNCHANGED kind

Spec == Init /\ [][Next]_vars

\* The looper runs, time passes and a device that is off is started; nothing is
\* asked of the user.
Fairness ==
  /\ WF_moving(Looper) /\ WF_moving(Tick) /\ WF_moving(PowersDown) /\ WF_moving(Boot)

FairSpec == Spec /\ Fairness

-------------------------------------------------------------------------------
(* What a test that restarts the device promises.                          *)

\* The run as it would go on: that of the fragment, or the one the next start
\* of the app would resume.
InMemory == app # "none"
Alive ==
  IF InMemory THEN mState = RUNNING /\ mTargetCount > 0
  ELSE sp.flag = RUNNING /\ sp.count < sp.max
RunGoal == IF ~Alive THEN 0 ELSE IF InMemory THEN mTargetCount ELSE sp.max
RunDone == IF ~Alive THEN 0 ELSE IF InMemory THEN mCurrentCount ELSE sp.count

Run == INSTANCE SurvivingRun WITH Goals <- Targets, goal <- RunGoal, done <- RunDone

\* Whatever the order of reboots, power failures between two commits, stops and
\* returns to the app, a run keeps the number it was started with, advances by
\* one, and never comes back when it was over (saveState, cleanState, onCreate).
SurvivesReboots == Run!Spec

\* A run that goes on has a message of its countdown, or a series of commits is under
\* way, or the device restarts.
GoesOn == ready + later > 0 \/ job # "none" \/ phase # "up"

\* A run that has begun to go on never lies idle as long as it lives: not when the
\* countdown is over, nor after a start of the device or a return to the app
\* (handleMsg, reboot, powerOff, check, RebootReceiver.onReceive, onDestroyView).
NeverStalls == [][Alive /\ GoesOn /\ Alive' => GoesOn']_vars

\* Both: it is the same run after each restart, and it goes on.
LivesOn == SurvivesReboots /\ NeverStalls

\* The count is the number of starts of the device since the run was begun; a
\* power failure is the only start it may miss (check, next, saveState).
CountsBoots ==
  Idle /\ mState = RUNNING =>
    mCurrentCount <= boots /\ boots <= mCurrentCount + cuts

\* The failures live through the restarts; a power failure loses at most the
\* one of its own round (saveState, onViewCreated, markFailure).
FailuresKept ==
  Idle /\ mState = RUNNING =>
    mFailureCount <= failed /\ failed <= mFailureCount + cuts

\* Every round's check is made before its outcome is saved (check posts it
\* 8 seconds before the countdown ends).
CheckedBeforeSave == job = "save" => checks = <<>>

\* A run fails at most once for each start of the device (check).
FailsOncePerBoot == Idle /\ mState = RUNNING => mFailureCount <= boots

\* All four: neither the numbers of a run nor its check get lost on the way from
\* start to start.
RoundsKept == CountsBoots /\ FailuresKept /\ CheckedBeforeSave /\ FailsOncePerBoot

\* A run whose countdown has begun ends, over all its restarts (handleMsg, next,
\* RebootReceiver.onReceive).
RunEnds == Alive /\ ready + later > 0 ~> ~Alive
===============================================================================
