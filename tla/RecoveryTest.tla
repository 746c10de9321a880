------------------------------ MODULE RecoveryTest ------------------------------
(***************************************************************************)
(* The factory reset test: RecoveryTestFragment over BaseCountTestFragment *)
(* on the main thread, WorkService on its worker thread, and what          *)
(* RebootReceiver starts.  A run lives through the reset in one file,      *)
(* which the recovery system keeps because of its name, and comes back in  *)
(* the extras of the intent that opens the activity.                       *)
(***************************************************************************)
EXTENDS Integers

CONSTANTS Targets,     \* the numbers the user types
          Delay,       \* mDelayTime, the seconds of the countdown
          Caller,      \* somebody sends WorkService its command after a start
          Orderly,     \* the user opens and leaves the app, and the caller
                       \* sends the command, one after the other
          FailsInStop, \* the power and the delete may fail inside stop(), too
          MaxCuts,     \* bound on the power failures
          MaxEntries,  \* bound on the times the user comes back to the app
          MaxErrors    \* bound on the times the file cannot be written, or the
                       \* reboot fails

ASSUME RecoveryAssumption ==
  /\ Targets \subseteq Nat \ {0}
  /\ Delay \in Nat
  /\ {Caller, Orderly, FailsInStop} \subseteq BOOLEAN
  /\ {MaxCuts, MaxEntries, MaxErrors} \subseteq Nat

RUNNING == 1
STOP    == 2

\* The lines of STATE_FILE, which are the extras of the intent, too.
States == [flag : {RUNNING, STOP}, count : Nat, max : Nat, wipeAll : BOOLEAN]
None   == [flag |-> STOP, count |-> 0, max |-> 0, wipeAll |-> FALSE]

VARIABLES phase,           \* the device: up, leaving (it is to be reset) or off
          app,             \* the activity: none, shown or hidden
          mState, mTargetCount, mCurrentCount, mCountDownTime, mIsWipeAll,
          ready,           \* MSG_RECOVERY_COUNTDOWN messages that are due
          later,           \* those due in a second
          confirm,         \* start()'s dialog, OK or Cancel, is shown
          error,           \* the dialog of showErrorDialog is shown
          job,             \* why saveState() is under way
          step,            \* what it does next
          file,            \* STATE_FILE, None when there is none
          command,         \* WorkService's command since the last start
          launch,          \* the extras of startActivity, None when not called
          cuts, entries, errors,  \* counted for their bounds
          chosen,          \* history: what the last OK chose to wipe
          resets,          \* history: the resets since the run was started
          returns          \* history: the returns to it while it ran

mem   == <<mState, mTargetCount, mCurrentCount, mCountDownTime, mIsWipeAll>>
msgs  == <<ready, later>>
asked == <<confirm, error>>
work  == <<job, step>>
serve == <<command, launch>>
count == <<cuts, entries, errors>>
past  == <<chosen, resets, returns>>
vars  == <<phase, app, mem, msgs, asked, work, file, serve, count, past>>

Jobs == {"none", "save", "stop", "leave"}

TypeOK ==
  /\ phase \in {"up", "leaving", "off"}
  /\ app \in {"none", "shown", "hidden"}
  /\ mState \in {RUNNING, STOP}
  /\ mTargetCount \in Nat /\ mCurrentCount \in Nat
  /\ mCountDownTime \in 0 .. Delay /\ mIsWipeAll \in BOOLEAN
  /\ ready \in Nat /\ later \in Nat
  /\ confirm \in BOOLEAN /\ error \in BOOLEAN
  /\ job \in Jobs /\ step \in {"delete", "write", "done"}
  /\ {file, launch} \subseteq States
  /\ command \in {"none", "due", "handled"}
  /\ cuts \in 0 .. MaxCuts /\ entries \in 0 .. MaxEntries /\ errors \in 0 .. MaxErrors
  /\ chosen \subseteq BOOLEAN /\ resets \in Nat /\ returns \in Nat

-------------------------------------------------------------------------------
Idle  == phase # "off" /\ app # "none" /\ job = "none"
Shown == Idle /\ app = "shown"

\* saveState() begins; stop() calls it after super.stop, so that it saves STOP.
Saves(what) == job' = what /\ step' = "delete"

Reached(n, target) == n >= target

\* check(), called by onStart with the state, the count and the target of the
\* test; it calls next().
Check(state, n, target) ==
  /\ mTargetCount' = target
  /\ mCurrentCount' = IF state = RUNNING THEN n + 1 ELSE n
  /\ \/ /\ state = RUNNING /\ Reached(n + 1, target)
        /\ mState' = STOP
        /\ Saves("stop") /\ ready' = 0 /\ later' = 0
        /\ UNCHANGED mCountDownTime
     \/ /\ state = RUNNING /\ ~Reached(n + 1, target)
        /\ mState' = RUNNING
        /\ ready' = ready + 1 /\ mCountDownTime' = Delay
        /\ UNCHANGED <<later, work>>
     \/ /\ state = STOP
        /\ mState' = STOP
        /\ UNCHANGED <<msgs, mCountDownTime, work>>

\* What onCreate takes from the extras, and a variant that forgets a choice.
WipesNothing(extras) == FALSE
Wipes(extras)        == extras.wipeAll

\* onCreate and onStart of a new activity.
Load(extras) ==
  /\ app' = "shown"
  /\ mIsWipeAll' = Wipes(extras)
  /\ Check(extras.flag, extras.count, extras.max)

\* The process is gone, with all it held in memory.
Forget ==
  /\ app' = "none"
  /\ mState' = STOP /\ mTargetCount' = 0 /\ mCurrentCount' = 0
  /\ mCountDownTime' = 0 /\ mIsWipeAll' = FALSE
  /\ ready' = 0 /\ later' = 0
  /\ confirm' = FALSE /\ error' = FALSE
  /\ job' = "none" /\ step' = "done"

-------------------------------------------------------------------------------
\* The user.

\* start(): its dialog is shown and the test is running at once.  The clicks
\* that lead here come after the messages that are due.
Start ==
  /\ Shown /\ ~confirm /\ ~error /\ mState = STOP
  /\ ready = 0
  /\ confirm' = TRUE
  /\ mTargetCount' \in Targets
  /\ mState' = RUNNING /\ mCurrentCount' = 0
  /\ chosen' = {} /\ resets' = 0 /\ returns' = 0
  /\ UNCHANGED <<phase, app, mCountDownTime, mIsWipeAll, msgs, error, work,
                 file, serve, count>>

Confirm ==
  /\ Shown /\ confirm
  /\ confirm' = FALSE
  /\ mIsWipeAll' \in BOOLEAN /\ chosen' = {mIsWipeAll'}
  /\ mCountDownTime' = Delay
  /\ ready' = ready + 1
  /\ UNCHANGED <<phase, app, mState, mTargetCount, mCurrentCount, later,
                 error, work, file, serve, count, resets, returns>>

\* A dialog is left by the back key: no button, no call.
Dismiss ==
  /\ Shown /\ (confirm \/ error)
  /\ confirm' = FALSE /\ error' = FALSE
  /\ UNCHANGED <<phase, app, mem, msgs, work, file, serve, count, past>>

\* stop() up to saveState(): by Cancel, by the error's Stop or the stop dialog.
UserStops ==
  /\ Shown
  /\ confirm \/ error \/ mState = RUNNING
  /\ confirm' = FALSE /\ error' = FALSE
  /\ ready' = 0 /\ later' = 0
  /\ mState' = STOP
  /\ Saves("stop")
  /\ UNCHANGED <<phase, app, mTargetCount, mCurrentCount, mCountDownTime,
                 mIsWipeAll, file, serve, count, past>>

Hide ==
  /\ Shown
  /\ app' = "hidden"
  /\ UNCHANGED <<phase, mem, msgs, asked, work, file, serve, count, past>>

\* onStart of an activity that was hidden.
Return ==
  /\ app' = "shown"
  /\ Check(mState, mCurrentCount, mTargetCount)
  /\ returns' = IF mState = RUNNING THEN returns + 1 ELSE returns
  /\ UNCHANGED <<phase, mIsWipeAll, asked, file, chosen, resets>>

ComeBack ==
  /\ Idle /\ app = "hidden"
  /\ entries < MaxEntries
  /\ entries' = entries + 1
  /\ Return
  /\ UNCHANGED <<serve, cuts, errors>>

Waits == Orderly => command # "due" /\ launch = None

\* onDestroyView: the user leaves the app, or the system destroys the activity.
Leave ==
  /\ Idle /\ Waits
  /\ IF mState = RUNNING
     THEN /\ mState' = STOP /\ Saves("leave") /\ ready' = 0 /\ later' = 0
          /\ UNCHANGED <<app, mTargetCount, mCurrentCount, mCountDownTime,
                         mIsWipeAll, asked>>
     ELSE Forget
  /\ UNCHANGED <<phase, file, serve, count, past>>

\* The app is opened by the user: its intent has no extras.
Open ==
  /\ phase # "off" /\ app = "none"
  /\ Waits /\ (Orderly => file.flag = STOP \/ command = "handled")
  /\ Load(None)
  /\ UNCHANGED <<phase, asked, file, serve, count, past>>

-------------------------------------------------------------------------------
\* The main thread.

\* handleMsg, and a variant that counts past zero.
CountingPast == mCountDownTime >= 0
Counting     == mCountDownTime > 0

Handle ==
  /\ Idle /\ ready > 0
  /\ ready' = ready - 1
  /\ IF mState # RUNNING THEN UNCHANGED <<mCountDownTime, later, work>>
     ELSE IF Counting
     THEN /\ mCountDownTime' = mCountDownTime - 1
          /\ later' = later + 1
          /\ UNCHANGED work
     ELSE Saves("save") /\ UNCHANGED <<mCountDownTime, later>>
  /\ UNCHANGED <<phase, app, mState, mTargetCount, mCurrentCount, mIsWipeAll,
                 asked, file, serve, count, past>>

\* A second passes.
Tick ==
  /\ Idle /\ ready = 0 /\ later > 0
  /\ ready' = later /\ later' = 0
  /\ UNCHANGED <<phase, app, mem, asked, work, file, serve, count, past>>

\* saveState(), with a variant that saves a state super.stop() has not changed yet.
Running   == [flag |-> mState, count |-> mCurrentCount, max |-> mTargetCount,
              wipeAll |-> mIsWipeAll]
SavedLate == [Running EXCEPT !.flag = RUNNING]
Saved     == Running

\* What may go wrong on its own, inside stop() only when FailsInStop.
MayFail == job \in {"stop", "leave"} => FailsInStop

\* Nobody looks at what delete() returns.
Delete ==
  /\ job # "none" /\ step = "delete"
  /\ file' = None \/ (MayFail /\ file' = file)
  /\ step' = "write"
  /\ UNCHANGED <<phase, app, mem, msgs, asked, job, serve, count, past>>

Write ==
  /\ job # "none" /\ step = "write"
  /\ file' = Saved
  /\ step' = "done"
  /\ UNCHANGED <<phase, app, mem, msgs, asked, job, serve, count, past>>

\* The file cannot be written: stop() does not care, recovery() shows an error.
WriteFails ==
  /\ job # "none" /\ step = "write"
  /\ errors < MaxErrors
  /\ errors' = errors + 1
  /\ IF job = "save"
     THEN error' = TRUE /\ job' = "none" /\ step' = "done"
     ELSE step' = "done" /\ UNCHANGED <<error, job>>
  /\ UNCHANGED <<phase, app, mem, msgs, confirm, file, serve, cuts,
                 entries, past>>

\* The device restarts into the recovery system, which erases the user's data
\* but keeps STATE_FILE for the "last" of its name.
Wiped ==
  /\ phase' = "off" /\ Forget
  /\ resets' = resets + 1
  /\ UNCHANGED file

\* The rest of recovery(): bootCommand restarts the device into the recovery
\* system at once, the other two ways ask the system to do so.
Recovery ==
  /\ job = "save" /\ step = "done"
  /\ IF mIsWipeAll
     THEN Wiped
     ELSE /\ phase' = "leaving" /\ job' = "none"
          /\ UNCHANGED <<app, mem, msgs, asked, step, file, resets>>
  /\ UNCHANGED <<serve, count, chosen, returns>>

\* bootCommand cannot write its command, or reboot() comes back: the exception is
\* caught and logged, and nothing else is done.
RecoveryFails ==
  /\ job = "save" /\ step = "done" /\ mIsWipeAll
  /\ errors < MaxErrors
  /\ errors' = errors + 1
  /\ job' = "none"
  /\ UNCHANGED <<phase, app, mem, msgs, asked, step, file, serve, cuts, entries,
                 past>>

\* The end of stop(), and of the activity.
Finish ==
  /\ job \in {"stop", "leave"} /\ step = "done"
  /\ IF job = "leave" THEN Forget
     ELSE job' = "none" /\ UNCHANGED <<app, mem, msgs, asked, step>>
  /\ UNCHANGED <<phase, file, serve, count, past>>

-------------------------------------------------------------------------------
\* The device.

\* The system does what it was asked to.
Reset ==
  /\ phase = "leaving" /\ MayFail
  /\ Wiped
  /\ UNCHANGED <<serve, count, chosen, returns>>

Cut ==
  /\ phase # "off" /\ MayFail
  /\ cuts < MaxCuts
  /\ cuts' = cuts + 1
  /\ phase' = "off" /\ Forget
  /\ UNCHANGED <<file, serve, entries, errors, past>>

\* RebootReceiver.onReceive, which calls startService with the intent it was
\* called with: no command reaches WorkService.
Boot ==
  /\ phase = "off"
  /\ phase' = "up"
  /\ command' = "none" /\ launch' = None
  /\ UNCHANGED <<app, mem, msgs, asked, work, file, count, past>>

\* WorkService is exported: somebody else sends the command.
Send ==
  /\ Caller
  /\ phase = "up" /\ command = "none"
  /\ Orderly => job # "leave"
  /\ command' = "due"
  /\ UNCHANGED <<phase, app, mem, msgs, asked, work, file, launch, count,
                 past>>

\* handleMessage and checkRecoveryState, and a variant that resumes no run.
ResumesNone(state) == FALSE
Resumes(state)     == state.flag = RUNNING

CheckRecoveryState ==
  /\ phase # "off" /\ command = "due"
  /\ command' = "handled"
  /\ launch' = IF Resumes(file) THEN file ELSE None
  /\ UNCHANGED <<phase, app, mem, msgs, asked, work, file, count, past>>

\* startActivity: an activity that is there comes to the front as it is.
Launch ==
  /\ phase # "off" /\ launch # None /\ job = "none"
  /\ launch' = None
  /\ \/ /\ app = "none" /\ Load(launch)
        /\ UNCHANGED <<phase, asked, file, count, past>>
     \/ /\ app = "hidden" /\ Return
        /\ UNCHANGED count
     \/ /\ app = "shown"
        /\ UNCHANGED <<phase, app, mem, msgs, asked, work, file, count,
                       past>>
  /\ UNCHANGED command

-------------------------------------------------------------------------------
Init ==
  /\ phase = "up" /\ app = "none"
  /\ mState = STOP /\ mTargetCount = 0 /\ mCurrentCount = 0
  /\ mCountDownTime = 0 /\ mIsWipeAll = FALSE
  /\ ready = 0 /\ later = 0
  /\ confirm = FALSE /\ error = FALSE
  /\ job = "none" /\ step = "done"
  /\ file = None /\ launch = None
  /\ command = "none"
  /\ cuts = 0 /\ entries = 0 /\ errors = 0
  /\ chosen = {} /\ resets = 0 /\ returns = 0

User   == Start \/ Confirm \/ Dismiss \/ UserStops \/ Hide \/ ComeBack \/ Leave \/ Open
Save   == Delete \/ Write \/ WriteFails
Looper == Handle \/ Save \/ Recovery \/ RecoveryFails \/ Finish \/ Launch
Worker == CheckRecoveryState
Next   == User \/ Looper \/ Tick \/ Reset \/ Cut \/ Boot \/ Send \/ Worker

Spec == Init /\ [][Next]_vars

\* The threads run, time passes, the system does what it is asked to, and a device
\* that is off is started; nothing is asked of the user, and nothing of the caller,
\* whom the repository does not have.
Fairness ==
  /\ WF_vars(Looper) /\ WF_vars(Tick) /\ WF_vars(Worker)
  /\ WF_vars(Reset) /\ WF_vars(Boot)

FairSpec == Spec /\ Fairness

-------------------------------------------------------------------------------
(* What the factory reset test promises.                                   *)

\* The run as it would go on: that of the fragment, or the one of the file.
InMemory == app # "none"
Alive ==
  IF InMemory THEN mState = RUNNING /\ mTargetCount > 0
  ELSE file.flag = RUNNING /\ file.count < file.max
RunGoal == IF ~Alive THEN 0 ELSE IF InMemory THEN mTargetCount ELSE file.max
RunDone == IF ~Alive THEN 0 ELSE IF InMemory THEN mCurrentCount ELSE file.count

Run == INSTANCE SurvivingRun WITH Goals <- Targets, goal <- RunGoal, done <- RunDone

\* Whatever the order of resets, power failures, errors of the file, stops and
\* returns to the app, a run keeps the number it was started with, advances by
\* one, and never comes back when it was over (saveState, checkRecoveryState,
\* onCreate).
SurvivesReset == Run!Spec

\* A run that goes on has a message of its countdown, or its state is being saved, or
\* the device restarts, or it waits in the file for the command, the worker or the
\* activity.
Awaited == app = "none" /\ (command # "handled" \/ launch # None)
GoesOn  == ready + later > 0 \/ job # "none" \/ phase # "up" \/ Awaited

\* A run that has begun to go on never lies idle as long as it lives, but when its
\* state cannot be saved, and when the reboot of a wipe fails, of which nobody hears
\* (handleMsg, recovery, bootCommand, checkRecoveryState, onCreate, onDestroyView).
NeverStalls == [][Alive /\ GoesOn /\ Alive' /\ errors' = errors => GoesOn']_vars

\* Both: it is the same run after each reset, and it goes on.
LivesOn == SurvivesReset /\ NeverStalls

\* The count is the number of resets since the run was begun; only a power
\* failure and a return to the app make it higher (check, next).
CountsResets ==
  mState = RUNNING =>
    resets <= mCurrentCount /\ mCurrentCount <= resets + cuts + returns

\* A round wipes what the user chose when he confirmed the run, however many
\* resets ago that was, if he did not come back to the app meanwhile: that
\* starts the countdown of a run not yet confirmed (onClick, saveState,
\* checkRecoveryState, onCreate).
WipesAsChosen == returns = 0 /\ mState = RUNNING => chosen \subseteq {mIsWipeAll}

\* Both: the rounds of a run are counted, and made as they were asked for.
RoundsAsAsked == CountsResets /\ WipesAsChosen

\* The run waits in the file, and nobody has asked for it since the device started.
Unasked == app = "none" /\ command = "none"

\* A round whose countdown has begun comes to its reset, after which the run waits in
\* the file, and a command that finds it there begins the countdown of its next round,
\* unless the run is over, the power fails again before the worker looks, or a write or
\* a reboot has failed (handleMsg, recovery, checkRecoveryState, onCreate, check).
EachRoundEnds ==
  /\ Alive /\ ready + later > 0 ~> ~Alive \/ errors > 0 \/ Unasked
  /\ Alive /\ app = "none" /\ command = "due" ~>
       ~Alive \/ errors > 0 \/ Unasked \/ ready + later > 0

\* A run whose countdown has begun ends, over all its resets, unless a write or a
\* reboot has failed (recovery, RebootReceiver.onReceive, checkRecoveryState).
RunEnds == Alive /\ ready + later > 0 ~> ~Alive \/ errors > 0
===============================================================================
