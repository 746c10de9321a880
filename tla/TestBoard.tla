------------------------------- MODULE TestBoard -------------------------------
(***************************************************************************)
(* The screen of tests: MainActivity and the part of BaseTestFragment that *)
(* every test shares.  Each test owns a fragment with a start button.  A   *)
(* fragment that starts or stops posts onFragmentInteraction to the main   *)
(* looper; the activity answers by switching the tests of the mutex table  *)
(* on or off, and each switch repaints its start button in a later message *)
(* (MSG_UPDATE).  Clicks are posted to the same looper by the view system  *)
(* and open a dialog, whose button starts or stops the test.               *)
(*                                                                         *)
(* Patient tells how the user taps.  A patient user taps when the looper   *)
(* is idle, one tap at a time; an impatient one taps before the looper has *)
(* dealt with the last tap (or with two fingers), so that two clicks and   *)
(* two dialogs can be under way.                                           *)
(***************************************************************************)
EXTENDS Naturals, Sequences

CONSTANTS Tests,       \* the tests on the screen
          Row,         \* the mutex table: the tests each test's row lists
          Supported,   \* the tests whose isSupport() is true on this device
          Resumable,   \* the tests whose onCreate can restore a running state
          Fallible,    \* the tests whose start() can end in showErrorDialog
          Patient,     \* the user waits for the looper before each tap
          MaxPending,  \* bound on the looper's queue
          NoTest       \* the test of a message or dialog that concerns none

ASSUME BoardAssumption ==
  /\ Row \in [Tests -> SUBSET Tests]
  /\ \A t \in Tests : t \notin Row[t]
  /\ Supported \subseteq Tests
  /\ Resumable \subseteq Tests
  /\ Fallible \subseteq Tests
  /\ Patient \in BOOLEAN
  /\ MaxPending \in Nat
  /\ NoTest \notin Tests

VARIABLES running,  \* the tests whose mState is State.RUNNING
          avail,    \* the tests whose isAvailable is true
          button,   \* the tests whose start button is enabled
          dirty,    \* the tests with an MSG_UPDATE in the looper's queue
          queue,    \* the other messages of the main looper, in order
          dialogs,  \* the dialogs shown, the topmost first
          life,     \* of the activity: up, finishing, destroyed, crashed
          killer    \* who ended the activity: user, system, or none

vars == <<running, avail, button, dirty, queue, dialogs, life, killer>>

Message == [kind : {"RUNNING", "STOP", "click"}, test : Tests]
             \cup [kind : {"destroy"}, test : {NoTest}]
Dialog  == [kind : {"target", "stop", "error"}, test : Tests]
             \cup [kind : {"exit", "busy"}, test : {NoTest}]

Of(kind, t) == [kind |-> kind, test |-> t]

TypeOK ==
  /\ running \in SUBSET Tests
  /\ avail   \in SUBSET Tests
  /\ button  \in SUBSET Tests
  /\ dirty   \in SUBSET Tests
  /\ queue   \in Seq(Message)
  /\ dialogs \in Seq(Dialog)
  /\ life    \in {"up", "finishing", "destroyed", "crashed"}
  /\ killer  \in {"none", "user", "system"}

-------------------------------------------------------------------------------
Room    == Len(queue) < MaxPending
Post(m) == queue' = Append(queue, m)

\* The activity's views still take input.
Visible == life \in {"up", "finishing"}

\* The activity's own window has the focus and the user taps it.
UserTaps ==
  /\ life = "up" /\ dialogs = <<>> /\ Room
  /\ Patient => queue = <<>> /\ dirty = {}

\* The tests in the row of one of S.
Disabled(S) == UNION {Row[t] : t \in S}

-------------------------------------------------------------------------------
\* BaseTestFragment.start and stop.
Start(t) ==
  /\ running' = running \cup {t}
  /\ Post(Of("RUNNING", t))
  /\ dirty' = dirty \cup {t}

Stop(t) ==
  /\ running' = running \ {t}
  /\ Post(Of("STOP", t))
  /\ dirty' = dirty \cup {t}

\* A finger goes up on an enabled start button: the view posts its click.
Tap(t) ==
  /\ UserTaps
  /\ t \in button
  /\ Post(Of("click", t))
  /\ UNCHANGED <<running, avail, button, dirty, dialogs, life, killer>>

\* onStartClicked: the dialog depends on the state found now; whether the test
\* is still available is not looked at again.
OnStartClicked(t) ==
  /\ life # "destroyed"
  /\ queue # <<>> /\ Head(queue) = Of("click", t)
  /\ queue' = Tail(queue)
  /\ dialogs' = <<Of(IF t \in running THEN "stop" ELSE "target", t)>> \o dialogs
  /\ UNCHANGED <<running, avail, button, dirty, life, killer>>

Top(kind, t) == Visible /\ dialogs # <<>> /\ Head(dialogs) = Of(kind, t)

\* The set-target dialog is confirmed and the test starts.
ConfirmTarget(t) ==
  /\ Top("target", t) /\ Room
  /\ dialogs' = Tail(dialogs)
  /\ Start(t)
  /\ UNCHANGED <<avail, button, life, killer>>

\* ... or its start() meets an error before the test is running.
StartFails(t) ==
  /\ t \in Fallible
  /\ Top("target", t)
  /\ dialogs' = <<Of("error", t)>> \o Tail(dialogs)
  /\ UNCHANGED <<running, avail, button, dirty, queue, life, killer>>

\* The stop dialog and the error dialog call stop() whatever has become of the
\* test since they were shown.
ConfirmStop(t) ==
  /\ Top("stop", t) \/ Top("error", t)
  /\ Room
  /\ dialogs' = Tail(dialogs)
  /\ Stop(t)
  /\ UNCHANGED <<avail, button, life, killer>>

\* A dialog is cancelled.
Dismiss ==
  /\ Visible /\ dialogs # <<>>
  /\ dialogs' = Tail(dialogs)
  /\ UNCHANGED <<running, avail, button, dirty, queue, life, killer>>

\* A running test reaches its target, in a message of its own.
TestEnds(t) ==
  /\ Visible /\ Room
  /\ t \in running
  /\ Stop(t)
  /\ UNCHANGED <<avail, button, dialogs, life, killer>>

-------------------------------------------------------------------------------
\* Variants of OnRunning, each a slip in its loop: the row is left on; the test
\* itself is switched off with its row.
OnRunningLeavesRow(t) ==
  /\ queue # <<>> /\ Head(queue) = Of("RUNNING", t)
  /\ queue' = Tail(queue)
  /\ UNCHANGED <<running, avail, button, dirty, dialogs, life, killer>>

OnRunningSelfToo(t) ==
  /\ queue # <<>> /\ Head(queue) = Of("RUNNING", t)
  /\ queue' = Tail(queue)
  /\ avail' = avail \ (Row[t] \cup {t})
  /\ dirty' = dirty \cup Row[t] \cup {t}
  /\ UNCHANGED <<running, button, dialogs, life, killer>>

\* ... or it is switched off without a repaint.
OnRunningNoUpdate(t) ==
  /\ queue # <<>> /\ Head(queue) = Of("RUNNING", t)
  /\ queue' = Tail(queue)
  /\ avail' = avail \ Row[t]
  /\ UNCHANGED <<running, button, dirty, dialogs, life, killer>>

\* MainActivity.onFragmentInteraction.  Its RUNNING branch switches the row off.
OnRunning(t) ==
  /\ life # "destroyed"
  /\ queue # <<>> /\ Head(queue) = Of("RUNNING", t)
  /\ queue' = Tail(queue)
  /\ avail' = avail \ Row[t]
  /\ dirty' = dirty \cup Row[t]
  /\ UNCHANGED <<running, button, dialogs, life, killer>>

\* Variants of Freed: no row is looked at; one idle entry of the row is enough.
FreedAll  == Tests
FreedSome == {t \in Tests : Row[t] \subseteq running => Row[t] = {}}

\* Its STOP branch switches every test on whose row has nothing running.
Freed == {t \in Tests : Row[t] \cap running = {}}

\* A variant of OnStop in which the buttons are not repainted.
OnStopNoUpdate(t) ==
  /\ queue # <<>> /\ Head(queue) = Of("STOP", t)
  /\ queue' = Tail(queue)
  /\ avail' = avail \cup Freed
  /\ UNCHANGED <<running, button, dirty, dialogs, life, killer>>

OnStop(t) ==
  /\ life # "destroyed"
  /\ queue # <<>> /\ Head(queue) = Of("STOP", t)
  /\ queue' = Tail(queue)
  /\ avail' = avail \cup Freed
  /\ dirty' = dirty \cup Freed
  /\ UNCHANGED <<running, button, dialogs, life, killer>>

\* MSG_UPDATE: updateImpl enables the button iff the test isAvailable().
UpdateImpl(t) ==
  /\ t \in dirty
  /\ dirty' = dirty \ {t}
  /\ button' = IF t \in avail \cap Supported THEN button \cup {t} ELSE button \ {t}
  /\ UNCHANGED <<running, avail, queue, dialogs, life, killer>>

\* The activity comes back to the front: onStart switches the rows of the
\* running tests off again, and each fragment's onResume repaints.
OnStart ==
  /\ life = "up"
  /\ avail' = avail \ Disabled(running)
  /\ dirty' = dirty \cup Disabled(running)
  /\ button' = avail' \cap Supported
  /\ UNCHANGED <<running, queue, dialogs, life, killer>>

-------------------------------------------------------------------------------
\* onBackPressed offers the exit only when no test is running.
OnBackPressed ==
  /\ UserTaps
  /\ dialogs' = <<Of(IF running = {} THEN "exit" ELSE "busy", NoTest)>>
  /\ UNCHANGED <<running, avail, button, dirty, queue, life, killer>>

\* Variant of ConfirmExit that announces a STOP without a test.
ConfirmExitStops ==
  /\ life = "up" /\ Top("exit", NoTest) /\ Room
  /\ dialogs' = Tail(dialogs)
  /\ life' = "finishing" /\ killer' = "user"
  /\ Post(Of("STOP", NoTest))
  /\ UNCHANGED <<running, avail, button, dirty>>

\* The exit dialog is confirmed: the system is asked to destroy the activity
\* and does so in a message of the same looper.
ConfirmExit ==
  /\ life = "up" /\ Top("exit", NoTest) /\ Room
  /\ dialogs' = Tail(dialogs)
  /\ life' = "finishing" /\ killer' = "user"
  /\ Post(Of("destroy", NoTest))
  /\ UNCHANGED <<running, avail, button, dirty>>

\* The system destroys the activity: a rotation (the manifest declares no
\* configChanges), or memory is needed while it is in the background.
SystemDestroys ==
  /\ life = "up" /\ Room
  /\ life' = "finishing" /\ killer' = "system"
  /\ Post(Of("destroy", NoTest))
  /\ UNCHANGED <<running, avail, button, dirty, dialogs>>

\* onDestroyView stops every running fragment, which posts one STOP each, and
\* onDetach then clears mListener.  Delivering the first of those STOPs ends the
\* process (Crash), so one of them stands for all.
OnDestroy ==
  /\ queue # <<>> /\ Head(queue) = Of("destroy", NoTest)
  /\ \/ running = {} /\ queue' = Tail(queue)
     \/ \E t \in running : queue' = Append(Tail(queue), Of("STOP", t))
  /\ running' = {} /\ button' = {} /\ dirty' = {} /\ dialogs' = <<>>
  /\ life' = "destroyed"
  /\ UNCHANGED <<avail, killer>>

\* A message of a detached fragment is delivered: its mListener, or its
\* activity, is null and the exception ends the process.
Crash ==
  /\ life = "destroyed" /\ queue # <<>>
  /\ life' = "crashed" /\ queue' = <<>>
  /\ UNCHANGED <<running, avail, button, dirty, dialogs, killer>>

\* The tests that can be found running when the activity is created: none, or
\* the one whose saved state says so.
Resumed == {{}} \cup {{t} : t \in Resumable}

Launch ==
  /\ life \in {"destroyed", "crashed"} /\ queue = <<>>
  /\ running' \in Resumed
  /\ avail'  = Tests \ Disabled(running')
  /\ dirty'  = Disabled(running')
  /\ button' = avail' \cap Supported
  /\ dialogs' = <<>>
  /\ life' = "up" /\ killer' = "none"
  /\ UNCHANGED queue

-------------------------------------------------------------------------------
Init ==
  /\ running \in Resumed
  /\ avail  = Tests \ Disabled(running)
  /\ dirty  = Disabled(running)
  /\ button = avail \cap Supported
  /\ queue = <<>> /\ dialogs = <<>>
  /\ life = "up" /\ killer = "none"

\* What the main looper does by itself.
Dispatch ==
  \/ \E t \in Tests : OnStartClicked(t) \/ OnRunning(t) \/ OnStop(t)
  \/ OnDestroy
  \/ Crash

Next ==
  \/ Dispatch
  \/ \E t \in Tests : \/ Tap(t) \/ ConfirmTarget(t) \/ StartFails(t)
                      \/ ConfirmStop(t) \/ TestEnds(t) \/ UpdateImpl(t)
  \/ Dismiss \/ OnStart
  \/ OnBackPressed \/ ConfirmExit \/ SystemDestroys \/ Launch

Spec == Init /\ [][Next]_vars

\* The looper delivers every message it holds; nothing is asked of the user,
\* of the tests or of the system.
Fairness == WF_vars(Dispatch) /\ \A t \in Tests : WF_vars(UpdateImpl(t))

FairSpec == Spec /\ Fairness

-------------------------------------------------------------------------------
\* Two tests each of which is in the row of the other.
Mutual(t, u) == u \in Row[t] /\ t \in Row[u]

\* Every row that lists t is answered by the row of t.
Answered(t) == \A u \in Tests : t \in Row[u] => u \in Row[t]

\* The tests that exclude t, or that t excludes.
Opponents(t) == {u \in Tests : u \in Row[t] \/ t \in Row[u]}

\* What a queue holds, and what is still to be delivered.
Held(q)    == {q[i] : i \in 1..Len(q)}
Pending(m) == m \in Held(queue)

\* Two tests that list each other never run at the same time (the purpose of
\* mMutexTests), for a patient user.
MutualExclusion == \A t, u \in running : ~Mutual(t, u)

\* However the user taps: once the activity has heard that a test runs, the
\* tests that exclude it are switched off, also by the STOP of a third test that
\* is dealt with in between.
RunningDisables ==
  \A u \in running, t \in avail : Mutual(t, u) => Pending(Of("RUNNING", u))

\* However the user taps, no test is left switched off for good: one that is
\* off has an opponent running, or the STOP that will look at it again is
\* still in the queue.
NoStrandedTest ==
  Visible => \A t \in Tests \ avail :
               \/ Opponents(t) \cap running # {}
               \/ \E u \in Tests : Pending(Of("STOP", u))

\* Both: the buttons follow the tests that run, in either direction.
ButtonsFollow == RunningDisables /\ NoStrandedTest

\* A running test can be stopped from the screen: its button is also the stop
\* button, so it must not be switched off by a test whose row lists it.  Holds
\* of the tests whose row answers every row that lists them.
StopReachable == \A t \in running : Answered(t) => t \in avail

\* Leaving by the Back key never ends in the crash of a detached fragment:
\* onBackPressed lets the user out only with no test running.
UserExitNeverCrashes == life = "crashed" => killer = "system"

\* Both: a patient user gets out of a test, and out of the app.
WaysOut == StopReachable /\ UserExitNeverCrashes

\* A test that is off while no opponent runs has its start button enabled again
\* in the end, unless an opponent starts or the activity goes.
Reenabled ==
  \A t \in Supported :
    t \notin avail /\ Opponents(t) \cap running = {}
      ~> t \in button \/ Opponents(t) \cap running # {} \/ life # "up"

\* However the user taps: a button that still takes his touch has no opponent
\* running, but for one the activity has not heard of and a repaint that is on its
\* way, so that only what he touched before that can make two opponents run together
\* (onFragmentInteraction, updateImpl, against onStartClicked, which does not look).
TouchesAreFresh ==
  \A t \in button, u \in running :
    Mutual(t, u) => Pending(Of("RUNNING", u)) \/ t \in dirty
===============================================================================
