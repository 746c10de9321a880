------------------------- MODULE CountTimerTest_proofs -------------------------
(***************************************************************************)
(* Proofs about CountTimerTest, for each of the four tests, every set of   *)
(* targets and any number of starts.  The invariant Order says where the   *)
(* one task that may run stands between the start and the stop of its run. *)
(***************************************************************************)
EXTENDS CountTimerTest, TLAPS

\* Every step of a Timer thread is one of six.
TaskSteps == \E i \in Timers : Tasks(i)

\* What a failure adds is a number.
LEMMA TestTypes ==
  ASSUME TypeOK, NEW i \in Timers, Test(i)
  PROVE  mFailureCount' \in Nat /\ preState' \in {"enabled", "disabled"}
         /\ radio' \in {"on", "off", "turning_on", "turning_off"}
  <1> USE CountTimerAssumption DEF TypeOK, Switched, Marks, Unconnected
  <1>1. CASE kind = "airplane"
    BY <1>1 DEF Test, ToggleAirplane
  <1>2. CASE kind = "wifi"
    BY <1>2 DEF Test, ToggleWifi
  <1>3. CASE kind = "bluetooth"
    BY <1>3 DEF Test, ToggleBluetooth
  <1>4. CASE kind = "network"
    BY <1>4 DEF Test, AskDns
  <1>5. QED
    BY <1>1, <1>2, <1>3, <1>4

\* What stop() makes of the radio is a state of the radio.
LEMMA ReleaseTypes ==
  ASSUME TypeOK, Release
  PROVE  /\ radio' \in {"on", "off", "turning_on", "turning_off"}
         /\ registered' \in BOOLEAN /\ live' \in SUBSET Timers
         /\ crashed' \in {"no", "receiver", "division"}
  BY DEF TypeOK, Release, PutBack, Switched, Cancel

\* The variables keep their types: the count is a natural number, the task of
\* each Timer is at one of its six places (start, stop, next, testOnce).
THEOREM TypeCorrect == Spec => []TypeOK
  <1>1. ASSUME Init PROVE TypeOK
    <2>1. <<>> \in Seq({"target", "stop"}) /\ {} \in SUBSET Timers
      OBVIOUS
    <2>2. 0 \in 0 .. MaxStarts
      BY CountTimerAssumption
    <2>3. task \in [Timers -> Where] /\ held \in [Timers -> Nat]
      BY <1>1 DEF Init, Where
    <2>4. QED
      BY <1>1, <2>1, <2>2, <2>3 DEF Init, TypeOK
  <1>2. TypeOK /\ [Next]_vars => TypeOK'
    <2> SUFFICES ASSUME TypeOK, [Next]_vars PROVE TypeOK'
      OBVIOUS
    <2> kind' \in Kinds /\ checkConnect' \in BOOLEAN
      BY DEF TypeOK, Next, vars
    <2> USE CountTimerAssumption DEF TypeOK, Where, Update
    <2>1. CASE UNCHANGED vars
      BY <2>1 DEF vars, moving
    <2>2. CASE Ask
      <3>1. PICK n \in 1 .. MaxDialogs :
              dialogs' = [d \in 1 .. n |-> IF mState = "RUNNING" THEN "stop" ELSE "target"]
        BY <2>2 DEF Ask
      <3>2. n \in Nat /\ dialogs' \in [1 .. n -> {"target", "stop"}]
        BY <3>1
      <3>3. dialogs' \in Seq({"target", "stop"})
        BY <3>2
      <3>4. QED
        BY <2>2, <3>3 DEF Ask
    <2>3. CASE Dismiss
      BY <2>3 DEF Dismiss, Answers
    <2>4. CASE ConfirmNothing
      BY <2>4 DEF ConfirmNothing, Confirms, Answers
    <2>5. CASE ConfirmTarget
      BY <2>5 DEF ConfirmTarget, Confirms, Answers, Schedule, FirstState, HasReceiver, Timers
    <2>6. CASE ConfirmStop
      BY <2>6, ReleaseTypes DEF ConfirmStop, Confirms, Answers
    <2>7. CASE Started \/ Stopped
      <3>1. dirty' \in BOOLEAN
        BY <2>7 DEF Started, Stopped
      <3>2. QED
        BY <2>7, <3>1 DEF Started, Stopped
    <2>8. CASE UpdateImpl
      BY <2>8 DEF UpdateImpl
    <2>9. CASE RadioSettles
      BY <2>9 DEF RadioSettles
    <2>10. ASSUME NEW i \in Timers, Fire(i) \/ Halt(i) PROVE TypeOK'
      <3>1. dirty' \in BOOLEAN
        BY <2>10 DEF Fire, Halt
      <3>2. CASE Fire(i)
        BY <3>1, <3>2 DEF Fire, Goes
      <3>3. CASE Halt(i)
        BY <3>1, <3>3 DEF Halt, Goes
      <3>4. QED
        BY <2>10, <3>2, <3>3
    <2>14. ASSUME NEW i \in Timers, ReadCount(i) \/ WriteCount(i) PROVE TypeOK'
      <3>1. CASE ReadCount(i)
        BY <2>14, <3>1 DEF ReadCount, Goes
      <3>2. CASE WriteCount(i)
        <4>1. task' \in [Timers -> Where] /\ dirty' \in BOOLEAN
          BY <3>2 DEF WriteCount, Goes
        <4>2. mCurrentCount' \in Nat
          BY <3>2 DEF WriteCount, Counted
        <4>3. QED
          BY <3>2, <4>1, <4>2 DEF WriteCount
      <3>3. QED
        BY <2>14, <3>1, <3>2
    <2>11. ASSUME NEW i \in Timers, Test(i) PROVE TypeOK'
      <3>1. performed' \in Nat /\ dirty' \in BOOLEAN
        BY <2>11 DEF Test
      <3>2. QED
        BY <2>11, <3>1, TestTypes DEF Test, Goes
    <2>12. ASSUME NEW i \in Timers, NextStops(i) PROVE TypeOK'
      BY <2>12, ReleaseTypes DEF NextStops, Goes
    <2>13. QED
      BY <2>1, <2>2, <2>3, <2>4, <2>5, <2>6, <2>7, <2>8, <2>9, <2>10, <2>11, <2>12,
         <2>14
         DEF Next, User, Threads, Tasks
  <1>3. QED
    BY <1>1, <1>2, PTL DEF Spec

-------------------------------------------------------------------------------
(* Threads that take turns.  Between the start and the stop of a run the   *)
(* test is ready, outside it is gone; only the task of the last Timer is   *)
(* under way, and only while the main thread is idle; and the numbers say  *)
(* where that task is.                                                     *)
Ready == live = {mTimer} /\ registered = HasReceiver
Gone  == live = {} /\ ~registered /\ (kind = "airplane" => radio = "off")

At == task[mTimer]

OneTask ==
  \A i \in Timers : task[i] # "idle" =>
    i = mTimer /\ mState = "RUNNING" /\ main = "idle"

Phases ==
  /\ mTimer = 0 => mState = "STOP" /\ main = "idle" /\ live = {} /\ ~registered
                     /\ mCurrentCount = 0
  /\ main = "starting" => mState = "STOP" /\ mTimer # 0 /\ Ready
  /\ main = "stopping" => mState = "RUNNING" /\ mTimer # 0 /\ Gone
  /\ main = "idle" /\ mState = "STOP" /\ mTimer # 0 => Gone
  /\ main = "idle" /\ mState = "RUNNING" => IF At = "halt" THEN Gone ELSE Ready

Numbers ==
  /\ main = "starting" =>
       mCurrentCount = 0 /\ performed = 0 /\ 0 < mTargetCount
  /\ main = "idle" /\ mState = "RUNNING" =>
       /\ At \in {"idle", "test"} =>
            mCurrentCount = performed /\ performed < mTargetCount
       /\ At \in {"read", "write"} =>
            performed = mCurrentCount + 1 /\ performed <= mTargetCount
       /\ At = "write" => held[mTimer] = mCurrentCount
       /\ At \in {"stop", "halt"} => performed = mTargetCount

Sound ==
  /\ crashed # "receiver"
  /\ kind = "airplane" => Settled

Order == OneTask /\ Phases /\ Numbers /\ Sound

\* What the Wifi test expects: until the run is over, the state it must not find
\* is the one the adapter is not heading for.
Heading == IF radio \in {"on", "turning_on"} THEN "enabled" ELSE "disabled"

Expecting ==
  kind = "wifi" /\ ~checkConnect /\ ~late =>
    /\ main # "starting" => mFailureCount = 0
    /\ \A i \in Timers : task[i] = "test" => Settled
    /\ main = "starting" \/ (main = "idle" /\ mState = "RUNNING" /\ At # "halt")
         => preState # Heading

\* stop() of a test that is ready leaves it gone, and throws nothing.
LEMMA ReleaseGone ==
  ASSUME TypeOK, Sound, Ready, Release, kind' = kind
  PROVE  live' = {} /\ registered' = FALSE /\ UNCHANGED crashed
         /\ (kind = "airplane" => radio' = "off")
  <1>1. ~(HasReceiver /\ ~registered)
    BY DEF Ready
  <1>2. radio' = PutBack /\ registered' = FALSE /\ live' = {} /\ UNCHANGED crashed
    BY <1>1 DEF Release, Cancel, Ready
  <1>3. kind = "airplane" => PutBack = "off"
    BY DEF PutBack, Switched, Sound, Settled
  <1>4. QED
    BY <1>2, <1>3

\* The main thread keeps the order: it confirms only when no task is under way.
LEMMA MainKeepsOrder ==
  ASSUME Calm, TypeOK, Order, User \/ Started \/ Stopped,
         UNCHANGED <<kind, checkConnect>>
  PROVE  Order'
  <1> USE CountTimerAssumption DEF TypeOK, Order, OneTask, Phases, Numbers, Sound, Ready, Gone,
      At, Settled, HasReceiver
  <1>1. CASE Ask
    BY <1>1 DEF Ask
  <1>2. CASE Dismiss
    BY <1>2 DEF Dismiss, Answers
  <1>3. CASE ConfirmNothing
    BY <1>3 DEF ConfirmNothing, Confirms, Answers
  <1>4. CASE ConfirmTarget
    <2>1. AllIdle /\ mState = "STOP" /\ main = "idle" /\ live = {}
      BY <1>4 DEF ConfirmTarget, Confirms, Answers
    <2>2. live' = {mTimer'} /\ mTimer' # 0 /\ registered' = HasReceiver
      BY <1>4, <2>1 DEF ConfirmTarget, Schedule
    <2>3. PICK n \in Targets \ {0} : mTargetCount' = n
      BY <1>4 DEF ConfirmTarget
    <2>4. 0 < mTargetCount'
      BY <2>3
    <2>5. QED
      BY <1>4, <2>1, <2>2, <2>4 DEF ConfirmTarget, AllIdle, HasReceiver
  <1>5. CASE Started
    BY <1>5 DEF Started, HasReceiver, Timers
  <1>6. CASE ConfirmStop
    <2>1. AllIdle /\ mState = "RUNNING" /\ main = "idle"
      BY <1>6 DEF ConfirmStop, Confirms, Answers
    <2>2. At = "idle" /\ mTimer # 0
      BY <2>1 DEF AllIdle, Timers
    <2>3. live' = {} /\ registered' = FALSE /\ UNCHANGED crashed
          /\ (kind = "airplane" => radio' = "off")
      BY <1>6, <2>1, <2>2, ReleaseGone DEF ConfirmStop
    <2>4. QED
      BY <1>6, <2>1, <2>2, <2>3 DEF ConfirmStop, AllIdle
  <1>7. CASE Stopped
    BY <1>7 DEF Stopped
  <1>8. QED
    BY <1>1, <1>2, <1>3, <1>4, <1>5, <1>6, <1>7 DEF User

\* A task keeps the order: it is the task of the last Timer, in a running test.
LEMMA TaskKeepsOrder ==
  ASSUME Calm, TypeOK, Order, NEW i \in Timers, Tasks(i),
         UNCHANGED <<kind, checkConnect>>
  PROVE  Order'
  <1> USE CountTimerAssumption DEF TypeOK, Order, OneTask, Phases, Numbers, Sound, Ready, Gone,
      At, Settled, Goes
  <1>1. i = mTimer /\ mState = "RUNNING" /\ main = "idle" /\ mTimer # 0
    <2>1. CASE Fire(i)
      BY <2>1 DEF Fire, Timers
    <2>2. CASE ~Fire(i)
      BY <2>2 DEF Tasks, Test, ReadCount, WriteCount, NextStops, Halt, Timers
    <2>3. QED
      BY <2>1, <2>2
  <1>2. \A j \in Timers : j # i => task[j] = "idle"
    BY <1>1
  <1>3. CASE Fire(i)
    BY <1>1, <1>2, <1>3 DEF Fire, HasReceiver
  <1>4. CASE Test(i)
    <2>1. kind = "airplane" => radio' \in {"on", "off"}
      BY <1>4 DEF Test, ToggleAirplane, Switched
    <2>2. QED
      BY <1>1, <1>2, <1>4, <2>1 DEF Test, HasReceiver
  <1>5. CASE ReadCount(i)
    BY <1>1, <1>2, <1>5 DEF ReadCount, HasReceiver
  <1>6. CASE WriteCount(i)
    <2>1. mCurrentCount' = performed /\ performed <= mTargetCount /\ 0 < performed
      BY <1>1, <1>6 DEF WriteCount, Counted
    <2>2. CASE performed = mTargetCount
      <3>1. task' = [task EXCEPT ![i] = "stop"]
        BY <1>1, <1>6, <2>1, <2>2 DEF WriteCount, Reached
      <3>2. QED
        BY <1>1, <1>2, <1>6, <2>1, <2>2, <3>1 DEF WriteCount, HasReceiver
    <2>3. CASE performed < mTargetCount
      <3>1. task' = [task EXCEPT ![i] = "idle"]
        BY <1>1, <1>6, <2>1, <2>3 DEF WriteCount, Reached
      <3>2. QED
        BY <1>1, <1>2, <1>6, <2>1, <2>3, <3>1 DEF WriteCount, HasReceiver
    <2>4. QED
      BY <2>1, <2>2, <2>3
  <1>7. CASE NextStops(i)
    <2>1. live' = {} /\ registered' = FALSE /\ UNCHANGED crashed
          /\ (kind = "airplane" => radio' = "off")
      BY <1>1, <1>7, ReleaseGone DEF NextStops
    <2>2. QED
      BY <1>1, <1>2, <1>7, <2>1 DEF NextStops
  <1>8. CASE Halt(i)
    BY <1>1, <1>2, <1>8 DEF Halt
  <1>9. QED
    BY <1>3, <1>4, <1>5, <1>6, <1>7, <1>8 DEF Tasks

\* So threads that take turns are always in order.
LEMMA CalmInv == ASSUME Calm PROVE Spec => []Order
  <1>1. Init => Order
    BY CountTimerAssumption DEF Init, Order, OneTask, Phases, Numbers, Sound, Settled
  <1>2. TypeOK /\ Order /\ [Next]_vars => Order'
    <2> SUFFICES ASSUME TypeOK, Order, [Next]_vars PROVE Order'
      OBVIOUS
    <2>1. CASE UNCHANGED vars
      BY <2>1 DEF vars, moving, Order, OneTask, Phases, Numbers, Sound, Ready, Gone, At, Settled,
         HasReceiver
    <2> UNCHANGED <<kind, checkConnect>>
      BY DEF Next, vars
    <2>2. CASE UpdateImpl
      <3>1. UNCHANGED <<mState, mTargetCount, mCurrentCount, mTimer, live, task, held, radio,
                        registered, main, performed>>
            /\ crashed' \in {crashed, "division"}
        BY <2>2 DEF UpdateImpl
      <3>2. QED
        BY <3>1 DEF Order, OneTask, Phases, Numbers, Sound, Ready, Gone, At, Settled,
           HasReceiver
    <2>3. CASE RadioSettles
      BY <2>3 DEF RadioSettles, Order, OneTask, Phases, Numbers, Sound, Ready, Gone, At, Settled,
         HasReceiver
    <2>4. QED
      BY <2>1, <2>2, <2>3, MainKeepsOrder, TaskKeepsOrder DEF Next, Threads
  <1>3. QED
    BY <1>1, <1>2, TypeCorrect, PTL DEF Spec

\* With threads that take turns, a stopped test leaves no timer, no receiver and
\* no airplane mode behind (stop of the four fragments).
THEOREM CalmLeavesNothing == ASSUME Calm PROVE Spec => []NothingLeft
  <1>1. Order => NothingLeft
    BY DEF Order, Phases, Gone, NothingLeft, Quiet
  <1>2. QED
    BY <1>1, CalmInv, PTL

\* ... a running test has its one timer and its receiver (start).
THEOREM CalmEquipped == ASSUME Calm PROVE Spec => []Equipped
  <1>1. TypeOK /\ Order => Equipped
    BY DEF TypeOK, Order, Phases, Ready, At, Equipped, Quiet, AllIdle, Timers
  <1>2. QED
    BY <1>1, CalmInv, TypeCorrect, PTL

\* ... so that it holds what it takes exactly while it runs, and gives it back once
\* (start, stop).
THEOREM CalmHolds == ASSUME Calm PROVE Spec => []HoldsWhileRunning
  <1>1. Order => GivenBackOnce
    BY DEF Order, Sound, GivenBackOnce
  <1>2. QED
    BY <1>1, CalmInv, CalmLeavesNothing, CalmEquipped, PTL DEF HoldsWhileRunning

\* ... a run makes exactly the number of tests that was asked for (next).
THEOREM CalmCounts == ASSUME Calm PROVE Spec => []CountsTests
  <1>1. TypeOK /\ Order => CountsTests
    BY DEF TypeOK, Order, OneTask, Phases, Numbers, At, CountsTests, Quiet, AllIdle, Timers
  <1>2. QED
    BY <1>1, CalmInv, TypeCorrect, PTL

-------------------------------------------------------------------------------
\* The first test of a run, and each later one, finds the state it expects.
LEMMA ExpectingStep ==
  ASSUME Calm, TypeOK, Order, Order', Expecting, [Next]_vars
  PROVE  Expecting'
  <1> SUFFICES ASSUME kind = "wifi", ~checkConnect, ~late', UNCHANGED <<kind, checkConnect>>
               PROVE  Expecting'
    BY DEF Expecting, Next, vars
  <1> USE DEF TypeOK, Expecting, Heading, Settled
  <1>1. CASE UNCHANGED vars
    BY <1>1 DEF vars, moving, At
  <1>2. CASE Ask \/ Dismiss \/ ConfirmNothing \/ UpdateImpl
    BY <1>2 DEF Ask, Dismiss, ConfirmNothing, Confirms, Answers, UpdateImpl, At
  <1>3. CASE ConfirmTarget
    BY <1>3 DEF ConfirmTarget, FirstState, Confirms, AllIdle
  <1>4. CASE Started
    BY <1>4 DEF Started
  <1>5. CASE ConfirmStop
    BY <1>5 DEF ConfirmStop, Confirms, Answers, AllIdle
  <1>6. CASE Stopped
    BY <1>6 DEF Stopped
  <1>7. CASE RadioSettles
    BY <1>7 DEF RadioSettles, At
  <1>8. ASSUME NEW i \in Timers, Tasks(i) PROVE Expecting'
    <2>1. \A j \in Timers : task[j] # "idle" => j = mTimer /\ mState = "RUNNING" /\ main = "idle"
      BY DEF Order, OneTask
    <2>2. \A j \in Timers : task'[j] # "idle" => j = mTimer' /\ mState' = "RUNNING" /\ main' = "idle"
      BY DEF Order, OneTask
    <2>3. CASE Fire(i)
      <3>1. i = mTimer'
        BY <2>2, <2>3 DEF Fire, Goes
      <3>2. QED
        BY <2>1, <2>3, <3>1 DEF Fire, Goes, At
    <2>4. CASE Test(i)
      <3>1. i = mTimer /\ mState = "RUNNING" /\ main = "idle" /\ radio \in {"on", "off"}
            /\ At = "test"
        BY <2>1, <2>4 DEF Test, Goes, At
      <3>2. ToggleWifi /\ ~late
        BY <2>4 DEF Test
      <3>3. (IF radio = "on" THEN "enabled" ELSE "disabled") # preState
        BY <3>1, <3>2
      <3>4. mFailureCount' = 0 /\ radio' = Switched(radio # "on")
            /\ preState' = (IF radio = "on" THEN "enabled" ELSE "disabled")
        BY <3>1, <3>2, <3>3 DEF ToggleWifi, Unconnected, Marks
      <3>5. preState' # Heading'
        BY <3>1, <3>4 DEF Switched
      <3>6. QED
        BY <2>1, <2>4, <3>1, <3>4, <3>5 DEF Test, Goes
    <2>5. CASE ReadCount(i) \/ WriteCount(i)
      BY <2>1, <2>5 DEF ReadCount, WriteCount, Goes, At
    <2>6. CASE NextStops(i)
      BY <2>1, <2>6 DEF NextStops, Goes, At, Timers
    <2>7. CASE Halt(i)
      BY <2>1, <2>7 DEF Halt, Goes
    <2>8. QED
      BY <1>8, <2>3, <2>4, <2>5, <2>6, <2>7 DEF Tasks
  <1>9. QED
    BY <1>1, <1>2, <1>3, <1>4, <1>5, <1>6, <1>7, <1>8 DEF Next, User, Threads

\* With threads that take turns, an adapter that obeys in time is never counted
\* as a failure (WifiTestFragment.start, testOnce).
THEOREM CalmFalseFailure == ASSUME Calm PROVE Spec => []NoFalseFailure
  <1>1. Init => Expecting
    BY DEF Init, Expecting
  <1>2. TypeOK /\ Order /\ Order' /\ Expecting /\ [Next]_vars => Expecting'
    BY ExpectingStep
  <1>3. Expecting => NoFalseFailure
    BY DEF Expecting, NoFalseFailure
  <1>4. QED
    BY <1>1, <1>2, <1>3, TypeCorrect, CalmInv, PTL DEF Spec

-------------------------------------------------------------------------------
\* What the screen shows is what was counted, or an update() is still to come: from the
\* main thread in start(), or from a task that is stopping the run.
Stopping == \E i \in Timers : task[i] \in {"stop", "halt"}

ShownInv ==
  mTargetCount > 0 /\ ~dirty /\ main # "starting" /\ ~Stopping
    => shown = [count |-> mCurrentCount, failures |-> mFailureCount]

LEMMA ShownStep == TypeOK /\ ShownInv /\ [Next]_vars => ShownInv'
  <1> SUFFICES ASSUME TypeOK, ShownInv, [Next]_vars
               PROVE  ShownInv'
    OBVIOUS
  <1> USE DEF TypeOK, ShownInv, Stopping
  <1>1. CASE UNCHANGED vars
    BY <1>1 DEF vars, moving
  <1>2. CASE User
    BY <1>2 DEF User, Ask, Dismiss, ConfirmNothing, ConfirmTarget, ConfirmStop, Confirms, Answers
  <1>3. CASE Threads
    BY <1>3 DEF Threads, Started, Stopped, UpdateImpl, RadioSettles, Update
  <1>4. ASSUME NEW i \in Timers, Tasks(i)
        PROVE  ShownInv'
    <2>1. \A from, to : Goes(i, from, to) =>
            \A j \in Timers : task'[j] = IF j = i THEN to ELSE task[j]
      BY DEF Goes
    <2>2. CASE Fire(i)
      BY <2>1, <2>2 DEF Fire, Goes
    <2>3. CASE Test(i)
      <3>1. mFailureCount' \in Nat /\ mFailureCount' >= mFailureCount
        BY <2>3, SMTT(30)
           DEF Test, ToggleAirplane, ToggleWifi, ToggleBluetooth, AskDns, Marks, Unconnected
      <3>2. ~dirty' => ~dirty /\ mFailureCount' = mFailureCount
        <4>1. dirty' = (dirty \/ mFailureCount' > mFailureCount)
          BY <2>3 DEF Test
        <4>2. CASE mFailureCount' > mFailureCount
          BY <4>1, <4>2
        <4>3. CASE mFailureCount' = mFailureCount
          BY <4>1, <4>3
        <4>4. QED
          BY <3>1, <4>2, <4>3
      <3>3. \A j \in Timers : task[j] \in {"stop", "halt"} => task'[j] \in {"stop", "halt"}
        BY <2>1, <2>3 DEF Test, Goes
      <3>4. QED
        BY <2>3, <3>2, <3>3 DEF Test
    <2>4. CASE ReadCount(i)
      BY <2>1, <2>4 DEF ReadCount, Goes
    <2>5. CASE WriteCount(i)
      BY <2>1, <2>5 DEF WriteCount, Update
    <2>6. CASE NextStops(i)
      BY <2>1, <2>6 DEF NextStops
    <2>7. CASE Halt(i)
      BY <2>7 DEF Halt, Update
    <2>8. QED
      BY <1>4, <2>2, <2>3, <2>4, <2>5, <2>6, <2>7 DEF Tasks
  <1>5. QED
    BY <1>1, <1>2, <1>3, <1>4 DEF Next

\* Whatever the two threads do to one another, calm or not, the screen comes to show the
\* outcome of the run (update() after each change in next, markFailure, start and stop).
THEOREM ScreenShowsRun == Spec => []Displayed
  <1>1. Init => ShownInv
    BY DEF Init, ShownInv
  <1>2. ShownInv => Displayed
    BY DEF ShownInv, Stopping, Displayed, Quiet, AllIdle
  <1>3. QED
    BY <1>1, <1>2, ShownStep, TypeCorrect, PTL DEF Spec

\* With threads that take turns the user reads what has happened.
THEOREM CalmTrueReport == ASSUME Calm PROVE Spec => []TrueReport
  <1>1. NoFalseFailure /\ Displayed => TrueReport
    BY DEF TrueReport
  <1>2. QED
    BY <1>1, CalmFalseFailure, ScreenShowsRun, PTL
===============================================================================
