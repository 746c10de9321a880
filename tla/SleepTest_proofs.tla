---------------------------- MODULE SleepTest_proofs -----------------------------
(***************************************************************************)
(* Proofs about SleepTest: its types for everybody, and, for a user,       *)
(* broadcasts and checks that take turns, that the test gives back what it *)
(* takes and counts each time the device is woken, for every target.       *)
(***************************************************************************)
EXTENDS SleepTest, FiniteSetTheorems, SequenceTheorems, TLAPS

Broadcasts == {"alarm", "off"}

\* A broadcast is added at the end and taken from anywhere.
LEMMA EventsTyped ==
  ASSUME events \in Seq(Broadcasts), NEW what \in Broadcasts
  PROVE  /\ Sends(what) => events' \in Seq(Broadcasts)
         /\ Receives(what) => events' \in Seq(Broadcasts)
  <1>1. Sends(what) => events' \in Seq(Broadcasts)
    BY DEF Sends
  <1>2. ASSUME NEW i \in 1 .. Len(events)
        PROVE  RemoveAt(events, i) \in Seq(Broadcasts)
    <2>1. SubSeq(events, 1, i - 1) \in Seq(Broadcasts)
      <3>1. \A j \in 1 .. i - 1 : events[j] \in Broadcasts
        BY <1>2
      <3>2. QED
        BY <1>2, <3>1, SubSeqProperties
    <2>2. SubSeq(events, i + 1, Len(events)) \in Seq(Broadcasts)
      <3>1. \A j \in i + 1 .. Len(events) : events[j] \in Broadcasts
        BY <1>2
      <3>2. QED
        BY <1>2, <3>1, SubSeqProperties
    <2>3. QED
      BY <2>1, <2>2 DEF RemoveAt
  <1>3. QED
    BY <1>1, <1>2 DEF Receives

-------------------------------------------------------------------------------
\* The variables keep their types, whatever the user and the system do.
THEOREM TypeCorrect == Spec => []TypeOK
  <1>1. Init => TypeOK
    <2> SUFFICES ASSUME Init PROVE TypeOK
      OBVIOUS
    <2>1. /\ check \in [posted : BOOLEAN, running : {"no", "own", "late"}]
          /\ events \in Seq({"alarm", "off"}) /\ dialogs \in Seq({"target", "stop"})
      BY DEF Init, NoCheck
    <2>2. touches \in 0 .. MaxTouches /\ wakes \in Nat
      BY SleepAssumption DEF Init
    <2>3. QED
      BY <2>1, <2>2 DEF Init, TypeOK
  <1>2. TypeOK /\ [Next]_vars => TypeOK'
    <2> SUFFICES ASSUME TypeOK, [Next]_vars
                 PROVE  TypeOK'
      OBVIOUS
    <2> USE SleepAssumption, EventsTyped DEF TypeOK, test, net, taken, device, Broadcasts
    <2>1. CASE UNCHANGED vars
      BY <2>1 DEF vars
    <2>2. CASE Ask
      <3>1. dialogs' \in Seq({"target", "stop"})
        BY <2>2 DEF Ask
      <3>2. QED
        BY <2>2, <3>1 DEF Ask
    <2>3. ASSUME NEW what, Answers(what)
          PROVE  dialogs' \in Seq({"target", "stop"})
      BY <2>3 DEF Answers
    <2>4. CASE Dismiss
      BY <2>3, <2>4 DEF Dismiss
    <2>5. CASE Start
      <3>1. /\ mTargetCount' \in Nat /\ dialogs' \in Seq({"target", "stop"})
            /\ mDefaultScreenOffTime' \in {"none", "user", "test"}
        BY <2>3, <2>5 DEF Start, Confirms, Found
      <3>2. touches' \in 0 .. MaxTouches /\ check' \in [posted : BOOLEAN, running : {"no", "own", "late"}]
        BY <2>5 DEF Start, Overtaken
      <3>3. CASE held
        <4>1. /\ held' = FALSE /\ mState' = "RUNNING" /\ crashed' = crashed
              /\ mCurrentCount' = 0 /\ mFailureCount' = 0
          BY <2>5, <3>3 DEF Start, Release
        <4>2. QED
          BY <2>5, <3>1, <3>2, <4>1 DEF Start
      <3>4. CASE ~held
        <4>1. crashed' = "lock" /\ UNCHANGED <<held, mState, mCurrentCount, mFailureCount>>
          BY <2>5, <3>4 DEF Start
        <4>2. QED
          BY <2>5, <3>1, <3>2, <4>1 DEF Start
      <3>5. QED
        BY <3>3, <3>4
    <2>5a. CASE ConfirmNothing
      BY <2>3, <2>5a DEF ConfirmNothing, Confirms
    <2>5b. CASE Repaint
      BY <2>5b DEF Repaint
    <2>6. CASE ConfirmStop
      BY <2>3, <2>6, ZenonT(60) DEF ConfirmStop, Confirms, Stop, NewLock
    <2>7. CASE Leave
      <3>1. /\ check' \in [posted : BOOLEAN, running : {"no", "own", "late"}]
            /\ events' \in Seq({"alarm", "off"}) /\ dialogs' \in Seq({"target", "stop"})
        BY <2>7 DEF Leave, NoCheck
      <3>2. /\ timeout' \in {"none", "user", "test"} /\ alarm' \in BOOLEAN
            /\ leaked' \in BOOLEAN /\ crashed' \in {"no", "lock", "division"}
        BY <2>7 DEF Leave
      <3>3. QED
        BY <2>7, <3>1, <3>2 DEF Leave
    <2>8. CASE Open
      BY <2>8 DEF Open
    <2>9. CASE Touch
      BY <2>9 DEF Touch
    <2>10. CASE ScreenOff
      <3>1. events' \in Seq({"alarm", "off"})
        BY <2>10 DEF ScreenOff
      <3>2. /\ screen' = FALSE
            /\ UNCHANGED <<view, test, net, taken, touches, dialogs, crashed, wakes>>
        BY <2>10 DEF ScreenOff
      <3>3. screen' \in BOOLEAN
        BY <3>2
      <3>4. QED
        BY <3>1, <3>2, <3>3
    <2>11. CASE AlarmFires
      <3>1. events' \in Seq({"alarm", "off"}) /\ wakes' \in Nat
        BY <2>11 DEF AlarmFires
      <3>2. /\ alarm' = FALSE
            /\ UNCHANGED <<view, test, net, mDefaultScreenOffTime, timeout, held, leaked,
                           screen, touches, dialogs, crashed>>
        BY <2>11 DEF AlarmFires
      <3>3. alarm' \in BOOLEAN
        BY <3>2
      <3>4. QED
        BY <3>1, <3>2, <3>3
    <2>12. CASE ReceiveAlarm
      <3>1. /\ mState' \in {"RUNNING", "STOP"} /\ timeout' \in {"none", "user", "test"}
            /\ held' \in BOOLEAN /\ leaked' \in BOOLEAN /\ alarm' \in BOOLEAN
        BY <2>12 DEF ReceiveAlarm, Stop, NewLock, SetAlarm
      <3>2. mCurrentCount' \in Nat /\ mFailureCount' \in Nat
        BY <2>12, SMTT(30) DEF ReceiveAlarm, Counted
      <3>3. /\ mNetworkActivate' \in BOOLEAN /\ check' \in [posted : BOOLEAN, running : {"no", "own", "late"}]
            /\ result' \in {"none", "unknown", "yes", "no"}
        <4>1. Overtaken \in {"no", "own", "late"}
          BY DEF Overtaken
        <4>2. CASE isCheckNetwork
          <5>1. /\ check' = [posted |-> TRUE, running |-> Overtaken]
                /\ result' = "unknown" /\ mNetworkActivate' = FALSE
            BY <2>12, <4>2 DEF ReceiveAlarm, Deactivate
          <5>2. QED
            BY <4>1, <5>1
        <4>3. CASE ~isCheckNetwork
          <5>1. /\ check' = [check EXCEPT !.running = Overtaken]
                /\ result' = "none" /\ mNetworkActivate' = mNetworkActivate
            BY <2>12, <4>3 DEF ReceiveAlarm
          <5>2. QED
            BY <4>1, <5>1
        <4>4. QED
          BY <4>2, <4>3
      <3>4. events' \in Seq({"alarm", "off"}) /\ screen' \in BOOLEAN
        BY <2>12 DEF ReceiveAlarm
      <3>5. QED
        BY <2>12, <3>1, <3>2, <3>3, <3>4 DEF ReceiveAlarm
    <2>13. CASE ReceiveOff
      <3>1. check' \in [posted : BOOLEAN, running : {"no", "own", "late"}]
        BY <2>13 DEF ReceiveOff
      <3>2. mFailureCount' \in Nat
        BY <2>13 DEF ReceiveOff
      <3>3. events' \in Seq({"alarm", "off"})
        BY <2>13 DEF ReceiveOff
      <3>4. QED
        BY <2>13, <3>1, <3>2, <3>3 DEF ReceiveOff
    <2>14. CASE CheckStarts
      BY <2>14 DEF CheckStarts
    <2>15. CASE CheckEnds
      <3>1. check' \in [posted : BOOLEAN, running : {"no", "own", "late"}]
        BY <2>15 DEF CheckEnds
      <3>2. mNetworkActivate' \in BOOLEAN /\ result' \in {"none", "unknown", "yes", "no"}
        BY <2>15 DEF CheckEnds
      <3>3. QED
        BY <2>15, <3>1, <3>2 DEF CheckEnds
    <2>16. QED
      BY <2>1, <2>2, <2>4, <2>5, <2>5a, <2>5b, <2>6, <2>7, <2>8, <2>9, <2>10, <2>11, <2>12, <2>13,
         <2>14, <2>15 DEF Next, User, System, Handler, Worker
  <1>3. QED
    BY <1>1, <1>2, PTL DEF Spec

-------------------------------------------------------------------------------
(* What the test takes.  At most one broadcast is on its way, and an alarm of a *)
(* run, set or on its way, is the only one there is.                            *)

Coming == IF events = <<"alarm">> THEN 1 ELSE 0

CalmInv ==
  /\ crashed # "lock" /\ ~leaked
  /\ events \in {<<>>, <<"alarm">>, <<"off">>}
  /\ ~view => events = <<>> /\ mState = "STOP"
  /\ held <=> view /\ mState = "STOP"
  /\ mState = "STOP" => timeout = "user"
  /\ mState = "RUNNING" => mDefaultScreenOffTime = "user"
  /\ mState = "RUNNING" <=> alarm \/ events = <<"alarm">>
  /\ mState = "RUNNING" => mCurrentCount + Coming = wakes /\ mCurrentCount < mTargetCount

\* With one broadcast at a time, what is sent or received is the only one.
LEMMA OneBroadcast ==
  ASSUME Calm, CalmInv, NEW what \in Broadcasts
  PROVE  /\ Sends(what) => events = <<>> /\ events' = (IF view THEN <<what>> ELSE <<>>)
         /\ Receives(what) => events = <<what>> /\ events' = <<>>
  <1>1. Sends(what) => events = <<>> /\ events' = (IF view THEN <<what>> ELSE <<>>)
    BY DEF Sends
  <1>2. ASSUME Receives(what)
        PROVE  events = <<what>> /\ events' = <<>>
    <2>1. PICK i \in 1 .. Len(events) : events[i] = what /\ events' = RemoveAt(events, i)
      BY <1>2 DEF Receives
    <2>2. events \in {<<"alarm">>, <<"off">>} /\ i = 1 /\ Len(events) = 1
      BY <2>1 DEF CalmInv
    <2>3. events' = <<>>
      BY <2>1, <2>2, SubSeqEmpty DEF RemoveAt
    <2>4. QED
      BY <2>1, <2>2, <2>3
  <1>3. QED
    BY <1>1, <1>2

LEMMA CalmStep ==
  ASSUME Calm, TypeOK, CalmInv, [Next]_vars
  PROVE  CalmInv'
  <1> USE SleepAssumption, OneBroadcast
      DEF Alive, TypeOK, CalmInv, test, net, taken, device, Coming, Broadcasts
  <1>1. CASE UNCHANGED vars
    BY <1>1 DEF vars
  <1>2. CASE Ask \/ Dismiss \/ Touch
    BY <1>2 DEF Ask, Dismiss, Touch
  <1>3. CASE Start
    <2>1. view /\ Alive /\ events = <<>> /\ mState = "STOP" /\ mTargetCount' \in Nat \ {0}
      BY <1>3 DEF Start, Confirms, Answers, Used, Idle
    <2>2. QED
      BY <1>3, <2>1 DEF Start, Release, Found
  <1>3a. CASE ConfirmNothing
    <2>1. view /\ mState = "STOP"
      BY <1>3a DEF ConfirmNothing, Confirms, Answers, Used, Idle
    <2>2. QED
      BY <1>3a, <2>1 DEF ConfirmNothing
  <1>3b. CASE Repaint
    BY <1>3b DEF Repaint
  <1>4. CASE ConfirmStop
    <2>1. view /\ events = <<>> /\ mState = "RUNNING"
      BY <1>4 DEF ConfirmStop, Confirms, Answers, Used, Idle
    <2>2. QED
      BY <1>4, <2>1 DEF ConfirmStop, Stop, NewLock
  <1>5. CASE Leave
    BY <1>5 DEF Leave, Idle
  <1>6. CASE Open
    BY <1>6 DEF Open
  <1>7. CASE ScreenOff
    BY <1>7 DEF ScreenOff
  <1>8. CASE AlarmFires
    <2>1. /\ mState = "RUNNING" /\ view /\ events = <<>> /\ events' = <<"alarm">>
          /\ wakes' = wakes + 1 /\ alarm' = FALSE
      BY <1>8 DEF AlarmFires
    <2>2. QED
      BY <1>8, <2>1 DEF AlarmFires
  <1>9. CASE ReceiveAlarm
    <2>1. events = <<"alarm">> /\ events' = <<>> /\ mState = "RUNNING"
      BY <1>9 DEF ReceiveAlarm
    <2>2. CASE Reached(Counted)
      BY <1>9, <2>1, <2>2 DEF ReceiveAlarm, Stop, NewLock, Receives, Idle
    <2>3. CASE ~Reached(Counted)
      BY <1>9, <2>1, <2>3 DEF ReceiveAlarm, SetAlarm, Reached, Counted
    <2>4. QED
      BY <2>2, <2>3
  <1>10. CASE ReceiveOff
    BY <1>10 DEF ReceiveOff
  <1>11. CASE CheckStarts \/ CheckEnds
    BY <1>11 DEF CheckStarts, CheckEnds
  <1>12. QED
    BY <1>1, <1>2, <1>3, <1>3a, <1>3b, <1>4, <1>5, <1>6, <1>7, <1>8, <1>9, <1>10, <1>11
       DEF Next, User, System, Handler, Worker

LEMMA CalmAlways == ASSUME Calm PROVE Spec => []CalmInv
  <1>1. Init => CalmInv
    BY DEF Init, CalmInv
  <1>2. TypeOK /\ CalmInv /\ [Next]_vars => CalmInv'
    BY CalmStep
  <1>3. QED
    BY <1>1, <1>2, TypeCorrect, PTL DEF Spec

\* With a user, broadcasts and checks that take turns, the screen's timeout, the wake
\* lock and the alarm are given back at every end, and a device that sleeps in a run is
\* woken, for every target (start, stop, onDestroyView, setAlarm, stopAlarm).
THEOREM CalmGivesBack == ASSUME Calm PROVE Spec => []GivesBack
  <1>1. CalmInv => GivesBack
    <2> SUFFICES ASSUME CalmInv PROVE GivesBack
      OBVIOUS
    <2>1. ("alarm" \in {events[i] : i \in DOMAIN events}) <=> events = <<"alarm">>
      BY DEF CalmInv
    <2>2. QED
      BY <2>1 DEF CalmInv, GivesBack, TimeoutRestored, LocksBalanced, AlarmPending
  <1>2. QED
    BY <1>1, CalmAlways, PTL

\* Each time the device is woken counts once, and a run stops at its target (next).
THEOREM CalmCountsWakes == ASSUME Calm PROVE Spec => []CountsWakes
  <1>1. CalmInv => Count("alarm") = Coming
    <2> SUFFICES ASSUME CalmInv PROVE Count("alarm") = Coming
      OBVIOUS
    <2>1. CASE events = <<"alarm">>
      <3>1. {i \in DOMAIN events : events[i] = "alarm"} = {1}
        BY <2>1
      <3>2. QED
        BY <2>1, <3>1, FS_Singleton DEF Count, Coming
    <2>2. CASE events # <<"alarm">>
      <3>1. {i \in DOMAIN events : events[i] = "alarm"} = {}
        BY <2>2 DEF CalmInv
      <3>2. QED
        BY <2>2, <3>1, FS_EmptySet DEF Count, Coming
    <2>3. QED
      BY <2>1, <2>2
  <1>2. CalmInv => CountsWakes
    BY <1>1 DEF CalmInv, CountsWakes
  <1>3. QED
    BY <1>2, CalmAlways, PTL

-------------------------------------------------------------------------------
(* What a round is judged by: its own check runs in it or not at all, and what  *)
(* is left of the check of another run is over before this one asks for one.    *)

Judged ==
  /\ result = "yes" => mNetworkActivate
  /\ result \in {"unknown", "no"} => ~mNetworkActivate
  /\ check.posted => result \in {"none", "unknown"}
  /\ check.running = "own" => result = "unknown" /\ ~check.posted
  /\ check.running = "late" => result = "none"
  /\ events # <<>> => check.running = "no"
  /\ ~view => ~check.posted /\ check.running = "no"

LEMMA JudgedStep ==
  ASSUME Calm, TypeOK, CalmInv, Judged, [Next]_vars
  PROVE  Judged'
  <1> USE DEF Judged, net
  <1>1. CASE UNCHANGED vars
    BY <1>1 DEF vars, device
  <1>2. CASE Ask \/ Dismiss \/ ConfirmNothing \/ ConfirmStop \/ Touch \/ Repaint
    BY <1>2 DEF Ask, Dismiss, ConfirmNothing, ConfirmStop, Touch, Repaint, device
  <1>3. CASE Start
    <2>1. /\ events' = <<>> /\ result' = "none"
          /\ check' = [check EXCEPT !.running = Overtaken]
      BY <1>3 DEF Start, Confirms
    <2>2. check'.running \in {"no", "late"}
      BY <2>1 DEF TypeOK, Overtaken
    <2>3. view /\ view' = view
      BY <1>3 DEF Start, Confirms, Answers, Used, Idle
    <2>4. QED
      BY <2>1, <2>2, <2>3
  <1>4. CASE Leave
    BY <1>4 DEF Leave, NoCheck
  <1>5. CASE Open
    <2>1. check' = check /\ result' = "none" /\ view' = TRUE
      BY <1>5 DEF Open
    <2>2. check.running = "no" /\ ~check.posted
      BY <1>5 DEF Open
    <2>3. QED
      BY <2>1, <2>2
  <1>6. CASE System
    BY <1>6 DEF System, ScreenOff, AlarmFires, Sends
  <1>7. CASE ReceiveAlarm
    <2>1. events # <<>> /\ events' = <<>>
      BY <1>7, OneBroadcast DEF ReceiveAlarm, Broadcasts
    <2>2. check.running = "no" /\ Overtaken = "no"
      BY <2>1 DEF Overtaken
    <2>3. check'.running = "no" /\ view /\ view' = view
      BY <1>7, <2>2 DEF ReceiveAlarm, Receives, Idle, TypeOK
    <2>4. CASE isCheckNetwork
      BY <1>7, <2>1, <2>3, <2>4 DEF ReceiveAlarm, Deactivate
    <2>5. CASE ~isCheckNetwork
      BY <1>7, <2>1, <2>3, <2>5 DEF ReceiveAlarm
    <2>6. QED
      BY <2>4, <2>5
  <1>8. CASE ReceiveOff
    <2>1. events # <<>> /\ events' = <<>>
      BY <1>8, OneBroadcast DEF ReceiveOff, Broadcasts
    <2>2. /\ check'.running = "no" /\ (check'.posted => check.posted)
          /\ UNCHANGED <<result, mNetworkActivate, view>>
      BY <1>8, <2>1 DEF ReceiveOff, TypeOK
    <2>3. QED
      BY <2>1, <2>2
  <1>9. CASE CheckStarts
    <2>1. events = <<>> /\ UNCHANGED <<events, result, mNetworkActivate>>
      BY <1>9 DEF CheckStarts, device
    <2>2. /\ check.posted /\ check'.posted = FALSE
          /\ check'.running = IF result = "unknown" THEN "own" ELSE "late"
          /\ view /\ view' = view
      BY <1>9 DEF CheckStarts, Idle
    <2>3. QED
      BY <2>1, <2>2
  <1>10. CASE CheckEnds
    <2>1. events = <<>> /\ events' = events
      BY <1>10 DEF CheckEnds, device
    <2>2. /\ check'.running = "no" /\ check'.posted = check.posted
          /\ mNetworkActivate' \in BOOLEAN /\ view /\ view' = view
      BY <1>10 DEF CheckEnds, Idle, TypeOK
    <2>3. CASE check.running = "late"
      BY <1>10, <2>1, <2>2, <2>3 DEF CheckEnds
    <2>4. CASE check.running # "late"
      <3>1. check.running = "own"
        BY <1>10, <2>4 DEF CheckEnds, TypeOK
      <3>2. result' = IF mNetworkActivate' THEN "yes" ELSE "no"
        BY <1>10, <2>4 DEF CheckEnds
      <3>3. ~check'.posted
        BY <2>2, <3>1
      <3>4. QED
        BY <2>1, <2>2, <3>2, <3>3
    <2>5. QED
      BY <2>3, <2>4
  <1>11. QED
    BY <1>1, <1>2, <1>3, <1>4, <1>5, <1>6, <1>7, <1>8, <1>9, <1>10
       DEF Next, User, Handler, Worker

\* With a user, broadcasts and checks that take turns, a round that has asked for a
\* check of the network is a failure exactly if that check has not found it when the
\* screen goes off, whatever the checks of other rounds say (mCheckNetworkRunnable,
\* onReceive).
THEOREM RoundsJudged == ASSUME Calm PROVE Spec => CheckedRounds
  <1>1. Init => Judged
    BY DEF Init, Judged, NoCheck
  <1>2. TypeOK /\ CalmInv /\ Judged /\ [Next]_vars => Judged'
    BY JudgedStep
  <1>3. TypeOK /\ Judged =>
          (ReceiveOff /\ isCheckNetwork /\ result # "none" =>
             (mFailureCount' = mFailureCount <=> result = "yes"))
    <2> SUFFICES ASSUME TypeOK, Judged, ReceiveOff, isCheckNetwork, result # "none"
                 PROVE  mFailureCount' = mFailureCount <=> result = "yes"
      OBVIOUS
    <2>1. mNetworkActivate <=> result = "yes"
      BY DEF TypeOK, Judged
    <2>2. mFailureCount' = mFailureCount + (IF mNetworkActivate THEN 0 ELSE 1)
      BY DEF ReceiveOff
    <2>3. QED
      BY <2>1, <2>2 DEF TypeOK
  <1>4. QED
    BY <1>1, <1>2, <1>3, TypeCorrect, CalmAlways, PTL DEF Spec, CheckedRounds
===============================================================================
