--------------------------- MODULE RecoveryTest_proofs ---------------------------
(***************************************************************************)
(* Proofs about RecoveryTest: its types, and that a run of the factory     *)
(* reset test is a SurvivingRun, for every target, delay and number of     *)
(* power failures, when the user and the caller act one after the other    *)
(* and the power does not fail inside stop().                              *)
(***************************************************************************)
EXTENDS RecoveryTest, TLAPS

LEMMA NoneTyped == None \in States /\ None.flag = STOP
  BY DEF None, States, STOP, RUNNING

\* check() and the end of the process keep the types.
LEMMA CheckTyped ==
  ASSUME TypeOK, NEW state \in {RUNNING, STOP}, NEW n \in Nat, NEW target \in Nat,
         Check(state, n, target)
  PROVE  /\ mState' \in {RUNNING, STOP}
         /\ mTargetCount' \in Nat /\ mCurrentCount' \in Nat
         /\ mCountDownTime' \in 0 .. Delay
         /\ ready' \in Nat /\ later' \in Nat
         /\ job' \in Jobs /\ step' \in {"delete", "write", "done"}
  <1> USE RecoveryAssumption DEF TypeOK, RUNNING, STOP, Jobs, msgs, work
  <1>1. mTargetCount' \in Nat /\ mCurrentCount' \in Nat
    BY DEF Check
  <1>2. CASE state = RUNNING /\ Reached(n + 1, target)
    BY <1>1, <1>2 DEF Check, Saves
  <1>3. CASE state = RUNNING /\ ~Reached(n + 1, target)
    BY <1>1, <1>3 DEF Check
  <1>4. CASE state = STOP
    BY <1>1, <1>4 DEF Check
  <1>5. QED
    BY <1>2, <1>3, <1>4

LEMMA LoadTyped ==
  ASSUME TypeOK, NEW extras \in States, Load(extras)
  PROVE  /\ app' = "shown" /\ mState' \in {RUNNING, STOP}
         /\ mTargetCount' \in Nat /\ mCurrentCount' \in Nat
         /\ mCountDownTime' \in 0 .. Delay /\ mIsWipeAll' \in BOOLEAN
         /\ ready' \in Nat /\ later' \in Nat
         /\ job' \in Jobs /\ step' \in {"delete", "write", "done"}
  <1>1. /\ extras.flag \in {RUNNING, STOP} /\ extras.count \in Nat /\ extras.max \in Nat
        /\ extras.wipeAll \in BOOLEAN
    BY DEF States
  <1>2. QED
    BY <1>1, CheckTyped DEF Load, Wipes

LEMMA ForgetTyped ==
  ASSUME Forget
  PROVE  /\ app' = "none" /\ mState' = STOP
         /\ mTargetCount' \in Nat /\ mCurrentCount' \in Nat
         /\ mCountDownTime' \in 0 .. Delay /\ mIsWipeAll' \in BOOLEAN
         /\ ready' \in Nat /\ later' \in Nat
         /\ confirm' \in BOOLEAN /\ error' \in BOOLEAN
         /\ job' = "none" /\ step' = "done"
  <1>1. 0 \in Nat /\ 0 \in 0 .. Delay
    BY RecoveryAssumption
  <1>2. mIsWipeAll' \in BOOLEAN /\ confirm' \in BOOLEAN /\ error' \in BOOLEAN
    BY DEF Forget
  <1>3. QED
    BY <1>1, <1>2 DEF Forget

LEMMA SavedTyped == TypeOK => Saved \in States /\ Saved.flag = mState
                              /\ Saved.count = mCurrentCount /\ Saved.max = mTargetCount
  BY DEF TypeOK, Saved, Running, States

-------------------------------------------------------------------------------
\* The variables keep their types, also the file and the extras that outlive a reset.
THEOREM TypeCorrect == Spec => []TypeOK
  <1>1. Init => TypeOK
    <2> SUFFICES ASSUME Init PROVE TypeOK
      OBVIOUS
    <2>1. /\ mCountDownTime \in 0 .. Delay /\ ready \in Nat /\ later \in Nat /\ resets \in Nat
          /\ cuts \in 0 .. MaxCuts /\ entries \in 0 .. MaxEntries /\ errors \in 0 .. MaxErrors
      BY RecoveryAssumption DEF Init
    <2>2. {file, launch} \subseteq States
      BY NoneTyped DEF Init
    <2>3. /\ mIsWipeAll \in BOOLEAN /\ confirm \in BOOLEAN /\ error \in BOOLEAN
          /\ chosen \subseteq BOOLEAN
      BY DEF Init
    <2>4. QED
      BY <2>1, <2>2, <2>3 DEF Init, TypeOK, Jobs
  <1>2. TypeOK /\ [Next]_vars => TypeOK'
    <2> SUFFICES ASSUME TypeOK, [Next]_vars
                 PROVE  TypeOK'
      OBVIOUS
    <2> USE RecoveryAssumption DEF mem, msgs, asked, work, serve, count, past
    <2>1. CASE UNCHANGED vars
      BY <2>1 DEF vars, TypeOK
    <2>2. CASE Start
      BY <2>2 DEF Start, TypeOK
    <2>3. CASE Confirm
      <3>1. mCountDownTime' \in 0 .. Delay /\ ready' \in Nat
        BY <2>3 DEF Confirm, TypeOK
      <3>2. mIsWipeAll' \in BOOLEAN /\ chosen' \subseteq BOOLEAN /\ confirm' \in BOOLEAN
        BY <2>3 DEF Confirm
      <3>3. QED
        BY <2>3, <3>1, <3>2 DEF Confirm, TypeOK
    <2>4. CASE Dismiss
      BY <2>4 DEF Dismiss, TypeOK
    <2>5. CASE UserStops
      BY <2>5 DEF UserStops, Saves, TypeOK, Jobs
    <2>6. CASE Hide
      BY <2>6 DEF Hide, TypeOK
    <2>7. ASSUME Return,
                 \/ count' = count
                 \/ (entries' \in 0 .. MaxEntries /\ UNCHANGED <<cuts, errors>>),
                 launch' \in States, command' = command
          PROVE  TypeOK'
      <3>1. mState \in {RUNNING, STOP} /\ mCurrentCount \in Nat /\ mTargetCount \in Nat
        BY DEF TypeOK
      <3>2. /\ mState' \in {RUNNING, STOP}
            /\ mTargetCount' \in Nat /\ mCurrentCount' \in Nat
            /\ mCountDownTime' \in 0 .. Delay
            /\ ready' \in Nat /\ later' \in Nat
            /\ job' \in Jobs /\ step' \in {"delete", "write", "done"}
        BY <2>7, <3>1, CheckTyped DEF Return
      <3>3. returns' \in Nat
        BY <2>7 DEF Return, TypeOK
      <3>4. QED
        BY <2>7, <3>2, <3>3 DEF Return, TypeOK
    <2>8. CASE ComeBack
      <3>1. entries' \in 0 .. MaxEntries
        BY <2>8 DEF ComeBack, TypeOK
      <3>2. QED
        BY <2>7, <2>8, <3>1 DEF ComeBack, TypeOK
    <2>9. CASE Leave
      <3>1. CASE mState = RUNNING
        BY <2>9, <3>1 DEF Leave, Saves, TypeOK, Jobs
      <3>2. CASE mState # RUNNING
        BY <2>9, <3>2, ForgetTyped DEF Leave, TypeOK, Jobs
      <3>3. QED
        BY <3>1, <3>2
    <2>10. CASE Open
      <3>1. Load(None)
        BY <2>10 DEF Open
      <3>2. QED
        BY <2>10, <3>1, LoadTyped, NoneTyped DEF Open, TypeOK
    <2>11. CASE Handle
      BY <2>11 DEF Handle, Counting, Saves, TypeOK, Jobs
    <2>12. CASE Tick
      BY <2>12 DEF Tick, TypeOK
    <2>13. CASE Delete \/ Write
      BY <2>13, NoneTyped, SavedTyped DEF Delete, Write, TypeOK
    <2>14. CASE WriteFails
      <3>1. errors' \in 0 .. MaxErrors
        BY <2>14 DEF WriteFails, TypeOK
      <3>2. error' \in BOOLEAN /\ job' \in Jobs /\ step' \in {"delete", "write", "done"}
        BY <2>14 DEF WriteFails, TypeOK, Jobs
      <3>3. QED
        BY <2>14, <3>1, <3>2 DEF WriteFails, TypeOK
    <2>15. ASSUME Wiped, UNCHANGED <<serve, count, chosen, returns>>
           PROVE  TypeOK'
      <3>1. resets' \in Nat
        BY <2>15 DEF Wiped, TypeOK
      <3>2. QED
        BY <2>15, <3>1, ForgetTyped DEF Wiped, TypeOK, Jobs
    <2>16. CASE Recovery
      <3>1. CASE mIsWipeAll
        BY <2>15, <2>16, <3>1 DEF Recovery
      <3>2. CASE ~mIsWipeAll
        BY <2>16, <3>2 DEF Recovery, TypeOK, Jobs
      <3>3. QED
        BY <3>1, <3>2
    <2>17. CASE Finish
      <3>1. CASE job = "leave"
        BY <2>17, <3>1, ForgetTyped DEF Finish, TypeOK, Jobs
      <3>2. CASE job # "leave"
        BY <2>17, <3>2 DEF Finish, TypeOK, Jobs
      <3>3. QED
        BY <3>1, <3>2
    <2>18. CASE Reset
      BY <2>15, <2>18 DEF Reset
    <2>19. CASE Cut
      <3>1. cuts' \in 0 .. MaxCuts
        BY <2>19 DEF Cut, TypeOK
      <3>2. QED
        BY <2>19, <3>1, ForgetTyped DEF Cut, TypeOK, Jobs
    <2>20. CASE Boot
      BY <2>20, NoneTyped DEF Boot, TypeOK
    <2>21. CASE Send
      BY <2>21 DEF Send, TypeOK
    <2>22. CASE CheckRecoveryState
      BY <2>22, NoneTyped DEF CheckRecoveryState, TypeOK
    <2>23. CASE Launch
      <3>1. CASE app = "none" /\ Load(launch) /\ UNCHANGED <<phase, asked, file, count, past>>
        <4>1. launch \in States
          BY DEF TypeOK
        <4>2. QED
          BY <2>23, <3>1, <4>1, LoadTyped, NoneTyped DEF Launch, TypeOK
      <3>2. CASE app = "hidden" /\ Return /\ UNCHANGED count
        BY <2>7, <2>23, <3>2, NoneTyped DEF Launch
      <3>3. CASE app = "shown" /\ UNCHANGED <<phase, app, mem, msgs, asked, work, file, count, past>>
        BY <2>23, <3>3, NoneTyped DEF Launch, TypeOK
      <3>4. QED
        BY <2>23, <3>1, <3>2, <3>3 DEF Launch
    <2>24. CASE RecoveryFails
      <3>1. errors' \in 0 .. MaxErrors
        BY <2>24 DEF RecoveryFails, TypeOK
      <3>2. job' \in Jobs
        BY <2>24 DEF RecoveryFails, Jobs
      <3>3. QED
        BY <2>24, <3>1, <3>2 DEF RecoveryFails, TypeOK
    <2>25. QED
      BY <2>1, <2>2, <2>3, <2>4, <2>5, <2>6, <2>8, <2>9, <2>10, <2>11, <2>12, <2>13,
         <2>14, <2>16, <2>17, <2>18, <2>19, <2>20, <2>21, <2>22, <2>23, <2>24
         DEF Next, User, Looper, Save, Worker
  <1>3. QED
    BY <1>1, <1>2, PTL DEF Spec

-------------------------------------------------------------------------------
(* One run.  What the file says and what the fragment has in memory must be one *)
(* run whenever one of the two can take the place of the other: when the        *)
(* process ends, the file of a running test has its target and no more rounds   *)
(* than it, and that of a test that has stopped says so; when the activity      *)
(* comes back, the extras it is opened with are what the file says.             *)

Here == app # "none"

StageInv ==
  /\ phase = "off" => ~Here
  /\ job # "none" => Here
  /\ job = "save" => mState = RUNNING
  /\ job \in {"stop", "leave"} => mState = STOP
  /\ job \in {"stop", "leave"} /\ step = "write" => file = None

RunInv ==
  /\ Here /\ mState = RUNNING => mTargetCount \in Targets /\ mCurrentCount < mTargetCount
  /\ file.flag = RUNNING => file.max \in Targets /\ file.count < file.max
  /\ Here /\ mState = RUNNING /\ file.flag = RUNNING =>
       file.max = mTargetCount /\ file.count <= mCurrentCount
  /\ Here /\ mState = STOP /\ (job = "none" \/ step = "done") => file.flag = STOP

CallInv ==
  /\ job = "leave" => launch = None /\ command # "due"
  /\ phase # "off" /\ ~Here /\ launch # None => launch = file /\ launch.flag = RUNNING
  /\ phase # "off" /\ ~Here /\ command = "handled" => launch # None \/ file.flag = STOP

OneRun == StageInv /\ RunInv /\ CallInv

\* check() with a run that has a target: it goes on, or stops and saves.
LEMMA CheckCases ==
  ASSUME TypeOK, job = "none", NEW state \in {RUNNING, STOP}, NEW n \in Nat, NEW target \in Nat,
         Check(state, n, target)
  PROVE  /\ mTargetCount' = target
         /\ \/ /\ state = RUNNING /\ n + 1 < target
               /\ mState' = RUNNING /\ mCurrentCount' = n + 1 /\ job' = "none"
            \/ /\ state = RUNNING /\ n + 1 >= target
               /\ mState' = STOP /\ job' = "stop" /\ step' = "delete"
            \/ /\ state = STOP /\ mState' = STOP /\ mCurrentCount' = n
               /\ job' = "none" /\ step' = step
  BY DEF Check, Reached, Saves, work, RUNNING, STOP

\* onStart of an activity that was hidden.
LEMMA ReturnKeeps ==
  ASSUME TypeOK, OneRun, Idle, Return, UNCHANGED command, launch' \in {launch, None}
  PROVE  OneRun'
  <1> USE RecoveryAssumption DEF TypeOK, OneRun, Idle, Here
  <1>1. app' = "shown" /\ UNCHANGED <<phase, file>> /\ phase # "off" /\ job = "none"
    BY DEF Return
  <1>2. Check(mState, mCurrentCount, mTargetCount)
    BY DEF Return
  <1>3. /\ mTargetCount' = mTargetCount
        /\ \/ /\ mState = RUNNING /\ mCurrentCount + 1 < mTargetCount
              /\ mState' = RUNNING /\ mCurrentCount' = mCurrentCount + 1 /\ job' = "none"
           \/ /\ mState = RUNNING /\ mCurrentCount + 1 >= mTargetCount
              /\ mState' = STOP /\ job' = "stop" /\ step' = "delete"
           \/ /\ mState = STOP /\ mState' = STOP /\ mCurrentCount' = mCurrentCount
              /\ job' = "none" /\ step' = step
    BY <1>1, <1>2, CheckCases
  <1>4. StageInv'
    BY <1>1, <1>3 DEF StageInv, RUNNING, STOP
  <1>5. RunInv'
    <2>1. file.flag = RUNNING => file.count \in Nat
      BY DEF States
    <2>2. QED
      BY <1>1, <1>3, <2>1 DEF RunInv, RUNNING, STOP
  <1>6. CallInv'
    BY <1>1, <1>3 DEF CallInv
  <1>7. QED
    BY <1>4, <1>5, <1>6

\* A new activity, opened with what the file says, or while it says STOP.
LEMMA LoadKeeps ==
  ASSUME TypeOK, OneRun, phase # "off", app = "none", NEW extras \in States,
         extras = file \/ (extras.flag = STOP /\ file.flag = STOP),
         Load(extras), UNCHANGED <<phase, file>>
  PROVE  StageInv' /\ RunInv' /\ Here' /\ job' # "leave"
  <1> USE RecoveryAssumption DEF TypeOK, OneRun, Here
  <1>1. app' = "shown" /\ job = "none"
    BY DEF Load, StageInv
  <1>2. /\ extras.flag \in {RUNNING, STOP} /\ extras.count \in Nat /\ extras.max \in Nat
        /\ Check(extras.flag, extras.count, extras.max)
    BY DEF Load, States
  <1>3. /\ mTargetCount' = extras.max
        /\ \/ /\ extras.flag = RUNNING /\ extras.count + 1 < extras.max
              /\ mState' = RUNNING /\ mCurrentCount' = extras.count + 1 /\ job' = "none"
           \/ /\ extras.flag = RUNNING /\ extras.count + 1 >= extras.max
              /\ mState' = STOP /\ job' = "stop" /\ step' = "delete"
           \/ /\ extras.flag = STOP /\ mState' = STOP /\ mCurrentCount' = extras.count
              /\ job' = "none" /\ step' = step
    BY <1>1, <1>2, CheckCases
  <1>4. StageInv'
    BY <1>1, <1>3 DEF StageInv, RUNNING, STOP
  <1>5. RunInv'
    BY <1>1, <1>2, <1>3 DEF RunInv, RUNNING, STOP
  <1>6. QED
    BY <1>1, <1>3, <1>4, <1>5

\* The process ends outside stop(), or at its end.
LEMMA ForgetKeeps ==
  ASSUME TypeOK, OneRun, Forget, UNCHANGED file, Here => job = "none" \/ step = "done" \/ mState = RUNNING
  PROVE  StageInv' /\ RunInv' /\ ~Here' /\ job' = "none"
  <1>1. app' = "none" /\ job' = "none" /\ mState' = STOP
    BY DEF Forget
  <1>2. QED
    BY <1>1 DEF StageInv, RunInv, OneRun, Here

\* The steps that leave the run, the file and saveState() alone.
LEMMA SameKeeps ==
  ASSUME OneRun, phase' = "off" <=> phase = "off", Here' = Here,
         UNCHANGED <<mState, mTargetCount, mCurrentCount, file, job, step, launch, command>>
  PROVE  OneRun'
  BY DEF OneRun, StageInv, RunInv, CallInv

LEMMA OneRunStep ==
  ASSUME Orderly, ~FailsInStop, TypeOK, OneRun, [Next]_vars
  PROVE  OneRun'
  <1> USE RecoveryAssumption DEF mem, msgs, asked, work, serve, count, past
  <1>0. OneRun = (StageInv /\ RunInv /\ CallInv) /\ RUNNING # STOP
    BY DEF OneRun, RUNNING, STOP
  <1>1. CASE UNCHANGED vars
    BY <1>1, SameKeeps DEF vars, Here
  <1>2. CASE Start
    <2>1. /\ Here /\ Here' /\ phase # "off" /\ job = "none" /\ mState = STOP /\ file.flag = STOP
          /\ mState' = RUNNING /\ mTargetCount' \in Targets /\ mCurrentCount' = 0
          /\ UNCHANGED <<phase, file, job, step, launch, command>>
      BY <1>0, <1>2 DEF Start, Shown, Idle, Here, RunInv
    <2>2. StageInv' /\ CallInv'
      BY <1>0, <2>1 DEF StageInv, CallInv
    <2>3. mCurrentCount' < mTargetCount'
      BY <2>1
    <2>4. RunInv'
      BY <1>0, <2>1, <2>3 DEF RunInv
    <2>5. QED
      BY <1>0, <2>2, <2>4 DEF OneRun
  <1>3. CASE Confirm \/ Dismiss \/ Hide
    BY <1>3, SameKeeps DEF Confirm, Dismiss, Hide, Shown, Here
  <1>4. CASE UserStops
    <2>1. /\ Here /\ Here' /\ phase # "off" /\ mState' = STOP /\ job' = "stop" /\ step' = "delete"
          /\ UNCHANGED <<phase, file, mTargetCount, mCurrentCount, launch, command>>
      BY <1>4 DEF UserStops, Shown, Idle, Here, Saves
    <2>2. StageInv' /\ RunInv' /\ CallInv'
      BY <1>0, <2>1 DEF StageInv, RunInv, CallInv
    <2>3. QED
      BY <1>0, <2>2 DEF OneRun
  <1>5. CASE ComeBack
    BY <1>5, ReturnKeeps DEF ComeBack
  <1>6. CASE Leave
    <2>1. /\ Here /\ phase # "off" /\ job = "none" /\ launch = None /\ command # "due"
          /\ UNCHANGED <<phase, file, launch, command>>
      BY <1>6 DEF Leave, Idle, Waits, Here
    <2>2. CASE mState = RUNNING
      <3>1. /\ Here' /\ mState' = STOP /\ job' = "leave" /\ step' = "delete"
            /\ UNCHANGED <<mTargetCount, mCurrentCount>>
        BY <1>6, <2>1, <2>2 DEF Leave, Saves, Here
      <3>2. StageInv' /\ RunInv' /\ CallInv'
        BY <1>0, <2>1, <3>1 DEF StageInv, RunInv, CallInv
      <3>3. QED
        BY <3>2 DEF OneRun
    <2>3. CASE mState # RUNNING
      <3>1. Forget /\ mState = STOP /\ file.flag = STOP
        BY <1>0, <1>6, <2>1, <2>3 DEF Leave, TypeOK, RunInv
      <3>2. StageInv' /\ RunInv' /\ ~Here' /\ job' = "none"
        BY <2>1, <3>1, ForgetKeeps
      <3>3. CallInv'
        BY <2>1, <3>1, <3>2 DEF CallInv
      <3>4. QED
        BY <3>2, <3>3 DEF OneRun
    <2>4. QED
      BY <2>2, <2>3
  <1>7. CASE Open
    <2>1. /\ phase # "off" /\ app = "none" /\ command # "due" /\ launch = None
          /\ file.flag = STOP \/ command = "handled"
          /\ Load(None) /\ UNCHANGED <<phase, file, launch, command>>
      BY <1>7 DEF Open, Waits
    <2>2. file.flag = STOP
      BY <1>0, <2>1 DEF CallInv, Here
    <2>3. StageInv' /\ RunInv' /\ Here' /\ job' # "leave"
      BY <2>1, <2>2, NoneTyped, LoadKeeps
    <2>4. QED
      BY <2>3 DEF OneRun, CallInv
  <1>8. CASE Handle
    <2>1. CASE job' = job
      BY <1>8, <2>1, SameKeeps DEF Handle, Idle, Here, Saves
    <2>2. CASE job' # job
      <3>1. /\ Here /\ Here' /\ phase # "off" /\ job' = "save" /\ step' = "delete" /\ mState = RUNNING
            /\ UNCHANGED <<phase, file, mState, mTargetCount, mCurrentCount, launch, command>>
        BY <1>8, <2>2 DEF Handle, Idle, Here, Saves
      <3>2. StageInv' /\ RunInv' /\ CallInv'
        BY <1>0, <3>1 DEF StageInv, RunInv, CallInv
      <3>3. QED
        BY <3>2 DEF OneRun
    <2>3. QED
      BY <2>1, <2>2
  <1>9. CASE Tick
    BY <1>9, SameKeeps DEF Tick, Here
  <1>10. CASE Delete
    <2>1. /\ Here /\ Here' /\ phase # "off" /\ job # "none" /\ step' = "write"
          /\ file' = None \/ (file' = file /\ job = "save" /\ mState = RUNNING)
          /\ UNCHANGED <<phase, mState, mTargetCount, mCurrentCount, job, launch, command>>
      BY <1>0, <1>10 DEF Delete, MayFail, StageInv, Here, TypeOK, Jobs
    <2>2. StageInv' /\ RunInv' /\ CallInv'
      BY <1>0, <2>1, NoneTyped DEF StageInv, RunInv, CallInv
    <2>3. QED
      BY <2>2 DEF OneRun
  <1>11. CASE Write
    <2>1. /\ Here /\ Here' /\ phase # "off" /\ job # "none" /\ step' = "done" /\ file' = Saved
          /\ UNCHANGED <<phase, mState, mTargetCount, mCurrentCount, job, launch, command>>
      BY <1>0, <1>11 DEF Write, StageInv, Here
    <2>2. file'.flag = mState /\ file'.count = mCurrentCount /\ file'.max = mTargetCount
      BY <2>1, SavedTyped
    <2>3. mCurrentCount <= mCurrentCount /\ mState \in {RUNNING, STOP}
      BY DEF TypeOK
    <2>4. StageInv' /\ CallInv'
      BY <1>0, <2>1 DEF StageInv, CallInv
    <2>5. RunInv'
      BY <1>0, <2>1, <2>2, <2>3 DEF RunInv
    <2>6. QED
      BY <2>4, <2>5 DEF OneRun
  <1>12. CASE WriteFails
    <2>1. /\ Here /\ Here' /\ phase # "off" /\ step' = "done"
          /\ \/ file = None /\ job' = job
             \/ job' = "none" /\ mState = RUNNING
          /\ UNCHANGED <<phase, file, mState, mTargetCount, mCurrentCount, launch, command>>
      BY <1>0, <1>12 DEF WriteFails, StageInv, Here, TypeOK, Jobs
    <2>2. StageInv' /\ RunInv' /\ CallInv'
      BY <1>0, <2>1, NoneTyped DEF StageInv, RunInv, CallInv
    <2>3. QED
      BY <2>2 DEF OneRun
  <1>13. ASSUME Forget, phase' = "off", UNCHANGED <<file, launch, command>>,
                Here => job = "none" \/ mState = RUNNING
         PROVE  OneRun'
    BY <1>13, ForgetKeeps DEF OneRun, CallInv
  <1>14. MayFail /\ Here => job = "none" \/ mState = RUNNING
    BY <1>0 DEF MayFail, StageInv, TypeOK, Jobs
  <1>15. CASE Recovery
    <2>1. Here /\ mState = RUNNING /\ job = "save"
      BY <1>0, <1>15 DEF Recovery, StageInv
    <2>2. CASE mIsWipeAll
      BY <1>13, <1>15, <2>1, <2>2 DEF Recovery, Wiped
    <2>3. CASE ~mIsWipeAll
      <3>1. /\ Here' /\ phase' = "leaving" /\ job' = "none"
            /\ UNCHANGED <<file, mState, mTargetCount, mCurrentCount, launch, command>>
        BY <1>15, <2>1, <2>3 DEF Recovery, Here
      <3>2. StageInv' /\ RunInv' /\ CallInv'
        BY <1>0, <2>1, <3>1 DEF StageInv, RunInv, CallInv
      <3>3. QED
        BY <3>2 DEF OneRun
    <2>4. QED
      BY <2>2, <2>3
  <1>16. CASE Reset
    BY <1>13, <1>14, <1>16 DEF Reset, Wiped
  <1>17. CASE Cut
    BY <1>13, <1>14, <1>17 DEF Cut
  <1>18. CASE Finish
    <2>1. /\ Here /\ phase # "off" /\ mState = STOP /\ job \in {"stop", "leave"} /\ step = "done"
          /\ file.flag = STOP /\ UNCHANGED <<phase, file, launch, command>>
      BY <1>0, <1>18 DEF Finish, StageInv, RunInv
    <2>2. CASE job = "leave"
      <3>1. Forget /\ launch = None
        BY <1>0, <1>18, <2>2 DEF Finish, CallInv
      <3>2. StageInv' /\ RunInv' /\ ~Here' /\ job' = "none"
        BY <2>1, <3>1, ForgetKeeps
      <3>3. QED
        BY <2>1, <3>1, <3>2 DEF OneRun, CallInv
    <2>3. CASE job # "leave"
      <3>1. Here' /\ job' = "none" /\ UNCHANGED <<mState, mTargetCount, mCurrentCount, step>>
        BY <1>18, <2>1, <2>3 DEF Finish, Here
      <3>2. StageInv' /\ RunInv' /\ CallInv'
        BY <1>0, <2>1, <3>1 DEF StageInv, RunInv, CallInv
      <3>3. QED
        BY <3>2 DEF OneRun
    <2>4. QED
      BY <2>2, <2>3
  <1>19. CASE Boot
    <2>1. /\ ~Here /\ ~Here' /\ phase' = "up" /\ command' = "none" /\ launch' = None
          /\ UNCHANGED <<mState, mTargetCount, mCurrentCount, file, job, step>>
      BY <1>0, <1>19 DEF Boot, StageInv, Here
    <2>2. StageInv' /\ RunInv' /\ CallInv'
      BY <1>0, <2>1 DEF StageInv, RunInv, CallInv
    <2>3. QED
      BY <2>2 DEF OneRun
  <1>20. CASE Send
    <2>1. /\ Here' = Here /\ job # "leave" /\ command' = "due"
          /\ UNCHANGED <<phase, mState, mTargetCount, mCurrentCount, file, job, step, launch>>
      BY <1>20 DEF Send, Here
    <2>2. StageInv' /\ RunInv' /\ CallInv'
      BY <1>0, <2>1 DEF StageInv, RunInv, CallInv
    <2>3. QED
      BY <2>2 DEF OneRun
  <1>21. CASE CheckRecoveryState
    <2>1. /\ Here' = Here /\ job # "leave" /\ command' = "handled"
          /\ launch' = (IF file.flag = RUNNING THEN file ELSE None)
          /\ UNCHANGED <<phase, mState, mTargetCount, mCurrentCount, file, job, step>>
      BY <1>0, <1>21 DEF CheckRecoveryState, Resumes, CallInv, Here
    <2>2. file.flag \in {RUNNING, STOP}
      BY DEF TypeOK, States
    <2>3. StageInv' /\ RunInv'
      BY <1>0, <2>1 DEF StageInv, RunInv
    <2>4. CallInv'
      BY <1>0, <2>1, <2>2, NoneTyped DEF CallInv
    <2>5. QED
      BY <2>3, <2>4 DEF OneRun
  <1>22. CASE Launch
    <2>1. phase # "off" /\ launch # None /\ job = "none" /\ launch' = None /\ command' = command
      BY <1>22 DEF Launch
    <2>2. CASE app = "none" /\ Load(launch) /\ UNCHANGED <<phase, asked, file, count, past>>
      <3>1. launch = file /\ launch \in States
        BY <1>0, <2>1, <2>2 DEF CallInv, Here, TypeOK
      <3>2. StageInv' /\ RunInv' /\ Here' /\ job' # "leave"
        BY <2>1, <2>2, <3>1, LoadKeeps
      <3>3. QED
        BY <3>2 DEF OneRun, CallInv
    <2>3. CASE app = "hidden" /\ Return /\ UNCHANGED count
      BY <2>1, <2>3, ReturnKeeps DEF Idle
    <2>4. CASE app = "shown" /\ UNCHANGED <<phase, app, mem, msgs, asked, work, file, count, past>>
      <3>1. Here /\ Here' /\ UNCHANGED <<phase, mState, mTargetCount, mCurrentCount, file, job, step>>
        BY <2>4 DEF Here
      <3>2. StageInv' /\ RunInv' /\ CallInv'
        BY <1>0, <2>1, <3>1 DEF StageInv, RunInv, CallInv
      <3>3. QED
        BY <3>2 DEF OneRun
    <2>5. QED
      BY <1>22, <2>2, <2>3, <2>4 DEF Launch
  <1>23. CASE RecoveryFails
    <2>1. /\ Here /\ Here' /\ phase # "off" /\ job' = "none" /\ mState = RUNNING
          /\ UNCHANGED <<phase, file, mState, mTargetCount, mCurrentCount, launch, command>>
      BY <1>0, <1>23 DEF RecoveryFails, StageInv, Here
    <2>2. StageInv' /\ RunInv' /\ CallInv'
      BY <1>0, <2>1 DEF StageInv, RunInv, CallInv
    <2>3. QED
      BY <2>2 DEF OneRun
  <1>24. QED
    BY <1>1, <1>2, <1>3, <1>4, <1>5, <1>6, <1>7, <1>8, <1>9, <1>10, <1>11, <1>12, <1>15,
       <1>16, <1>17, <1>18, <1>19, <1>20, <1>21, <1>22, <1>23
       DEF Next, User, Looper, Save, Worker

LEMMA OneRunAlways == ASSUME Orderly, ~FailsInStop PROVE Spec => [](TypeOK /\ OneRun)
  <1>1. Init => OneRun
    BY DEF Init, OneRun, StageInv, RunInv, CallInv, Here, None, RUNNING, STOP
  <1>2. TypeOK /\ OneRun /\ [Next]_vars => OneRun'
    BY OneRunStep
  <1>3. QED
    BY <1>1, <1>2, TypeCorrect, PTL DEF Spec

-------------------------------------------------------------------------------
(* Each step is one of SurvivingRun, or none. *)

\* What the run is, in memory and in the file.
RunReads ==
  /\ Here /\ mState = RUNNING => RunGoal = mTargetCount /\ RunDone = mCurrentCount
  /\ Here /\ mState = STOP => RunGoal = 0 /\ RunDone = 0
  /\ ~Here /\ file.flag = RUNNING => RunGoal = file.max /\ RunDone = file.count
  /\ ~Here /\ file.flag = STOP => RunGoal = 0 /\ RunDone = 0

LEMMA TargetPositive == \A n \in Targets : n > 0
  BY RecoveryAssumption

LEMMA RunIs ==
  /\ OneRun => RunReads
  /\ OneRun' => RunReads'
  <1>1. OneRun => RunReads
    BY TargetPositive DEF RunReads, RunGoal, RunDone, Alive, InMemory, Here, OneRun, RunInv, RUNNING, STOP
  <1>2. OneRun' => RunReads'
    BY TargetPositive DEF RunReads, RunGoal, RunDone, Alive, InMemory, Here, OneRun, RunInv, RUNNING, STOP
  <1>3. QED
    BY <1>1, <1>2

LEMMA RunSame ==
  ASSUME Here' = Here, UNCHANGED <<mState, mTargetCount, mCurrentCount>>, Here \/ UNCHANGED file
  PROVE  UNCHANGED <<RunGoal, RunDone>>
  BY DEF RunGoal, RunDone, Alive, InMemory, Here

\* The process ends: the file goes on with the run, or there is none any more.
LEMMA RunForget ==
  ASSUME TypeOK, TypeOK', OneRun, OneRun', Here, ~Here', UNCHANGED file,
         job = "none" \/ step = "done" \/ mState = RUNNING
  PROVE  [Run!Next]_<<RunGoal, RunDone>>
  <1> USE RunIs DEF RunReads
  <1>1. CASE mState = STOP
    <2>1. file.flag = STOP
      BY <1>1 DEF OneRun, RunInv, RUNNING, STOP
    <2>2. RunGoal = 0 /\ RunDone = 0 /\ RunGoal' = 0 /\ RunDone' = 0
      BY <1>1, <2>1
    <2>3. QED
      BY <2>2
  <1>2. CASE mState = RUNNING
    <2>1. /\ RunGoal = mTargetCount /\ RunDone = mCurrentCount /\ mTargetCount \in Targets
          /\ mTargetCount > 0
      BY <1>2, TargetPositive DEF OneRun, RunInv
    <2>2. CASE file.flag = STOP
      BY <2>1, <2>2 DEF Run!Next, Run!End
    <2>3. CASE file.flag = RUNNING
      <3>1. RunGoal' = file.max /\ RunDone' = file.count
        BY <2>3
      <3>2. file.max = mTargetCount /\ file.count \in 0 .. mCurrentCount
        BY <1>2, <2>3 DEF OneRun, RunInv, TypeOK, States
      <3>3. QED
        BY <2>1, <3>1, <3>2 DEF Run!Next, Run!FallBack
    <2>4. QED
      BY <2>2, <2>3 DEF TypeOK, States
  <1>3. QED
    BY <1>1, <1>2 DEF TypeOK

\* check() advances a run that is there, or ends it.
LEMMA RunCheck ==
  ASSUME TypeOK, TypeOK', OneRun, OneRun', job = "none",
         NEW state \in {RUNNING, STOP}, NEW n \in Nat, NEW target \in Nat,
         Check(state, n, target), Here',
         state = RUNNING => RunGoal = target /\ RunDone = n /\ target > 0 /\ n < target,
         state = STOP => RunGoal = 0 /\ RunDone = 0
  PROVE  [Run!Next]_<<RunGoal, RunDone>>
  <1> USE RunIs DEF RunReads
  <1>1. /\ mTargetCount' = target
        /\ \/ /\ state = RUNNING /\ n + 1 < target
              /\ mState' = RUNNING /\ mCurrentCount' = n + 1 /\ job' = "none"
           \/ /\ state = RUNNING /\ n + 1 >= target
              /\ mState' = STOP /\ job' = "stop" /\ step' = "delete"
           \/ /\ state = STOP /\ mState' = STOP /\ mCurrentCount' = n
              /\ job' = "none" /\ step' = step
    BY CheckCases
  <1>2. CASE state = RUNNING /\ mState' = RUNNING
    <2>1. RunGoal' = target /\ RunDone' = n + 1
      BY <1>1, <1>2 DEF RUNNING, STOP
    <2>2. QED
      BY <1>2, <2>1 DEF Run!Next, Run!Advance
  <1>3. CASE state = RUNNING /\ mState' = STOP
    <2>1. RunGoal' = 0 /\ RunDone' = 0
      BY <1>3
    <2>2. QED
      BY <1>3, <2>1 DEF Run!Next, Run!End
  <1>4. CASE state = STOP
    <2>1. RunGoal' = 0 /\ RunDone' = 0
      BY <1>1, <1>4 DEF RUNNING, STOP
    <2>2. QED
      BY <1>4, <2>1
  <1>5. QED
    BY <1>1, <1>2, <1>3, <1>4

LEMMA RunReturn ==
  ASSUME TypeOK, TypeOK', OneRun, OneRun', Idle, Return
  PROVE  [Run!Next]_<<RunGoal, RunDone>>
  <1>1. Here /\ Here' /\ job = "none" /\ Check(mState, mCurrentCount, mTargetCount)
    BY DEF Idle, Return, Here
  <1>2. mState \in {RUNNING, STOP} /\ mCurrentCount \in Nat /\ mTargetCount \in Nat
    BY DEF TypeOK
  <1>3. /\ mState = RUNNING => /\ RunGoal = mTargetCount /\ RunDone = mCurrentCount
                               /\ mTargetCount > 0 /\ mCurrentCount < mTargetCount
        /\ mState = STOP => RunGoal = 0 /\ RunDone = 0
    BY <1>1, RunIs, TargetPositive DEF RunReads, OneRun, RunInv
  <1>4. QED
    BY <1>1, <1>2, <1>3, RunCheck

LEMMA RunLoad ==
  ASSUME TypeOK, TypeOK', OneRun, OneRun', app = "none", NEW extras \in States,
         extras = file \/ (extras.flag = STOP /\ file.flag = STOP), Load(extras)
  PROVE  [Run!Next]_<<RunGoal, RunDone>>
  <1>1. /\ ~Here /\ Here' /\ job = "none" /\ Check(extras.flag, extras.count, extras.max)
        /\ extras.flag \in {RUNNING, STOP} /\ extras.count \in Nat /\ extras.max \in Nat
    BY DEF Load, Here, OneRun, StageInv, States
  <1>2. /\ extras.flag = RUNNING => /\ RunGoal = extras.max /\ RunDone = extras.count
                                    /\ extras.max > 0 /\ extras.count < extras.max
        /\ extras.flag = STOP => RunGoal = 0 /\ RunDone = 0
    BY <1>1, RunIs, TargetPositive DEF RunReads, OneRun, RunInv, RUNNING, STOP
  <1>3. QED
    BY <1>1, <1>2, RunCheck

LEMMA RunStep ==
  ASSUME Orderly, ~FailsInStop, TypeOK, TypeOK', OneRun, OneRun', [Next]_vars
  PROVE  [Run!Next]_<<RunGoal, RunDone>>
  <1> USE DEF mem, msgs, asked, work, serve, count, past
  <1>0. (StageInv /\ RunInv /\ CallInv) /\ RUNNING # STOP
    BY DEF OneRun, RUNNING, STOP
  <1>1. CASE UNCHANGED vars \/ Confirm \/ Dismiss \/ Hide
    BY <1>1, RunSame DEF vars, Confirm, Dismiss, Hide, Shown, Here
  <1>2. CASE Handle \/ Tick \/ Delete \/ Write \/ WriteFails \/ RecoveryFails
    BY <1>0, <1>2, RunSame
       DEF Handle, Tick, Delete, Write, WriteFails, RecoveryFails, StageInv, Here
  <1>3. CASE Boot \/ Send \/ CheckRecoveryState
    BY <1>3, RunSame DEF Boot, Send, CheckRecoveryState, Here
  <1>4. CASE Start
    <2>1. /\ Here /\ Here' /\ mState = STOP /\ mState' = RUNNING
          /\ mTargetCount' \in Targets /\ mCurrentCount' = 0
      BY <1>4 DEF Start, Shown, Idle, Here
    <2>2. RunGoal = 0 /\ RunGoal' = mTargetCount' /\ RunDone' = 0
      BY <2>1, RunIs DEF RunReads
    <2>3. QED
      BY <2>1, <2>2 DEF Run!Next, Run!Begin
  <1>5. ASSUME Here, Here', mState' = STOP
        PROVE  [Run!Next]_<<RunGoal, RunDone>>
    <2>1. RunGoal' = 0 /\ RunDone' = 0
      BY <1>5, RunIs DEF RunReads
    <2>2. CASE mState = STOP
      BY <1>5, <2>1, <2>2, RunIs DEF RunReads
    <2>3. CASE mState = RUNNING
      <3>1. RunGoal > 0
        BY <1>0, <1>5, <2>3, RunIs, TargetPositive DEF RunReads, RunInv
      <3>2. QED
        BY <2>1, <3>1 DEF Run!Next, Run!End
    <2>4. QED
      BY <2>2, <2>3 DEF TypeOK
  <1>6. CASE UserStops
    BY <1>5, <1>6 DEF UserStops, Shown, Idle, Here
  <1>7. CASE ComeBack
    BY <1>7, RunReturn DEF ComeBack
  <1>8. CASE Leave
    <2>1. Here /\ job = "none"
      BY <1>8 DEF Leave, Idle, Here
    <2>2. CASE mState = RUNNING
      BY <1>5, <1>8, <2>1, <2>2 DEF Leave, Here
    <2>3. CASE mState # RUNNING
      BY <1>8, <2>1, <2>3, RunForget DEF Leave, Forget, Here
    <2>4. QED
      BY <2>2, <2>3
  <1>9. CASE Open
    <2>1. app = "none" /\ file.flag = STOP /\ Load(None)
      BY <1>0, <1>9 DEF Open, Waits, CallInv, Here
    <2>2. QED
      BY <2>1, NoneTyped, RunLoad
  <1>10. ASSUME Forget, UNCHANGED file, job = "none" \/ step = "done" \/ mState = RUNNING
         PROVE  [Run!Next]_<<RunGoal, RunDone>>
    <2>1. ~Here'
      BY <1>10 DEF Forget, Here
    <2>2. CASE Here
      BY <1>10, <2>1, <2>2, RunForget
    <2>3. CASE ~Here
      BY <1>10, <2>1, <2>3 DEF RunGoal, RunDone, Alive, InMemory, Here
    <2>4. QED
      BY <2>2, <2>3
  <1>11. MayFail => job = "none" \/ mState = RUNNING
    BY <1>0 DEF MayFail, StageInv, TypeOK, Jobs
  <1>12. CASE Recovery
    <2>1. Here /\ job = "save" /\ step = "done"
      BY <1>0, <1>12 DEF Recovery, StageInv
    <2>2. CASE mIsWipeAll
      BY <1>10, <1>12, <2>1, <2>2 DEF Recovery, Wiped
    <2>3. CASE ~mIsWipeAll
      BY <1>12, <2>1, <2>3, RunSame DEF Recovery, Here
    <2>4. QED
      BY <2>2, <2>3
  <1>13. CASE Reset
    BY <1>10, <1>11, <1>13 DEF Reset, Wiped
  <1>14. CASE Cut
    BY <1>10, <1>11, <1>14 DEF Cut
  <1>15. CASE Finish
    <2>1. step = "done"
      BY <1>15 DEF Finish
    <2>2. CASE job = "leave"
      BY <1>10, <1>15, <2>1, <2>2 DEF Finish
    <2>3. CASE job # "leave"
      BY <1>15, <2>3, RunSame DEF Finish, Here
    <2>4. QED
      BY <2>2, <2>3
  <1>16. CASE Launch
    <2>1. phase # "off" /\ launch # None /\ job = "none"
      BY <1>16 DEF Launch
    <2>2. CASE app = "none" /\ Load(launch)
      <3>1. launch = file /\ launch \in States
        BY <1>0, <2>1, <2>2 DEF CallInv, Here, TypeOK
      <3>2. QED
        BY <2>2, <3>1, RunLoad
    <2>3. CASE app = "hidden" /\ Return
      BY <2>1, <2>3, RunReturn DEF Idle
    <2>4. CASE app = "shown" /\ UNCHANGED <<app, mem, file>>
      BY <2>4, RunSame DEF Here
    <2>5. QED
      BY <1>16, <2>2, <2>3, <2>4 DEF Launch
  <1>17. QED
    BY <1>1, <1>2, <1>3, <1>4, <1>6, <1>7, <1>8, <1>9, <1>12, <1>13, <1>14, <1>15, <1>16
       DEF Next, User, Looper, Save, Worker

\* When the user and the caller act one after the other and the power does not fail
\* inside stop(), the factory reset test implements SurvivingRun, for every target and
\* delay and for any number of resets, power failures, errors of the file and returns
\* (saveState, WorkService.checkRecoveryState, onCreate, check).
THEOREM RunSurvives == ASSUME Orderly, ~FailsInStop PROVE Spec => SurvivesReset
  <1>1. Init => Run!Init
    BY DEF Init, Run!Init, RunGoal, RunDone, Alive, InMemory, None, RUNNING, STOP
  <1>2. TypeOK /\ OneRun /\ (TypeOK /\ OneRun)' /\ [Next]_vars => [Run!Next]_(Run!vars)
    BY RunStep DEF Run!vars
  <1>3. QED
    BY <1>1, <1>2, OneRunAlways, PTL DEF Spec, Run!Spec, SurvivesReset

\* A check of a running test posts a message of its countdown or begins to save.
LEMMA CheckGoesOn ==
  ASSUME TypeOK, TypeOK', NEW n, NEW target, Check(RUNNING, n, target)
  PROVE  GoesOn'
  <1>1. ready \in Nat /\ later \in Nat /\ ready' \in Nat /\ later' \in Nat
    BY DEF TypeOK
  <1>2. job' = "stop" \/ (ready' = ready + 1 /\ later' = later)
    BY DEF Check, Saves, RUNNING, STOP
  <1>3. \A i, j \in Nat : i + 1 + j > 0
    OBVIOUS
  <1>4. QED
    BY <1>1, <1>2, <1>3 DEF GoesOn

\* Each step of a run that lives leaves something under way that will go on with it.
LEMMA GoesOnStep ==
  ASSUME Orderly, ~FailsInStop, TypeOK, TypeOK', OneRun, OneRun', [Next]_vars,
         Alive, GoesOn, Alive', errors' = errors
  PROVE  GoesOn'
  <1> USE DEF mem, msgs, asked, work, serve, count, past
  <1>1. /\ Here => mState = RUNNING
        /\ Here' => mState' = RUNNING
        /\ ~Here => file.flag = RUNNING
        /\ ~Here' => file'.flag = RUNNING
        /\ RUNNING # STOP
    BY DEF Alive, InMemory, Here, RUNNING, STOP
  <1>2. /\ ready \in Nat /\ later \in Nat /\ ready' \in Nat /\ later' \in Nat
        /\ errors \in Nat
    BY RecoveryAssumption DEF TypeOK
  <1>3. CASE ~Here'
    BY <1>1, <1>3 DEF OneRun, CallInv, Here, GoesOn, Awaited, TypeOK
  <1>4. ASSUME Here, ready' + later' = ready + later, UNCHANGED <<job, phase>>
        PROVE  GoesOn'
    BY <1>4 DEF GoesOn, Awaited, Here
  <1>5. ASSUME ready' > 0 \/ later' > 0 \/ job' # "none" \/ phase' # "up"
        PROVE  GoesOn'
    <2>1. \A i, j \in Nat : i > 0 \/ j > 0 => i + j > 0
      OBVIOUS
    <2>2. QED
      BY <1>2, <1>5, <2>1 DEF GoesOn
  <1>6. CASE Here' /\ (UNCHANGED vars \/ Dismiss \/ Hide \/ Delete \/ Write \/ Send \/ CheckRecoveryState)
    <2>1. Here /\ UNCHANGED <<ready, later, job, phase>>
      BY <1>6 DEF vars, Dismiss, Hide, Shown, Idle, Delete, Write, Send, CheckRecoveryState, Here
    <2>2. QED
      BY <1>4, <2>1
  <1>7. CASE Tick
    <2>1. Here /\ ready = 0 /\ ready' = later /\ later' = 0 /\ UNCHANGED <<job, phase>>
      BY <1>7 DEF Tick, Idle, Here
    <2>2. QED
      BY <1>2, <1>4, <2>1
  <1>8. CASE Start \/ Confirm \/ UserStops
    BY <1>1, <1>2, <1>5, <1>8 DEF Start, Confirm, UserStops, Shown, Idle, Here, Saves
  <1>9. CASE Handle
    BY <1>1, <1>2, <1>5, <1>9 DEF Handle, Idle, Here, Saves
  <1>10. CASE ComeBack
    BY <1>1, <1>10, CheckGoesOn DEF ComeBack, Return, Idle, Here
  <1>11. CASE Leave
    BY <1>1, <1>5, <1>11 DEF Leave, Idle, Here, Saves
  <1>12. CASE Open
    BY <1>1, <1>12 DEF Open, Waits, OneRun, CallInv, Here
  <1>13. CASE WriteFails \/ RecoveryFails
    BY <1>2, <1>13 DEF WriteFails, RecoveryFails
  <1>14. CASE Recovery \/ Reset \/ Cut
    BY <1>3, <1>5, <1>14 DEF Recovery, Wiped, Reset, Cut
  <1>15. CASE Finish
    <2>1. CASE job = "stop"
      BY <1>1, <1>15, <2>1 DEF Finish, OneRun, StageInv, Here
    <2>2. CASE job # "stop"
      BY <1>3, <1>15, <2>2 DEF Finish, Forget, Here
    <2>3. QED
      BY <2>1, <2>2
  <1>16. CASE Boot /\ Here'
    BY <1>16 DEF Boot, OneRun, StageInv, Here
  <1>17. CASE Launch
    <2>1. CASE app = "none" /\ Load(launch)
      <3>1. launch.flag = RUNNING
        BY <1>17, <2>1 DEF Launch, OneRun, CallInv, Here
      <3>2. Check(RUNNING, launch.count, launch.max)
        BY <2>1, <3>1 DEF Load
      <3>3. QED
        BY <3>2, CheckGoesOn
    <2>2. CASE app = "hidden" /\ Return
      BY <1>1, <2>2, CheckGoesOn DEF Return, Here
    <2>3. CASE app = "shown" /\ UNCHANGED <<phase, msgs, work>>
      BY <1>4, <2>3 DEF Here
    <2>4. QED
      BY <1>17, <2>1, <2>2, <2>3 DEF Launch
  <1>18. QED
    BY <1>3, <1>6, <1>7, <1>8, <1>9, <1>10, <1>11, <1>12, <1>13, <1>14, <1>15, <1>16, <1>17
       DEF Next, User, Looper, Save, Worker

\* A run that has begun to go on never lies idle, unless its state cannot be saved or the
\* reboot of a wipe fails: its countdown has a message, it is being saved, the device
\* restarts, or it waits in the file until it is asked for (handleMsg, recovery,
\* bootCommand, checkRecoveryState, onCreate).
THEOREM RunsGoOn == ASSUME Orderly, ~FailsInStop PROVE Spec => NeverStalls
  <1>1. TypeOK /\ OneRun /\ (TypeOK /\ OneRun)' /\ [Next]_vars
          => [Alive /\ GoesOn /\ Alive' /\ errors' = errors => GoesOn']_vars
    BY GoesOnStep
  <1>2. QED
    BY <1>1, OneRunAlways, PTL DEF Spec, NeverStalls

\* The factory reset test lives through its resets as one run that goes on.
THEOREM RunsLiveOn == ASSUME Orderly, ~FailsInStop PROVE Spec => LivesOn
  BY RunSurvives, RunsGoOn, PTL DEF LivesOn

-------------------------------------------------------------------------------
(* The rounds of a run.  The file is one round behind the resets at most, and it *)
(* is level with them while a reset is awaited; what it says of the wiping is     *)
(* what the user chose.  A run he has not confirmed has nothing under way, unless *)
(* he came back to it.                                                            *)

CountInv ==
  /\ ~Here => mState = STOP
  /\ mState = RUNNING => resets <= mCurrentCount /\ mCurrentCount <= resets + cuts + returns
  /\ file.flag = RUNNING => resets <= file.count + 1 /\ file.count <= resets + cuts + returns
  /\ file.flag = RUNNING /\ ~Here => file.count + 1 <= resets + cuts + returns
  /\ file.flag = RUNNING /\ phase = "leaving" => Here /\ resets <= file.count
  /\ job = "save" /\ step = "done" => file.flag = RUNNING /\ file.count = mCurrentCount

WipeInv ==
  /\ ~Here => ~confirm
  /\ mState = STOP => later = 0
  /\ returns = 0 /\ mState = RUNNING => chosen \subseteq {mIsWipeAll}
  /\ returns = 0 /\ file.flag = RUNNING => chosen \subseteq {file.wipeAll}
  /\ returns = 0 /\ confirm => file.flag = STOP /\ job # "save" /\ ready = 0 /\ later = 0

LEMMA CountSame ==
  ASSUME CountInv, Here' = Here, job' # "save",
         UNCHANGED <<phase, mState, mCurrentCount, file, resets, cuts, returns>>
  PROVE  CountInv'
  BY DEF CountInv

\* The numbers there are.
Numbered ==
  /\ mCurrentCount \in Nat /\ file.count \in Nat
  /\ resets \in Nat /\ cuts \in Nat /\ returns \in Nat
  /\ mState \in {RUNNING, STOP} /\ file.flag \in {RUNNING, STOP}

LEMMA AllNumbered == (TypeOK => Numbered) /\ (TypeOK' => Numbered')
  <1>1. TypeOK => Numbered
    BY RecoveryAssumption DEF TypeOK, Numbered, States
  <1>2. TypeOK' => Numbered'
    BY RecoveryAssumption DEF TypeOK, Numbered, States
  <1>3. QED
    BY <1>1, <1>2

LEMMA CountForget ==
  ASSUME Numbered, Numbered', CountInv, Forget, phase' = "off", UNCHANGED <<file, returns>>,
         file.flag = RUNNING =>
           /\ resets' <= file.count + 1
           /\ file.count + 1 <= resets' + cuts' + returns
  PROVE  CountInv'
  <1>1. ~Here' /\ mState' = STOP /\ job' = "none" /\ file' = file /\ returns' = returns
    BY DEF Forget, Here
  <1>2. file.flag = RUNNING => file.count <= resets' + cuts' + returns
    BY <1>1 DEF Numbered
  <1>3. QED
    BY <1>1, <1>2 DEF CountInv, RUNNING, STOP

LEMMA CountStep ==
  ASSUME Orderly, ~FailsInStop, TypeOK, TypeOK', OneRun, OneRun', CountInv, [Next]_vars
  PROVE  CountInv'
  <1> USE DEF mem, msgs, asked, work, serve, count, past
  <1>0. /\ StageInv /\ RunInv /\ CallInv /\ StageInv' /\ RunInv' /\ RUNNING # STOP
        /\ Numbered /\ Numbered'
    BY AllNumbered DEF OneRun, RUNNING, STOP
  <1>1. CASE UNCHANGED vars \/ Confirm \/ Dismiss \/ Hide \/ Tick
    <2>1. /\ Here' = Here
          /\ UNCHANGED <<phase, mState, mCurrentCount, file, resets, cuts, returns, job, step>>
      BY <1>1 DEF vars, Confirm, Dismiss, Hide, Tick, Shown, Here
    <2>2. QED
      BY <2>1 DEF CountInv
  <1>2. CASE Send \/ CheckRecoveryState
    <2>1. /\ Here' = Here
          /\ UNCHANGED <<phase, mState, mCurrentCount, file, resets, cuts, returns, job, step>>
      BY <1>2 DEF Send, CheckRecoveryState, Here
    <2>2. QED
      BY <2>1 DEF CountInv
  <1>3. CASE Start
    <2>1. /\ Here /\ Here' /\ job = "none" /\ mState = STOP /\ file.flag = STOP
          /\ mCurrentCount' = 0 /\ resets' = 0 /\ returns' = 0 /\ cuts' = cuts
          /\ file' = file /\ job' = job
      BY <1>0, <1>3 DEF Start, Shown, Idle, Here, RunInv
    <2>2. resets' <= mCurrentCount' /\ mCurrentCount' <= resets' + cuts' + returns'
      BY <1>0, <2>1 DEF Numbered
    <2>3. QED
      BY <1>0, <2>1, <2>2 DEF CountInv
  <1>4. CASE UserStops
    <2>1. /\ Here /\ Here' /\ mState' = STOP /\ job' = "stop"
          /\ UNCHANGED <<phase, file, mCurrentCount, resets, cuts, returns>>
      BY <1>4 DEF UserStops, Shown, Idle, Here, Saves
    <2>2. QED
      BY <1>0, <2>1 DEF CountInv
  <1>5. ASSUME Idle, Return, UNCHANGED cuts
        PROVE  CountInv'
    <2>1. /\ Here /\ Here' /\ job = "none" /\ UNCHANGED <<phase, file, resets, cuts>>
          /\ returns' = (IF mState = RUNNING THEN returns + 1 ELSE returns)
          /\ Check(mState, mCurrentCount, mTargetCount)
      BY <1>5 DEF Idle, Return, Here
    <2>2. /\ mCurrentCount' = (IF mState = RUNNING THEN mCurrentCount + 1 ELSE mCurrentCount)
          /\ mState' = RUNNING => mState = RUNNING
          /\ job' # "save"
      BY <2>1, CheckCases DEF TypeOK, Check
    <2>3. returns <= returns'
      BY <1>0, <2>1 DEF Numbered
    <2>4. mState' = RUNNING =>
            resets' <= mCurrentCount' /\ mCurrentCount' <= resets' + cuts' + returns'
      BY <1>0, <2>1, <2>2 DEF CountInv, Numbered
    <2>5. file.flag = RUNNING => file.count <= resets' + cuts' + returns'
      BY <1>0, <2>1, <2>3 DEF CountInv, Numbered
    <2>6. QED
      BY <2>1, <2>2, <2>4, <2>5 DEF CountInv
  <1>6. CASE ComeBack
    BY <1>5, <1>6 DEF ComeBack
  <1>7. CASE Leave
    <2>1. /\ Here /\ phase # "off" /\ job = "none" /\ mState' = STOP
          /\ UNCHANGED <<phase, file, resets, cuts, returns>>
      BY <1>7 DEF Leave, Idle, Here, Forget
    <2>2. CASE mState = RUNNING
      <3>1. Here' /\ job' = "leave"
        BY <1>7, <2>1, <2>2 DEF Leave, Saves, Here
      <3>2. QED
        BY <1>0, <2>1, <3>1 DEF CountInv
    <2>3. CASE mState # RUNNING
      <3>1. file.flag = STOP /\ ~Here' /\ job' = "none"
        BY <1>0, <1>7, <2>1, <2>3 DEF Leave, Forget, Here, Numbered, RunInv
      <3>2. QED
        BY <1>0, <2>1, <3>1 DEF CountInv
    <2>4. QED
      BY <2>2, <2>3
  <1>8. ASSUME phase # "off", app = "none", NEW extras \in States,
               extras = file \/ (extras.flag = STOP /\ file.flag = STOP),
               Load(extras), UNCHANGED <<phase, file, resets, cuts, returns>>
        PROVE  CountInv'
    <2>1. /\ ~Here /\ Here' /\ job = "none" /\ Check(extras.flag, extras.count, extras.max)
          /\ extras.flag \in {RUNNING, STOP} /\ extras.count \in Nat /\ extras.max \in Nat
      BY <1>0, <1>8 DEF Load, Here, StageInv, States
    <2>2. /\ mState' = RUNNING => extras = file /\ file.flag = RUNNING
                                  /\ mCurrentCount' = file.count + 1
          /\ job' # "save"
      BY <1>0, <1>8, <2>1, CheckCases DEF RUNNING, STOP
    <2>3. QED
      BY <1>8, <2>1, <2>2 DEF CountInv
  <1>9. CASE Open
    <2>1. /\ phase # "off" /\ app = "none" /\ file.flag = STOP /\ Load(None)
          /\ UNCHANGED <<phase, file, resets, cuts, returns>>
      BY <1>0, <1>9 DEF Open, Waits, CallInv, Here
    <2>2. QED
      BY <1>8, <2>1, NoneTyped
  <1>10. CASE Handle
    <2>1. /\ Here' = Here /\ job = "none"
          /\ job' # "save" \/ step' = "delete"
          /\ UNCHANGED <<phase, mState, mCurrentCount, file, resets, cuts, returns>>
      BY <1>10 DEF Handle, Idle, Here, Saves
    <2>2. QED
      BY <2>1 DEF CountInv
  <1>11. CASE Delete
    <2>1. /\ Here' = Here /\ step' = "write"
          /\ file'.flag = STOP \/ file' = file
          /\ UNCHANGED <<phase, mState, mCurrentCount, resets, cuts, returns, job>>
      BY <1>11, NoneTyped DEF Delete, Here
    <2>2. QED
      BY <1>0, <2>1 DEF CountInv
  <1>12. CASE Write
    <2>1. /\ Here' /\ Here /\ file'.flag = mState /\ file'.count = mCurrentCount
          /\ job = "save" => mState = RUNNING
          /\ UNCHANGED <<phase, mState, mCurrentCount, resets, cuts, returns, job>>
      BY <1>0, <1>12, SavedTyped DEF Write, Here, StageInv
    <2>2. mState = RUNNING => resets <= mCurrentCount + 1
      BY <1>0 DEF CountInv, Numbered
    <2>3. QED
      BY <1>0, <2>1, <2>2 DEF CountInv
  <1>13. CASE WriteFails
    <2>1. /\ Here' = Here /\ file' = file /\ job' # "save"
          /\ UNCHANGED <<phase, mState, mCurrentCount, resets, cuts, returns>>
      BY <1>13 DEF WriteFails, Here
    <2>2. QED
      BY <1>0, <2>1 DEF CountInv
  <1>14. ASSUME Wiped, UNCHANGED <<cuts, returns>>, file.flag = RUNNING => resets <= file.count
         PROVE  CountInv'
    <2>1. Forget /\ phase' = "off" /\ file' = file /\ resets' = resets + 1
      BY <1>14 DEF Wiped
    <2>2. file.flag = RUNNING =>
            resets' <= file.count + 1 /\ file.count + 1 <= resets' + cuts' + returns
      BY <1>0, <1>14, <2>1 DEF CountInv, Numbered
    <2>3. QED
      BY <1>0, <1>14, <2>1, <2>2, CountForget
  <1>15. CASE Recovery
    <2>1. /\ Here /\ mState = RUNNING /\ file.flag = RUNNING /\ file.count = mCurrentCount
          /\ UNCHANGED <<cuts, returns>>
      BY <1>0, <1>15 DEF Recovery, StageInv, CountInv
    <2>2. resets <= file.count
      BY <2>1 DEF CountInv
    <2>3. CASE mIsWipeAll
      BY <1>14, <1>15, <2>1, <2>2, <2>3 DEF Recovery
    <2>4. CASE ~mIsWipeAll
      <3>1. /\ Here' /\ job' = "none"
            /\ UNCHANGED <<mState, mCurrentCount, file, resets, cuts, returns>>
        BY <1>15, <2>1, <2>4 DEF Recovery, Here
      <3>2. QED
        BY <2>1, <2>2, <3>1 DEF CountInv
    <2>5. QED
      BY <2>3, <2>4
  <1>16. CASE Reset
    BY <1>14, <1>16 DEF Reset, CountInv
  <1>17. CASE Cut
    <2>1. /\ Forget /\ phase' = "off" /\ cuts' = cuts + 1
          /\ UNCHANGED <<file, resets, returns>>
      BY <1>17 DEF Cut
    <2>2. file.flag = RUNNING =>
            resets' <= file.count + 1 /\ file.count + 1 <= resets' + cuts' + returns
      BY <1>0, <2>1 DEF CountInv, Numbered
    <2>3. QED
      BY <1>0, <2>1, <2>2, CountForget
  <1>18. CASE Finish
    <2>1. /\ Here /\ mState = STOP /\ file.flag = STOP
          /\ UNCHANGED <<phase, file, resets, cuts, returns>>
      BY <1>0, <1>18 DEF Finish, StageInv, RunInv
    <2>2. mState' = STOP /\ job' = "none"
      BY <1>18, <2>1 DEF Finish, Forget
    <2>3. QED
      BY <1>0, <2>1, <2>2 DEF CountInv
  <1>19. CASE Boot
    <2>1. /\ Here' = Here /\ phase' = "up"
          /\ UNCHANGED <<mState, mCurrentCount, file, resets, cuts, returns, job, step>>
      BY <1>19 DEF Boot, Here
    <2>2. QED
      BY <2>1 DEF CountInv
  <1>20. CASE Launch
    <2>1. phase # "off" /\ launch # None /\ job = "none"
      BY <1>20 DEF Launch
    <2>2. CASE app = "none" /\ Load(launch) /\ UNCHANGED <<phase, asked, file, count, past>>
      <3>1. launch = file /\ launch \in States
        BY <1>0, <2>1, <2>2 DEF CallInv, Here, TypeOK
      <3>2. QED
        BY <1>8, <2>1, <2>2, <3>1
    <2>3. CASE app = "hidden" /\ Return /\ UNCHANGED count
      BY <1>5, <2>1, <2>3 DEF Idle
    <2>4. CASE app = "shown" /\ UNCHANGED <<phase, app, mem, msgs, asked, work, file, count, past>>
      BY <2>4 DEF CountInv, Here
    <2>5. QED
      BY <1>20, <2>2, <2>3, <2>4 DEF Launch
  <1>21. CASE RecoveryFails
    <2>1. /\ Here' = Here /\ job' # "save"
          /\ UNCHANGED <<phase, mState, mCurrentCount, file, resets, cuts, returns>>
      BY <1>21 DEF RecoveryFails, Here
    <2>2. QED
      BY <2>1, CountSame
  <1>22. QED
    BY <1>1, <1>2, <1>3, <1>4, <1>6, <1>7, <1>9, <1>10, <1>11, <1>12, <1>13, <1>15,
       <1>16, <1>17, <1>18, <1>19, <1>20, <1>21
       DEF Next, User, Looper, Save, Worker

LEMMA WipeStep ==
  ASSUME Orderly, ~FailsInStop, TypeOK, TypeOK', OneRun, OneRun', CountInv, WipeInv,
         [Next]_vars
  PROVE  WipeInv'
  <1> USE DEF mem, msgs, asked, work, serve, count, past
  <1>0. /\ StageInv /\ RunInv /\ CallInv /\ StageInv' /\ RunInv' /\ RUNNING # STOP
        /\ returns \in Nat /\ mState \in {RUNNING, STOP}
    BY DEF OneRun, RUNNING, STOP, TypeOK
  <1>1. CASE UNCHANGED vars
    BY <1>1 DEF vars, WipeInv, Here
  <1>2. CASE Send \/ CheckRecoveryState \/ Boot
    BY <1>2 DEF Send, CheckRecoveryState, Boot, WipeInv, Here
  <1>3. CASE Start
    <2>1. /\ Here /\ Here' /\ job = "none" /\ file.flag = STOP /\ later = 0 /\ ready = 0
          /\ chosen' = {} /\ mState' = RUNNING
          /\ UNCHANGED <<file, job, ready, later>>
      BY <1>0, <1>3 DEF Start, Shown, Idle, Here, RunInv, WipeInv
    <2>2. QED
      BY <1>0, <2>1 DEF WipeInv
  <1>4. CASE Confirm
    <2>1. /\ Here /\ Here' /\ confirm /\ ~confirm' /\ chosen' = {mIsWipeAll'}
          /\ UNCHANGED <<file, mState, later, returns>>
      BY <1>4 DEF Confirm, Shown, Idle, Here
    <2>2. returns = 0 => file.flag = STOP
      BY <2>1 DEF WipeInv
    <2>3. QED
      BY <1>0, <2>1, <2>2 DEF WipeInv
  <1>5. CASE Dismiss \/ Hide
    BY <1>5 DEF Dismiss, Hide, Shown, Idle, Here, WipeInv
  <1>6. CASE UserStops
    <2>1. /\ Here' /\ ~confirm' /\ later' = 0 /\ mState' = STOP
          /\ UNCHANGED <<file, chosen, returns>>
      BY <1>6 DEF UserStops, Shown, Idle, Here
    <2>2. QED
      BY <1>0, <2>1 DEF WipeInv
  <1>7. ASSUME Idle, Return
        PROVE  WipeInv'
    <2>1. /\ Here /\ Here' /\ job = "none"
          /\ UNCHANGED <<file, chosen, mIsWipeAll, confirm>>
          /\ returns' = (IF mState = RUNNING THEN returns + 1 ELSE returns)
          /\ Check(mState, mCurrentCount, mTargetCount)
      BY <1>7 DEF Idle, Return, Here
    <2>2. returns' = 0 => returns = 0 /\ mState = STOP
      BY <1>0, <2>1
    <2>3. mState = STOP => mState' = STOP /\ UNCHANGED <<ready, later, job>>
      BY <1>0, <2>1 DEF Check
    <2>4. mState' = STOP => later' = 0
      BY <1>0, <2>1 DEF Check, WipeInv
    <2>5. QED
      BY <1>0, <2>1, <2>2, <2>3, <2>4 DEF WipeInv
  <1>8. CASE ComeBack
    BY <1>7, <1>8 DEF ComeBack
  <1>9. ASSUME Forget, UNCHANGED <<file, chosen, returns>>
        PROVE  WipeInv'
    <2>1. /\ ~confirm' /\ later' = 0 /\ mState' = STOP /\ file' = file
          /\ chosen' = chosen /\ returns' = returns
      BY <1>9 DEF Forget
    <2>2. QED
      BY <1>0, <2>1 DEF WipeInv
  <1>10. CASE Leave
    <2>1. CASE mState = RUNNING
      <3>1. /\ Here' /\ mState' = STOP /\ job' = "leave" /\ ready' = 0 /\ later' = 0
            /\ UNCHANGED <<file, chosen, returns, confirm>>
        BY <1>10, <2>1 DEF Leave, Saves, Idle, Here
      <3>2. QED
        BY <1>0, <3>1 DEF WipeInv
    <2>2. CASE mState # RUNNING
      BY <1>9, <1>10, <2>2 DEF Leave
    <2>3. QED
      BY <2>1, <2>2
  <1>11. ASSUME app = "none", NEW extras \in States,
                extras = file \/ (extras.flag = STOP /\ file.flag = STOP),
                Load(extras), UNCHANGED <<asked, file, returns, chosen>>
         PROVE  WipeInv'
    <2>1. /\ ~Here /\ Here' /\ job = "none" /\ Check(extras.flag, extras.count, extras.max)
          /\ extras.flag \in {RUNNING, STOP} /\ extras.count \in Nat /\ extras.max \in Nat
          /\ mIsWipeAll' = extras.wipeAll
      BY <1>0, <1>11 DEF Load, Here, StageInv, States, Wipes
    <2>2. mState = STOP /\ ~confirm /\ ~confirm'
      BY <1>11, <2>1 DEF CountInv, WipeInv
    <2>3. mState' = RUNNING => extras = file /\ file.flag = RUNNING
      BY <1>0, <1>11, <2>1, CheckCases DEF RUNNING, STOP
    <2>4. mState' = STOP => later' = 0
      BY <1>0, <2>1, <2>2 DEF Check, WipeInv
    <2>5. QED
      BY <1>0, <1>11, <2>1, <2>2, <2>3, <2>4 DEF WipeInv
  <1>12. CASE Open
    <2>1. /\ app = "none" /\ file.flag = STOP /\ Load(None)
          /\ UNCHANGED <<asked, file, returns, chosen>>
      BY <1>0, <1>12 DEF Open, Waits, CallInv, Here
    <2>2. QED
      BY <1>11, <2>1, NoneTyped
  <1>13. CASE Handle
    <2>1. /\ Here /\ Here' /\ ready > 0
          /\ UNCHANGED <<mState, mIsWipeAll, confirm, file, chosen, returns>>
      BY <1>13 DEF Handle, Idle, Here
    <2>2. mState = STOP => later' = later
      BY <1>0, <1>13 DEF Handle
    <2>3. returns = 0 => ~confirm
      BY <2>1 DEF WipeInv
    <2>4. QED
      BY <1>0, <2>1, <2>2, <2>3 DEF WipeInv
  <1>14. CASE Tick
    <2>1. /\ Here /\ Here' /\ later > 0 /\ later' = 0
          /\ UNCHANGED <<mState, mIsWipeAll, confirm, file, chosen, returns>>
      BY <1>14 DEF Tick, Idle, Here
    <2>2. returns = 0 => ~confirm
      BY <2>1 DEF WipeInv
    <2>3. QED
      BY <1>0, <2>1, <2>2 DEF WipeInv
  <1>15. CASE Delete \/ WriteFails \/ RecoveryFails
    <2>1. /\ Here' = Here /\ file' \in {file, None} /\ job' \in {job, "none"}
          /\ UNCHANGED <<mState, mIsWipeAll, confirm, chosen, returns, ready, later>>
      BY <1>15 DEF Delete, WriteFails, RecoveryFails, Here
    <2>2. QED
      BY <1>0, <2>1, NoneTyped DEF WipeInv
  <1>16. CASE Write
    <2>1. /\ Here' = Here /\ job # "none" /\ file'.flag = mState /\ file'.wipeAll = mIsWipeAll
          /\ UNCHANGED <<mState, mIsWipeAll, confirm, chosen, returns, ready, later, job>>
      BY <1>16 DEF Write, Saved, Running, Here
    <2>2. job # "save" => mState = STOP
      BY <1>0, <2>1 DEF StageInv, TypeOK, Jobs
    <2>3. QED
      BY <1>0, <2>1, <2>2 DEF WipeInv
  <1>17. CASE Recovery
    <2>1. CASE mIsWipeAll
      BY <1>9, <1>17, <2>1 DEF Recovery, Wiped
    <2>2. CASE ~mIsWipeAll
      BY <1>17, <2>2 DEF Recovery, WipeInv, Here
    <2>3. QED
      BY <2>1, <2>2
  <1>18. CASE Reset
    BY <1>9, <1>18 DEF Reset, Wiped
  <1>19. CASE Cut
    BY <1>9, <1>19 DEF Cut
  <1>20. CASE Finish
    <2>1. CASE job = "leave"
      BY <1>9, <1>20, <2>1 DEF Finish
    <2>2. CASE job # "leave"
      BY <1>20, <2>2 DEF Finish, WipeInv, Here
    <2>3. QED
      BY <2>1, <2>2
  <1>21. CASE Launch
    <2>1. phase # "off" /\ launch # None /\ job = "none"
      BY <1>21 DEF Launch
    <2>2. CASE app = "none" /\ Load(launch) /\ UNCHANGED <<phase, asked, file, count, past>>
      <3>1. launch = file /\ launch \in States
        BY <1>0, <2>1, <2>2 DEF CallInv, Here, TypeOK
      <3>2. QED
        BY <1>11, <2>2, <3>1
    <2>3. CASE app = "hidden" /\ Return /\ UNCHANGED count
      BY <1>7, <2>1, <2>3 DEF Idle
    <2>4. CASE app = "shown" /\ UNCHANGED <<phase, app, mem, msgs, asked, work, file, count, past>>
      BY <2>4 DEF WipeInv, Here
    <2>5. QED
      BY <1>21, <2>2, <2>3, <2>4 DEF Launch
  <1>22. QED
    BY <1>1, <1>2, <1>3, <1>4, <1>5, <1>6, <1>8, <1>10, <1>12, <1>13, <1>14, <1>15,
       <1>16, <1>17, <1>18, <1>19, <1>20, <1>21
       DEF Next, User, Looper, Save, Worker

\* When the user and the caller act one after the other and the power does not fail
\* inside stop(), the count is the number of resets but for power failures and returns,
\* and every round wipes what was chosen, over any number of resets (check, next,
\* saveState, onCreate).
THEOREM RoundsAlwaysAsAsked == ASSUME Orderly, ~FailsInStop PROVE Spec => []RoundsAsAsked
  <1>1. Init => CountInv /\ WipeInv
    BY DEF Init, CountInv, WipeInv, Here, None, RUNNING, STOP
  <1>2. TypeOK /\ OneRun /\ (TypeOK /\ OneRun)' /\ CountInv /\ WipeInv /\ [Next]_vars
          => CountInv' /\ WipeInv'
    BY CountStep, WipeStep
  <1>3. CountInv /\ WipeInv => RoundsAsAsked
    BY DEF CountInv, WipeInv, RoundsAsAsked, CountsResets, WipesAsChosen
  <1>4. QED
    BY <1>1, <1>2, <1>3, OneRunAlways, PTL DEF Spec
===============================================================================
