---------------------------- MODULE BootTest_proofs ----------------------------
(***************************************************************************)
(* Proofs about BootTest, for both tests, every delay, every set of        *)
(* targets and any number of power failures and returns to the app.        *)
(***************************************************************************)
EXTENDS BootTest, SequenceTheorems, TLAPS

\* The posted checks fall due in the order they were posted in.
Ordered(s) ==
  /\ \A i \in 1 .. Len(s) : s[i] <= CheckAfter
  /\ \A i, j \in 1 .. Len(s) : i <= j => s[i] <= s[j]

InOrder == Ordered(checks)

\* A new check comes last.
LEMMA OrderedAppend ==
  ASSUME NEW s \in Seq(0 .. Delay), Ordered(s)
  PROVE  Append(s, CheckAfter) \in Seq(0 .. Delay) /\ Ordered(Append(s, CheckAfter))
  <1>1. CheckAfter \in 0 .. Delay
    BY BootAssumption DEF CheckAfter
  <1> DEFINE t == Append(s, CheckAfter)
  <1>2. t \in Seq(0 .. Delay) /\ Len(t) = Len(s) + 1
        /\ t[Len(s) + 1] = CheckAfter /\ \A i \in 1 .. Len(s) : t[i] = s[i]
    BY <1>1
  <1> HIDE DEF t
  <1>3. \A i \in 1 .. Len(t) : t[i] <= CheckAfter
    BY <1>1, <1>2 DEF Ordered
  <1>4. \A i, j \in 1 .. Len(t) : i <= j => t[i] <= t[j]
    BY <1>1, <1>2, <1>3 DEF Ordered
  <1>5. QED
    BY <1>2, <1>3, <1>4 DEF Ordered, t

\* A check that is made leaves the others in order.
LEMMA OrderedTail ==
  ASSUME NEW s \in Seq(0 .. Delay), Ordered(s), s # <<>>
  PROVE  Tail(s) \in Seq(0 .. Delay) /\ Ordered(Tail(s)) /\ Len(Tail(s)) = Len(s) - 1
         /\ \A i \in 1 .. Len(Tail(s)) : Tail(s)[i] = s[i + 1]
  <1> DEFINE t == Tail(s)
  <1>1. t \in Seq(0 .. Delay) /\ Len(t) = Len(s) - 1
        /\ \A i \in 1 .. Len(t) : t[i] = s[i + 1]
    OBVIOUS
  <1> HIDE DEF t
  <1>2. Len(s) \in Nat /\ Len(t) \in Nat
    BY <1>1
  <1>3. Ordered(t)
    BY <1>1, <1>2, SMTT(30) DEF Ordered
  <1>4. QED
    BY <1>1, <1>3 DEF t

\* A second less to each check, when none is due.
Sooner(s) == [i \in 1 .. Len(s) |-> s[i] - 1]

\* Time passes for all of them alike.
LEMMA OrderedTick ==
  ASSUME NEW s \in Seq(0 .. Delay), Ordered(s), s = <<>> \/ Head(s) # 0
  PROVE  Sooner(s) \in Seq(0 .. Delay) /\ Ordered(Sooner(s)) /\ Len(Sooner(s)) = Len(s)
         /\ \A i \in 1 .. Len(s) : Sooner(s)[i] = s[i] - 1
  <1>1. Len(s) \in Nat /\ \A i \in 1 .. Len(s) : s[i] \in 0 .. Delay
    BY LenProperties, ElementOfSeq
  <1>2. \A i \in 1 .. Len(s) : s[i] >= 1
    <2> SUFFICES ASSUME NEW i \in 1 .. Len(s) PROVE s[i] >= 1
      OBVIOUS
    <2>1. 1 \in 1 .. Len(s) /\ s # <<>> /\ Head(s) = s[1]
      BY <1>1
    <2>2. s[1] <= s[i]
      BY <1>1, <2>1 DEF Ordered
    <2>3. QED
      BY <1>1, <2>1, <2>2
  <1> DEFINE t == Sooner(s)
  <1>3. \A i \in 1 .. Len(s) : t[i] = s[i] - 1 /\ t[i] \in 0 .. Delay
    BY <1>1, <1>2, BootAssumption DEF Sooner
  <1>4. t \in [1 .. Len(s) -> 0 .. Delay]
    BY <1>1, <1>3 DEF Sooner
  <1> HIDE DEF t
  <1>5. t \in Seq(0 .. Delay) /\ Len(t) = Len(s)
    <2>1. PICK n \in Nat : n = Len(s)
      BY <1>1
    <2>2. t \in [1 .. n -> 0 .. Delay]
      BY <1>4, <2>1
    <2>3. t \in Seq(0 .. Delay)
      BY <2>2, SeqDef
    <2>4. Len(t) \in Nat /\ 1 .. Len(t) = 1 .. n
      BY <2>2, <2>3, LenProperties
    <2>5. Len(t) = n
      BY <2>4
    <2>6. QED
      BY <2>1, <2>3, <2>5
  <1>6. Ordered(t)
    <2>0. CheckAfter \in Nat
      BY BootAssumption DEF CheckAfter
    <2>1. \A i \in 1 .. Len(t) : t[i] <= CheckAfter
      BY <1>1, <1>3, <1>5, <2>0 DEF Ordered
    <2>2. \A i, j \in 1 .. Len(t) : i <= j => t[i] <= t[j]
      BY <1>1, <1>3, <1>5 DEF Ordered
    <2>3. QED
      BY <2>1, <2>2 DEF Ordered
  <1>7. \A i \in 1 .. Len(s) : t[i] = s[i] - 1
    BY <1>3
  <1>8. QED
    BY <1>5, <1>6, <1>7 DEF t

\* What a process that is gone leaves in memory: nothing.
Forgotten ==
  /\ phase = "off" => app = "none"
  /\ app = "none" => /\ mState = STOP /\ job = "none" /\ ~confirm
                     /\ ready = 0 /\ later = 0 /\ checks = <<>>

\* What the preferences hold while the test runs, while it saves them or cleans
\* them up, and while it does not run.
Stored == sp.flag = RUNNING /\ sp.count <= mCurrentCount
Live  == mState = RUNNING /\ job \in {"none", "save"}
Persisted ==
  /\ app = "none" /\ (phase # "off" \/ sp.flag = STOP) => sp = Cleaned
  /\ app = "none" /\ sp.flag = RUNNING => sp.max = 0 \/ sp.count < sp.max
  /\ app # "none" /\ mState = STOP => sp = Cleaned
  /\ mState = RUNNING /\ mTargetCount > 0 => mCurrentCount <= mTargetCount
  /\ Live => /\ mCurrentCount < mTargetCount
             /\ sp = Cleaned \/ Stored
  /\ Live /\ Stored => sp.max = mTargetCount \/ (job = "save" /\ sp.max = 0)
  /\ job = "save" =>
       /\ mState = RUNNING
       /\ step > 1 => sp.flag = RUNNING
       /\ step > 2 => sp.count = mCurrentCount
       /\ step > 3 => sp.fails = mFailureCount
       /\ step > 4 => sp.max = mTargetCount
  /\ job \in {"stop", "leave"} =>
       \A k \in 1 .. (step - 1) : sp[Keys[k]] = Cleaned[Keys[k]]

\* Without returns to the app there is one chain of messages, and a check stays
\* ahead of the end of its countdown.
Chain ==
  /\ ready + later <= 1
  /\ confirm \/ mState = STOP \/ job # "none" => ready + later = 0
  /\ confirm => mState = RUNNING
  /\ ready + later = 1 =>
       \A i \in 1 .. Len(checks) : checks[i] + Lead <= mCountDownTime + later
  /\ job = "save" => checks = <<>>
  /\ job \in {"save", "stop"} => ~confirm

\* How far the preferences are behind the memory, and both behind the starts of
\* the device and the failures there really were.
Resumable == sp.flag = RUNNING /\ sp.max > 0
CountBehind ==
  /\ Live => mCurrentCount <= boots /\ boots <= mCurrentCount + cuts
  /\ Live /\ Resumable =>
       /\ mCurrentCount <= sp.count + 1
       /\ phase = "leaving" =>
            /\ mCurrentCount = sp.count
            /\ job = "none" => ready + later = 0 /\ ~confirm
  /\ phase = "off" /\ Resumable => sp.count <= boots /\ boots <= sp.count + cuts

FailBehind ==
  /\ Live =>
       /\ mFailureCount <= failed /\ failed <= mFailureCount + cuts
       /\ mFailureCount + Len(checks) <= boots
  /\ Live /\ sp = Cleaned => checks = <<>> /\ mFailureCount = 0 /\ failed = 0
  /\ Live /\ Resumable =>
       /\ sp.fails <= mFailureCount /\ mFailureCount + Len(checks) <= sp.fails + 1
       /\ phase = "leaving" => mFailureCount = sp.fails /\ checks = <<>>
  /\ phase = "off" /\ Resumable =>
       /\ sp.fails <= failed /\ failed <= sp.fails + cuts
       /\ sp.fails <= boots

-------------------------------------------------------------------------------
(* The types.                                                              *)

Typed == TypeOK /\ InOrder

\* What check() leaves, whether the test runs or not.
LEMMA CheckTypes ==
  ASSUME Typed, NEW state \in {RUNNING, STOP}, NEW count \in Nat,
         NEW target \in Nat, NEW fails \in Nat, Check(state, count, target, fails)
  PROVE  /\ mState' \in {RUNNING, STOP}
         /\ mTargetCount' \in Nat /\ mCurrentCount' \in Nat /\ mFailureCount' \in Nat
         /\ mCountDownTime' \in 0 .. Delay
         /\ ready' \in Nat /\ later' \in Nat
         /\ checks' \in Seq(0 .. Delay) /\ InOrder'
         /\ job' \in Jobs /\ step' \in 1 .. 5
         /\ failed' \in Nat
  <1> USE BootAssumption DEF Typed, TypeOK, Works, Jobs
  <1>1. Append(checks, CheckAfter) \in Seq(0 .. Delay) /\ Ordered(Append(checks, CheckAfter))
    BY OrderedAppend DEF InOrder
  <1>2. CASE state # RUNNING
    BY <1>2 DEF Check, InOrder, work, msgs
  <1>3. CASE state = RUNNING
    <2>1. PICK f \in Nat : mFailureCount' = fails + f /\ failed' = failed + f
      BY <1>3 DEF Check, Found
    <2>2. checks' \in Seq(0 .. Delay) /\ InOrder'
      BY <1>1, <1>3 DEF Check, InOrder
    <2>3. CASE Reached(count + 1, target)
      BY <1>3, <2>1, <2>2, <2>3 DEF Check
    <2>4. CASE ~Reached(count + 1, target)
      BY <1>3, <2>1, <2>2, <2>4 DEF Check, work
    <2>5. QED
      BY <2>3, <2>4
  <1>4. QED
    BY <1>2, <1>3

\* The end of a process resets what was in memory.
LEMMA ForgetTypes ==
  ASSUME Forget
  PROVE  /\ app' = "none" /\ mState' = STOP /\ mTargetCount' = 0
         /\ mCurrentCount' = 0 /\ mFailureCount' = 0 /\ mCountDownTime' = 0
         /\ ready' = 0 /\ later' = 0 /\ checks' = <<>> /\ confirm' = FALSE
         /\ job' = "none" /\ step' = 1 /\ checks' \in Seq(0 .. Delay) /\ InOrder'
  <1>1. Len(<<>>) = 0 /\ <<>> \in Seq(0 .. Delay)
    OBVIOUS
  <1>2. Ordered(<<>>)
    BY <1>1 DEF Ordered
  <1>3. QED
    BY <1>1, <1>2 DEF Forget, Works, InOrder

\* The types hold when the app is installed, and every step keeps them.
LEMMA TypedInit == Init => Typed
  <1> SUFFICES ASSUME Init PROVE Typed
    OBVIOUS
  <1>1. <<>> \in Seq(0 .. Delay) /\ Len(<<>>) = 0
    OBVIOUS
  <1>2. Ordered(<<>>)
    BY <1>1 DEF Ordered
  <1>3. InOrder
    BY <1>2 DEF Init, InOrder
  <1>4. confirm \in BOOLEAN
    BY DEF Init
  <1>5. checks \in Seq(0 .. Delay)
    BY <1>1 DEF Init
  <1>6. sp \in [flag : {RUNNING, STOP}, count : Nat, fails : Nat, max : Nat]
    BY DEF Init
  <1>7. cuts \in 0 .. MaxCuts /\ entries \in 0 .. MaxEntries
        /\ mCountDownTime \in 0 .. Delay
    BY BootAssumption DEF Init
  <1>8. QED
    BY <1>3, <1>4, <1>5, <1>6, <1>7 DEF Init, Typed, TypeOK, Jobs

\* Every step keeps the types and the order of the posted checks.
LEMMA TypedStep == Typed /\ [Next]_vars => Typed'
  <1> SUFFICES ASSUME Typed, [Next]_vars PROVE Typed'
    OBVIOUS
  <1> kind' \in Kinds
    BY DEF Typed, TypeOK, Next, vars
  <1> USE BootAssumption DEF Typed, TypeOK, Jobs, Works, mem, msgs, work, past
  <1>1. CASE UNCHANGED vars
    BY <1>1 DEF vars, moving, InOrder
  <1>2. CASE Start
    BY <1>2 DEF Start, Shown, Idle, InOrder
  <1>3. CASE Confirm
    <2>1. confirm' \in BOOLEAN
      BY <1>3 DEF Confirm
    <2>2. QED
      BY <1>3, <2>1 DEF Confirm, InOrder
  <1>4. CASE UserStops \/ Hide \/ Dismiss
    <2>1. confirm' \in BOOLEAN
      BY <1>4 DEF UserStops, Hide, Dismiss
    <2>2. CASE UserStops
      BY <2>1, <2>2 DEF UserStops, InOrder
    <2>3. CASE Hide
      BY <2>1, <2>3 DEF Hide, InOrder
    <2>4. CASE Dismiss
      BY <2>1, <2>4 DEF Dismiss, InOrder
    <2>5. QED
      BY <1>4, <2>2, <2>3, <2>4
  <1>5. CASE Return
    BY <1>5, CheckTypes DEF Return
  <1>6. CASE Leave
    <2>1. CASE mState = RUNNING
      BY <1>6, <2>1 DEF Leave, InOrder
    <2>2. CASE mState # RUNNING
      BY <1>6, <2>2, ForgetTypes DEF Leave
    <2>3. QED
      BY <2>1, <2>2
  <1>7. CASE Open
    BY <1>7, CheckTypes DEF Open, Load
  <1>8. CASE Handle
    BY <1>8, SMTT(30) DEF Handle, Counting, InOrder
  <1>9. CASE RunCheck
    <2>1. checks' \in Seq(0 .. Delay) /\ InOrder'
      BY <1>9, OrderedTail DEF RunCheck, Due, InOrder
    <2>2. QED
      BY <1>9, <2>1 DEF RunCheck, Found
  <1>10. CASE Commit
    <2>1. sp' \in [flag : {RUNNING, STOP}, count : Nat, fails : Nat, max : Nat]
      <3>1. step \in 1 .. 4
        BY <1>10 DEF Commit, Keys
      <3>2. CASE job = "save"
        <4>1. sp' = [sp EXCEPT ![Keys[step]] = Saved[Keys[step]]]
          BY <1>10, <3>2 DEF Commit
        <4>2. Keys[step] \in {"flag", "count", "fails", "max"}
          BY <3>1 DEF Keys
        <4>3. QED
          BY <4>1, <4>2 DEF Saved, Running
      <3>3. CASE job # "save"
        BY <1>10, <3>1, <3>3 DEF Commit, Keys, Cleaned
      <3>4. QED
        BY <3>2, <3>3
    <2>2. QED
      BY <1>10, <2>1 DEF Commit, Keys, InOrder
  <1>11. CASE Finish
    <2>1. CASE job = "save" /\ kind = "reboot"
      BY <1>11, <2>1, ForgetTypes DEF Finish
    <2>2. CASE job = "leave"
      BY <1>11, <2>2, ForgetTypes DEF Finish
    <2>3. CASE (job = "save" /\ kind = "timing") \/ job = "stop"
      <3>1. confirm' \in BOOLEAN
        BY <1>11, <2>3 DEF Finish
      <3>2. phase' \in {"up", "leaving", "off"} /\ mState' \in {RUNNING, STOP}
            /\ job' = "none" /\ step' = 1
        BY <1>11, <2>3 DEF Finish
      <3>3. app' = app /\ mTargetCount' = mTargetCount
            /\ mCurrentCount' = mCurrentCount /\ mFailureCount' = mFailureCount
            /\ mCountDownTime' = mCountDownTime /\ ready' = ready /\ later' = later
            /\ checks' = checks
        BY <1>11, <2>3 DEF Finish
      <3>4. sp' = sp /\ cuts' = cuts /\ entries' = entries /\ goal' = goal
            /\ boots' = boots /\ failed' = failed
        BY <1>11 DEF Finish
      <3>5. QED
        BY <3>1, <3>2, <3>3, <3>4 DEF InOrder
    <2>4. QED
      BY <1>11, <2>1, <2>2, <2>3 DEF Finish
  <1>12. CASE Tick
    <2>1. checks' = Sooner(checks)
      BY <1>12 DEF Tick, Sooner
    <2>2. checks' \in Seq(0 .. Delay) /\ InOrder'
      BY <1>12, <2>1, OrderedTick DEF Tick, Due, InOrder
    <2>3. QED
      BY <1>12, <2>2 DEF Tick
  <1>13. CASE PowersDown \/ Cut
    <2>1. CASE PowersDown
      BY <2>1, ForgetTypes DEF PowersDown
    <2>2. CASE Cut
      <3>1. cuts' \in 0 .. MaxCuts
        BY <2>2 DEF Cut
      <3>2. confirm' \in BOOLEAN
        BY <2>2, ForgetTypes DEF Cut
      <3>3. QED
        BY <2>2, <3>1, <3>2, ForgetTypes DEF Cut
    <2>3. QED
      BY <1>13, <2>1, <2>2
  <1>14. CASE Boot
    <2>1. CASE Resumes
      BY <1>14, <2>1, CheckTypes DEF Boot, Load
    <2>2. CASE ~Resumes
      BY <1>14, <2>2 DEF Boot, InOrder
    <2>3. QED
      BY <2>1, <2>2
  <1>15. QED
    BY <1>1, <1>2, <1>3, <1>4, <1>5, <1>6, <1>7, <1>8, <1>9, <1>10, <1>11, <1>12,
       <1>13, <1>14 DEF Next, User, Looper

\* The variables keep their types: in particular no check is overdue and the
\* countdown stays within its delay (handleMsg, check).
THEOREM TypeCorrect == Spec => []TypeOK
  <1>1. Typed => TypeOK
    BY DEF Typed
  <1>2. QED
    BY <1>1, TypedInit, TypedStep, PTL DEF Spec
-------------------------------------------------------------------------------
(* The run and what the preferences hold of it.                            *)

\* Nothing is in memory while there is no process.
LEMMA ForgottenStep == Forgotten /\ [Next]_vars => Forgotten'
  <1> SUFFICES ASSUME Forgotten, [Next]_vars PROVE Forgotten'
    OBVIOUS
  <1> USE DEF Forgotten, Idle, Shown, mem, msgs, work, past
  <1>1. CASE UNCHANGED vars
    BY <1>1 DEF vars, moving
  <1>2. CASE Start \/ Confirm \/ Dismiss \/ UserStops \/ Hide \/ Return \/ Open
    BY <1>2 DEF Start, Confirm, Dismiss, UserStops, Hide, Return, Open, Load
  <1>3. CASE Leave
    BY <1>3, ForgetTypes DEF Leave
  <1>4. CASE Handle \/ RunCheck \/ Tick
    BY <1>4 DEF Handle, RunCheck, Tick
  <1>5. CASE Commit
    BY <1>5 DEF Commit
  <1>6. CASE Finish
    BY <1>6, ForgetTypes DEF Finish
  <1>7. CASE PowersDown \/ Cut
    BY <1>7, ForgetTypes DEF PowersDown, Cut
  <1>8. CASE Boot
    BY <1>8 DEF Boot, Load
  <1>9. QED
    BY <1>1, <1>2, <1>3, <1>4, <1>5, <1>6, <1>7, <1>8 DEF Next, User, Looper

\* Two preferences files with the same four values are the same.
LEMMA CleanedFields ==
  /\ Cleaned.flag = STOP /\ Cleaned.count = 0 /\ Cleaned.fails = 0 /\ Cleaned.max = 0
  /\ TypeOK => (sp = Cleaned <=> sp.flag = STOP /\ sp.count = 0 /\ sp.fails = 0
                                   /\ sp.max = 0)
  BY SMTT(30) DEF Cleaned, TypeOK

\* A commit brings the preferences closer to the memory, or to being clean.
LEMMA PersistedCommit ==
  ASSUME Typed, Forgotten, Persisted, Commit
  PROVE  Persisted'
  <1> USE DEF Typed, Forgotten, mem, Live, Stored, RUNNING, STOP
  <1>1. step \in 1 .. 4 /\ step' = step + 1 /\ job' = job /\ job # "none"
        /\ UNCHANGED <<phase, app, mem>> /\ job \in Jobs /\ app # "none"
    BY DEF Commit, Keys, TypeOK
  <1>2. CASE job = "save"
    <2>1. sp' = [sp EXCEPT ![Keys[step]] = Running[Keys[step]]]
      BY <1>2 DEF Commit, Saved
    <2>2. CASE step = 1
      <3>1. sp'.flag = RUNNING /\ sp'.count = sp.count /\ sp'.max = sp.max
        BY <1>2, <2>1, <2>2 DEF Keys, Running, TypeOK, Persisted
      <3>2. QED
        BY <1>1, <1>2, <2>2, <3>1, CleanedFields DEF Persisted, TypeOK
    <2>3. CASE step = 2
      <3>1. sp'.flag = sp.flag /\ sp'.count = mCurrentCount /\ sp'.max = sp.max
        BY <1>2, <2>1, <2>3 DEF Keys, Running, TypeOK
      <3>2. QED
        BY <1>1, <1>2, <2>3, <3>1, CleanedFields DEF Persisted, TypeOK
    <2>4. CASE step = 3
      <3>1. sp'.flag = sp.flag /\ sp'.count = sp.count /\ sp'.max = sp.max
            /\ sp'.fails = mFailureCount
        BY <1>2, <2>1, <2>4 DEF Keys, Running, TypeOK
      <3>2. QED
        BY <1>1, <1>2, <2>4, <3>1, CleanedFields DEF Persisted, TypeOK
    <2>5. CASE step = 4
      <3>1. sp'.flag = sp.flag /\ sp'.count = sp.count /\ sp'.max = mTargetCount
            /\ sp'.fails = sp.fails
        BY <1>2, <2>1, <2>5 DEF Keys, Running, TypeOK
      <3>2. QED
        BY <1>1, <1>2, <2>5, <3>1, CleanedFields DEF Persisted, TypeOK
    <2>6. QED
      BY <1>1, <2>2, <2>3, <2>4, <2>5
  <1>3. CASE job \in {"stop", "leave"}
    <2>1. sp' = [sp EXCEPT ![Keys[step]] = Cleaned[Keys[step]]]
      BY <1>3 DEF Commit
    <2>2. \A k \in 1 .. step : sp'[Keys[k]] = Cleaned[Keys[k]]
      <3> SUFFICES ASSUME NEW k \in 1 .. step PROVE sp'[Keys[k]] = Cleaned[Keys[k]]
        OBVIOUS
      <3>1. k \in 1 .. 4 /\ Keys[k] \in DOMAIN sp
        BY <1>1, SMTT(30) DEF Keys, TypeOK
      <3>2. k < step => sp[Keys[k]] = Cleaned[Keys[k]]
        BY <1>1, <1>3, <3>1 DEF Persisted
      <3>3. Keys[step] \in DOMAIN sp
        BY <1>1 DEF Keys, TypeOK
      <3>4. QED
        BY <1>1, <2>1, <3>1, <3>2, <3>3
    <2>3. mState = STOP => sp' = Cleaned
      <3> SUFFICES ASSUME mState = STOP PROVE sp' = Cleaned
        OBVIOUS
      <3>1. sp = Cleaned
        BY <1>1 DEF Persisted
      <3>2. QED
        BY <1>1, <2>1, <3>1 DEF Keys, Cleaned
    <2>4. step' - 1 = step
      BY <1>1
    <2>5. QED
      BY <1>1, <1>3, <2>2, <2>3, <2>4 DEF Persisted, TypeOK
  <1>4. QED
    BY <1>1, <1>2, <1>3 DEF Jobs

\* A process that ends outside stop() leaves preferences that are clean or
\* describe a run that has rounds to go.
LEMMA PersistedEnd ==
  ASSUME ~CutInStop, Typed, Forgotten, Persisted, phase # "off", MayFail,
         Forget, phase' = "off", UNCHANGED sp
  PROVE  Persisted'
  <1> USE DEF Typed, Forgotten, Live, Stored, RUNNING, STOP
  <1>1. app' = "none" /\ mState' = STOP /\ job' = "none"
    BY ForgetTypes
  <1>2. job \in {"none", "save"}
    BY DEF MayFail, TypeOK, Jobs
  <1>3. sp = Cleaned \/ (sp.flag = RUNNING /\ (sp.max = 0 \/ sp.count < sp.max))
    <2>1. CASE app = "none" \/ mState = STOP
      BY <2>1 DEF Persisted
    <2>2. CASE app # "none" /\ mState = RUNNING
      BY <1>2, <2>2 DEF Persisted, TypeOK
    <2>3. QED
      BY <2>1, <2>2 DEF TypeOK
  <1>4. QED
    BY <1>1, <1>3, CleanedFields DEF Persisted

\* The last commit of stop() leaves clean preferences.
LEMMA CleanedAtLast ==
  ASSUME TypeOK, Persisted, step = 5, job \in {"stop", "leave"}
  PROVE  sp = Cleaned
  <1>1. \A k \in 1 .. 4 : sp[Keys[k]] = Cleaned[Keys[k]]
    BY DEF Persisted
  <1>2. sp.flag = Cleaned.flag /\ sp.count = Cleaned.count
        /\ sp.fails = Cleaned.fails /\ sp.max = Cleaned.max
    <2>1. 1 \in 1 .. 4 /\ 2 \in 1 .. 4 /\ 3 \in 1 .. 4 /\ 4 \in 1 .. 4
      OBVIOUS
    <2>2. Keys[1] = "flag" /\ Keys[2] = "count" /\ Keys[3] = "fails" /\ Keys[4] = "max"
      BY DEF Keys
    <2>3. QED
      BY <1>1, <2>1, <2>2
  <1>3. QED
    BY <1>2, CleanedFields

\* No step leaves preferences that belong to another run.
LEMMA PersistedStep ==
  ASSUME ~CutInStop, Typed, Forgotten, Persisted, [Next]_vars
  PROVE  Persisted'
  <1> USE BootAssumption
      DEF Typed, Forgotten, Idle, Shown, Works, mem, msgs, work, past, Live, Stored,
          RUNNING, STOP
  <1>1. CASE UNCHANGED vars
    BY <1>1 DEF vars, moving, Persisted
  <1>2. CASE Start
    <2>1. sp = Cleaned /\ app' # "none" /\ mState' = RUNNING /\ mCurrentCount' = 0
          /\ job' = "none" /\ sp' = sp
      BY <1>2 DEF Start, Persisted
    <2>2. mTargetCount' \in Nat /\ mTargetCount' > 0
      BY <1>2 DEF Start
    <2>3. QED
      BY <2>1, <2>2, CleanedFields DEF Persisted
  <1>3. CASE Confirm \/ Dismiss \/ Hide \/ RunCheck \/ Tick
    <2>1. UNCHANGED <<phase, mState, mTargetCount, mCurrentCount, job, step, sp>>
          /\ app # "none" /\ app' # "none" /\ job = "none"
      BY <1>3 DEF Confirm, Dismiss, Hide, RunCheck, Tick
    <2>2. QED
      BY <2>1 DEF Persisted
  <1>4. CASE UserStops
    <2>1. UNCHANGED <<phase, mState, mTargetCount, mCurrentCount, sp, app>>
          /\ app # "none" /\ job' = "stop" /\ step' = 1
      BY <1>4 DEF UserStops
    <2>2. QED
      BY <2>1 DEF Persisted
  <1>5. CASE Return
    <2>1. CASE mState = STOP
      <3>1. UNCHANGED <<phase, mState, mTargetCount, mCurrentCount, job, step, sp>>
            /\ app # "none" /\ app' # "none" /\ job = "none"
        BY <1>5, <2>1 DEF Return, Check
      <3>2. QED
        BY <3>1 DEF Persisted
    <2>2. CASE mState = RUNNING
      <3>1. UNCHANGED <<phase, mState, mTargetCount, sp>> /\ app' # "none"
            /\ mCurrentCount' = mCurrentCount + 1 /\ app # "none"
        BY <1>5, <2>2 DEF Return, Check
      <3>2. CASE Reached(mCurrentCount + 1, mTargetCount)
        <4>1. job' = "stop" /\ step' = 1
          BY <1>5, <2>2, <3>2 DEF Return, Check
        <4>2. QED
          BY <1>5, <2>2, <3>1, <4>1 DEF Persisted, TypeOK, Return
      <3>3. CASE ~Reached(mCurrentCount + 1, mTargetCount)
        <4>1. job' = "none" /\ job = "none"
          BY <1>5, <2>2, <3>3 DEF Return, Check
        <4>2. mCurrentCount + 1 < mTargetCount
          BY <3>3 DEF TypeOK, Reached
        <4>3. sp = Cleaned \/ (sp.flag = RUNNING /\ sp.count <= mCurrentCount
                               /\ sp.max = mTargetCount)
          BY <2>2, <4>1 DEF Persisted
        <4>4. QED
          BY <2>2, <3>1, <4>1, <4>2, <4>3, CleanedFields DEF Persisted, TypeOK
      <3>4. QED
        BY <3>2, <3>3
    <2>3. QED
      BY <2>1, <2>2 DEF TypeOK
  <1>6. CASE Leave
    <2>1. CASE mState = RUNNING
      <3>1. UNCHANGED <<phase, mState, mTargetCount, mCurrentCount, sp, app>>
            /\ app # "none" /\ job' = "leave" /\ step' = 1
        BY <1>6, <2>1 DEF Leave
      <3>2. QED
        BY <3>1 DEF Persisted
    <2>2. CASE mState # RUNNING
      <3>1. sp = Cleaned /\ sp' = sp /\ app' = "none" /\ mState' = STOP /\ job' = "none"
        BY <1>6, <2>2, ForgetTypes DEF Leave, Persisted, TypeOK
      <3>2. QED
        BY <3>1, CleanedFields DEF Persisted
    <2>3. QED
      BY <2>1, <2>2
  <1>7. CASE Open
    <2>1. sp = Cleaned /\ sp' = sp /\ sp.flag = STOP
      BY <1>7, CleanedFields DEF Open, Persisted
    <2>2. app' # "none" /\ mState' = STOP /\ job' = "none"
      BY <1>7, <2>1 DEF Open, Load, Check
    <2>3. QED
      BY <2>1, <2>2 DEF Persisted
  <1>8. CASE Handle
    <2>1. UNCHANGED <<phase, app, mState, mTargetCount, mCurrentCount, sp>>
          /\ app # "none" /\ job = "none"
      BY <1>8 DEF Handle
    <2>2. job' = "none" \/ (job' = "save" /\ step' = 1 /\ mState = RUNNING)
      BY <1>8 DEF Handle
    <2>3. QED
      BY <2>1, <2>2 DEF Persisted
  <1>9. CASE Commit
    BY <1>9, PersistedCommit
  <1>10. CASE Finish
    <2>0. step = 5 /\ sp' = sp /\ app # "none"
      BY <1>10, SMTT(30) DEF Finish, Keys, TypeOK
    <2>1. CASE job = "save" /\ kind = "reboot"
      <3>1. Forget /\ phase' = "off" /\ UNCHANGED sp
        BY <1>10, <2>1 DEF Finish
      <3>2. phase # "off" /\ MayFail
        BY <2>0, <2>1 DEF MayFail
      <3>3. QED
        BY <3>1, <3>2, PersistedEnd
    <2>2. CASE job = "save" /\ kind = "timing"
      <3>1. UNCHANGED <<app, mState, mTargetCount, mCurrentCount>> /\ job' = "none"
        BY <1>10, <2>2 DEF Finish
      <3>2. QED
        BY <2>0, <2>2, <3>1, CleanedFields DEF Persisted, TypeOK
    <2>3. CASE job \in {"stop", "leave"}
      <3>1. sp = Cleaned
        BY <2>0, <2>3, CleanedAtLast
      <3>2. mState' = STOP /\ job' = "none"
        <4>1. CASE job = "stop"
          BY <1>10, <4>1 DEF Finish
        <4>2. CASE job = "leave"
          BY <1>10, <4>2, ForgetTypes DEF Finish
        <4>3. QED
          BY <2>3, <4>1, <4>2
      <3>3. QED
        BY <2>0, <3>1, <3>2, CleanedFields DEF Persisted
    <2>4. QED
      BY <1>10, <2>1, <2>2, <2>3 DEF Finish
  <1>11. CASE PowersDown \/ Cut
    <2>1. phase # "off" /\ MayFail /\ Forget /\ phase' = "off" /\ UNCHANGED sp
      BY <1>11 DEF PowersDown, Cut
    <2>2. QED
      BY <2>1, PersistedEnd
  <1>12. CASE Boot
    <2>1. app = "none" /\ mState = STOP /\ job = "none" /\ sp' = sp /\ phase' = "up"
      BY <1>12 DEF Boot
    <2>2. CASE ~Resumes
      <3>1. sp = Cleaned
        BY <1>12, <2>1, <2>2 DEF Boot, Resumes, Persisted, TypeOK
      <3>2. UNCHANGED <<app, mState, mTargetCount, mCurrentCount, job, step>>
        BY <1>12, <2>2 DEF Boot
      <3>3. QED
        BY <2>1, <3>1, <3>2, CleanedFields DEF Persisted
    <2>3. CASE Resumes
      <3>1. app' = "shown" /\ mState' = RUNNING /\ mTargetCount' = sp.max
            /\ mCurrentCount' = sp.count + 1 /\ sp.flag = RUNNING
        BY <1>12, <2>3 DEF Boot, Load, Check, Resumes
      <3>2. sp.max = 0 \/ sp.count < sp.max
        BY <2>1, <3>1 DEF Persisted
      <3>3. CASE Reached(sp.count + 1, sp.max)
        <4>1. job' = "stop" /\ step' = 1
          BY <1>12, <2>3, <3>1, <3>3 DEF Boot, Load, Check
        <4>2. QED
          BY <2>1, <3>1, <3>2, <4>1 DEF Persisted, TypeOK
      <3>4. CASE ~Reached(sp.count + 1, sp.max)
        <4>1. job' = "none"
          BY <1>12, <2>1, <2>3, <3>1, <3>4 DEF Boot, Load, Check
        <4>2. QED
          BY <2>1, <3>1, <3>4, <4>1, CleanedFields DEF Persisted, TypeOK, Reached
      <3>5. QED
        BY <3>3, <3>4
    <2>4. QED
      BY <2>2, <2>3
  <1>13. QED
    BY <1>1, <1>2, <1>3, <1>4, <1>5, <1>6, <1>7, <1>8, <1>9, <1>10, <1>11, <1>12
       DEF Next, User, Looper

PersistedInv == Typed /\ Forgotten /\ Persisted

\* Types, memory and preferences agree in every state.
LEMMA PersistedAlways == ~CutInStop /\ Spec => []PersistedInv
  <1>1. ASSUME Init PROVE Forgotten /\ Persisted
    BY <1>1 DEF Init, Forgotten, Persisted, Live, Stored, Cleaned, RUNNING, STOP
  <1>2. ASSUME ~CutInStop PROVE PersistedInv /\ [Next]_vars => PersistedInv'
    BY <1>2, TypedStep, ForgottenStep, PersistedStep DEF PersistedInv
  <1>3. Init => Typed
    BY TypedInit
  <1>4. Init => PersistedInv
    BY <1>1, <1>3 DEF PersistedInv
  <1>5. CASE CutInStop
    BY <1>5
  <1>6. CASE ~CutInStop
    <2>1. PersistedInv /\ [Next]_vars => PersistedInv'
      BY <1>2, <1>6
    <2>2. QED
      BY <1>4, <2>1, PTL DEF Spec
  <1>7. QED
    BY <1>5, <1>6

-------------------------------------------------------------------------------
(* The test implements SurvivingRun.                                       *)

\* The end of a process is a fall back, the end of a run or nothing.
LEMMA RunAtEnd ==
  ASSUME ~CutInStop, PersistedInv, PersistedInv', phase # "off", MayFail,
         Forget, phase' = "off", UNCHANGED sp
  PROVE  Run!FallBack \/ Run!End \/ UNCHANGED Run!vars
  <1> USE DEF Alive, InMemory, RunGoal, RunDone, Run!FallBack, Run!End, Run!vars,
              RUNNING, STOP
  <1>1. TypeOK /\ Forgotten /\ Persisted
    BY DEF PersistedInv, Typed
  <1>2. app' = "none" /\ job \in {"none", "save"}
    BY <1>1, ForgetTypes DEF MayFail, TypeOK, Jobs
  <1>3. CASE app = "none"
    BY <1>2, <1>3
  <1>4. CASE app # "none" /\ mState = STOP
    <2>1. sp.flag = STOP
      BY <1>1, <1>4, CleanedFields DEF Persisted
    <2>2. QED
      BY <1>2, <1>4, <2>1
  <1>5. CASE app # "none" /\ mState = RUNNING
    <2>1. Live /\ mCurrentCount < mTargetCount
      BY <1>1, <1>2, <1>5 DEF Persisted, Live
    <2>2. CASE sp = Cleaned
      <3>1. ~Alive' /\ Alive
        BY <1>1, <1>2, <1>5, <2>1, <2>2, CleanedFields DEF TypeOK
      <3>2. QED
        BY <1>1, <1>5, <2>1, <3>1 DEF TypeOK
    <2>3. CASE Stored /\ sp.max = 0
      <3>1. ~Alive' /\ Alive
        BY <1>1, <1>2, <1>5, <2>1, <2>3 DEF TypeOK
      <3>2. QED
        BY <1>1, <1>5, <2>1, <3>1 DEF TypeOK
    <2>4. CASE Stored /\ sp.max = mTargetCount
      <3>1. Alive /\ Alive' /\ sp.count \in 0 .. mCurrentCount
        BY <1>1, <1>2, <1>5, <2>1, <2>4 DEF TypeOK, Stored
      <3>2. RunGoal = mTargetCount /\ RunDone = mCurrentCount
            /\ RunGoal' = sp.max /\ RunDone' = sp.count
        BY <1>2, <1>5, <3>1
      <3>3. QED
        BY <1>1, <2>1, <2>4, <3>1, <3>2 DEF TypeOK
    <2>5. QED
      BY <1>1, <2>1, <2>2, <2>3, <2>4 DEF Persisted
  <1>6. QED
    BY <1>1, <1>3, <1>4, <1>5 DEF TypeOK

\* Every step of the test is a step of the abstract run or none.
LEMMA RunStep ==
  ASSUME ~CutInStop, PersistedInv, PersistedInv', [Next]_vars
  PROVE  [Run!Next]_(Run!vars)
  <1> USE DEF Alive, InMemory, RunGoal, RunDone, Run!Next, Run!vars, Idle, Shown, Works,
              mem, msgs, work, past, RUNNING, STOP
  <1>0. TypeOK /\ Forgotten /\ Persisted
    BY DEF PersistedInv, Typed
  <1>1. CASE UNCHANGED vars
    BY <1>1 DEF vars, moving
  <1>2. CASE Start
    <2>1. ~Alive /\ Alive' /\ mTargetCount' \in Targets
      BY <1>2, BootAssumption DEF Start
    <2>2. RunGoal = 0 /\ RunGoal' = mTargetCount' /\ RunDone' = 0
      BY <1>2, <2>1 DEF Start
    <2>3. QED
      BY <2>1, <2>2 DEF Run!Begin
  <1>3. CASE Confirm \/ Dismiss \/ Hide \/ RunCheck \/ Tick \/ UserStops \/ Handle \/ Commit
    <2>1. UNCHANGED <<mState, mTargetCount, mCurrentCount>> /\ app # "none" /\ app' # "none"
      BY <1>0, <1>3
         DEF Confirm, Dismiss, Hide, RunCheck, Tick, UserStops, Handle, Commit, Forgotten
    <2>2. QED
      BY <2>1
  <1>4. CASE Return
    <2>1. app # "none" /\ app' # "none" /\ mTargetCount' = mTargetCount
          /\ mState' = mState
      BY <1>4 DEF Return, Check
    <2>2. CASE mState = RUNNING
      <3>1. mCurrentCount < mTargetCount /\ mCurrentCount' = mCurrentCount + 1
        BY <1>0, <1>4, <2>2 DEF Return, Check, Persisted, Live
      <3>2. Alive /\ Alive'
        BY <1>0, <2>1, <2>2, <3>1 DEF TypeOK
      <3>3. QED
        BY <1>0, <2>1, <3>1, <3>2 DEF Run!Advance, TypeOK
    <2>3. CASE mState # RUNNING
      BY <2>1, <2>3
    <2>4. QED
      BY <2>2, <2>3
  <1>5. CASE Leave
    <2>1. CASE mState = RUNNING
      BY <1>5, <2>1 DEF Leave
    <2>2. CASE mState # RUNNING
      <3>1. sp = Cleaned /\ sp' = sp /\ app' = "none" /\ app # "none"
        BY <1>0, <1>5, <2>2, ForgetTypes DEF Leave, Persisted, TypeOK
      <3>2. ~Alive /\ ~Alive'
        BY <2>2, <3>1, CleanedFields
      <3>3. QED
        BY <3>2
    <2>3. QED
      BY <2>1, <2>2
  <1>6. CASE Open
    <2>1. sp = Cleaned
      BY <1>0, <1>6 DEF Open, Persisted
    <2>2. app = "none" /\ app' # "none" /\ mState' = STOP
      BY <1>6, <2>1, CleanedFields DEF Open, Load, Check
    <2>3. ~Alive /\ ~Alive'
      BY <2>1, <2>2, CleanedFields
    <2>4. QED
      BY <2>3
  <1>7. CASE Finish
    <2>0. step = 5 /\ sp' = sp /\ app # "none"
      BY <1>0, <1>7 DEF Finish, Keys, TypeOK, Forgotten
    <2>1. CASE job = "save" /\ kind = "reboot"
      <3>1. Forget /\ phase' = "off" /\ UNCHANGED sp
        BY <1>7, <2>1 DEF Finish
      <3>2. phase # "off" /\ MayFail
        BY <1>0, <2>0, <2>1 DEF MayFail, Forgotten
      <3>3. QED
        BY <3>1, <3>2, RunAtEnd
    <2>2. CASE job = "save" /\ kind = "timing"
      BY <1>7, <2>0, <2>2 DEF Finish
    <2>3. CASE job \in {"stop", "leave"}
      <3>1. sp = Cleaned
        BY <1>0, <2>0, <2>3, CleanedAtLast
      <3>2. mState' = STOP
        BY <1>7, <2>3, ForgetTypes DEF Finish
      <3>3. ~Alive'
        BY <2>0, <3>1, <3>2, CleanedFields
      <3>4. RunGoal \in Nat /\ RunGoal' = 0 /\ RunDone' = 0
        BY <1>0, <3>3 DEF TypeOK
      <3>5. RunGoal = 0 => RunDone = 0
        BY <1>0, <2>0 DEF TypeOK
      <3>6. QED
        BY <3>4, <3>5 DEF Run!End
    <2>4. QED
      BY <1>7, <2>1, <2>2, <2>3 DEF Finish
  <1>8. CASE PowersDown \/ Cut
    <2>1. phase # "off" /\ MayFail /\ Forget /\ phase' = "off" /\ UNCHANGED sp
      BY <1>8 DEF PowersDown, Cut
    <2>2. QED
      BY <2>1, RunAtEnd
  <1>9. CASE Boot
    <2>1. app = "none" /\ sp' = sp
      BY <1>0, <1>9 DEF Boot, Forgotten
    <2>2. CASE ~Resumes
      <3>1. UNCHANGED <<app, mState>>
        BY <1>9, <2>2 DEF Boot
      <3>2. QED
        BY <2>1, <2>2, <3>1 DEF Resumes
    <2>3. CASE Resumes
      <3>1. app' # "none" /\ mState' = RUNNING /\ mTargetCount' = sp.max
            /\ mCurrentCount' = sp.count + 1 /\ sp.flag = RUNNING
        BY <1>9, <2>3 DEF Boot, Load, Check, Resumes
      <3>2. CASE sp.max = 0
        <4>1. ~Alive /\ ~Alive'
          BY <1>0, <2>1, <3>1, <3>2 DEF TypeOK
        <4>2. QED
          BY <4>1
      <3>3. CASE sp.count < sp.max
        <4>1. Alive /\ Alive'
          BY <1>0, <2>1, <3>1, <3>3 DEF TypeOK
        <4>2. QED
          BY <1>0, <2>1, <3>1, <3>3, <4>1 DEF Run!Advance, TypeOK
      <3>4. QED
        BY <1>0, <2>1, <3>1, <3>2, <3>3 DEF Persisted
    <2>4. QED
      BY <2>2, <2>3
  <1>10. QED
    BY <1>1, <1>2, <1>3, <1>4, <1>5, <1>6, <1>7, <1>8, <1>9 DEF Next, User, Looper

\* When the power does not fail inside stop(), the test implements SurvivingRun
\* for any number of power failures and returns to the app (saveState, onCreate).
THEOREM Survives == ~CutInStop /\ Spec => SurvivesReboots
  <1>1. Init => Run!Init
    BY DEF Init, Run!Init, RunGoal, RunDone, Alive, InMemory, RUNNING, STOP
  <1>2. CASE CutInStop
    BY <1>2
  <1>3. CASE ~CutInStop
    <2>1. PersistedInv /\ PersistedInv' /\ [Next]_vars => [Run!Next]_(Run!vars)
      BY <1>3, RunStep
    <2>2. QED
      BY <1>1, <1>3, <2>1, PersistedAlways, PTL DEF Spec, Run!Spec, SurvivesReboots
  <1>4. QED
    BY <1>2, <1>3
\* Each step of a run that lives leaves something under way that will go on with it.
LEMMA GoesOnStep ==
  ASSUME ~CutInStop, PersistedInv, PersistedInv', [Next]_vars, Alive, GoesOn, Alive'
  PROVE  GoesOn'
  <1> USE DEF Idle, Shown, Works, mem, msgs, work, past, RUNNING, STOP
  <1>0. TypeOK /\ TypeOK' /\ Forgotten /\ Persisted
    BY DEF PersistedInv, Typed
  <1>1. /\ app # "none" => mState = RUNNING
        /\ app' # "none" => mState' = RUNNING
        /\ app = "none" => sp.flag = RUNNING
        /\ app' = "none" => sp'.flag = RUNNING
    BY <1>0 DEF TypeOK, Alive, InMemory
  <1>2. ready \in Nat /\ later \in Nat /\ ready' \in Nat /\ later' \in Nat
    BY <1>0 DEF TypeOK
  <1>3. ASSUME ready' + later' = ready + later, UNCHANGED <<job, phase>>
        PROVE  GoesOn'
    BY <1>3 DEF GoesOn
  <1>4. ASSUME ready' > 0 \/ later' > 0 \/ job' # "none" \/ phase' # "up"
        PROVE  GoesOn'
    <2>0. \A m, n \in Nat : m > 0 \/ n > 0 => m + n > 0
      OBVIOUS
    <2>1. ready' > 0 \/ later' > 0 => ready' + later' > 0
      BY <1>2, <2>0
    <2>2. QED
      BY <1>4, <2>1 DEF GoesOn
  <1>5. CASE UNCHANGED vars \/ Dismiss \/ Hide \/ RunCheck \/ Commit \/ Tick
    <2>1. CASE Tick
      <3>1. ready' + later' = ready + later
        BY <1>2, <2>1 DEF Tick
      <3>2. QED
        BY <1>3, <2>1, <3>1 DEF Tick
    <2>2. CASE UNCHANGED vars \/ Dismiss \/ Hide \/ RunCheck \/ Commit
      <3>1. UNCHANGED <<ready, later, job, phase>>
        BY <2>2 DEF vars, moving, Dismiss, Hide, RunCheck, Commit
      <3>2. QED
        BY <1>3, <3>1
    <2>3. QED
      BY <1>5, <2>1, <2>2
  <1>6. CASE Start \/ UserStops \/ Confirm
    BY <1>2, <1>1, <1>4, <1>6 DEF Start, UserStops, Confirm
  <1>7. CASE Handle
    BY <1>2, <1>1, <1>4, <1>7 DEF Handle
  <1>8. ASSUME NEW n, NEW target, NEW fails, Check(RUNNING, n, target, fails)
        PROVE  GoesOn'
    <2>1. CASE Reached(n + 1, target)
      BY <1>4, <1>8, <2>1 DEF Check
    <2>2. CASE ~Reached(n + 1, target)
      BY <1>2, <1>4, <1>8, <2>2 DEF Check
    <2>3. QED
      BY <2>1, <2>2
  <1>9. CASE Return
    BY <1>1, <1>8, <1>9 DEF Return
  <1>10. CASE Leave
    BY <1>1, <1>4, <1>10 DEF Leave
  <1>11. CASE Open
    <2>1. app = "none" /\ sp = Cleaned
      BY <1>0, <1>11 DEF Open, Persisted
    <2>2. QED
      BY <1>1, <2>1, CleanedFields
  <1>12. CASE Finish
    <2>1. CASE job = "save"
      BY <1>4, <1>12, <2>1 DEF Finish
    <2>2. CASE job \in {"stop", "leave"}
      <3>1. step = 5 /\ app # "none" /\ sp' = sp
        <4>1. step > 4 /\ job # "none" /\ sp' = sp
          BY <1>12 DEF Finish, Keys
        <4>2. step \in 1 .. 5
          BY <1>0 DEF TypeOK
        <4>3. app # "none"
          BY <1>0, <4>1 DEF Forgotten
        <4>4. QED
          BY <4>1, <4>2, <4>3
      <3>2. sp' = Cleaned
        BY <1>0, <2>2, <3>1, CleanedAtLast
      <3>3. mState' = STOP
        BY <1>12, <2>2, ForgetTypes DEF Finish
      <3>4. QED
        BY <1>1, <3>2, <3>3, CleanedFields
    <2>3. QED
      BY <1>12, <2>1, <2>2 DEF Finish
  <1>13. CASE PowersDown \/ Cut
    BY <1>4, <1>13 DEF PowersDown, Cut
  <1>14. CASE Boot
    <2>1. app = "none" /\ Resumes
      BY <1>0, <1>1, <1>14 DEF Boot, Forgotten, Resumes
    <2>2. Check(RUNNING, sp.count, sp.max, sp.fails)
      BY <1>14, <2>1 DEF Boot, Load, Resumes
    <2>3. QED
      BY <1>8, <2>2
  <1>15. QED
    BY <1>5, <1>6, <1>7, <1>9, <1>10, <1>11, <1>12, <1>13, <1>14 DEF Next, User, Looper

\* A run that has begun to go on never lies idle: its countdown has a message, its
\* state is being committed or the device restarts, over any number of restarts, power
\* failures and returns (handleMsg, check, saveState, RebootReceiver.onReceive).
THEOREM RunsGoOn == ASSUME ~CutInStop PROVE Spec => NeverStalls
  <1>1. PersistedInv /\ PersistedInv' /\ [Next]_vars
          => [Alive /\ GoesOn /\ Alive' => GoesOn']_vars
    BY GoesOnStep
  <1>2. QED
    BY <1>1, PersistedAlways, PTL DEF Spec, NeverStalls

\* Each test lives through its restarts as one run that goes on.
THEOREM RunsLiveOn == ASSUME ~CutInStop PROVE Spec => LivesOn
  BY Survives, RunsGoOn, PTL DEF LivesOn

-------------------------------------------------------------------------------
(* One chain of messages: no return to the app.                            *)

\* The chain that a start of the app begins, and the check it posts.
LEMMA ChainLoad ==
  ASSUME Typed, Forgotten, app = "none", Load, UNCHANGED confirm
  PROVE  Chain'
  <1> USE BootAssumption DEF Typed, TypeOK, Works, work, msgs, RUNNING, STOP
  <1>1. ready = 0 /\ later = 0 /\ checks = <<>> /\ ~confirm /\ job = "none"
    BY DEF Forgotten
  <1>2. CASE sp.flag # RUNNING
    <2>1. ready' = 0 /\ later' = 0 /\ job' = "none"
      BY <1>1, <1>2 DEF Load, Check
    <2>2. QED
      BY <1>1, <2>1 DEF Chain
  <1>3. CASE sp.flag = RUNNING /\ Reached(sp.count + 1, sp.max)
    <2>1. ready' = 0 /\ later' = 0 /\ job' = "stop"
      BY <1>3 DEF Load, Check
    <2>2. QED
      BY <1>1, <2>1 DEF Chain
  <1>4. CASE sp.flag = RUNNING /\ ~Reached(sp.count + 1, sp.max)
    <2>1. ready' = 1 /\ later' = 0 /\ job' = "none" /\ mCountDownTime' = Delay
          /\ mState' = RUNNING
      BY <1>1, <1>4 DEF Load, Check
    <2>2. checks' \in {<<>>, <<CheckAfter>>}
      BY <1>1, <1>4 DEF Load, Check
    <2>3. \A i \in 1 .. Len(checks') : checks'[i] + Lead <= Delay
      <3>1. CASE checks' = <<>>
        BY <3>1
      <3>2. CASE checks' = <<CheckAfter>>
        BY <3>2 DEF CheckAfter
      <3>3. QED
        BY <2>2, <3>1, <3>2
    <2>4. QED
      BY <1>1, <2>1, <2>3 DEF Chain
  <1>5. QED
    BY <1>2, <1>3, <1>4

\* No process, no chain.
LEMMA ChainEnd == ASSUME Forget PROVE Chain'
  <1>1. ready' = 0 /\ later' = 0 /\ ~confirm' /\ job' = "none"
    BY ForgetTypes
  <1>2. QED
    BY <1>1 DEF Chain

\* Without returns to the app every step keeps the one chain.
LEMMA ChainStep ==
  ASSUME MaxEntries = 0, Typed, Forgotten, Chain, [Next]_vars
  PROVE  Chain'
  <1> USE BootAssumption
      DEF Typed, TypeOK, Idle, Shown, Works, mem, msgs, work, past, RUNNING, STOP
  <1>0. Len(checks) \in Nat /\ \A i \in 1 .. Len(checks) : checks[i] \in 0 .. Delay
    BY LenProperties, ElementOfSeq
  <1>1. CASE UNCHANGED vars
    BY <1>1 DEF vars, moving, Chain
  <1>2. CASE Start
    BY <1>2 DEF Start, Chain
  <1>3. CASE Confirm
    <2>1. ready' = 1 /\ later' = 0 /\ mCountDownTime' = Delay /\ checks' = checks
          /\ confirm' = FALSE /\ mState' = mState /\ mState = RUNNING /\ job' = "none"
      BY <1>3 DEF Confirm, Chain
    <2>2. \A i \in 1 .. Len(checks) : checks[i] + Lead <= Delay
      BY <1>0, SMTT(30) DEF InOrder, Ordered, CheckAfter
    <2>3. QED
      BY <2>1, <2>2 DEF Chain
  <1>4. CASE UserStops
    BY <1>4 DEF UserStops, Chain
  <1>5. CASE Hide \/ Dismiss
    <2>1. UNCHANGED <<mState, mCountDownTime, msgs, job>> /\ job = "none"
          /\ (confirm' => confirm) /\ (~confirm' /\ confirm => ready + later = 0)
      BY <1>5, SMTT(30) DEF Hide, Dismiss, Chain
    <2>2. QED
      BY <2>1 DEF Chain
  <1>6. CASE Return
    BY <1>6 DEF Return
  <1>7. CASE Leave
    <2>1. CASE mState = RUNNING
      BY <1>7, <2>1 DEF Leave, Chain
    <2>2. CASE mState # RUNNING
      BY <1>7, <2>2, ChainEnd DEF Leave
    <2>3. QED
      BY <2>1, <2>2
  <1>8. CASE Open
    BY <1>8, ChainLoad DEF Open
  <1>9. CASE Handle
    <2>1. ready = 1 /\ later = 0 /\ ~confirm /\ mState = RUNNING /\ job = "none"
      BY <1>9 DEF Handle, Chain
    <2>2. UNCHANGED <<mState, checks>> /\ ready' = 0
      BY <1>9, <2>1 DEF Handle
    <2>6. ~confirm'
      BY <1>9, <2>1 DEF Handle
    <2>3. CASE Counting
      <3>1. later' = 1 /\ mCountDownTime' = mCountDownTime - 1 /\ job' = "none"
        BY <1>9, <2>1, <2>3 DEF Handle
      <3>2. QED
        BY <1>0, <2>1, <2>2, <2>6, <3>1 DEF Chain
    <2>4. CASE ~Counting
      <3>1. later' = 0 /\ job' = "save" /\ mCountDownTime = 0
        BY <1>9, <2>1, <2>4 DEF Handle, Counting
      <3>2. Len(checks) = 0
        BY <1>0, <2>1, <3>1 DEF Chain
      <3>3. checks = <<>>
        BY <3>2, EmptySeq
      <3>4. QED
        BY <2>1, <2>2, <2>6, <3>1, <3>3 DEF Chain
    <2>5. QED
      BY <2>3, <2>4
  <1>10. CASE RunCheck
    <2>1. Len(checks') = Len(checks) - 1
          /\ \A i \in 1 .. Len(checks') : checks'[i] = checks[i + 1]
      BY <1>10, OrderedTail DEF RunCheck, Due, InOrder
    <2>2. UNCHANGED <<mState, mCountDownTime, ready, later, job>> /\ job = "none"
      BY <1>10 DEF RunCheck
    <2>3. confirm' => confirm
      BY <1>10 DEF RunCheck
    <2>4. ready' + later' = 1 =>
            \A i \in 1 .. Len(checks') : checks'[i] + Lead <= mCountDownTime' + later'
      <3> SUFFICES ASSUME ready' + later' = 1, NEW i \in 1 .. Len(checks')
                   PROVE  checks'[i] + Lead <= mCountDownTime' + later'
        OBVIOUS
      <3>1. i + 1 \in 1 .. Len(checks) /\ checks'[i] = checks[i + 1]
        BY <1>0, <2>1
      <3>2. ready + later = 1
        BY <2>2
      <3>3. checks[i + 1] + Lead <= mCountDownTime + later
        BY <3>1, <3>2 DEF Chain
      <3>4. QED
        BY <2>2, <3>1, <3>3
    <2>5. QED
      BY <2>2, <2>3, <2>4 DEF Chain
  <1>11. CASE Tick
    <2>1. Len(checks') = Len(checks)
          /\ \A i \in 1 .. Len(checks) : checks'[i] = checks[i] - 1
      <3>1. checks' = Sooner(checks)
        BY <1>11 DEF Tick, Sooner
      <3>2. QED
        BY <1>11, <3>1, OrderedTick DEF Tick, Due, InOrder
    <2>2. UNCHANGED <<mState, mCountDownTime, confirm, job>> /\ job = "none"
          /\ ready = 0 /\ ready' = later /\ later' = 0
      BY <1>11 DEF Tick
    <2>3. QED
      BY <1>0, <2>1, <2>2, SMTT(30) DEF Chain
  <1>12. CASE Commit
    BY <1>12 DEF Commit, Chain
  <1>13. CASE Finish
    <2>1. ready = 0 /\ later = 0
      BY <1>13 DEF Finish, Chain
    <2>2. CASE (job = "save" /\ kind = "reboot") \/ job = "leave"
      BY <1>13, <2>2, ChainEnd DEF Finish
    <2>3. CASE (job = "save" /\ kind = "timing") \/ job = "stop"
      <3>1. ready' = 0 /\ later' = 0 /\ ~confirm' /\ job' = "none"
        BY <1>13, <2>1, <2>3 DEF Finish, Chain
      <3>2. QED
        BY <3>1 DEF Chain
    <2>4. QED
      BY <1>13, <2>2, <2>3 DEF Finish
  <1>14. CASE PowersDown \/ Cut
    BY <1>14, ChainEnd DEF PowersDown, Cut
  <1>15. CASE Boot
    <2>1. CASE Resumes
      BY <1>15, <2>1, ChainLoad DEF Boot, Forgotten
    <2>2. CASE ~Resumes
      BY <1>15, <2>2 DEF Boot, Chain
    <2>3. QED
      BY <2>1, <2>2
  <1>16. QED
    BY <1>1, <1>2, <1>3, <1>4, <1>5, <1>6, <1>7, <1>8, <1>9, <1>10, <1>11, <1>12,
       <1>13, <1>14, <1>15 DEF Next, User, Looper

ChainInv == Typed /\ Forgotten /\ Chain

\* So there is never more than the one chain.
LEMMA ChainAlways == MaxEntries = 0 /\ Spec => []ChainInv
  <1>1. Init => ChainInv
    <2>1. Init => Forgotten /\ Chain
      BY DEF Init, Forgotten, Chain
    <2>2. QED
      BY <2>1, TypedInit DEF ChainInv
  <1>2. CASE MaxEntries = 0
    <2>1. ChainInv /\ [Next]_vars => ChainInv'
      BY <1>2, TypedStep, ForgottenStep, ChainStep DEF ChainInv
    <2>2. QED
      BY <1>1, <2>1, PTL DEF Spec
  <1>3. QED
    BY <1>2

\* As long as the user does not come back to the app, a round is saved only
\* when its check has been made, whatever the delay (check, handleMsg).
THEOREM ChecksFirst == MaxEntries = 0 /\ Spec => []CheckedBeforeSave
  <1>1. ChainInv => CheckedBeforeSave
    BY DEF ChainInv, Chain, CheckedBeforeSave
  <1>2. QED
    BY <1>1, ChainAlways, PTL
-------------------------------------------------------------------------------
(* The count and the starts of the device.                                 *)

\* What the steps that touch neither the numbers nor the preferences keep.
LEMMA CountSame ==
  ASSUME CountBehind, ~(phase = "leaving" /\ Live /\ Resumable),
         UNCHANGED <<phase, mState, mCurrentCount, sp, cuts, boots>>, Live' => Live
  PROVE  CountBehind'
  BY DEF CountBehind, Resumable

\* The process ends while the device is up.
LEMMA CountEnd ==
  ASSUME ~CutInStop, Typed, Forgotten, Persisted, CountBehind, phase # "off", MayFail,
         Forget, phase' = "off", UNCHANGED <<sp, boots>>,
         \/ cuts' = cuts + 1
         \/ cuts' = cuts /\ (Live /\ Resumable => sp.count = mCurrentCount)
  PROVE  CountBehind'
  <1> USE DEF Typed, TypeOK, Resumable, RUNNING, STOP
  <1>1. mState' = STOP
    BY ForgetTypes
  <1>2. Resumable => Live
    <2>1. CASE app = "none" \/ mState = STOP
      BY <2>1, CleanedFields DEF Persisted
    <2>2. CASE mState = RUNNING
      BY <2>2 DEF MayFail, Live, Jobs
    <2>3. QED
      BY <2>1, <2>2
  <1>3. Resumable => sp.count <= mCurrentCount
    BY <1>2, CleanedFields DEF Persisted, Stored
  <1>4. Resumable => sp.count <= boots /\ boots <= sp.count + cuts'
    BY <1>2, <1>3, SMTT(30) DEF CountBehind
  <1>5. Resumable' => Resumable
    OBVIOUS
  <1>6. QED
    BY <1>1, <1>4, <1>5 DEF CountBehind, Live

\* What a restart takes from the count is given back by the check of the next
\* start, save for the round a power failure ended.
LEMMA CountStep ==
  ASSUME ~CutInStop, MaxEntries = 0, Typed, Forgotten, Persisted, Chain, CountBehind,
         [Next]_vars
  PROVE  CountBehind'
  <1> USE BootAssumption
      DEF Typed, TypeOK, Idle, Shown, Works, mem, msgs, work, past, RUNNING, STOP
  <1>1. CASE UNCHANGED vars
    BY <1>1 DEF vars, moving, CountBehind, Live, Resumable
  <1>2. CASE Start
    <2>1. sp.flag = STOP
      BY <1>2, CleanedFields DEF Start, Persisted
    <2>2. ~Resumable'
      BY <1>2, <2>1 DEF Start, Resumable
    <2>3. phase' # "off" /\ mCurrentCount' = 0 /\ boots' = 0 /\ cuts' = cuts
      BY <1>2 DEF Start
    <2>4. cuts \in Nat
      OBVIOUS
    <2>5. QED
      BY <2>2, <2>3, <2>4 DEF CountBehind
  <1>3. CASE Confirm
    <2>1. ~(phase = "leaving" /\ Live /\ Resumable)
      BY <1>3 DEF Confirm, CountBehind
    <2>2. UNCHANGED <<phase, mState, mCurrentCount, job, sp, cuts, boots>>
      BY <1>3 DEF Confirm
    <2>3. QED
      BY <2>1, <2>2, CountSame DEF Live
  <1>4. CASE UserStops
    <2>1. phase' # "off" /\ ~Live'
      BY <1>4 DEF UserStops, Live
    <2>2. QED
      BY <2>1 DEF CountBehind
  <1>5. CASE Hide \/ Dismiss \/ RunCheck
    <2>1. UNCHANGED <<phase, mState, mCurrentCount, job, ready, later, sp, cuts, boots>>
      BY <1>5 DEF Hide, Dismiss, RunCheck
    <2>2. confirm' => confirm
      BY <1>5 DEF Hide, Dismiss, RunCheck
    <2>3. QED
      BY <2>1, <2>2 DEF CountBehind, Live, Resumable
  <1>6. CASE Return
    BY <1>6 DEF Return
  <1>7. CASE Leave
    <2>1. phase' # "off" /\ ~Live'
      BY <1>7, ForgetTypes DEF Leave, Live
    <2>2. QED
      BY <2>1 DEF CountBehind
  <1>8. CASE Open
    <2>1. sp.flag = STOP
      BY <1>8, CleanedFields DEF Open, Persisted
    <2>2. phase' # "off" /\ ~Live'
      BY <1>8, <2>1 DEF Open, Load, Check, Live
    <2>3. QED
      BY <2>2 DEF CountBehind
  <1>9. CASE Handle
    <2>1. ~(phase = "leaving" /\ Live /\ Resumable)
      BY <1>9 DEF Handle, CountBehind
    <2>2. UNCHANGED <<phase, mState, mCurrentCount, sp, cuts, boots>>
      BY <1>9 DEF Handle
    <2>3. job = "none"
      BY <1>9 DEF Handle
    <2>4. QED
      BY <2>1, <2>2, <2>3, CountSame DEF Live
  <1>10. CASE Tick
    <2>1. UNCHANGED <<phase, mState, mCurrentCount, job, sp, cuts, boots>>
          /\ ready + later = ready' + later'
      BY <1>10 DEF Tick
    <2>2. confirm' => confirm
      BY <1>10 DEF Tick
    <2>3. QED
      BY <2>1, <2>2 DEF CountBehind, Live, Resumable
  <1>11. CASE Commit
    <2>1. UNCHANGED <<phase, mState, mCurrentCount, job, cuts, boots>>
          /\ phase # "off" /\ job # "none" /\ step \in 1 .. 4
      BY <1>11 DEF Commit, Forgotten, Keys
    <2>2. CASE job # "save"
      BY <2>1, <2>2 DEF CountBehind, Live
    <2>3. CASE job = "save"
      <3>1. sp' = [sp EXCEPT ![Keys[step]] = Running[Keys[step]]]
        BY <1>11, <2>3 DEF Commit, Saved
      <3>2. CASE step = 1
        <4>1. sp'.count = sp.count /\ sp'.max = sp.max
          BY <3>1, <3>2 DEF Keys, Running
        <4>2. sp.flag = STOP => sp.max = 0
          BY <2>1, <2>3, CleanedFields DEF Persisted, Live, Stored
        <4>3. Resumable' => Resumable
          BY <4>1, <4>2 DEF Resumable
        <4>4. QED
          BY <2>1, <2>3, <4>1, <4>3 DEF CountBehind, Live
      <3>3. CASE step = 2
        <4>1. sp'.count = mCurrentCount
          BY <3>1, <3>3 DEF Keys, Running
        <4>2. QED
          BY <2>1, <2>3, <4>1 DEF CountBehind, Live
      <3>4. CASE step \in {3, 4}
        <4>1. sp'.count = sp.count /\ sp.count = mCurrentCount
          BY <2>3, <3>1, <3>4 DEF Keys, Running, Persisted
        <4>2. QED
          BY <2>1, <2>3, <4>1 DEF CountBehind, Live
      <3>5. QED
        BY <2>1, <3>2, <3>3, <3>4
    <2>4. QED
      BY <2>2, <2>3
  <1>12. CASE Finish
    <2>0. step = 5 /\ app # "none" /\ phase # "off" /\ UNCHANGED <<sp, cuts, boots>>
      BY <1>12 DEF Finish, Keys, Forgotten
    <2>1. CASE job = "save" /\ kind = "reboot"
      <3>1. Forget /\ phase' = "off" /\ MayFail
        BY <1>12, <2>1 DEF Finish, MayFail
      <3>2. sp.count = mCurrentCount
        BY <2>0, <2>1 DEF Persisted
      <3>3. QED
        BY <2>0, <3>1, <3>2, CountEnd
    <2>2. CASE job = "save" /\ kind = "timing"
      <3>1. sp.count = mCurrentCount /\ Live
        BY <2>0, <2>2 DEF Persisted, Live
      <3>2. UNCHANGED <<mState, mCurrentCount, ready, later>> /\ phase' = "leaving"
            /\ job' = "none"
        BY <1>12, <2>2 DEF Finish
      <3>3. ready + later = 0
        BY <2>2 DEF Chain
      <3>4. ~confirm'
        BY <1>12, <2>2 DEF Finish, Chain
      <3>5. mCurrentCount' <= boots' /\ boots' <= mCurrentCount' + cuts'
        BY <2>0, <3>1, <3>2 DEF CountBehind
      <3>6. mCurrentCount' = sp'.count /\ sp'.count \in Nat
        BY <2>0, <3>1, <3>2
      <3>7. ready' + later' = 0 /\ phase' # "off"
        BY <3>2, <3>3
      <3>8. mCurrentCount' <= sp'.count + 1
        BY <3>6
      <3>9. phase' # "off"
        BY <3>2
      <3>10. (Live /\ Resumable)' =>
                /\ mCurrentCount' <= sp'.count + 1
                /\ phase' = "leaving" =>
                     /\ mCurrentCount' = sp'.count
                     /\ job' = "none" => ready' + later' = 0 /\ ~confirm'
        BY <3>4, <3>6, <3>7, <3>8, Zenon
      <3>11. QED
        BY <3>5, <3>9, <3>10, Zenon DEF CountBehind
    <2>3. CASE job \in {"stop", "leave"}
      <3>1. phase' = phase /\ mState' = STOP
        <4>1. CASE job = "stop"
          BY <1>12, <4>1 DEF Finish
        <4>2. CASE job = "leave"
          BY <1>12, <4>2, ForgetTypes DEF Finish
        <4>3. QED
          BY <2>3, <4>1, <4>2
      <3>2. QED
        BY <2>0, <3>1 DEF CountBehind, Live
    <2>4. QED
      BY <1>12, <2>1, <2>2, <2>3 DEF Finish
  <1>13. CASE PowersDown
    <2>1. Live /\ Resumable => sp.count = mCurrentCount
      BY <1>13 DEF PowersDown, CountBehind
    <2>2. QED
      BY <1>13, <2>1, CountEnd DEF PowersDown
  <1>14. CASE Cut
    BY <1>14, CountEnd DEF Cut
  <1>15. CASE Boot
    <2>1. phase = "off" /\ phase' = "up" /\ boots' = boots + 1 /\ sp' = sp /\ cuts' = cuts
          /\ job = "none" /\ mState = STOP
      BY <1>15 DEF Boot, Forgotten
    <2>2. CASE ~Resumes
      <3>1. ~Live'
        BY <1>15, <2>1, <2>2 DEF Boot, Live
      <3>2. QED
        BY <2>1, <3>1 DEF CountBehind
    <2>3. CASE Resumes
      <3>1. mCurrentCount' = sp.count + 1 /\ sp.flag = RUNNING
        BY <1>15, <2>3 DEF Boot, Load, Check, Resumes
      <3>2. CASE sp.max = 0
        <4>1. job' = "stop"
          BY <1>15, <2>3, <3>1, <3>2 DEF Boot, Load, Check, Reached
        <4>2. QED
          BY <2>1, <4>1 DEF CountBehind, Live
      <3>3. CASE sp.max > 0
        <4>1. sp.count <= boots /\ boots <= sp.count + cuts
          BY <2>1, <3>1, <3>3 DEF CountBehind, Resumable
        <4>2. QED
          BY <2>1, <3>1, <4>1 DEF CountBehind
      <3>4. QED
        BY <3>2, <3>3
    <2>4. QED
      BY <2>2, <2>3
  <1>16. QED
    BY <1>1, <1>2, <1>3, <1>4, <1>5, <1>6, <1>7, <1>8, <1>9, <1>10, <1>11, <1>12,
       <1>13, <1>14, <1>15 DEF Next, User, Looper

\* When the user does not come back to the app and the power does not fail inside
\* stop(), the count is the number of starts of the device, and each power failure
\* loses at most one (check, next, saveState).
THEOREM BootsCounted == ~CutInStop /\ MaxEntries = 0 /\ Spec => []CountsBoots
  <1>1. Init => CountBehind
    BY DEF Init, CountBehind, Live, Resumable, RUNNING, STOP
  <1>2. CASE ~CutInStop /\ MaxEntries = 0
    <2>1. PersistedInv /\ ChainInv /\ CountBehind /\ [Next]_vars => CountBehind'
      BY <1>2, CountStep DEF PersistedInv, ChainInv
    <2>2. PersistedInv /\ CountBehind => CountsBoots
      BY DEF PersistedInv, Persisted, CountBehind, CountsBoots, Live, Idle
    <2>3. QED
      BY <1>1, <1>2, <2>1, <2>2, PersistedAlways, ChainAlways, PTL DEF Spec
  <1>3. QED
    BY <1>2
-------------------------------------------------------------------------------
(* The failures.                                                           *)

\* What the steps that touch neither the numbers nor the preferences keep.
LEMMA FailSame ==
  ASSUME FailBehind,
         UNCHANGED <<phase, mState, mFailureCount, checks, sp, cuts, boots, failed>>,
         Live' => Live
  PROVE  FailBehind'
  BY DEF FailBehind, Resumable

\* The process ends while the device is up.
LEMMA FailEnd ==
  ASSUME ~CutInStop, Typed, Forgotten, Persisted, FailBehind, phase # "off", MayFail,
         Forget, phase' = "off", UNCHANGED <<sp, boots, failed>>,
         \/ cuts' = cuts + 1
         \/ cuts' = cuts /\ (Live /\ Resumable => sp.fails = mFailureCount)
  PROVE  FailBehind'
  <1> USE DEF Typed, TypeOK, Resumable, RUNNING, STOP
  <1>1. mState' = STOP
    BY ForgetTypes
  <1>2. Resumable => Live
    <2>1. CASE app = "none" \/ mState = STOP
      BY <2>1, CleanedFields DEF Persisted
    <2>2. CASE mState = RUNNING
      BY <2>2 DEF MayFail, Live, Jobs
    <2>3. QED
      BY <2>1, <2>2
  <1>3. Len(checks) \in Nat
    BY LenProperties
  <1>4. Resumable => /\ sp.fails <= failed /\ failed <= sp.fails + cuts'
                     /\ sp.fails <= boots
    BY <1>2, <1>3, SMTT(30) DEF FailBehind
  <1>5. Resumable' => Resumable
    OBVIOUS
  <1>6. QED
    BY <1>1, <1>4, <1>5 DEF FailBehind, Live

\* The same for the failures: the next start checks, and a round fails once.
LEMMA FailStep ==
  ASSUME ~CutInStop, MaxEntries = 0, Patient, Typed, Forgotten, Persisted, Chain,
         FailBehind, [Next]_vars
  PROVE  FailBehind'
  <1> USE BootAssumption
      DEF Typed, TypeOK, Idle, Shown, Works, mem, msgs, work, past, RUNNING, STOP
  <1>0. Len(checks) \in Nat
    BY LenProperties
  <1>1. CASE UNCHANGED vars
    BY <1>1 DEF vars, moving, FailBehind, Live, Resumable
  <1>2. CASE Start
    <2>1. sp.flag = STOP
      BY <1>2, CleanedFields DEF Start, Persisted
    <2>2. ~Resumable'
      BY <1>2, <2>1 DEF Start, Resumable
    <2>3. phase' # "off" /\ mFailureCount' = 0 /\ boots' = 0 /\ failed' = 0
          /\ cuts' = cuts /\ checks' = <<>>
      BY <1>2 DEF Start
    <2>4. cuts \in Nat /\ Len(<<>>) = 0
      OBVIOUS
    <2>5. QED
      BY <2>2, <2>3, <2>4 DEF FailBehind
  <1>3. CASE Confirm \/ Dismiss \/ Hide
    <2>1. UNCHANGED <<phase, mState, mFailureCount, checks, job, sp, cuts, boots, failed>>
      BY <1>3 DEF Confirm, Dismiss, Hide
    <2>2. QED
      BY <2>1, FailSame DEF Live
  <1>4. CASE UserStops
    <2>1. phase' # "off" /\ ~Live'
      BY <1>4 DEF UserStops, Live
    <2>2. QED
      BY <2>1 DEF FailBehind
  <1>5. CASE RunCheck
    <2>1. checks # <<>> /\ Len(checks') = Len(checks) - 1 /\ phase' = phase /\ phase # "off"
      BY <1>5, OrderedTail DEF RunCheck, Due, InOrder
    <2>2. PICK f \in {0, 1} : mFailureCount' = mFailureCount + f /\ failed' = failed + f
      BY <1>5 DEF RunCheck, Found
    <2>3. UNCHANGED <<mState, job, sp, cuts, boots>>
      BY <1>5 DEF RunCheck
    <2>4. CASE ~Live
      BY <2>1, <2>3, <2>4 DEF FailBehind, Live
    <2>5. CASE Live
      <3>1. sp # Cleaned
        BY <2>1, <2>5 DEF FailBehind
      <3>2. Resumable
        BY <1>5, <2>5, <3>1 DEF Persisted, Stored, Resumable, RunCheck
      <3>3. phase # "leaving"
        BY <2>1, <2>5, <3>2 DEF FailBehind
      <3>4. /\ mFailureCount <= failed /\ failed <= mFailureCount + cuts
            /\ mFailureCount + Len(checks) <= boots /\ sp.fails <= mFailureCount
            /\ mFailureCount + Len(checks) <= sp.fails + 1
        BY <2>5, <3>2 DEF FailBehind
      <3>5. /\ mFailureCount' <= failed' /\ failed' <= mFailureCount' + cuts
            /\ mFailureCount' + Len(checks') <= boots /\ sp.fails <= mFailureCount'
            /\ mFailureCount' + Len(checks') <= sp.fails + 1
        BY <1>0, <2>1, <2>2, <3>4, SMTT(30)
      <3>6. QED
        BY <2>1, <2>3, <3>1, <3>3, <3>5 DEF FailBehind
    <2>6. QED
      BY <2>4, <2>5
  <1>6. CASE Return
    BY <1>6 DEF Return
  <1>7. CASE Leave
    <2>1. phase' # "off" /\ ~Live'
      BY <1>7, ForgetTypes DEF Leave, Live
    <2>2. QED
      BY <2>1 DEF FailBehind
  <1>8. CASE Open
    <2>1. sp.flag = STOP
      BY <1>8, CleanedFields DEF Open, Persisted
    <2>2. phase' # "off" /\ ~Live'
      BY <1>8, <2>1 DEF Open, Load, Check, Live
    <2>3. QED
      BY <2>2 DEF FailBehind
  <1>9. CASE Handle
    <2>1. UNCHANGED <<phase, mState, mFailureCount, checks, sp, cuts, boots, failed>>
          /\ job = "none"
      BY <1>9 DEF Handle
    <2>2. QED
      BY <2>1, FailSame DEF Live
  <1>10. CASE Tick
    <2>1. UNCHANGED <<phase, mState, mFailureCount, job, sp, cuts, boots, failed>>
          /\ phase # "off" /\ Len(checks') = Len(checks)
      <3>1. checks' = Sooner(checks)
        BY <1>10 DEF Tick, Sooner
      <3>2. Len(checks') = Len(checks)
        BY <1>10, <3>1, OrderedTick DEF Tick, Due, InOrder
      <3>3. QED
        BY <1>10, <3>2 DEF Tick
    <2>2. checks = <<>> => checks' = <<>>
      <3>1. checks' \in Seq(0 .. Delay)
        BY TypedStep
      <3>2. QED
        BY <2>1, <3>1, EmptySeq
    <2>3. QED
      BY <1>0, <2>1, <2>2 DEF FailBehind, Live, Resumable
  <1>11. CASE Commit
    <2>1. UNCHANGED <<phase, mState, mFailureCount, checks, job, cuts, boots, failed>>
          /\ phase # "off" /\ job # "none" /\ step \in 1 .. 4
      BY <1>11 DEF Commit, Forgotten, Keys
    <2>2. CASE job # "save"
      BY <2>1, <2>2 DEF FailBehind, Live
    <2>3. CASE job = "save"
      <3>0. checks = <<>> /\ Live /\ Len(<<>>) = 0
        BY <2>3 DEF Chain, Persisted, Live
      <3>1. sp' = [sp EXCEPT ![Keys[step]] = Running[Keys[step]]]
        BY <1>11, <2>3 DEF Commit, Saved
      <3>2. sp'.flag = RUNNING
        BY <2>1, <2>3, <3>0, <3>1 DEF Keys, Running, Persisted, Live
      <3>3. sp' # Cleaned
        BY <3>2, CleanedFields
      <3>4. CASE step = 1
        <4>1. sp'.fails = sp.fails /\ sp'.max = sp.max
          BY <3>1, <3>4 DEF Keys, Running
        <4>2. sp.flag = STOP => sp.max = 0
          BY <3>0, CleanedFields DEF Persisted, Stored
        <4>3. Resumable' => Resumable
          BY <4>1, <4>2 DEF Resumable
        <4>4. QED
          BY <2>1, <3>0, <3>3, <4>1, <4>3 DEF FailBehind
      <3>5. CASE step = 2
        <4>1. sp'.fails = sp.fails /\ sp'.max = sp.max /\ sp.flag = RUNNING
          BY <2>3, <3>1, <3>5 DEF Keys, Running, Persisted
        <4>2. Resumable' => Resumable
          BY <4>1 DEF Resumable
        <4>3. QED
          BY <2>1, <3>0, <3>3, <4>1, <4>2 DEF FailBehind
      <3>6. CASE step \in {3, 4}
        <4>1. sp'.fails = mFailureCount
          BY <2>3, <3>1, <3>6 DEF Keys, Running, Persisted
        <4>2. QED
          BY <2>1, <3>0, <3>3, <4>1 DEF FailBehind
      <3>7. QED
        BY <2>1, <3>4, <3>5, <3>6
    <2>4. QED
      BY <2>2, <2>3
  <1>12. CASE Finish
    <2>0. step = 5 /\ app # "none" /\ phase # "off" /\ UNCHANGED <<sp, cuts, boots, failed>>
      BY <1>12 DEF Finish, Keys, Forgotten
    <2>1. CASE job = "save" /\ kind = "reboot"
      <3>1. Forget /\ phase' = "off" /\ MayFail
        BY <1>12, <2>1 DEF Finish, MayFail
      <3>2. sp.fails = mFailureCount
        BY <2>0, <2>1 DEF Persisted
      <3>3. QED
        BY <2>0, <3>1, <3>2, FailEnd
    <2>2. CASE job = "save" /\ kind = "timing"
      <3>1. sp.fails = mFailureCount /\ Live /\ sp.flag = RUNNING /\ checks = <<>>
        BY <2>0, <2>2 DEF Persisted, Live, Chain
      <3>2. UNCHANGED <<mState, mFailureCount, checks>> /\ phase' = "leaving"
        BY <1>12, <2>2 DEF Finish
      <3>3. sp # Cleaned /\ Len(<<>>) = 0
        BY <3>1, CleanedFields
      <3>4. QED
        BY <2>0, <3>1, <3>2, <3>3 DEF FailBehind
    <2>3. CASE job \in {"stop", "leave"}
      <3>1. phase' = phase /\ mState' = STOP
        <4>1. CASE job = "stop"
          BY <1>12, <4>1 DEF Finish
        <4>2. CASE job = "leave"
          BY <1>12, <4>2, ForgetTypes DEF Finish
        <4>3. QED
          BY <2>3, <4>1, <4>2
      <3>2. QED
        BY <2>0, <3>1 DEF FailBehind, Live
    <2>4. QED
      BY <1>12, <2>1, <2>2, <2>3 DEF Finish
  <1>13. CASE PowersDown
    <2>1. Live /\ Resumable => sp.fails = mFailureCount
      BY <1>13 DEF PowersDown, FailBehind
    <2>2. QED
      BY <1>13, <2>1, FailEnd DEF PowersDown
  <1>14. CASE Cut
    BY <1>14, FailEnd DEF Cut
  <1>15. CASE Boot
    <2>1. phase = "off" /\ phase' = "up" /\ boots' = boots + 1 /\ sp' = sp /\ cuts' = cuts
          /\ job = "none" /\ mState = STOP /\ checks = <<>>
      BY <1>15 DEF Boot, Forgotten
    <2>2. CASE ~Resumes
      <3>1. ~Live'
        BY <1>15, <2>1, <2>2 DEF Boot, Live
      <3>2. QED
        BY <2>1, <3>1 DEF FailBehind
    <2>3. CASE Resumes
      <3>1. sp.flag = RUNNING /\ sp # Cleaned
        BY <2>3, CleanedFields DEF Resumes
      <3>2. CASE sp.max = 0
        <4>1. job' = "stop"
          BY <1>15, <2>3, <3>1, <3>2 DEF Boot, Load, Check, Reached
        <4>2. QED
          BY <2>1, <4>1 DEF FailBehind, Live
      <3>3. CASE sp.max > 0
        <4>1. sp.fails <= failed /\ failed <= sp.fails + cuts /\ sp.fails <= boots
          BY <2>1, <3>1, <3>3 DEF FailBehind, Resumable
        <4>2. CASE kind = "reboot"
          <5>1. mFailureCount' = sp.fails /\ failed' = failed /\ checks' = <<CheckAfter>>
            BY <1>15, <2>1, <2>3, <3>1, <4>2 DEF Boot, Load, Check
          <5>2. Len(checks') = 1
            BY <5>1
          <5>3. QED
            BY <2>1, <3>1, <4>1, <5>1, <5>2 DEF FailBehind
        <4>3. CASE kind = "timing"
          <5>1. PICK f \in {0, 1} : mFailureCount' = sp.fails + f /\ failed' = failed + f
            BY <1>15, <2>3, <3>1, <4>3 DEF Boot, Load, Check, Found
          <5>2. checks' = <<>> /\ Len(<<>>) = 0
            BY <1>15, <2>1, <2>3, <3>1, <4>3 DEF Boot, Load, Check
          <5>3. QED
            BY <2>1, <3>1, <4>1, <5>1, <5>2, SMTT(30) DEF FailBehind
        <4>4. QED
          BY <4>2, <4>3
      <3>4. QED
        BY <3>2, <3>3
    <2>4. QED
      BY <2>2, <2>3
  <1>16. QED
    BY <1>1, <1>2, <1>3, <1>4, <1>5, <1>6, <1>7, <1>8, <1>9, <1>10, <1>11, <1>12,
       <1>13, <1>14, <1>15 DEF Next, User, Looper

\* So the failures are never further behind than the power failures explain.
LEMMA FailAlways ==
  ~CutInStop /\ MaxEntries = 0 /\ Patient /\ Spec => [](PersistedInv /\ FailBehind)
  <1>1. Init => FailBehind
    BY DEF Init, FailBehind, Live, Resumable, RUNNING, STOP
  <1>2. CASE ~CutInStop /\ MaxEntries = 0 /\ Patient
    <2>1. PersistedInv /\ ChainInv /\ FailBehind /\ [Next]_vars => FailBehind'
      BY <1>2, FailStep DEF PersistedInv, ChainInv
    <2>2. QED
      BY <1>1, <1>2, <2>1, PersistedAlways, ChainAlways, PTL DEF Spec
  <1>3. QED
    BY <1>2

\* When besides the user lets a check pass before the next run, no failure is
\* lost over a restart, and a power failure loses at most the one of its own
\* round (saveState, onViewCreated).
THEOREM FailuresSurvive ==
  ~CutInStop /\ MaxEntries = 0 /\ Patient /\ Spec => []FailuresKept
  <1>1. PersistedInv /\ FailBehind => FailuresKept
    BY DEF PersistedInv, FailBehind, FailuresKept, Live, Idle
  <1>2. QED
    BY <1>1, FailAlways, PTL

\* A run fails at most once for each start of the device (check).
THEOREM FailsOnce ==
  ~CutInStop /\ MaxEntries = 0 /\ Patient /\ Spec => []FailsOncePerBoot
  <1>1. PersistedInv /\ FailBehind => FailsOncePerBoot
    <2> SUFFICES ASSUME PersistedInv, FailBehind, Idle, mState = RUNNING
                 PROVE  mFailureCount <= boots
      BY DEF FailsOncePerBoot
    <2>1. Len(checks) \in Nat /\ TypeOK
      BY LenProperties DEF PersistedInv, Typed, TypeOK
    <2>2. QED
      BY <2>1 DEF FailBehind, Live, Idle, TypeOK
  <1>2. QED
    BY <1>1, FailAlways, PTL

\* All together: while the user does not come back to the app and lets a check pass
\* before the next run, the rounds of a run and their outcomes survive the restarts.
THEOREM RoundsSurvive ==
  ~CutInStop /\ MaxEntries = 0 /\ Patient /\ Spec => []RoundsKept
  <1>1. CountsBoots /\ FailuresKept /\ CheckedBeforeSave /\ FailsOncePerBoot => RoundsKept
    BY DEF RoundsKept
  <1>2. QED
    BY <1>1, BootsCounted, FailuresSurvive, ChecksFirst, FailsOnce, PTL
===============================================================================
