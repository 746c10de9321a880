--------------------------- MODULE TestBoard_proofs ---------------------------
(***************************************************************************)
(* Proofs about TestBoard, for every set of tests, every mutex table and   *)
(* every bound on the queue.                                               *)
(***************************************************************************)
EXTENDS TestBoard, TLAPS

\* What a queue holds after a message is added at its end.
LEMMA HeldAppend ==
  ASSUME NEW S, NEW q \in Seq(S), NEW x \in S
  PROVE  /\ Append(q, x) \in Seq(S)
         /\ Held(Append(q, x)) = Held(q) \cup {x}
  <1>1. Append(q, x) \in Seq(S) /\ Len(Append(q, x)) = Len(q) + 1 /\ Len(q) \in Nat
    OBVIOUS
  <1>2. \A i \in 1..Len(q) : Append(q, x)[i] = q[i]
    OBVIOUS
  <1>3. Append(q, x)[Len(q) + 1] = x
    OBVIOUS
  <1>4. Held(Append(q, x)) \subseteq Held(q) \cup {x}
    BY <1>1, <1>2, <1>3 DEF Held
  <1>5. Held(q) \cup {x} \subseteq Held(Append(q, x))
    BY <1>1, <1>2, <1>3 DEF Held
  <1>6. QED
    BY <1>1, <1>4, <1>5

\* What a queue holds: its first message, and what is left when that is taken.
LEMMA HeldTail ==
  ASSUME NEW S, NEW q \in Seq(S), q # <<>>
  PROVE  /\ Tail(q) \in Seq(S)
         /\ Head(q) \in S
         /\ Held(q) = {Head(q)} \cup Held(Tail(q))
  <1>1. Tail(q) \in Seq(S) /\ Len(Tail(q)) = Len(q) - 1 /\ Len(q) \in Nat /\ Len(q) >= 1
    OBVIOUS
  <1>2. \A i \in 1..Len(Tail(q)) : Tail(q)[i] = q[i + 1]
    OBVIOUS
  <1>3. Head(q) = q[1] /\ Head(q) \in S
    OBVIOUS
  <1>4. Held(q) \subseteq {Head(q)} \cup Held(Tail(q))
    <2> SUFFICES ASSUME NEW i \in 1..Len(q)
                 PROVE  q[i] \in {Head(q)} \cup Held(Tail(q))
      BY DEF Held
    <2>1. CASE i = 1
      BY <2>1, <1>3
    <2>2. CASE i # 1
      <3>1. i - 1 \in 1..Len(Tail(q)) /\ q[i] = Tail(q)[i - 1]
        BY <2>2, <1>1, <1>2
      <3>2. QED
        BY <3>1 DEF Held
    <2>3. QED
      BY <2>1, <2>2
  <1>5. {Head(q)} \cup Held(Tail(q)) \subseteq Held(q)
    BY <1>1, <1>2, <1>3 DEF Held
  <1>6. QED
    BY <1>1, <1>3, <1>4, <1>5

\* An empty queue holds nothing.
LEMMA HeldEmpty == Held(<<>>) = {}
  BY DEF Held

-------------------------------------------------------------------------------
\* Every message and dialog an action makes is one of the declared ones.
LEMMA Made ==
  /\ \A t \in Tests : /\ Of("RUNNING", t) \in Message
                      /\ Of("STOP", t) \in Message
                      /\ Of("click", t) \in Message
                      /\ Of("target", t) \in Dialog
                      /\ Of("stop", t) \in Dialog
                      /\ Of("error", t) \in Dialog
  /\ Of("destroy", NoTest) \in Message
  /\ Of("exit", NoTest) \in Dialog
  /\ Of("busy", NoTest) \in Dialog
  BY DEF Of, Message, Dialog

\* A message or a dialog is its kind and its test.
LEMMA OfFields ==
  /\ \A k, t : Of(k, t).kind = k /\ Of(k, t).test = t
  /\ \A k, t, l, u : Of(k, t) = Of(l, u) => k = l /\ t = u
  BY DEF Of

\* The variables keep their types: the buttons and flags are sets of tests, the
\* looper's queue holds only the messages the code posts.
THEOREM TypeCorrect == Spec => []TypeOK
  <1>1. Init => TypeOK
    BY BoardAssumption DEF Init, TypeOK, Resumed, Disabled
  <1>2. TypeOK /\ [Next]_vars => TypeOK'
    <2> SUFFICES ASSUME TypeOK, [Next]_vars
                 PROVE  TypeOK'
      OBVIOUS
    <2> USE BoardAssumption, Made DEF TypeOK
    <2>1. CASE UNCHANGED vars
      BY <2>1 DEF vars
    <2>2. ASSUME NEW t \in Tests, OnStartClicked(t) PROVE TypeOK'
      BY <2>2 DEF OnStartClicked
    <2>3. ASSUME NEW t \in Tests, OnRunning(t) PROVE TypeOK'
      BY <2>3 DEF OnRunning
    <2>4. ASSUME NEW t \in Tests, OnStop(t) PROVE TypeOK'
      BY <2>4 DEF OnStop, Freed
    <2>5. CASE OnDestroy
      <3>1. Tail(queue) \in Seq(Message)
        BY <2>5, HeldTail DEF OnDestroy
      <3>2. \A t \in Tests : Append(Tail(queue), Of("STOP", t)) \in Seq(Message)
        BY <3>1, HeldAppend
      <3>3. queue' \in Seq(Message)
        BY <3>1, <3>2, <2>5 DEF OnDestroy
      <3>4. QED
        BY <3>3, <2>5 DEF OnDestroy
    <2>6. CASE Crash
      BY <2>6 DEF Crash
    <2>7. ASSUME NEW t \in Tests, Tap(t) PROVE TypeOK'
      BY <2>7 DEF Tap, Post
    <2>8. ASSUME NEW t \in Tests, ConfirmTarget(t) PROVE TypeOK'
      BY <2>8 DEF ConfirmTarget, Start, Post, Top
    <2>9. ASSUME NEW t \in Tests, StartFails(t) PROVE TypeOK'
      BY <2>9 DEF StartFails, Top
    <2>10. ASSUME NEW t \in Tests, ConfirmStop(t) PROVE TypeOK'
      BY <2>10 DEF ConfirmStop, Stop, Post, Top
    <2>11. ASSUME NEW t \in Tests, TestEnds(t) PROVE TypeOK'
      BY <2>11 DEF TestEnds, Stop, Post
    <2>12. ASSUME NEW t \in Tests, UpdateImpl(t) PROVE TypeOK'
      BY <2>12 DEF UpdateImpl
    <2>13. CASE Dismiss
      BY <2>13 DEF Dismiss
    <2>14. CASE OnStart
      BY <2>14 DEF OnStart, Disabled
    <2>15. CASE OnBackPressed
      BY <2>15 DEF OnBackPressed
    <2>16. CASE ConfirmExit
      BY <2>16 DEF ConfirmExit, Post, Top
    <2>17. CASE SystemDestroys
      BY <2>17 DEF SystemDestroys, Post
    <2>18. CASE Launch
      BY <2>18 DEF Launch, Resumed, Disabled
    <2>19. QED
      BY <2>1, <2>2, <2>3, <2>4, <2>5, <2>6, <2>7, <2>8, <2>9, <2>10, <2>11, <2>12,
         <2>13, <2>14, <2>15, <2>16, <2>17, <2>18 DEF Next, Dispatch
  <1>3. QED
    BY <1>1, <1>2, PTL DEF Spec

\* No test of an activity that is gone is running.
Gone == life \in {"destroyed", "crashed"} => running = {}

LEMMA GoneInv == Spec => []Gone
  <1>1. Init => Gone
    BY DEF Init, Gone
  <1>2. Gone /\ [Next]_vars => Gone'
    BY DEF Gone, Next, vars, Dispatch, OnStartClicked, OnRunning, OnStop, OnDestroy,
           Crash, Tap, ConfirmTarget, StartFails, ConfirmStop, TestEnds, UpdateImpl,
           Dismiss, OnStart, OnBackPressed, ConfirmExit, SystemDestroys, Launch,
           UserTaps, Top, Visible, Stop
  <1>3. QED
    BY <1>1, <1>2, PTL DEF Spec

-------------------------------------------------------------------------------
(***************************************************************************)
(* The impatient user.  RunningDisables is preserved by every step: the    *)
(* only step that makes a test run posts the RUNNING that RunningDisables  *)
(* asks for, the step that delivers it switches the row off, and a STOP    *)
(* switches on only tests with nothing running in their row.               *)
(***************************************************************************)

\* A step that adds at most one message, starts no test and switches none on.
LEMMA DisablesKept ==
  ASSUME TypeOK, RunningDisables, running' \subseteq running, avail' \subseteq avail,
         Held(queue) \subseteq Held(queue')
  PROVE  RunningDisables'
  BY DEF RunningDisables, Pending, Mutual

THEOREM RunningSwitchesOff == Spec => []RunningDisables
  <1>1. Init => RunningDisables
    BY BoardAssumption DEF Init, RunningDisables, Resumed, Disabled, Mutual
  <1>2. TypeOK /\ Gone /\ RunningDisables /\ [Next]_vars => RunningDisables'
    <2> SUFFICES ASSUME TypeOK, Gone, RunningDisables, [Next]_vars
                 PROVE  RunningDisables'
      OBVIOUS
    <2> USE BoardAssumption, Made DEF TypeOK
    <2>1. CASE UNCHANGED vars
      BY <2>1 DEF vars, RunningDisables, Pending, Mutual
    <2>2. ASSUME NEW t \in Tests, OnStartClicked(t) PROVE RunningDisables'
      <3>1. Held(queue) = {Of("click", t)} \cup Held(queue')
        BY <2>2, HeldTail DEF OnStartClicked
      <3>2. QED
        BY <2>2, <3>1 DEF OnStartClicked, RunningDisables, Pending, Of
    <2>3. ASSUME NEW t \in Tests, OnRunning(t) PROVE RunningDisables'
      <3>1. Held(queue) = {Of("RUNNING", t)} \cup Held(queue')
        BY <2>3, HeldTail DEF OnRunning
      <3> SUFFICES ASSUME NEW u \in running', NEW w \in avail', Mutual(w, u)
                   PROVE  Of("RUNNING", u) \in Held(queue')
        BY DEF RunningDisables, Pending, Mutual
      <3>2. u \in running /\ w \in avail /\ w \notin Row[t]
        BY <2>3 DEF OnRunning
      <3>3. u # t
        BY <3>2 DEF Mutual
      <3>4. Of("RUNNING", u) \in Held(queue)
        BY <3>2 DEF RunningDisables, Pending
      <3>5. QED
        BY <3>1, <3>3, <3>4 DEF Of
    <2>4. ASSUME NEW t \in Tests, OnStop(t) PROVE RunningDisables'
      <3>1. Held(queue) = {Of("STOP", t)} \cup Held(queue')
        BY <2>4, HeldTail DEF OnStop
      <3> SUFFICES ASSUME NEW u \in running', NEW w \in avail', Mutual(w, u)
                   PROVE  Of("RUNNING", u) \in Held(queue')
        BY DEF RunningDisables, Pending, Mutual
      <3>2. u \in running /\ w \in avail
        BY <2>4 DEF OnStop, Freed, Mutual
      <3>3. Of("RUNNING", u) \in Held(queue)
        BY <3>2 DEF RunningDisables, Pending
      <3>4. QED
        BY <3>1, <3>3 DEF Of
    <2>5. CASE OnDestroy
      BY <2>5 DEF OnDestroy, RunningDisables
    <2>6. CASE Crash
      BY <2>6 DEF Crash, RunningDisables, Gone
    <2>7. ASSUME NEW t \in Tests, Tap(t) PROVE RunningDisables'
      BY <2>7, HeldAppend, DisablesKept DEF Tap, Post
    <2>8. ASSUME NEW t \in Tests, ConfirmTarget(t) PROVE RunningDisables'
      <3>1. Held(queue') = Held(queue) \cup {Of("RUNNING", t)}
        BY <2>8, HeldAppend DEF ConfirmTarget, Start, Post
      <3>2. running' = running \cup {t} /\ avail' = avail
        BY <2>8 DEF ConfirmTarget, Start
      <3>3. QED
        BY <3>1, <3>2 DEF RunningDisables, Pending, Mutual
    <2>9. ASSUME NEW t \in Tests, StartFails(t) PROVE RunningDisables'
      BY <2>9 DEF StartFails, RunningDisables, Pending, Mutual
    <2>10. ASSUME NEW t \in Tests, ConfirmStop(t) PROVE RunningDisables'
      BY <2>10, HeldAppend, DisablesKept DEF ConfirmStop, Stop, Post
    <2>11. ASSUME NEW t \in Tests, TestEnds(t) PROVE RunningDisables'
      BY <2>11, HeldAppend, DisablesKept DEF TestEnds, Stop, Post
    <2>12. ASSUME NEW t \in Tests, UpdateImpl(t) PROVE RunningDisables'
      BY <2>12 DEF UpdateImpl, RunningDisables, Pending, Mutual
    <2>13. CASE Dismiss
      BY <2>13 DEF Dismiss, RunningDisables, Pending, Mutual
    <2>14. CASE OnStart
      BY <2>14 DEF OnStart, RunningDisables, Pending, Mutual
    <2>15. CASE OnBackPressed
      BY <2>15 DEF OnBackPressed, RunningDisables, Pending, Mutual
    <2>16. CASE ConfirmExit
      BY <2>16, HeldAppend, DisablesKept DEF ConfirmExit, Post
    <2>17. CASE SystemDestroys
      BY <2>17, HeldAppend, DisablesKept DEF SystemDestroys, Post
    <2>18. CASE Launch
      BY <2>18 DEF Launch, Resumed, Disabled, RunningDisables, Mutual
    <2>19. QED
      BY <2>1, <2>2, <2>3, <2>4, <2>5, <2>6, <2>7, <2>8, <2>9, <2>10, <2>11, <2>12,
         <2>13, <2>14, <2>15, <2>16, <2>17, <2>18 DEF Next, Dispatch
  <1>3. QED
    BY <1>1, <1>2, TypeCorrect, GoneInv, PTL DEF Spec

-------------------------------------------------------------------------------
(***************************************************************************)
(* The patient user.  MutualExclusion is not inductive: a test that starts *)
(* was found available when its button was tapped, and what must be kept   *)
(* until its dialog is confirmed is that nothing it excludes has started   *)
(* since.  Intent(t) says that t has been tapped and may yet be started.   *)
(***************************************************************************)
Clickless(q) == \A m \in Held(q) : m.kind # "click"

Intent(t) == \/ Pending(Of("click", t))
             \/ dialogs # <<>> /\ Head(dialogs) = Of("target", t)

\* At most one tap is under way, and its click is the next message.
OneIntent ==
  /\ queue # <<>> => Clickless(Tail(queue))
  /\ dialogs # <<>> => Tail(dialogs) = <<>> /\ Clickless(queue)

\* What holds of a test that may yet be started.
IntentClear ==
  \A t \in Tests : Intent(t) =>
    /\ Answered(t) => t \in avail
    /\ \A u \in running : ~Mutual(t, u)
    /\ \A u \in Tests : ~Pending(Of("RUNNING", u))

\* A test whose start the activity has not heard of yet excludes none that runs.
UnheardClear ==
  \A u \in Tests : Pending(Of("RUNNING", u)) => \A t \in running : ~Mutual(t, u)

\* An enabled button belongs to an available test, or is about to be repainted.
Painted == button \subseteq avail \cup dirty

IInv == /\ OneIntent
        /\ IntentClear
        /\ UnheardClear
        /\ Painted
        /\ MutualExclusion
        /\ StopReachable

\* Adding a message that is no click leaves at most one tap under way.
LEMMA ClicklessAppend ==
  ASSUME TypeOK, NEW m \in Message, m.kind # "click", queue' = Append(queue, m),
         OneIntent, dialogs' = dialogs \/ dialogs' = <<>>
  PROVE  OneIntent'
  <1>1. Held(queue') = Held(queue) \cup {m}
    BY HeldAppend DEF TypeOK
  <1>2. ASSUME NEW i \in 1..Len(Tail(queue')) PROVE Tail(queue')[i].kind # "click"
    <2>1. /\ Len(queue) \in Nat /\ Len(Tail(queue')) = Len(queue)
          /\ Tail(queue')[i] = Append(queue, m)[i + 1]
      BY DEF TypeOK
    <2>2. CASE i = Len(queue)
      BY <2>1, <2>2 DEF TypeOK
    <2>3. CASE i < Len(queue)
      <3>1. queue # <<>> /\ Append(queue, m)[i + 1] = Tail(queue)[i] /\ i \in 1..Len(Tail(queue))
        BY <2>1, <2>3 DEF TypeOK
      <3>2. QED
        BY <3>1, <2>1 DEF OneIntent, Clickless, Held
    <2>4. QED
      BY <2>1, <2>2, <2>3
  <1>3. Clickless(Tail(queue'))
    BY <1>2 DEF Clickless, Held
  <1>4. QED
    BY <1>1, <1>3 DEF OneIntent, Clickless

\* Taking the next message leaves no click behind.
LEMMA ClicklessTail ==
  ASSUME TypeOK, OneIntent, queue # <<>>, queue' = Tail(queue)
  PROVE  Clickless(queue') /\ (queue' # <<>> => Clickless(Tail(queue')))
  <1>1. queue' \in Seq(Message) /\ Clickless(queue')
    BY HeldTail DEF OneIntent, TypeOK
  <1>2. ASSUME queue' # <<>> PROVE Clickless(Tail(queue'))
    BY <1>1, <1>2, HeldTail DEF Clickless
  <1>3. QED
    BY <1>1, <1>2

\* The steps that stop tests, or leave them as they are, and switch none off:
\* they preserve every part of IInv that speaks of tests.
LEMMA StopsKeep ==
  ASSUME TypeOK, IInv, running' \subseteq running, avail' = avail, button' = button,
         dirty \subseteq dirty',
         \A m \in Held(queue') : m \in Held(queue) \/ m.kind \in {"STOP", "destroy"},
         \/ dialogs' = dialogs
         \/ dialogs' = <<>>
         \/ \A t \in Tests : Head(dialogs') # Of("target", t)
  PROVE  /\ IntentClear'
         /\ UnheardClear'
         /\ Painted'
         /\ MutualExclusion'
         /\ StopReachable'
  <1>1. ASSUME NEW t \in Tests, Intent(t)' PROVE Intent(t)
    BY OfFields, <1>1 DEF Intent, Pending
  <1>2. ASSUME NEW t \in Tests, Pending(Of("RUNNING", t))' PROVE Pending(Of("RUNNING", t))
    BY OfFields, <1>2 DEF Pending
  <1>3. IntentClear'
    BY <1>1, <1>2 DEF IInv, IntentClear, Answered, Mutual
  <1>4. UnheardClear'
    BY <1>2 DEF IInv, UnheardClear, Mutual
  <1>5. QED
    BY <1>3, <1>4 DEF IInv, Painted, MutualExclusion, StopReachable, Mutual, Answered

LEMMA IInvStep ==
  ASSUME TypeOK, Gone, RunningDisables, IInv, Patient, [Next]_vars
  PROVE  IInv'
  <1> USE BoardAssumption, Made DEF TypeOK
  <1>1. CASE UNCHANGED vars
    BY <1>1 DEF vars, IInv, OneIntent, IntentClear, UnheardClear, Painted, MutualExclusion,
       StopReachable, Intent, Pending, Clickless, Held, Mutual, Answered
  <1>2. ASSUME NEW t \in Tests, OnStartClicked(t) PROVE IInv'
    <2>1. /\ Held(queue) = {Of("click", t)} \cup Held(queue')
          /\ Clickless(queue') /\ (queue' # <<>> => Clickless(Tail(queue')))
      BY <1>2, HeldTail, ClicklessTail DEF OnStartClicked, IInv
    <2>2. dialogs = <<>>
      BY OfFields, <2>1 DEF IInv, OneIntent, Clickless
    <2>3. \E d \in {"stop", "target"} : dialogs' = <<Of(d, t)>>
      BY <1>2, <2>2 DEF OnStartClicked
    <2>4. OneIntent'
      BY <2>1, <2>3 DEF OneIntent
    <2>5. \A u \in Tests : Intent(u)' => u = t
      BY OfFields, <2>1, <2>3 DEF Intent, Pending, Clickless
    <2>6. Intent(t) /\ \A u \in Tests : Pending(Of("RUNNING", u))' => Pending(Of("RUNNING", u))
      BY <2>1 DEF Intent, Pending
    <2>7. QED
      BY <1>2, <2>4, <2>5, <2>6 DEF OnStartClicked, IInv, IntentClear, UnheardClear, Painted,
         MutualExclusion, StopReachable, Mutual, Answered
  <1>3. ASSUME NEW t \in Tests, OnRunning(t) PROVE IInv'
    <2>1. /\ Held(queue) = {Of("RUNNING", t)} \cup Held(queue')
          /\ Clickless(queue') /\ (queue' # <<>> => Clickless(Tail(queue')))
      BY <1>3, HeldTail, ClicklessTail DEF OnRunning, IInv
    <2>2. Pending(Of("RUNNING", t))
      BY <2>1 DEF Pending
    <2>3. OneIntent'
      BY <1>3, <2>1 DEF OneIntent, OnRunning, IInv
    <2>4. \A u \in Tests : ~Intent(u)'
      BY <1>3, <2>1, <2>2 DEF Intent, Pending, OnRunning, IInv, IntentClear
    <2>5. UnheardClear'
      BY <1>3, <2>1 DEF IInv, UnheardClear, OnRunning, Pending, Mutual
    <2>6. StopReachable'
      BY <1>3, <2>2 DEF IInv, StopReachable, UnheardClear, OnRunning, Mutual, Answered
    <2>7. QED
      BY <1>3, <2>3, <2>4, <2>5, <2>6 DEF OnRunning, IInv, IntentClear, Painted,
         MutualExclusion, Mutual
  <1>4. ASSUME NEW t \in Tests, OnStop(t) PROVE IInv'
    <2>1. /\ Held(queue) = {Of("STOP", t)} \cup Held(queue')
          /\ Clickless(queue') /\ (queue' # <<>> => Clickless(Tail(queue')))
      BY <1>4, HeldTail, ClicklessTail DEF OnStop, IInv
    <2>2. OneIntent'
      BY <1>4, <2>1 DEF OneIntent, OnStop, IInv
    <2>3. \A m : Pending(m)' => Pending(m)
      BY <2>1 DEF Pending
    <2>4. running' = running /\ avail \subseteq avail'
      BY <1>4 DEF OnStop
    <2>5. UnheardClear'
      BY <2>3, <2>4 DEF IInv, UnheardClear, Mutual
    <2>6. ASSUME NEW u \in Tests, Intent(u)'
          PROVE  /\ Answered(u) => u \in avail'
                 /\ \A w \in running' : ~Mutual(u, w)
                 /\ \A w \in Tests : ~Pending(Of("RUNNING", w))'
      <3>1. Intent(u)
        BY <1>4, <2>3, <2>6 DEF Intent, OnStop
      <3>2. QED
        BY <2>3, <2>4, <3>1 DEF IInv, IntentClear
    <2>7. IntentClear'
      BY <2>6 DEF IntentClear, Mutual, Answered
    <2>8. Painted' /\ MutualExclusion' /\ StopReachable'
      BY <1>4, <2>4 DEF OnStop, IInv, Painted, MutualExclusion, StopReachable, Mutual, Answered
    <2>9. QED
      BY <2>2, <2>5, <2>7, <2>8 DEF IInv
  <1>5. CASE OnDestroy
    <2>1. /\ Tail(queue) \in Seq(Message) /\ Held(Tail(queue)) \subseteq Held(queue)
          /\ Clickless(Tail(queue))
      BY <1>5, HeldTail DEF OnDestroy, IInv, OneIntent
    <2>2. queue' \in Seq(Message) /\ Clickless(queue')
      <3>1. CASE queue' = Tail(queue)
        BY <2>1, <3>1
      <3>2. ASSUME NEW t \in Tests, queue' = Append(Tail(queue), Of("STOP", t))
            PROVE  queue' \in Seq(Message) /\ Clickless(queue')
        <4> DEFINE rest == Tail(queue)
                   stop == Of("STOP", t)
        <4> HIDE DEF rest, stop
        <4>0. rest \in Seq(Message) /\ stop \in Message
          BY <2>1 DEF rest, stop
        <4>1. Append(rest, stop) \in Seq(Message) /\ Held(Append(rest, stop)) = Held(rest) \cup {stop}
          BY <4>0, HeldAppend
        <4>2. QED
          BY <2>1, <3>2, <4>1, OfFields DEF Clickless, rest, stop
      <3>3. QED
        BY <1>5, <3>1, <3>2 DEF OnDestroy
    <2>3. queue' # <<>> => Clickless(Tail(queue'))
      BY <2>2, HeldTail DEF Clickless
    <2>4. \A u \in Tests : ~Intent(u)'
      BY OfFields, <1>5, <2>2 DEF OnDestroy, Intent, Pending, Clickless
    <2>5. QED
      BY <1>5, <2>3, <2>4 DEF OnDestroy, IInv, OneIntent, IntentClear, UnheardClear,
         Painted, MutualExclusion, StopReachable
  <1>6. CASE Crash
    <2>1. \A u \in Tests : Intent(u)' => Intent(u)
      BY <1>6, HeldEmpty DEF Crash, Intent, Pending
    <2>2. QED
      BY <1>6, <2>1, HeldEmpty DEF Crash, IInv, OneIntent, IntentClear, UnheardClear, Painted,
         MutualExclusion, StopReachable, Pending, Clickless, Mutual, Answered
  <1>7. ASSUME NEW t \in Tests, Tap(t) PROVE IInv'
    <2>1. queue = <<>> /\ dirty = {} /\ dialogs = <<>> /\ t \in avail
      BY <1>7 DEF Tap, UserTaps, IInv, Painted
    <2>2. Held(queue') = {Of("click", t)} /\ Tail(queue') = <<>>
      <3>1. queue' = Append(<<>>, Of("click", t)) /\ Append(<<>>, Of("click", t)) = <<Of("click", t)>>
        BY <1>7, <2>1 DEF Tap, Post
      <3>2. QED
        BY <3>1 DEF Held
    <2>3. \A u \in running : ~Mutual(t, u)
      BY <2>1, HeldEmpty DEF RunningDisables, Pending
    <2>4. \A u \in Tests : (Intent(u)' => u = t) /\ ~Pending(Of("RUNNING", u))'
      BY OfFields, <1>7, <2>1, <2>2 DEF Tap, Intent, Pending
    <2>5. OneIntent'
      BY <1>7, <2>1, <2>2, HeldEmpty DEF Tap, OneIntent, Clickless
    <2>6. QED
      BY <1>7, <2>1, <2>3, <2>4, <2>5 DEF Tap, IInv, IntentClear, UnheardClear, Painted,
         MutualExclusion, StopReachable, Mutual, Answered
  <1>8. ASSUME NEW t \in Tests, ConfirmTarget(t) PROVE IInv'
    <2>1. Intent(t) /\ Tail(dialogs) = <<>> /\ Clickless(queue)
      BY <1>8 DEF ConfirmTarget, Top, Intent, IInv, OneIntent
    <2>2. Held(queue') = Held(queue) \cup {Of("RUNNING", t)}
      BY <1>8, HeldAppend DEF ConfirmTarget, Start, Post
    <2>3. OneIntent'
      BY OfFields, <1>8, <2>1, ClicklessAppend DEF ConfirmTarget, Start, Post, IInv
    <2>4. \A u \in Tests : ~Intent(u)'
      BY OfFields, <1>8, <2>1, <2>2 DEF ConfirmTarget, Intent, Pending, Clickless
    <2>5. /\ \A u \in running : ~Mutual(t, u)
          /\ \A u \in Tests : Pending(Of("RUNNING", u))' => u = t
          /\ Answered(t) => t \in avail
      BY OfFields, <2>1, <2>2 DEF IInv, IntentClear, Pending
    <2>6. running' = running \cup {t} /\ avail' = avail /\ button' = button /\ dirty \subseteq dirty'
      BY <1>8 DEF ConfirmTarget, Start
    <2>7. ~Mutual(t, t)
      BY DEF Mutual
    <2>8. QED
      BY <2>3, <2>4, <2>5, <2>6, <2>7 DEF IInv, IntentClear, UnheardClear, Painted,
         MutualExclusion, StopReachable, Mutual, Answered
  <1>9. ASSUME NEW t \in Tests, StartFails(t) PROVE IInv'
    <2>1. /\ Tail(dialogs) = <<>> /\ Clickless(queue) /\ queue' = queue
          /\ dialogs' = <<Of("error", t)>>
      <3>1. Tail(dialogs) = <<>> /\ Clickless(queue) /\ queue' = queue
        BY <1>9 DEF StartFails, Top, IInv, OneIntent
      <3>2. <<Of("error", t)>> \o <<>> = <<Of("error", t)>>
        OBVIOUS
      <3>3. QED
        BY <1>9, <3>1, <3>2 DEF StartFails
    <2>2. OneIntent'
      BY <2>1 DEF IInv, OneIntent, Clickless, Held
    <2>3. \A u \in Tests : Head(dialogs') # Of("target", u)
      BY OfFields, <2>1
    <2>4. QED
      BY <1>9, <2>1, <2>2, <2>3, StopsKeep DEF StartFails, IInv
  <1>10. ASSUME NEW t \in Tests, ConfirmStop(t) PROVE IInv'
    <2>1. /\ Tail(dialogs) = <<>> /\ queue' = Append(queue, Of("STOP", t))
          /\ dialogs' = <<>>
      BY <1>10 DEF ConfirmStop, Stop, Post, Top, IInv, OneIntent
    <2>2. OneIntent'
      BY OfFields, <2>1, ClicklessAppend DEF IInv
    <2>3. Held(queue') = Held(queue) \cup {Of("STOP", t)}
      BY <2>1, HeldAppend
    <2>4. QED
      BY OfFields, <1>10, <2>1, <2>2, <2>3, StopsKeep DEF ConfirmStop, Stop, IInv
  <1>11. ASSUME NEW t \in Tests, TestEnds(t) PROVE IInv'
    <2>1. OneIntent'
      BY OfFields, <1>11, ClicklessAppend DEF TestEnds, Stop, Post, IInv
    <2>2. Held(queue') = Held(queue) \cup {Of("STOP", t)}
      BY <1>11, HeldAppend DEF TestEnds, Stop, Post
    <2>3. QED
      BY OfFields, <1>11, <2>1, <2>2, StopsKeep DEF TestEnds, Stop, IInv
  <1>12. ASSUME NEW t \in Tests, UpdateImpl(t) PROVE IInv'
    <2>1. Painted'
      BY <1>12 DEF UpdateImpl, IInv, Painted
    <2>2. QED
      BY <1>12, <2>1 DEF UpdateImpl, IInv, OneIntent, IntentClear, UnheardClear,
         MutualExclusion, StopReachable, Intent, Pending, Clickless, Held, Mutual, Answered
  <1>13. CASE Dismiss
    <2>1. dialogs' = <<>> /\ queue' = queue
      BY <1>13 DEF Dismiss, IInv, OneIntent
    <2>2. OneIntent'
      BY <2>1 DEF IInv, OneIntent, Clickless, Held
    <2>3. QED
      BY <1>13, <2>1, <2>2, StopsKeep DEF Dismiss, IInv
  <1>14. CASE OnStart
    <2>1. OneIntent' /\ UnheardClear' /\ MutualExclusion'
      BY <1>14 DEF OnStart, IInv, OneIntent, UnheardClear, MutualExclusion, Pending,
         Clickless, Held, Mutual
    <2>2. \A t \in Tests : Intent(t)' => Intent(t)
      BY <1>14 DEF OnStart, Intent, Pending, Held
    <2>3. ASSUME NEW t \in Tests, Answered(t), t \in running \/ Intent(t)
          PROVE  t \notin Disabled(running)
      BY <2>3 DEF Disabled, Answered, IInv, IntentClear, MutualExclusion, Mutual
    <2>4. IntentClear'
      BY <1>14, <2>2, <2>3 DEF OnStart, IInv, IntentClear, Pending, Held, Mutual, Answered
    <2>5. StopReachable'
      BY <1>14, <2>3 DEF OnStart, IInv, StopReachable, Answered
    <2>6. QED
      BY <1>14, <2>1, <2>4, <2>5 DEF OnStart, IInv, Painted
  <1>15. CASE OnBackPressed
    <2>1. /\ queue = <<>> /\ queue' = <<>>
          /\ \E d \in {"exit", "busy"} : dialogs' = <<Of(d, NoTest)>>
      BY <1>15 DEF OnBackPressed, UserTaps
    <2>2. OneIntent'
      BY <2>1, HeldEmpty DEF OneIntent, Clickless
    <2>3. \A u \in Tests : Head(dialogs') # Of("target", u)
      BY OfFields, <2>1
    <2>4. QED
      BY <1>15, <2>1, <2>2, <2>3, StopsKeep DEF OnBackPressed, IInv
  <1>16. CASE ConfirmExit
    <2>1. /\ Tail(dialogs) = <<>> /\ queue' = Append(queue, Of("destroy", NoTest))
          /\ dialogs' = <<>>
      BY <1>16 DEF ConfirmExit, Post, Top, IInv, OneIntent
    <2>2. OneIntent'
      BY OfFields, <2>1, ClicklessAppend DEF IInv
    <2>3. Held(queue') = Held(queue) \cup {Of("destroy", NoTest)}
      BY <2>1, HeldAppend
    <2>4. QED
      BY OfFields, <1>16, <2>1, <2>2, <2>3, StopsKeep DEF ConfirmExit, IInv
  <1>17. CASE SystemDestroys
    <2>1. OneIntent'
      BY OfFields, <1>17, ClicklessAppend DEF SystemDestroys, Post, IInv
    <2>2. Held(queue') = Held(queue) \cup {Of("destroy", NoTest)}
      BY <1>17, HeldAppend DEF SystemDestroys, Post
    <2>3. QED
      BY OfFields, <1>17, <2>1, <2>2, StopsKeep DEF SystemDestroys, IInv
  <1>18. CASE Launch
    <2>1. queue' = <<>> /\ dialogs' = <<>> /\ Held(queue') = {}
      BY <1>18, HeldEmpty DEF Launch
    <2>2. \A u \in Tests : ~Intent(u)' /\ ~Pending(Of("RUNNING", u))'
      BY <2>1 DEF Intent, Pending
    <2>3. OneIntent' /\ IntentClear' /\ UnheardClear'
      BY <2>1, <2>2 DEF OneIntent, IntentClear, UnheardClear
    <2>4. MutualExclusion' /\ StopReachable' /\ Painted'
      BY <1>18 DEF Launch, Resumed, Disabled, MutualExclusion, StopReachable, Painted, Mutual
    <2>5. QED
      BY <2>3, <2>4 DEF IInv
  <1>19. QED
    BY <1>1, <1>2, <1>3, <1>4, <1>5, <1>6, <1>7, <1>8, <1>9, <1>10, <1>11, <1>12,
       <1>13, <1>14, <1>15, <1>16, <1>17, <1>18 DEF Next, Dispatch

LEMMA PatientInv == ASSUME Patient PROVE Spec => []IInv
  <1>1. Init => IInv
    <2> SUFFICES ASSUME Init PROVE IInv
      OBVIOUS
    <2>1. Held(queue) = {} /\ queue = <<>> /\ dialogs = <<>>
      BY HeldEmpty DEF Init
    <2>2. OneIntent /\ IntentClear /\ UnheardClear
      BY <2>1 DEF OneIntent, IntentClear, UnheardClear, Intent, Pending
    <2>3. Painted /\ MutualExclusion /\ StopReachable
      BY BoardAssumption DEF Init, Painted, MutualExclusion, StopReachable, Mutual, Resumed, Disabled
    <2>4. QED
      BY <2>2, <2>3 DEF IInv
  <1>2. TypeOK /\ Gone /\ RunningDisables /\ IInv /\ [Next]_vars => IInv'
    BY IInvStep
  <1>3. QED
    BY <1>1, <1>2, TypeCorrect, GoneInv, RunningSwitchesOff, PTL DEF Spec

\* Two tests that list each other never run together, whatever the tests, the
\* table and the order of clicks, dialogs and messages of a patient user.
THEOREM PatientExclusion == ASSUME Patient PROVE Spec => []MutualExclusion
  <1>1. IInv => MutualExclusion
    BY DEF IInv
  <1>2. QED
    BY <1>1, PatientInv, PTL

\* The stop button of a running test is never switched off by a test that is
\* listed in its own row.
THEOREM PatientStops == ASSUME Patient PROVE Spec => []StopReachable
  <1>1. IInv => StopReachable
    BY DEF IInv
  <1>2. QED
    BY <1>1, PatientInv, PTL

-------------------------------------------------------------------------------
(***************************************************************************)
(* No test is left switched off.  NoStrandedTest needs to know the order   *)
(* of the queue: the RUNNING that is about to switch a row off is followed *)
(* by the STOP of the same test, unless that test still runs.              *)
(***************************************************************************)
FollowedByStop(q, u, i) == \E j \in 1..Len(q) : i < j /\ q[j] = Of("STOP", u)

RunningFollowed ==
  Visible => \A i \in 1..Len(queue), u \in Tests :
               queue[i] = Of("RUNNING", u) => u \in running \/ FollowedByStop(queue, u, i)

\* The steps that take the next message.
LEMMA FollowedTail ==
  ASSUME TypeOK, RunningFollowed, queue # <<>>, queue' = Tail(queue), running' = running,
         life' = life
  PROVE  RunningFollowed'
  <1> SUFFICES ASSUME Visible, NEW i \in 1..Len(queue'), NEW u \in Tests,
                      queue'[i] = Of("RUNNING", u), u \notin running
               PROVE  FollowedByStop(queue', u, i)
    BY DEF RunningFollowed, Visible
  <1>1. /\ Len(queue) \in Nat /\ Len(queue') = Len(queue) - 1
        /\ \A k \in 1..Len(queue') : queue'[k] = queue[k + 1]
    BY DEF TypeOK
  <1>2. i + 1 \in 1..Len(queue) /\ queue[i + 1] = Of("RUNNING", u)
    BY <1>1
  <1>3. PICK j \in 1..Len(queue) : i + 1 < j /\ queue[j] = Of("STOP", u)
    BY <1>2 DEF RunningFollowed, FollowedByStop
  <1>4. j - 1 \in 1..Len(queue') /\ i < j - 1 /\ queue'[j - 1] = queue[j]
    BY <1>1, <1>3
  <1>5. QED
    BY <1>3, <1>4 DEF FollowedByStop

\* The steps that post a message: a RUNNING of a test that runs now, or the STOP
\* of the only test that no longer does.
LEMMA FollowedAppend ==
  ASSUME TypeOK, RunningFollowed, Visible, NEW m \in Message, queue' = Append(queue, m),
         \A u \in Tests : m = Of("RUNNING", u) => u \in running',
         \A u \in Tests : u \in running /\ u \notin running' => m = Of("STOP", u)
  PROVE  RunningFollowed'
  <1> SUFFICES ASSUME NEW i \in 1..Len(queue'), NEW u \in Tests,
                      queue'[i] = Of("RUNNING", u), u \notin running'
               PROVE  FollowedByStop(queue', u, i)
    BY DEF RunningFollowed
  <1>1. /\ Len(queue) \in Nat /\ Len(queue') = Len(queue) + 1
        /\ \A k \in 1..Len(queue) : queue'[k] = queue[k]
        /\ queue'[Len(queue) + 1] = m
    BY DEF TypeOK
  <1>2. i \in 1..Len(queue) /\ queue[i] = Of("RUNNING", u)
    BY <1>1
  <1>3. CASE u \in running
    <2>1. queue'[Len(queue) + 1] = Of("STOP", u) /\ i < Len(queue) + 1
      BY <1>1, <1>2, <1>3
    <2>2. QED
      BY <1>1, <2>1 DEF FollowedByStop
  <1>4. CASE u \notin running
    <2>1. PICK j \in 1..Len(queue) : i < j /\ queue[j] = Of("STOP", u)
      BY <1>2, <1>4 DEF RunningFollowed, FollowedByStop
    <2>2. j \in 1..Len(queue') /\ queue'[j] = Of("STOP", u)
      BY <1>1, <2>1
    <2>3. QED
      BY <2>1, <2>2 DEF FollowedByStop
  <1>5. QED
    BY <1>3, <1>4

LEMMA FollowedStep ==
  ASSUME TypeOK, RunningFollowed, [Next]_vars
  PROVE  RunningFollowed'
  <1> USE BoardAssumption, Made, OfFields DEF TypeOK
  <1>1. CASE UNCHANGED <<running, queue, life>>
    BY <1>1 DEF RunningFollowed, Visible, FollowedByStop
  <1>2. ASSUME NEW t \in Tests, OnStartClicked(t) \/ OnRunning(t) \/ OnStop(t)
        PROVE  RunningFollowed'
    BY <1>2, FollowedTail DEF OnStartClicked, OnRunning, OnStop
  <1>3. CASE OnDestroy \/ Crash
    BY <1>3 DEF OnDestroy, Crash, RunningFollowed, Visible
  <1>4. ASSUME NEW t \in Tests, Tap(t) PROVE RunningFollowed'
    BY <1>4, FollowedAppend DEF Tap, Post, UserTaps, Visible
  <1>5. ASSUME NEW t \in Tests, ConfirmTarget(t) PROVE RunningFollowed'
    BY <1>5, FollowedAppend DEF ConfirmTarget, Start, Post, Top
  <1>6. ASSUME NEW t \in Tests, ConfirmStop(t) PROVE RunningFollowed'
    BY <1>6, FollowedAppend DEF ConfirmStop, Stop, Post, Top
  <1>7. ASSUME NEW t \in Tests, TestEnds(t) PROVE RunningFollowed'
    BY <1>7, FollowedAppend DEF TestEnds, Stop, Post
  <1>8. CASE ConfirmExit
    BY <1>8, FollowedAppend DEF ConfirmExit, Post, Top
  <1>9. CASE SystemDestroys
    BY <1>9, FollowedAppend DEF SystemDestroys, Post, Visible
  <1>10. CASE Launch
    BY <1>10 DEF Launch, RunningFollowed
  <1>11. QED
    BY <1>1, <1>2, <1>3, <1>4, <1>5, <1>6, <1>7, <1>8, <1>9, <1>10 DEF Next, Dispatch, vars,
       StartFails, UpdateImpl, Dismiss, OnStart, OnBackPressed

\* Steps after which a test that is off was off before, its opponents still run
\* or a STOP is still to come.
LEMMA StrandedKept ==
  ASSUME TypeOK, NoStrandedTest, Visible, avail' = avail,
         \/ running \subseteq running' /\ \A u \in Tests : Pending(Of("STOP", u)) => Pending(Of("STOP", u))'
         \/ \E u \in Tests : Pending(Of("STOP", u))'
  PROVE  NoStrandedTest'
  BY DEF NoStrandedTest, Opponents, Pending, TypeOK

LEMMA StrandedStep ==
  ASSUME TypeOK, RunningFollowed, NoStrandedTest, [Next]_vars
  PROVE  NoStrandedTest'
  <1> USE BoardAssumption, Made, OfFields DEF TypeOK
  <1>1. CASE UNCHANGED <<running, avail, queue, life>>
    BY <1>1 DEF NoStrandedTest, Visible, Opponents, Pending, Held
  <1>2. ASSUME NEW t \in Tests, OnStartClicked(t) PROVE NoStrandedTest'
    <2>1. Held(queue) = {Of("click", t)} \cup Held(queue')
      BY <1>2, HeldTail DEF OnStartClicked
    <2>2. \A u \in Tests : Pending(Of("STOP", u)) => Pending(Of("STOP", u))'
      BY <2>1 DEF Pending
    <2>3. QED
      BY <1>2, <2>2, StrandedKept DEF OnStartClicked, NoStrandedTest, Visible
  <1>3. ASSUME NEW t \in Tests, OnRunning(t) PROVE NoStrandedTest'
    <2> SUFFICES ASSUME Visible, NEW w \in Tests \ avail'
                 PROVE  \/ Opponents(w) \cap running # {}
                        \/ \E u \in Tests : Pending(Of("STOP", u))'
      BY <1>3 DEF NoStrandedTest, Visible, OnRunning, Opponents
    <2>1. Held(queue) = {Of("RUNNING", t)} \cup Held(queue')
      BY <1>3, HeldTail DEF OnRunning
    <2>2. CASE w \in Row[t]
      <3>1. 1 \in 1..Len(queue) /\ queue[1] = Of("RUNNING", t)
        BY <1>3 DEF OnRunning
      <3>2. CASE t \in running
        BY <2>2, <3>2 DEF Opponents
      <3>3. CASE t \notin running
        <4>1. Pending(Of("STOP", t))
          BY <3>1, <3>3 DEF RunningFollowed, FollowedByStop, Pending, Held
        <4>2. QED
          BY <2>1, <4>1 DEF Pending
      <3>4. QED
        BY <3>2, <3>3
    <2>3. CASE w \notin Row[t]
      <3>1. w \notin avail
        BY <1>3, <2>3 DEF OnRunning
      <3>2. QED
        BY <2>1, <3>1 DEF NoStrandedTest, Pending
    <2>4. QED
      BY <2>2, <2>3
  <1>4. ASSUME NEW t \in Tests, OnStop(t) PROVE NoStrandedTest'
    BY <1>4 DEF OnStop, Freed, NoStrandedTest, Opponents, Visible
  <1>5. CASE OnDestroy \/ Crash
    BY <1>5 DEF OnDestroy, Crash, NoStrandedTest, Visible
  <1>6. ASSUME NEW t \in Tests, Tap(t) PROVE NoStrandedTest'
    <2>1. \A u \in Tests : Pending(Of("STOP", u)) => Pending(Of("STOP", u))'
      BY <1>6, HeldAppend DEF Tap, Post, Pending
    <2>2. QED
      BY <1>6, <2>1, StrandedKept DEF Tap, UserTaps, Visible
  <1>7. ASSUME NEW t \in Tests, ConfirmTarget(t) PROVE NoStrandedTest'
    <2>1. \A u \in Tests : Pending(Of("STOP", u)) => Pending(Of("STOP", u))'
      BY <1>7, HeldAppend DEF ConfirmTarget, Start, Post, Pending
    <2>2. QED
      BY <1>7, <2>1, StrandedKept DEF ConfirmTarget, Start, Top
  <1>8. ASSUME NEW t \in Tests, ConfirmStop(t) \/ TestEnds(t) PROVE NoStrandedTest'
    <2>1. Stop(t) /\ Visible /\ avail' = avail
      BY <1>8 DEF ConfirmStop, TestEnds, Top
    <2>2. Held(queue') = Held(queue) \cup {Of("STOP", t)}
      BY <2>1, HeldAppend DEF Stop, Post
    <2>3. Pending(Of("STOP", t))'
      BY <2>2 DEF Pending
    <2>4. QED
      BY <2>1, <2>3, StrandedKept
  <1>9. CASE ConfirmExit \/ SystemDestroys
    <2>1. Visible /\ avail' = avail /\ running' = running
          /\ queue' = Append(queue, Of("destroy", NoTest))
      BY <1>9 DEF ConfirmExit, SystemDestroys, Post, Visible
    <2>2. Held(queue') = Held(queue) \cup {Of("destroy", NoTest)}
      BY <2>1, HeldAppend
    <2>3. \A u \in Tests : Pending(Of("STOP", u)) => Pending(Of("STOP", u))'
      BY <2>2 DEF Pending
    <2>4. QED
      BY <2>1, <2>3, StrandedKept
  <1>10. CASE OnStart
    BY <1>10 DEF OnStart, NoStrandedTest, Opponents, Disabled, Pending, Held, Visible
  <1>11. CASE Launch
    BY <1>11 DEF Launch, Resumed, NoStrandedTest, Opponents, Disabled
  <1>12. QED
    BY <1>1, <1>2, <1>3, <1>4, <1>5, <1>6, <1>7, <1>8, <1>9, <1>10, <1>11 DEF Next, Dispatch,
       vars, StartFails, UpdateImpl, Dismiss, OnBackPressed

\* However the user taps, no test stays switched off with nothing running
\* against it and no STOP on its way.
THEOREM NobodyStranded == Spec => []NoStrandedTest
  <1>1. Init => RunningFollowed /\ NoStrandedTest
    BY BoardAssumption DEF Init, RunningFollowed, NoStrandedTest, Opponents, Resumed, Disabled
  <1>2. TypeOK /\ RunningFollowed /\ NoStrandedTest /\ [Next]_vars
          => RunningFollowed' /\ NoStrandedTest'
    BY FollowedStep, StrandedStep
  <1>3. QED
    BY <1>1, <1>2, TypeCorrect, PTL DEF Spec

\* However the user taps, a button he can touch has no opponent running that the
\* activity has heard of, unless it is about to be repainted.
THEOREM TouchesAlwaysFresh == Spec => []TouchesAreFresh
  <1>1. Init => Painted
    BY DEF Init, Painted
  <1>2. TypeOK /\ Painted /\ [Next]_vars => Painted'
    BY DEF TypeOK, Painted, Next, vars, Dispatch, OnStartClicked, OnRunning, OnStop, OnDestroy,
           Crash, Tap, ConfirmTarget, StartFails, ConfirmStop, TestEnds, UpdateImpl,
           Dismiss, OnStart, OnBackPressed, ConfirmExit, SystemDestroys, Launch,
           Start, Stop
  <1>3. TypeOK /\ Painted /\ RunningDisables => TouchesAreFresh
    BY DEF TypeOK, Painted, RunningDisables, TouchesAreFresh
  <1>4. QED
    BY <1>1, <1>2, <1>3, TypeCorrect, RunningSwitchesOff, PTL DEF Spec

\* Both at once: the buttons follow the tests that run, for every table, every user
\* and every bound on the queue.
THEOREM ButtonsAlwaysFollow == Spec => []ButtonsFollow
  <1>1. RunningDisables /\ NoStrandedTest => ButtonsFollow
    BY DEF ButtonsFollow
  <1>2. QED
    BY <1>1, RunningSwitchesOff, NobodyStranded, PTL

-------------------------------------------------------------------------------
(***************************************************************************)
(* The way out of the app.  The exit dialog is offered when no test runs   *)
(* and nothing is in the queue; while it is shown nothing can start, and   *)
(* once it is confirmed only the message that destroys the activity comes. *)
(***************************************************************************)
ExitAsked == life = "up" /\ dialogs # <<>> /\ Head(dialogs) = Of("exit", NoTest)

Leaving ==
  /\ running = {} /\ dialogs = <<>>
  /\ \/ life = "finishing" /\ queue = <<Of("destroy", NoTest)>>
     \/ life = "destroyed" /\ queue = <<>>

ExitInv ==
  /\ ExitAsked => running = {} /\ queue = <<>>
  /\ killer = "user" => Leaving

\* The activity is destroyed by the user or by the system.
Killed ==
  /\ \A m \in Held(queue) : m.kind = "destroy" => killer # "none"
  /\ life # "up" => killer # "none"

LEMMA KilledInv == Spec => []Killed
  <1>1. Init => Killed
    BY HeldEmpty DEF Init, Killed
  <1>2. TypeOK /\ Killed /\ [Next]_vars => Killed'
    <2> SUFFICES ASSUME TypeOK, Killed, [Next]_vars
                 PROVE  Killed'
      OBVIOUS
    <2> USE Made, OfFields DEF TypeOK, Killed
    <2>1. CASE UNCHANGED vars
      BY <2>1 DEF vars, Held
    <2>2. ASSUME NEW m \in Message, m.kind # "destroy", Post(m), UNCHANGED <<life, killer>>
          PROVE  Killed'
      <3>1. Held(queue') = Held(queue) \cup {m}
        BY <2>2, HeldAppend DEF Post
      <3>2. QED
        BY <2>2, <3>1
    <2>3. ASSUME queue # <<>>, queue' = Tail(queue), UNCHANGED <<life, killer>>
          PROVE  Killed'
      <3>1. Held(queue') \subseteq Held(queue)
        BY <2>3, HeldTail
      <3>2. QED
        BY <2>3, <3>1
    <2>4. ASSUME UNCHANGED <<queue, life, killer>>
          PROVE  Killed'
      BY <2>4 DEF Held
    <2>5. ASSUME NEW t \in Tests,
                 OnStartClicked(t) \/ OnRunning(t) \/ OnStop(t)
          PROVE  Killed'
      BY <2>3, <2>5 DEF OnStartClicked, OnRunning, OnStop
    <2>6. CASE OnDestroy
      <3>1. Head(queue) \in Held(queue)
        BY <2>6, HeldTail DEF OnDestroy
      <3>2. killer' # "none"
        BY <2>6, <3>1 DEF OnDestroy
      <3>3. QED
        BY <3>2
    <2>7. CASE Crash
      BY <2>7, HeldEmpty DEF Crash
    <2>8. ASSUME NEW t \in Tests,
                 Tap(t) \/ ConfirmTarget(t) \/ ConfirmStop(t) \/ TestEnds(t)
          PROVE  Killed'
      BY <2>2, <2>8 DEF Tap, ConfirmTarget, ConfirmStop, TestEnds, Start, Stop
    <2>9. ASSUME NEW t \in Tests, StartFails(t) \/ UpdateImpl(t)
          PROVE  Killed'
      BY <2>4, <2>9 DEF StartFails, UpdateImpl
    <2>10. CASE Dismiss \/ OnStart \/ OnBackPressed
      BY <2>4, <2>10 DEF Dismiss, OnStart, OnBackPressed
    <2>11. CASE ConfirmExit \/ SystemDestroys
      BY <2>11 DEF ConfirmExit, SystemDestroys
    <2>12. CASE Launch
      BY <2>12, HeldEmpty DEF Launch
    <2>13. QED
      BY <2>1, <2>5, <2>6, <2>7, <2>8, <2>9, <2>10, <2>11, <2>12 DEF Next, Dispatch
  <1>3. QED
    BY <1>1, <1>2, TypeCorrect, PTL DEF Spec

LEMMA ExitStep ==
  ASSUME Patient, TypeOK, OneIntent, ExitInv, [Next]_vars
  PROVE  ExitInv'
  <1> USE Made, OfFields, BoardAssumption DEF TypeOK, ExitInv, ExitAsked
  <1>1. Leaving => dialogs = <<>> /\ life # "up" /\ running = {}
    BY DEF Leaving
  <1>2. CASE UNCHANGED vars
    BY <1>2 DEF vars, Leaving
  <1>3. ASSUME NEW t \in Tests,
               OnStartClicked(t) \/ OnRunning(t) \/ OnStop(t)
        PROVE  ExitInv'
    <2>1. queue # <<>> /\ Head(queue) # Of("destroy", NoTest)
      BY <1>3, OfFields DEF OnStartClicked, OnRunning, OnStop
    <2>2. ~Leaving
      BY <2>1 DEF Leaving
    <2>3. CASE OnStartClicked(t)
      <3>1. Head(dialogs') # Of("exit", NoTest)
        BY <2>3, OfFields DEF OnStartClicked
      <3>2. QED
        BY <2>2, <2>3, <3>1 DEF OnStartClicked
    <2>4. CASE OnRunning(t) \/ OnStop(t)
      BY <2>1, <2>2, <2>4 DEF OnRunning, OnStop
    <2>5. QED
      BY <1>3, <2>3, <2>4
  <1>4. CASE OnDestroy
    <2>1. /\ dialogs' = <<>> /\ running' = {} /\ life' = "destroyed" /\ killer' = killer
          /\ queue # <<>>
      BY <1>4 DEF OnDestroy
    <2>2. Leaving => Tail(queue) = <<>>
      <3>1. Leaving => queue = <<Of("destroy", NoTest)>>
        BY <2>1 DEF Leaving
      <3>2. \A x : Tail(<<x>>) = <<>>
        OBVIOUS
      <3>3. QED
        BY <3>1, <3>2
    <2>3. Leaving => queue' = <<>>
      BY <1>4, <1>1, <2>2 DEF OnDestroy
    <2>4. QED
      BY <2>1, <2>3 DEF Leaving
  <1>5. CASE Crash
    BY <1>1, <1>5 DEF Crash, Leaving
  <1>6. ASSUME NEW t \in Tests, Tap(t) PROVE ExitInv'
    BY <1>1, <1>6 DEF Tap, UserTaps
  <1>7. ASSUME NEW t \in Tests,
               ConfirmTarget(t) \/ StartFails(t) \/ ConfirmStop(t)
        PROVE  ExitInv'
    <2>1. Tail(dialogs) = <<>> /\ dialogs # <<>>
      BY <1>7 DEF ConfirmTarget, StartFails, ConfirmStop, Top, OneIntent
    <2>2. dialogs' = <<>> \/ dialogs' = <<Of("error", t)>>
      <3>1. CASE ConfirmTarget(t) \/ ConfirmStop(t)
        BY <2>1, <3>1 DEF ConfirmTarget, ConfirmStop
      <3>2. CASE StartFails(t)
        <4>1. dialogs' = <<Of("error", t)>> \o Tail(dialogs)
          BY <3>2 DEF StartFails
        <4>2. <<Of("error", t)>> \o <<>> = <<Of("error", t)>>
          BY Made
        <4>3. QED
          BY <2>1, <4>1, <4>2
      <3>3. QED
        BY <1>7, <3>1, <3>2
    <2>3. dialogs' # <<>> => Head(dialogs') # Of("exit", NoTest)
      BY <2>2, OfFields
    <2>4. QED
      BY <1>1, <1>7, <2>1, <2>3 DEF ConfirmTarget, StartFails, ConfirmStop
  <1>8. ASSUME NEW t \in Tests, TestEnds(t) PROVE ExitInv'
    BY <1>1, <1>8 DEF TestEnds
  <1>9. ASSUME NEW t \in Tests, UpdateImpl(t) PROVE ExitInv'
    BY <1>9 DEF UpdateImpl, Leaving
  <1>10. CASE Dismiss
    <2>1. Tail(dialogs) = <<>> /\ dialogs # <<>>
      BY <1>10 DEF Dismiss, OneIntent
    <2>2. QED
      BY <1>1, <1>10, <2>1 DEF Dismiss
  <1>11. CASE OnStart
    BY <1>11, <1>1 DEF OnStart, Leaving
  <1>12. CASE OnBackPressed
    <2>1. dialogs' = <<Of("exit", NoTest)>> => running = {}
      BY <1>12, OfFields DEF OnBackPressed
    <2>2. Head(dialogs') = Of("exit", NoTest) => running = {}
      BY <1>12, OfFields DEF OnBackPressed
    <2>3. QED
      BY <1>1, <1>12, <2>2 DEF OnBackPressed, UserTaps
  <1>13. CASE ConfirmExit
    <2>1. ExitAsked /\ Tail(dialogs) = <<>>
      BY <1>13 DEF ConfirmExit, Top, OneIntent
    <2>2. queue = <<>> /\ queue' = Append(queue, Of("destroy", NoTest))
      BY <1>13, <2>1 DEF ConfirmExit, Post
    <2>3. queue' = <<Of("destroy", NoTest)>>
      BY <2>2
    <2>4. QED
      BY <1>13, <2>1, <2>3 DEF ConfirmExit, Leaving
  <1>14. CASE SystemDestroys
    BY <1>14 DEF SystemDestroys
  <1>15. CASE Launch
    BY <1>15 DEF Launch
  <1>16. QED
    BY <1>2, <1>3, <1>4, <1>5, <1>6, <1>7, <1>8, <1>9, <1>10, <1>11, <1>12, <1>13, <1>14,
       <1>15 DEF Next, Dispatch

\* A patient user gets out of each running test and, with no test running, out of the
\* app without a crash (onBackPressed), for every table and every set of tests.
THEOREM PatientGetsOut == ASSUME Patient PROVE Spec => []WaysOut
  <1>1. Init => ExitInv
    BY DEF Init, ExitInv, ExitAsked
  <1>2. IInv => OneIntent
    BY DEF IInv
  <1>3. TypeOK /\ OneIntent /\ ExitInv /\ [Next]_vars => ExitInv'
    BY ExitStep
  <1>4. ExitInv /\ Killed /\ StopReachable /\ TypeOK => WaysOut
    BY DEF ExitInv, Killed, Leaving, WaysOut, UserExitNeverCrashes, TypeOK
  <1>5. QED
    BY <1>1, <1>2, <1>3, <1>4, TypeCorrect, KilledInv, PatientInv, PatientStops,
       PTL DEF Spec
===============================================================================
