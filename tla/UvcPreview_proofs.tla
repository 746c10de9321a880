---------------------------- MODULE UvcPreview_proofs ----------------------------
(***************************************************************************)
(* Proofs about UvcPreview, for every length of the queue, every set of    *)
(* callbacks and windows and every bound on starts and frames.             *)
(***************************************************************************)
EXTENDS UvcPreview, TLAPS, FiniteSetTheorems

\* A buffer count moves by whole numbers.
LEMMA CountsOut ==
  ASSUME out \in Int, lost \in Nat, NEW n \in Nat
  PROVE  /\ Get => out' \in Int /\ lost' \in Nat
         /\ Recycle(n) => out' \in Int /\ lost' \in Nat
         /\ UNCHANGED buffers => out' \in Int /\ lost' \in Nat
  BY DEF Get, Recycle, buffers

\* One slot holds one frame or none.
LEMMA OneNat == \A n : One(n) \in Nat
  BY DEF One

\* No frame is a frame of the records.
LEMMA NoFrame == 0 \in Numbers
  BY PreviewAssumption DEF Numbers

\* The capture threads after one of them has moved, and after some were woken.
LEMMA ThreadsTyped ==
  ASSUME NEW threads \in [Starts -> CaptureState]
  PROVE  /\ \A s \in Starts, c \in CaptureState :
              [threads EXCEPT ![s] = c] \in [Starts -> CaptureState]
         /\ Woken(threads) \in [Starts -> CaptureState]
  <1>1. \A s \in Starts : [threads[s] EXCEPT !.at = "woken"] \in CaptureState
    BY DEF CaptureState
  <1>2. \A s \in Starts, c \in CaptureState :
          [threads EXCEPT ![s] = c] \in [Starts -> CaptureState]
    OBVIOUS
  <1>3. Woken(threads) \in [Starts -> CaptureState]
    BY <1>1 DEF Woken
  <1>4. QED
    BY <1>2, <1>3

LEMMA SignalTyped ==
  ASSUME capture \in [Starts -> CaptureState], SignalCapture
  PROVE  capture' \in [Starts -> CaptureState]
  <1>1. CASE UNCHANGED capture
    BY <1>1
  <1>2. ASSUME NEW s \in Starts, capture' = [capture EXCEPT ![s].at = "woken"]
        PROVE  capture' \in [Starts -> CaptureState]
    BY <1>2 DEF CaptureState
  <1>3. QED
    BY <1>1, <1>2 DEF SignalCapture

-------------------------------------------------------------------------------
\* The variables keep their types: no thread leaves its program, the queue is no
\* longer than MAX_FRAME, and what the app is about to set is a callback or a window.
THEOREM TypeCorrect == Spec => []TypeOK
  <1>1. Init => TypeOK
    <2> SUFFICES ASSUME Init PROVE TypeOK
      OBVIOUS
    <2> USE PreviewAssumption, NoFrame DEF Init
    <2>1. app \in AppState /\ app.new = None
      BY DEF Calling, AppState
    <2>2. preview \in PreviewState
      BY DEF PreviewState
    <2>3. Fresh \in CaptureState
      BY DEF Fresh, CaptureState
    <2>4. capture \in [Starts -> CaptureState]
      BY <2>3
    <2>5. previewFrames \in Seq(Numbers \ {0}) /\ Len(previewFrames) <= MAX_FRAME
      OBVIOUS
    <2>6. /\ made \in Numbers /\ out \in Int /\ lost \in Nat
          /\ capture_thread \in 0 .. MaxCalls
          /\ starts \in 0 .. MaxCalls /\ sets \in 0 .. MaxCalls
          /\ early \in SUBSET (0 .. MaxCalls)
      OBVIOUS
    <2>7. /\ mIsRunning \in BOOLEAN /\ mIsCapturing \in BOOLEAN
          /\ mHasCaptureThread \in BOOLEAN /\ streaming \in BOOLEAN /\ late \in BOOLEAN
      OBVIOUS
    <2>8. /\ mFrameCallbackObj \in Callbacks \cup {None}
          /\ mCaptureWindow \in Windows \cup {None}
          /\ app.new \in (IF app.what = "callback" THEN Callbacks ELSE Windows) \cup {None}
      BY <2>1
    <2>9. captureQueu \in Numbers
      OBVIOUS
    <2>10. QED
      BY <2>1, <2>2, <2>4, <2>5, <2>6, <2>7, <2>8, <2>9 DEF TypeOK
  <1>2. TypeOK /\ [Next]_vars => TypeOK'
    <2> SUFFICES ASSUME TypeOK, [Next]_vars
                 PROVE  TypeOK'
      OBVIOUS
    <2> USE PreviewAssumption, CountsOut, OneNat DEF TypeOK, flags, targets, buffers, counts
    <2>1. CASE UNCHANGED vars
      BY <2>1 DEF vars
    <2>2. CASE User
      <3>1. CASE StartPreview
        BY <3>1 DEF StartPreview, PreviewState, Numbers
      <3>2. ASSUME NEW what \in {"callback", "window"},
                   NEW new \in (IF what = "callback" THEN Callbacks ELSE Windows) \cup {None},
                   NEW next \in {"idle", "stop"},
                   Set(what, new, next), UNCHANGED sets \/ Counted
            PROVE  TypeOK'
        <4>1. sets' \in 0 .. MaxCalls
          BY <3>2 DEF Counted
        <4>2. CASE SetWaits(what, new, next)
          BY <3>2, <4>1, <4>2 DEF Set, SetWaits, AppState
        <4>3. CASE SetNow(what, new, next)
          <5>1. app' \in AppState /\ app'.new = None
            BY <4>3 DEF SetNow, Calling, AppState
          <5>2. mFrameCallbackObj' \in Callbacks \cup {None} /\ mCaptureWindow' \in Windows \cup {None}
            BY <4>3 DEF SetNow, Assign
          <5>3. QED
            BY <3>2, <4>1, <4>3, <5>1, <5>2 DEF Set, SetNow
        <4>4. QED
          BY <3>2, <4>2, <4>3 DEF Set
      <3>3. QED
        BY <2>2, <3>1, <3>2 DEF User, setFrameCallback, setCaptureDisplay, stopPreview
    <2>3. CASE App
      <3>1. CASE AppWaits
        BY <3>1, SignalTyped DEF AppWaits, AppState
      <3>2. CASE AppChanges
        <4>1. app' \in AppState /\ app'.new = None
          BY <3>2 DEF AppChanges, Calling, AppState
        <4>2. mFrameCallbackObj' \in Callbacks \cup {None} /\ mCaptureWindow' \in Windows \cup {None}
          BY <3>2 DEF AppChanges, Assign, AppState
        <4>3. QED
          BY <3>2, <4>1, <4>2 DEF AppChanges
      <3>3. CASE StopRunning
        BY <3>3, ZenonT(60) DEF StopRunning, AppState
      <3>4. CASE WakeThreads
        <4>1. app' \in AppState /\ app'.new = app.new /\ app'.what = app.what
          BY <3>4 DEF WakeThreads, AppState
        <4>2. preview' \in PreviewState
          BY <3>4 DEF WakeThreads, Signalled, PreviewState
        <4>3. capture' \in [Starts -> CaptureState]
          BY <3>4, SignalTyped DEF WakeThreads
        <4>4. early' \in SUBSET (0 .. MaxCalls)
          BY <3>4 DEF WakeThreads
        <4>5. QED
          BY <3>4, <4>1, <4>2, <4>3, <4>4 DEF WakeThreads
      <3>5. CASE JoinCapture
        BY <3>5 DEF JoinCapture, AppState
      <3>6. ASSUME ClearAll, preview' \in PreviewState
            PROVE  TypeOK'
        <4>1. app' \in AppState /\ app'.new = app.new /\ app'.what = app.what
          BY <3>6 DEF ClearAll, AppState
        <4>2. Len(previewFrames) + One(captureQueu) \in Nat
          BY DEF One
        <4>3. out' \in Int /\ lost' \in Nat
          BY <3>6, <4>2 DEF ClearAll
        <4>4. previewFrames' \in Seq(Numbers \ {0}) /\ Len(previewFrames') <= MAX_FRAME
          BY <3>6 DEF ClearAll
        <4>5. captureQueu' \in Numbers /\ mFrameCallbackObj' \in Callbacks \cup {None}
              /\ mCaptureWindow' \in Windows \cup {None}
          BY <3>6, PreviewAssumption DEF ClearAll, Numbers
        <4>6. UNCHANGED <<flags, streaming, made, capture, capture_thread, starts, sets,
                          late, early>>
          BY <3>6 DEF ClearAll
        <4>7. QED
          BY <3>6, <4>1, <4>3, <4>4, <4>5, <4>6
      <3>7. CASE JoinPreview
        <4>1. preview' \in PreviewState
          BY <3>7, NoFrame DEF JoinPreview, PreviewState
        <4>2. QED
          BY <3>6, <3>7, <4>1 DEF JoinPreview
      <3>8. CASE ClearNow
        BY <3>6, <3>8 DEF ClearNow
      <3>9. QED
        BY <2>3, <3>1, <3>2, <3>3, <3>4, <3>5, <3>7, <3>8 DEF App
    <2>4. CASE FrameComes
      <3>1. Newest \in Numbers \ {0}
        BY DEF Newest, Numbers
      <3>2. /\ previewFrames' \in Seq(Numbers \ {0})
            /\ Len(previewFrames') <= MAX_FRAME
        BY <2>4, <3>1 DEF FrameComes, HasRoom, Behind
      <3>3. preview' \in PreviewState
        BY <2>4 DEF FrameComes, Signalled, PreviewState
      <3>4. QED
        BY <2>4, <3>1, <3>2, <3>3 DEF FrameComes
    <2>5. CASE Preview
      <3>1. ASSUME NEW from, NEW to \in {"create", "tell", "test", "wait", "out", "stop", "ended"},
                   PreviewAt(from, to)
            PROVE  preview' \in PreviewState
        BY <3>1 DEF PreviewAt, PreviewState
      <3>2. CASE StartStreaming
        BY <3>1, <3>2 DEF StartStreaming
      <3>3. ASSUME Recycle(Len(previewFrames)), previewFrames' = <<>>
            PROVE  /\ out' \in Int /\ lost' \in Nat
                   /\ previewFrames' \in Seq(Numbers \ {0})
                   /\ Len(previewFrames') <= MAX_FRAME
        BY <3>3
      <3>4. CASE CreateCapture
        <4>1. capture' \in [Starts -> CaptureState]
          BY <3>4, ZenonT(60) DEF CreateCapture, CaptureState
        <4>2. QED
          BY <3>1, <3>3, <3>4, <4>1 DEF CreateCapture
      <3>5. CASE CreateFails
        BY <3>1, <3>3, <3>5 DEF CreateFails
      <3>6. CASE StreamFails
        BY <3>1, <3>6 DEF StreamFails
      <3>7. CASE TellCapture
        BY <3>1, <3>7 DEF TellCapture, Told
      <3>8. CASE TestRunning
        BY <3>1, <3>8 DEF TestRunning
      <3>9. CASE WaitPreviewFrame
        <4>1. previewFrames # <<>> =>
                /\ Head(previewFrames) \in Numbers
                /\ Tail(previewFrames) \in Seq(Numbers \ {0})
                /\ Len(Tail(previewFrames)) <= MAX_FRAME
          OBVIOUS
        <4>2. /\ [preview EXCEPT !.at = "asleep"] \in PreviewState
              /\ [preview EXCEPT !.at = "test"] \in PreviewState
          BY DEF PreviewState
        <4>3. \A n \in Numbers : [at |-> "draw", frame |-> n] \in PreviewState
          BY DEF PreviewState
        <4>4. preview' \in PreviewState
          BY <3>9, <4>1, <4>2, <4>3 DEF WaitPreviewFrame
        <4>5. /\ late' \in BOOLEAN
              /\ previewFrames' \in Seq(Numbers \ {0}) /\ Len(previewFrames') <= MAX_FRAME
          BY <3>9, <4>1 DEF WaitPreviewFrame
        <4>6. QED
          BY <3>9, <4>4, <4>5 DEF WaitPreviewFrame
      <3>10. Drawn => preview' \in PreviewState
        BY NoFrame DEF Drawn, PreviewState
      <3>11. CASE AddCaptureFrame
        <4>1. capture' \in [Starts -> CaptureState]
          BY <3>11, ThreadsTyped DEF AddCaptureFrame, BroadcastTo
        <4>2. app' \in AppState /\ app'.new = app.new /\ app'.what = app.what
          BY <3>11 DEF AddCaptureFrame, BroadcastTo, AppState
        <4>3. preview.frame \in Numbers
          BY DEF PreviewState
        <4>4. QED
          BY <3>10, <3>11, <4>1, <4>2, <4>3 DEF AddCaptureFrame, Replaced
      <3>12. CASE ForgetFrame
        BY <3>10, <3>12 DEF ForgetFrame
      <3>13. CASE DropFrame
        BY <3>10, <3>13 DEF DropFrame
      <3>14. CASE EndPreview
        BY <3>1, <3>14, SignalTyped DEF EndPreview
      <3>15. CASE StopStreaming
        BY <3>1, <3>15 DEF StopStreaming
      <3>16. QED
        BY <2>5, <3>2, <3>4, <3>5, <3>6, <3>7, <3>8, <3>9, <3>11, <3>12, <3>13, <3>14,
           <3>15 DEF Preview
    <2>6. ASSUME NEW s \in Starts, Capture(s)
          PROVE  TypeOK'
      <3>1. ASSUME NEW c \in CaptureState, CaptureIs(s, c)
            PROVE  capture' \in [Starts -> CaptureState]
        BY <3>1, ThreadsTyped DEF CaptureIs
      <3>2. capture[s] \in CaptureState
        OBVIOUS
      <3>3. ASSUME NEW from, NEW to \in {"loop", "mode", "ended", "wait", "exit"},
                   CaptureAt(s, from, to)
            PROVE  capture' \in [Starts -> CaptureState]
        <4>1. [capture[s] EXCEPT !.at = to] \in CaptureState
          BY <3>2 DEF CaptureState
        <4>2. QED
          BY <3>1, <3>3, <4>1 DEF CaptureAt
      <3>4. CASE ClearCaptureFrame(s)
        BY <3>3, <3>4 DEF ClearCaptureFrame, Numbers
      <3>5. CASE DoCapture(s)
        BY <3>3, <3>5 DEF DoCapture
      <3>6. CASE ChooseMode(s)
        <4>1. [capture[s] EXCEPT !.at = "check", !.surface = mCaptureWindow # None] \in CaptureState
          BY <3>2 DEF CaptureState
        <4>2. QED
          BY <3>1, <3>6, <4>1 DEF ChooseMode
      <3>7. CASE CheckCapturing(s)
        BY <3>3, <3>7 DEF CheckCapturing
      <3>8. CASE WaitCaptureFrame(s)
        <4>1. /\ [capture[s] EXCEPT !.at = "asleep"] \in CaptureState
              /\ [capture[s] EXCEPT !.at = "check"] \in CaptureState
              /\ [capture[s] EXCEPT !.frame = captureQueu,
                    !.at = IF capture[s].surface THEN "copy" ELSE "call"] \in CaptureState
          BY <3>2 DEF CaptureState
        <4>2. capture' \in [Starts -> CaptureState]
          BY <3>1, <3>8, <4>1 DEF WaitCaptureFrame
        <4>3. captureQueu' \in Numbers /\ late' \in BOOLEAN
          BY <3>8, NoFrame DEF WaitCaptureFrame
        <4>4. QED
          BY <3>8, <4>2, <4>3 DEF WaitCaptureFrame
      <3>9. CASE CopyToSurface(s)
        <4>1. [capture[s] EXCEPT !.at = "call",
                 !.converted = capture[s].converted \/ mIsCapturing] \in CaptureState
          BY <3>2 DEF CaptureState
        <4>2. QED
          BY <3>1, <3>9, <4>1 DEF CopyToSurface
      <3>10. CASE DoCaptureCallback(s)
        <4>1. [capture[s] EXCEPT !.at = "check", !.frame = 0] \in CaptureState
          BY <3>2, NoFrame DEF CaptureState
        <4>2. QED
          BY <3>1, <3>10, <4>1 DEF DoCaptureCallback
      <3>11. CASE ExitMode(s)
        <4>1. [Fresh EXCEPT !.at = "loop"] \in CaptureState
          BY NoFrame DEF Fresh, CaptureState
        <4>2. [capture EXCEPT ![s] = [Fresh EXCEPT !.at = "loop"]] \in [Starts -> CaptureState]
          BY <4>1
        <4>3. capture' \in [Starts -> CaptureState]
          BY <3>11, <4>2, ThreadsTyped DEF ExitMode, BroadcastTo
        <4>4. app' \in AppState /\ app'.new = app.new /\ app'.what = app.what
          BY <3>11 DEF ExitMode, BroadcastTo, AppState
        <4>5. QED
          BY <3>11, <4>3, <4>4 DEF ExitMode
      <3>12. QED
        BY <2>6, <3>4, <3>5, <3>6, <3>7, <3>8, <3>9, <3>10, <3>11 DEF Capture
    <2>7. QED
      BY <2>1, <2>2, <2>3, <2>4, <2>5, <2>6 DEF Next
  <1>3. QED
    BY <1>1, <1>2, PTL DEF Spec
-------------------------------------------------------------------------------
(* A stop leaves nothing behind.  The preview thread lives as long as the preview  *)
(* runs or is being stopped.  The capture threads of earlier starts have ended or  *)
(* were stopped too early; that of this start does not exist before "create", and  *)
(* past "tell" the flag and the thread a stop joins are those of this start.       *)
(* NothingLeft is not inductive: it says nothing while the preview runs.           *)

Stopping == app.at \in {"wake", "join capture", "join preview"}
Untold == preview.at \in {"start", "create", "tell"}
Settled(s) == capture[s].at \in {"none", "ended"} \/ s \in early

ThreadsInv ==
  /\ preview.at # "none" <=> mIsRunning \/ Stopping
  /\ Stopping \/ app.at = "clear" => ~mIsRunning
  /\ streaming => preview.at \notin {"none", "start", "ended"}
  /\ preview.at # "none" => starts # 0

PresentInv(s) ==
  /\ preview.at \in {"start", "create"} => capture[s].at = "none"
  /\ preview.at = "tell" => capture_thread = s
  /\ preview.at # "none" /\ ~Untold =>
       capture[s].at = "none" \/ (mHasCaptureThread /\ capture_thread = s)
  /\ app.at \in {"join capture", "join preview"} => s \in early \/ ~Untold
  /\ app.at = "join preview" \/ preview.at = "none" => Settled(s)

CaptureInv ==
  /\ \A s \in Starts : s > starts => capture[s].at = "none"
  /\ \A s \in Starts : s # starts => Settled(s)
  /\ \A s \in Starts : s = starts => PresentInv(s)

\* A thread that does not run stays as it is.
Rests(threads) ==
  \A s \in Starts : capture[s].at \in {"none", "ended"} => threads[s].at = capture[s].at

Drawing == {"test", "wait", "asleep", "woken", "draw", "out", "stop"}
Free == {"idle", "signal", "wait", "change", "stop"}

\* What a step leaves alone that neither starts nor stops anything.
Quiet ==
  /\ UNCHANGED <<mIsRunning, mHasCaptureThread, capture_thread, starts, early, streaming>>
  /\ Rests(capture')
  /\ preview'.at = preview.at \/ (preview.at \in Drawing /\ preview'.at \in Drawing)
  /\ app'.at = app.at \/ (app.at \in Free /\ app'.at \in Free)

LEMMA QuietKeeps == ThreadsInv /\ CaptureInv /\ Quiet => ThreadsInv' /\ CaptureInv'
  <1> SUFFICES ASSUME ThreadsInv, CaptureInv, Quiet
               PROVE  ThreadsInv' /\ CaptureInv'
    OBVIOUS
  <1>1. (Stopping' <=> Stopping) /\ (app'.at = "clear" <=> app.at = "clear")
    BY DEF Quiet, Stopping, Free
  <1>2. Untold' = Untold /\ (preview'.at = "none" <=> preview.at = "none")
    BY DEF Quiet, Untold, Drawing
  <1>3. \A s \in Starts : Settled(s) => Settled(s)'
    BY DEF Quiet, Settled, Rests
  <1>4. ThreadsInv'
    BY <1>1, <1>2 DEF ThreadsInv, Quiet, Drawing
  <1>5. ASSUME NEW s \in Starts, s = starts
        PROVE  PresentInv(s)'
    <2>1. PresentInv(s)
      BY <1>5 DEF CaptureInv
    <2>2. QED
      BY <1>1, <1>2, <1>3, <2>1 DEF PresentInv, Quiet, Drawing, Free, Rests
  <1>6. CaptureInv'
    BY <1>3, <1>5 DEF CaptureInv, Quiet, Rests
  <1>7. QED
    BY <1>4, <1>6

\* Nothing but CreateCapture lets a thread begin.
LEMMA WakingRests ==
  ASSUME capture \in [Starts -> CaptureState]
  PROVE  /\ Rests(capture) /\ Rests(Woken(capture))
         /\ SignalCapture => Rests(capture')
         /\ \A s \in Starts : \A c :
              capture[s].at \notin {"none", "ended"} =>
                /\ Rests([capture EXCEPT ![s] = c])
                /\ Rests(Woken([capture EXCEPT ![s] = c]))
  <1>1. Rests(capture) /\ Rests(Woken(capture))
    BY DEF Rests, Woken
  <1>2. SignalCapture => Rests(capture')
    BY DEF SignalCapture, Rests
  <1>3. ASSUME NEW s \in Starts, NEW c,
               capture[s].at \notin {"none", "ended"}
        PROVE  /\ Rests([capture EXCEPT ![s] = c])
               /\ Rests(Woken([capture EXCEPT ![s] = c]))
    BY <1>3 DEF Rests, Woken
  <1>4. QED
    BY <1>1, <1>2, <1>3

LEMMA QuietSteps ==
  ASSUME TypeOK
  PROVE  /\ UNCHANGED vars => Quiet
         /\ \A what, new : \A next \in {"idle", "stop"} : Set(what, new, next) => Quiet
         /\ AppWaits \/ AppChanges \/ FrameComes => Quiet
         /\ TestRunning \/ WaitPreviewFrame \/ EndPreview => Quiet
         /\ AddCaptureFrame \/ ForgetFrame \/ DropFrame => Quiet
         /\ \A s \in Starts : Capture(s) => Quiet
  <1> USE WakingRests DEF TypeOK, Free, Drawing, flags, targets, buffers, counts
  <1>1. UNCHANGED vars => Quiet
    BY DEF vars, Quiet
  <1>2. ASSUME NEW what, NEW new, NEW next \in {"idle", "stop"}, Set(what, new, next)
        PROVE  Quiet
    BY <1>2 DEF Set, SetWaits, SetNow, Calling, Quiet
  <1>3. AppWaits => Quiet
    BY DEF AppWaits, AppState, Quiet
  <1>4. AppChanges => Quiet
    <2>1. app.next \in {"idle", "stop"}
      BY DEF AppState
    <2>2. QED
      BY <2>1 DEF AppChanges, Calling, Quiet
  <1>5. FrameComes => Quiet
    BY DEF FrameComes, Signalled, PreviewState, Quiet
  <1>6. TestRunning \/ EndPreview => Quiet
    BY DEF TestRunning, EndPreview, PreviewAt, PreviewState, Quiet
  <1>7. WaitPreviewFrame => Quiet
    BY DEF WaitPreviewFrame, PreviewState, Quiet
  <1>8. ASSUME BroadcastTo(capture)
        PROVE  Rests(capture') /\ (app'.at = app.at \/ (app.at \in Free /\ app'.at \in Free))
    BY <1>8 DEF BroadcastTo, AppState
  <1>9. AddCaptureFrame => Quiet
    BY <1>8 DEF AddCaptureFrame, Drawn, Quiet
  <1>10. ForgetFrame \/ DropFrame => Quiet
    BY DEF ForgetFrame, DropFrame, Drawn, Quiet
  <1>11. ASSUME NEW s \in Starts, Capture(s)
         PROVE  Quiet
    <2>1. capture[s].at \notin {"none", "ended"}
      BY <1>11 DEF Capture, ClearCaptureFrame, DoCapture, ChooseMode, CheckCapturing,
         WaitCaptureFrame, CopyToSurface, DoCaptureCallback, ExitMode, CaptureAt
    <2>2. CASE ~ExitMode(s)
      <3>1. \E c : CaptureIs(s, c)
        BY <1>11, <2>2 DEF Capture, ClearCaptureFrame, DoCapture, ChooseMode, CheckCapturing,
           WaitCaptureFrame, CopyToSurface, DoCaptureCallback, CaptureAt
      <3>2. Rests(capture')
        BY <2>1, <3>1, ZenonT(60) DEF CaptureIs
      <3>3. QED
        BY <1>11, <2>2, <3>2 DEF Capture, ClearCaptureFrame, DoCapture, ChooseMode,
           CheckCapturing, WaitCaptureFrame, CopyToSurface, DoCaptureCallback, Quiet
    <2>3. CASE ExitMode(s)
      <3>1. Rests(capture')
        BY <2>1, <2>3 DEF ExitMode, BroadcastTo
      <3>2. app'.at = app.at \/ (app.at \in Free /\ app'.at \in Free)
        BY <2>3 DEF ExitMode, BroadcastTo, AppState
      <3>3. QED
        BY <2>3, <3>1, <3>2 DEF ExitMode, Quiet
    <2>4. QED
      BY <2>2, <2>3
  <1>12. QED
    BY <1>1, <1>2, <1>3, <1>4, <1>5, <1>6, <1>7, <1>9, <1>10, <1>11

LEMMA StepKeeps == TypeOK /\ ThreadsInv /\ CaptureInv /\ [Next]_vars => ThreadsInv' /\ CaptureInv'
  <1> SUFFICES ASSUME TypeOK, ThreadsInv, CaptureInv, [Next]_vars
               PROVE  ThreadsInv' /\ CaptureInv'
    OBVIOUS
  <1> USE PreviewAssumption, QuietKeeps, QuietSteps
          DEF TypeOK, flags, targets, buffers, counts, Stopping, Untold, Settled
  <1>1. CASE UNCHANGED vars
    BY <1>1
  <1>2. CASE User
    <2>1. CASE StartPreview
      <3>1. ~Stopping /\ ~mIsRunning /\ preview.at = "none" /\ ~streaming /\ app.at = "idle"
        BY <2>1 DEF StartPreview, ThreadsInv
      <3>2. /\ preview'.at = "start" /\ starts' = starts + 1
            /\ mIsRunning' = TRUE /\ UNCHANGED <<streaming, app, capture, early>>
        BY <2>1 DEF StartPreview
      <3>3. starts' # 0 /\ (\A s \in Starts : s = starts' => s > starts)
        BY <3>2 DEF Starts
      <3>4. app' = app /\ capture' = capture /\ streaming' = streaming
        BY <3>2
      <3>5. ThreadsInv'
        <4>1. ~Stopping' /\ app'.at # "clear"
          BY <3>1, <3>4
        <4>2. mIsRunning' /\ ~streaming' /\ preview'.at # "none"
          BY <3>1, <3>2
        <4>3. (preview'.at # "none") <=> (mIsRunning' \/ Stopping')
          BY <4>2
        <4>4. QED
          BY <3>3, <4>1, <4>2, <4>3 DEF ThreadsInv
      <3>6. \A s \in Starts : Settled(s)
        BY <3>1 DEF CaptureInv, PresentInv
      <3>7. \A s \in Starts : s > starts => capture[s].at = "none"
        BY DEF CaptureInv
      <3>8. \A s \in Starts : s = starts' => PresentInv(s)'
        BY <3>1, <3>2, <3>7, <3>3, <3>4 DEF PresentInv
      <3>9. CaptureInv'
        BY <3>2, <3>6, <3>7, <3>8 DEF CaptureInv, Starts
      <3>10. QED
        BY <3>5, <3>9
    <2>2. QED
      BY <1>2, <2>1 DEF User, setFrameCallback, setCaptureDisplay, stopPreview
  <1>3. CASE App
    <2>1. CASE StopRunning
      <3>1. app'.at = (IF mIsRunning THEN "wake" ELSE "clear")
        BY <2>1 DEF StopRunning, AppState
      <3>2. ThreadsInv'
        BY <2>1, <3>1 DEF StopRunning, ThreadsInv
      <3>3. CaptureInv'
        BY <2>1, <3>1 DEF StopRunning, CaptureInv, PresentInv
      <3>4. QED
        BY <3>2, <3>3
    <2>2. CASE WakeThreads
      <3>1. app'.at = (IF mHasCaptureThread THEN "join capture" ELSE "join preview")
        BY <2>2 DEF WakeThreads, AppState
      <3>2. /\ preview'.at = "none" <=> preview.at = "none"
            /\ preview'.at = preview.at \/ (preview.at \in Drawing /\ preview'.at \in Drawing)
        BY <2>2 DEF WakeThreads, Signalled, PreviewState, Drawing
      <3>3. Rests(capture')
        BY <2>2, WakingRests DEF WakeThreads
      <3>4. ThreadsInv'
        BY <2>2, <3>1, <3>2 DEF WakeThreads, ThreadsInv, Drawing
      <3>5. \A s \in Starts : Settled(s) => Settled(s)'
        BY <2>2, <3>3 DEF WakeThreads, Rests
      <3>6. ASSUME NEW s \in Starts, s = starts
            PROVE  PresentInv(s)'
        <4>1. PresentInv(s) /\ preview.at # "none"
          BY <2>2, <3>6 DEF CaptureInv, ThreadsInv, WakeThreads
        <4>2. Untold => s \in early'
          BY <2>2, <3>6 DEF WakeThreads
        <4>3. Untold' = Untold /\ preview'.at # "none"
          BY <3>2, <4>1 DEF Drawing
        <4>4. ~Untold => capture[s].at = "none" \/ (mHasCaptureThread /\ capture_thread = s)
          BY <4>1 DEF PresentInv
        <4>5. app'.at = "join preview" => Settled(s)'
          BY <3>1, <3>3, <4>2, <4>4 DEF Rests
        <4>6. QED
          BY <2>2, <3>2, <3>3, <4>1, <4>2, <4>3, <4>4, <4>5
             DEF PresentInv, WakeThreads, Rests, Drawing
      <3>7. CaptureInv'
        BY <2>2, <3>3, <3>5, <3>6 DEF WakeThreads, CaptureInv, Rests
      <3>8. QED
        BY <3>4, <3>7
    <2>3. CASE JoinCapture
      <3>1. app'.at = "join preview"
        BY <2>3 DEF JoinCapture, AppState
      <3>2. ThreadsInv'
        BY <2>3, <3>1 DEF JoinCapture, ThreadsInv
      <3>3. CaptureInv'
        BY <2>3, <3>1 DEF JoinCapture, CaptureInv, PresentInv, ThreadsInv
      <3>4. QED
        BY <3>2, <3>3
    <2>4. CASE JoinPreview
      <3>1. app'.at = "idle" /\ preview'.at = "none" /\ ~mIsRunning /\ ~streaming
        BY <2>4 DEF JoinPreview, ClearAll, AppState, ThreadsInv
      <3>2. ThreadsInv'
        BY <2>4, <3>1 DEF JoinPreview, ClearAll, ThreadsInv
      <3>3. CaptureInv'
        BY <2>4, <3>1 DEF JoinPreview, ClearAll, CaptureInv, PresentInv
      <3>4. QED
        BY <3>2, <3>3
    <2>5. CASE ClearNow
      <3>1. app'.at = "idle"
        BY <2>5 DEF ClearNow, ClearAll, AppState
      <3>2. ThreadsInv'
        BY <2>5, <3>1 DEF ClearNow, ClearAll, ThreadsInv
      <3>3. CaptureInv'
        BY <2>5, <3>1 DEF ClearNow, ClearAll, CaptureInv, PresentInv
      <3>4. QED
        BY <3>2, <3>3
    <2>6. QED
      BY <1>3, <2>1, <2>2, <2>3, <2>4, <2>5 DEF App
  <1>4. CASE FrameComes
    BY <1>4
  <1>5. CASE Preview
    <2>1. CASE StartStreaming
      <3>1. preview.at = "start" /\ preview'.at \in {"create", "ended"}
        BY <2>1 DEF StartStreaming, PreviewAt, PreviewState
      <3>2. ThreadsInv'
        BY <2>1, <3>1 DEF StartStreaming, ThreadsInv
      <3>3. CaptureInv'
        BY <2>1, <3>1 DEF StartStreaming, CaptureInv, PresentInv
      <3>4. QED
        BY <3>2, <3>3
    <2>2. CASE CreateCapture
      <3>1. preview.at = "create" /\ preview'.at = "tell"
        BY <2>2 DEF CreateCapture, PreviewAt, PreviewState
      <3>2. \A s \in Starts : s # starts => capture'[s] = capture[s]
        BY <2>2 DEF CreateCapture
      <3>3. ThreadsInv'
        BY <2>2, <3>1 DEF CreateCapture, ThreadsInv
      <3>4. /\ capture_thread' = starts
            /\ UNCHANGED <<starts, app, early>>
        BY <2>2 DEF CreateCapture
      <3>5. \A s \in Starts : s # starts => (Settled(s) => Settled(s)')
        BY <3>2, <3>4
      <3>6. \A s \in Starts : s = starts => PresentInv(s)'
        BY <3>1, <3>4 DEF PresentInv, CaptureInv
      <3>7. \A s \in Starts : s > starts => s # starts
        BY DEF Starts
      <3>8. CaptureInv'
        BY <3>2, <3>4, <3>5, <3>6, <3>7 DEF CaptureInv
      <3>9. QED
        BY <3>3, <3>8
    <2>3. CASE CreateFails
      <3>1. preview.at = "create" /\ preview'.at = "test"
        BY <2>3 DEF CreateFails, PreviewAt, PreviewState
      <3>2. ThreadsInv'
        BY <2>3, <3>1 DEF CreateFails, ThreadsInv
      <3>3. CaptureInv'
        BY <2>3, <3>1 DEF CreateFails, CaptureInv, PresentInv
      <3>4. QED
        BY <3>2, <3>3
    <2>4. CASE StreamFails
      <3>1. preview.at = "create" /\ preview'.at = "ended"
        BY <2>4 DEF StreamFails, PreviewAt, PreviewState
      <3>2. ThreadsInv'
        BY <2>4, <3>1 DEF StreamFails, ThreadsInv
      <3>3. CaptureInv'
        BY <2>4, <3>1 DEF StreamFails, CaptureInv, PresentInv
      <3>4. QED
        BY <3>2, <3>3
    <2>5. CASE TellCapture
      <3>1. preview.at = "tell" /\ preview'.at = "test"
        BY <2>5 DEF TellCapture, PreviewAt, PreviewState
      <3>2. ThreadsInv'
        BY <2>5, <3>1 DEF TellCapture, ThreadsInv
      <3>3. CaptureInv'
        BY <2>5, <3>1 DEF TellCapture, Told, CaptureInv, PresentInv
      <3>4. QED
        BY <3>2, <3>3
    <2>6. CASE StopStreaming
      <3>1. preview.at = "stop" /\ preview'.at = "ended"
        BY <2>6 DEF StopStreaming, PreviewAt, PreviewState
      <3>2. ThreadsInv'
        BY <2>6, <3>1 DEF StopStreaming, ThreadsInv
      <3>3. CaptureInv'
        BY <2>6, <3>1 DEF StopStreaming, CaptureInv, PresentInv
      <3>4. QED
        BY <3>2, <3>3
    <2>7. QED
      BY <1>5, <2>1, <2>2, <2>3, <2>4, <2>5, <2>6 DEF Preview
  <1>6. ASSUME NEW s \in Starts, Capture(s)
        PROVE  ThreadsInv' /\ CaptureInv'
    BY <1>6
  <1>7. QED
    BY <1>1, <1>2, <1>3, <1>4, <1>5, <1>6 DEF Next

\* After stopPreview nothing of the preview runs any more, however often it was started
\* and whatever failed, but for the capture threads of the starts that were stopped
\* before the preview thread had said that there is one (UVCPreview.cpp:354-388).
THEOREM StopsWhole == Spec => []NothingLeft
  <1>1. Init => ThreadsInv /\ CaptureInv
    BY DEF Init, Calling, Fresh, ThreadsInv, CaptureInv, PresentInv, Stopping, Settled, Starts
  <1>2. ThreadsInv /\ CaptureInv => NothingLeft
    <2> SUFFICES ASSUME ThreadsInv, CaptureInv, app.at = "idle", ~mIsRunning
                 PROVE  /\ ~streaming /\ preview.at = "none"
                        /\ \A s \in Starts : capture[s].at \in {"none", "ended"} \/ s \in early
      BY DEF NothingLeft
    <2>1. preview.at = "none" /\ ~streaming
      BY DEF ThreadsInv, Stopping
    <2>2. \A s \in Starts : Settled(s)
      BY <2>1 DEF CaptureInv, PresentInv
    <2>3. QED
      BY <2>1, <2>2 DEF Settled
  <1>3. QED
    BY <1>1, <1>2, TypeCorrect, StepKeeps, PTL DEF Spec
-------------------------------------------------------------------------------
(* No frame is lost or given back twice.  FramesConserved alone is not inductive:  *)
(* a thread holds a frame exactly while it draws it or captures it, and the frame  *)
(* a stop forgets is one for each start.                                           *)

Kept ==
  out = Len(previewFrames) + One(captureQueu) + One(preview.frame)
        + Cardinality(Converting) + Cardinality(Capturing) + lost

HoldsInv ==
  /\ preview.frame # 0 <=> preview.at = "draw"
  /\ \A s \in Starts : capture[s].frame # 0 <=> capture[s].at \in {"copy", "call"}

LostInv ==
  /\ lost <= starts
  /\ mIsRunning \/ preview.at = "draw" => lost < starts

\* Threads that hold what they held.
SameFrames ==
  \A s \in Starts : /\ capture'[s].frame = capture[s].frame
                    /\ capture'[s].converted = capture[s].converted

LEMMA HeldFinite ==
  /\ IsFiniteSet(Converting) /\ IsFiniteSet(Capturing)
  /\ Cardinality(Converting) \in Nat /\ Cardinality(Capturing) \in Nat
  <1>1. IsFiniteSet(Starts)
    BY PreviewAssumption, FS_Interval DEF Starts
  <1>2. IsFiniteSet(Converting) /\ IsFiniteSet(Capturing)
    BY <1>1, FS_Subset DEF Converting, Capturing
  <1>3. QED
    BY <1>2, FS_CardinalityType

LEMMA SameHeld == SameFrames => Converting' = Converting /\ Capturing' = Capturing
  BY DEF SameFrames, Converting, Capturing

\* A thread that moves without its frame, and the signals.
LEMMA MovesSame ==
  ASSUME capture \in [Starts -> CaptureState]
  PROVE  /\ UNCHANGED capture => SameFrames
         /\ BroadcastTo(capture) => SameFrames
         /\ SignalCapture => SameFrames
         /\ \A s \in Starts : \A from, to : CaptureAt(s, from, to) => SameFrames
  <1>1. UNCHANGED capture => SameFrames
    BY DEF SameFrames
  <1>2. BroadcastTo(capture) => SameFrames
    BY DEF BroadcastTo, Woken, SameFrames, CaptureState
  <1>3. SignalCapture => SameFrames
    BY DEF SignalCapture, SameFrames, CaptureState
  <1>4. ASSUME NEW s \in Starts, NEW from, NEW to, CaptureAt(s, from, to)
        PROVE  SameFrames
    BY <1>4 DEF CaptureAt, CaptureIs, SameFrames, CaptureState
  <1>5. QED
    BY <1>1, <1>2, <1>3, <1>4

\* The same frames held by threads that were awake or asleep.
LEMMA HoldsWake ==
  ASSUME capture \in [Starts -> CaptureState],
         \A s \in Starts : capture[s].frame # 0 <=> capture[s].at \in {"copy", "call"},
         UNCHANGED capture \/ BroadcastTo(capture) \/ SignalCapture
  PROVE  \A s \in Starts : capture'[s].frame # 0 <=> capture'[s].at \in {"copy", "call"}
  <1>1. CASE UNCHANGED capture
    BY <1>1
  <1>2. CASE BroadcastTo(capture)
    BY <1>2 DEF BroadcastTo, Woken, CaptureState
  <1>3. CASE SignalCapture
    BY <1>3 DEF SignalCapture, CaptureState
  <1>4. QED
    BY <1>1, <1>2, <1>3
LEMMA HoldsStep == TypeOK /\ CaptureInv /\ HoldsInv /\ [Next]_vars => HoldsInv'
  <1> SUFFICES ASSUME TypeOK, CaptureInv, HoldsInv, [Next]_vars
               PROVE  HoldsInv'
    OBVIOUS
  <1> USE HoldsWake DEF TypeOK, flags, targets, buffers, counts
  <1> DEFINE PreviewHolds == preview.frame # 0 <=> preview.at = "draw"
             Holds(s) == capture[s].frame # 0 <=> capture[s].at \in {"copy", "call"}
  <1>1. ASSUME NEW from, NEW to, PreviewAt(from, to), from # "draw", to # "draw"
        PROVE  PreviewHolds'
    BY <1>1 DEF PreviewAt, PreviewState, HoldsInv
  <1>2. preview' = Signalled => PreviewHolds'
    BY DEF Signalled, PreviewState, HoldsInv
  <1>3. Drawn => PreviewHolds'
    BY DEF Drawn
  <1>4. CASE UNCHANGED vars
    BY <1>4 DEF vars, HoldsInv
  <1>5. CASE User
    BY <1>5 DEF User, StartPreview, setFrameCallback, setCaptureDisplay, stopPreview, Set, HoldsInv
  <1>6. CASE App
    <2>1. CASE WakeThreads
      BY <1>2, <2>1 DEF WakeThreads, HoldsInv
    <2>2. CASE JoinPreview
      BY <2>2 DEF JoinPreview, ClearAll, HoldsInv
    <2>3. CASE ~WakeThreads /\ ~JoinPreview
      BY <1>6, <2>3 DEF App, AppWaits, AppChanges, StopRunning, JoinCapture, ClearNow, ClearAll, HoldsInv
    <2>4. QED
      BY <2>1, <2>2, <2>3
  <1>7. CASE FrameComes
    BY <1>2, <1>7 DEF FrameComes, HoldsInv
  <1>8. CASE Preview
    <2>1. CASE StartStreaming \/ CreateFails \/ StreamFails \/ TellCapture \/ TestRunning
               \/ EndPreview \/ StopStreaming
      BY <1>1, <2>1 DEF StartStreaming, CreateFails, StreamFails, TellCapture, TestRunning,
         EndPreview, StopStreaming, HoldsInv
    <2>2. CASE CreateCapture
      <3>1. ASSUME NEW s \in Starts, s = starts PROVE Holds(s)'
        <4>1. capture[s].at = "none" /\ capture[s].frame = 0
          BY <2>2, <3>1 DEF CreateCapture, PreviewAt, CaptureInv, PresentInv, HoldsInv
        <4>2. capture'[s] = [capture[s] EXCEPT !.at = "clear"]
          BY <2>2, <3>1 DEF CreateCapture
        <4>3. QED
          BY <4>1, <4>2 DEF CaptureState
      <3>2. ASSUME NEW s \in Starts PROVE Holds(s)'
        BY <2>2, <3>1 DEF CreateCapture, HoldsInv
      <3>3. QED
        BY <1>1, <2>2, <3>2 DEF CreateCapture, HoldsInv
    <2>3. CASE WaitPreviewFrame
      <3>1. previewFrames # <<>> => Head(previewFrames) \in Numbers \ {0}
        OBVIOUS
      <3>2. PreviewHolds'
        BY <2>3, <3>1 DEF WaitPreviewFrame, PreviewState, HoldsInv
      <3>3. QED
        BY <2>3, <3>2 DEF WaitPreviewFrame, HoldsInv
    <2>4. CASE AddCaptureFrame \/ ForgetFrame \/ DropFrame
      BY <1>3, <2>4 DEF AddCaptureFrame, ForgetFrame, DropFrame, HoldsInv
    <2>5. QED
      BY <1>8, <2>1, <2>2, <2>3, <2>4 DEF Preview
  <1>9. ASSUME NEW s \in Starts, Capture(s)
        PROVE  HoldsInv'
    <2>1. UNCHANGED preview
      BY <1>9 DEF Capture, ClearCaptureFrame, DoCapture, ChooseMode, CheckCapturing,
         WaitCaptureFrame, CopyToSurface, DoCaptureCallback, ExitMode
    <2>2. ASSUME NEW c, CaptureIs(s, c), c.frame # 0 <=> c.at \in {"copy", "call"}
          PROVE  HoldsInv'
      <3>1. \A t \in Starts : t # s => capture'[t] = capture[t]
        BY <2>2 DEF CaptureIs
      <3>2. capture'[s] = c
        BY <2>2 DEF CaptureIs
      <3>3. QED
        BY <2>1, <2>2, <3>1, <3>2 DEF HoldsInv
    <2>3. ASSUME NEW from, NEW to, CaptureAt(s, from, to), from \notin {"copy", "call"},
                 to \notin {"copy", "call"}
          PROVE  HoldsInv'
      BY <2>2, <2>3 DEF CaptureAt, CaptureState, HoldsInv
    <2>4. CASE ClearCaptureFrame(s) \/ DoCapture(s) \/ CheckCapturing(s)
      BY <2>3, <2>4 DEF ClearCaptureFrame, DoCapture, CheckCapturing
    <2>5. CASE ChooseMode(s)
      BY <2>2, <2>5 DEF ChooseMode, CaptureState, HoldsInv
    <2>6. CASE WaitCaptureFrame(s)
      BY <2>2, <2>6 DEF WaitCaptureFrame, CaptureState, HoldsInv
    <2>7. CASE CopyToSurface(s)
      BY <2>2, <2>7 DEF CopyToSurface, CaptureState, HoldsInv
    <2>8. CASE DoCaptureCallback(s)
      BY <2>2, <2>8 DEF DoCaptureCallback, CaptureState, HoldsInv
    <2>9. CASE ExitMode(s)
      <3>1. ASSUME NEW t \in Starts PROVE Holds(t)'
        BY <2>9 DEF ExitMode, BroadcastTo, Woken, Fresh, CaptureState, HoldsInv
      <3>2. QED
        BY <2>1, <3>1 DEF HoldsInv
    <2>10. QED
      BY <1>9, <2>4, <2>5, <2>6, <2>7, <2>8, <2>9 DEF Capture
  <1>10. QED
    BY <1>4, <1>5, <1>6, <1>7, <1>8, <1>9 DEF Next

\* A start makes room for one forgotten frame, and a stop fills it at most once: the
\* thread that draws leaves its loop next.
LEMMA LostStep == TypeOK /\ ThreadsInv /\ LostInv /\ [Next]_vars => LostInv'
  <1> SUFFICES ASSUME TypeOK, ThreadsInv, LostInv, [Next]_vars
               PROVE  LostInv'
    OBVIOUS
  <1> USE DEF TypeOK, flags, targets, buffers, counts
  <1>1. ASSUME UNCHANGED <<lost, starts>>, mIsRunning' => mIsRunning,
               preview'.at = "draw" => mIsRunning \/ preview.at = "draw"
        PROVE  LostInv'
    BY <1>1 DEF LostInv
  <1>2. CASE UNCHANGED vars
    BY <1>1, <1>2 DEF vars
  <1>3. CASE User
    <2>1. CASE StartPreview
      BY <2>1 DEF StartPreview, ThreadsInv, Stopping, LostInv
    <2>2. ASSUME NEW what, NEW new, NEW next, Set(what, new, next)
          PROVE  LostInv'
      BY <1>1, <2>2 DEF Set, SetWaits, SetNow
    <2>3. QED
      BY <1>3, <2>1, <2>2 DEF User, setFrameCallback, setCaptureDisplay, stopPreview
  <1>4. CASE App
    <2>1. preview' \in {preview, Signalled, [at |-> "none", frame |-> 0]}
      BY <1>4 DEF App, AppWaits, AppChanges, StopRunning, WakeThreads, JoinCapture,
         JoinPreview, ClearNow, ClearAll
    <2>2. preview'.at = "draw" => preview.at = "draw"
      BY <2>1 DEF Signalled, PreviewState
    <2>3. QED
      BY <1>1, <1>4, <2>2 DEF App, AppWaits, AppChanges, StopRunning, WakeThreads,
         JoinCapture, JoinPreview, ClearNow, ClearAll, Recycle
  <1>5. CASE FrameComes
    BY <1>1, <1>5 DEF FrameComes, Get, Signalled, PreviewState
  <1>6. CASE Preview
    <2>1. CASE StartStreaming \/ CreateCapture \/ CreateFails \/ StreamFails \/ TellCapture
               \/ TestRunning \/ EndPreview \/ StopStreaming
      <3>1. preview'.at # "draw"
        BY <2>1 DEF StartStreaming, CreateCapture, CreateFails, StreamFails, TellCapture,
           TestRunning, EndPreview, StopStreaming, PreviewAt, PreviewState
      <3>2. QED
        BY <1>1, <2>1, <3>1 DEF StartStreaming, CreateCapture, CreateFails, StreamFails,
           TellCapture, TestRunning, EndPreview, StopStreaming, Recycle
    <2>2. CASE WaitPreviewFrame
      BY <1>1, <2>2 DEF WaitPreviewFrame, PreviewState
    <2>3. CASE AddCaptureFrame \/ DropFrame
      BY <1>1, <2>3 DEF AddCaptureFrame, DropFrame, Recycle
    <2>4. CASE ForgetFrame
      BY <2>4 DEF ForgetFrame, Drawn, LostInv
    <2>5. QED
      BY <1>6, <2>1, <2>2, <2>3, <2>4 DEF Preview
  <1>7. ASSUME NEW s \in Starts, Capture(s)
        PROVE  LostInv'
    BY <1>1, <1>7 DEF Capture, ClearCaptureFrame, DoCapture, ChooseMode, CheckCapturing,
       WaitCaptureFrame, CopyToSurface, DoCaptureCallback, ExitMode, Get, Recycle
  <1>8. QED
    BY <1>2, <1>3, <1>4, <1>5, <1>6, <1>7 DEF Next
\* The frames out of the pool that the capture threads must hold.
Owed == out - lost - Len(previewFrames) - One(captureQueu) - One(preview.frame)

LEMMA KeptOwed ==
  ASSUME TypeOK, TypeOK'
  PROVE  /\ Kept <=> Owed = Cardinality(Converting) + Cardinality(Capturing)
         /\ Kept' <=> Owed' = Cardinality(Converting') + Cardinality(Capturing')
         /\ Owed \in Int /\ Owed' \in Int
  <1>1. /\ One(captureQueu) \in Nat /\ One(preview.frame) \in Nat
        /\ One(captureQueu') \in Nat /\ One(preview'.frame) \in Nat
    BY OneNat
  <1>2. Len(previewFrames) \in Nat /\ Len(previewFrames') \in Nat
    BY DEF TypeOK
  <1>3. out \in Int /\ lost \in Nat /\ out' \in Int /\ lost' \in Nat
    BY DEF TypeOK
  <1>4. Cardinality(Converting') \in Nat /\ Cardinality(Capturing') \in Nat
    <2>1. IsFiniteSet(Starts)
      BY PreviewAssumption, FS_Interval DEF Starts
    <2>2. IsFiniteSet(Converting') /\ IsFiniteSet(Capturing')
      BY <2>1, FS_Subset DEF Converting, Capturing
    <2>3. QED
      BY <2>2, FS_CardinalityType
  <1>5. Kept <=> Owed = Cardinality(Converting) + Cardinality(Capturing)
    <2>1. PICK n, q, p, c, k, l \in Nat, o \in Int :
            /\ n = Len(previewFrames) /\ q = One(captureQueu) /\ p = One(preview.frame)
            /\ c = Cardinality(Converting) /\ k = Cardinality(Capturing) /\ l = lost /\ o = out
      BY <1>1, <1>2, <1>3, HeldFinite
    <2>2. Owed = o - l - n - q - p
      BY <2>1 DEF Owed
    <2>3. o = n + q + p + c + k + l <=> o - l - n - q - p = c + k
      OBVIOUS
    <2>4. QED
      BY <2>1, <2>2, <2>3 DEF Kept
  <1>6. Kept' <=> Owed' = Cardinality(Converting') + Cardinality(Capturing')
    <2>1. PICK n, q, p, c, k, l \in Nat, o \in Int :
            /\ n = Len(previewFrames') /\ q = One(captureQueu') /\ p = One(preview'.frame)
            /\ c = Cardinality(Converting') /\ k = Cardinality(Capturing') /\ l = lost' /\ o = out'
      BY <1>1, <1>2, <1>3, <1>4
    <2>2. Owed' = o - l - n - q - p
      BY <2>1 DEF Owed
    <2>3. o = n + q + p + c + k + l <=> o - l - n - q - p = c + k
      OBVIOUS
    <2>4. QED
      BY <2>1, <2>2, <2>3 DEF Kept
  <1>7. Owed \in Int /\ Owed' \in Int
    BY <1>1, <1>2, <1>3 DEF Owed
  <1>8. QED
    BY <1>5, <1>6, <1>7

\* Nobody captures anything else, and the frame goes from one place to the next.
LEMMA OwedSame ==
  ASSUME TypeOK, TypeOK', Kept, SameFrames, Owed' = Owed
  PROVE  Kept'
  BY SameHeld, KeptOwed

\* A capture thread takes or gives back one frame, or the buffer of its conversions.
LEMMA OneThread ==
  ASSUME TypeOK, NEW s \in Starts, NEW c,
         \A t \in Starts : t # s => /\ capture'[t].frame = capture[t].frame
                                    /\ capture'[t].converted = capture[t].converted,
         capture'[s].frame = c.frame, capture'[s].converted = c.converted
  PROVE  /\ Cardinality(Capturing') =
              Cardinality(Capturing) + One(c.frame) - One(capture[s].frame)
         /\ c.converted \in BOOLEAN =>
              Cardinality(Converting') = Cardinality(Converting)
                 + (IF c.converted THEN 1 ELSE 0) - (IF capture[s].converted THEN 1 ELSE 0)
  <1>1. capture[s].converted \in BOOLEAN
    BY DEF TypeOK, CaptureState
  <1>2. Cardinality(Capturing') =
          Cardinality(Capturing) + One(c.frame) - One(capture[s].frame)
    <2>1. CASE (c.frame # 0) <=> (capture[s].frame # 0)
      <3>1. Capturing' = Capturing
        BY <2>1 DEF Capturing
      <3>2. One(c.frame) = One(capture[s].frame)
        BY <2>1 DEF One
      <3>3. QED
        BY <3>1, <3>2, HeldFinite, OneNat
    <2>2. CASE c.frame # 0 /\ capture[s].frame = 0
      <3>1. Capturing' = Capturing \cup {s} /\ s \notin Capturing
        BY <2>2 DEF Capturing
      <3>2. Cardinality(Capturing \cup {s}) = Cardinality(Capturing) + 1
        BY <3>1, HeldFinite, FS_AddElement
      <3>3. QED
        BY <2>2, <3>1, <3>2, HeldFinite DEF One
    <2>3. CASE c.frame = 0 /\ capture[s].frame # 0
      <3>1. Capturing' = Capturing \ {s} /\ s \in Capturing
        BY <2>3 DEF Capturing
      <3>2. Cardinality(Capturing \ {s}) = Cardinality(Capturing) - 1
        BY <3>1, HeldFinite, FS_RemoveElement
      <3>3. QED
        BY <2>3, <3>1, <3>2, HeldFinite DEF One
    <2>4. QED
      BY <2>1, <2>2, <2>3
  <1>3. ASSUME c.converted \in BOOLEAN
        PROVE  Cardinality(Converting') = Cardinality(Converting)
                 + (IF c.converted THEN 1 ELSE 0) - (IF capture[s].converted THEN 1 ELSE 0)
    <2>1. CASE c.converted /\ capture[s].converted
      <3>1. Converting' = Converting
        BY <2>1 DEF Converting
      <3>2. QED
        BY <2>1, <3>1, HeldFinite
    <2>2. CASE ~c.converted /\ ~capture[s].converted
      <3>1. Converting' = Converting
        BY <2>2 DEF Converting
      <3>2. QED
        BY <2>2, <3>1, HeldFinite
    <2>3. CASE c.converted /\ ~capture[s].converted
      <3>1. Converting' = Converting \cup {s} /\ s \notin Converting
        BY <2>3 DEF Converting
      <3>2. Cardinality(Converting \cup {s}) = Cardinality(Converting) + 1
        BY <3>1, HeldFinite, FS_AddElement
      <3>3. QED
        BY <2>3, <3>1, <3>2, HeldFinite
    <2>4. CASE ~c.converted /\ capture[s].converted
      <3>1. Converting' = Converting \ {s} /\ s \in Converting
        BY <2>4 DEF Converting
      <3>2. Cardinality(Converting \ {s}) = Cardinality(Converting) - 1
        BY <3>1, HeldFinite, FS_RemoveElement
      <3>3. QED
        BY <2>4, <3>1, <3>2, HeldFinite
    <2>5. QED
      BY <1>1, <1>3, <2>1, <2>2, <2>3, <2>4
  <1>4. QED
    BY <1>2, <1>3
LEMMA KeptStep ==
  ASSUME TypeOK, TypeOK', ThreadsInv, CaptureInv, HoldsInv, HoldsInv', Kept, [Next]_vars
  PROVE  Kept'
  <1> USE DEF flags, targets, buffers, counts
  <1>1. /\ capture \in [Starts -> CaptureState]
        /\ out \in Int /\ lost \in Nat
        /\ Len(previewFrames) \in Nat
        /\ One(captureQueu) \in Nat /\ One(preview.frame) \in Nat
    BY OneNat, SMTT(30) DEF TypeOK
  <1>2. One(0) = 0 /\ \A n : n # 0 => One(n) = 1
    BY DEF One
  <1>3. Len(<<>>) = 0 /\ \A n : n # 0 => One(n) = 1
    BY DEF One
  <1>4. ASSUME UNCHANGED <<previewFrames, captureQueu, out, lost>>,
               preview'.frame = preview.frame, SameFrames
        PROVE  Kept'
    BY <1>4, OwedSame DEF Owed
  <1>5. ASSUME NEW from, NEW to, PreviewAt(from, to)
        PROVE  preview'.frame = preview.frame
    BY <1>5 DEF PreviewAt, TypeOK, PreviewState
  <1>6. preview' = Signalled => preview'.frame = preview.frame
    BY DEF Signalled, TypeOK, PreviewState
  <1>7. CASE UNCHANGED vars
    BY <1>1, <1>4, <1>7, MovesSame DEF vars
  <1>8. CASE User
    <2>1. CASE StartPreview
      <3>1. preview.at = "none"
        BY <2>1 DEF StartPreview, ThreadsInv, Stopping
      <3>2. preview'.frame = preview.frame
        BY <2>1, <3>1 DEF StartPreview, HoldsInv
      <3>3. QED
        BY <1>1, <1>4, <2>1, <3>2, MovesSame DEF StartPreview
    <2>2. ASSUME NEW what, NEW new, NEW next, Set(what, new, next)
          PROVE  Kept'
      BY <1>1, <1>4, <2>2, MovesSame DEF Set
    <2>3. QED
      BY <1>8, <2>1, <2>2 DEF User, setFrameCallback, setCaptureDisplay, stopPreview
  <1>9. CASE App
    <2>1. CASE AppWaits \/ AppChanges \/ StopRunning \/ JoinCapture
      BY <1>1, <1>4, <2>1, MovesSame DEF AppWaits, AppChanges, StopRunning, JoinCapture
    <2>2. CASE WakeThreads
      BY <1>1, <1>4, <1>6, <2>2, MovesSame DEF WakeThreads
    <2>3. ASSUME ClearAll, preview'.frame = preview.frame
          PROVE  Kept'
      <3>1. Owed' = Owed
        BY <1>1, <1>2, <1>3, <2>3 DEF ClearAll, Recycle, Owed
      <3>2. SameFrames
        BY <1>1, <2>3, MovesSame DEF ClearAll
      <3>3. QED
        BY <3>1, <3>2, OwedSame
    <2>4. CASE JoinPreview
      <3>1. preview'.frame = preview.frame
        BY <2>4 DEF JoinPreview, HoldsInv
      <3>2. QED
        BY <2>3, <2>4, <3>1 DEF JoinPreview
    <2>5. CASE ClearNow
      BY <2>3, <2>5 DEF ClearNow
    <2>6. QED
      BY <1>9, <2>1, <2>2, <2>4, <2>5 DEF App
  <1>10. CASE FrameComes
    <2>1. Len(previewFrames') = Len(previewFrames) + 1
      BY <1>10 DEF FrameComes, Behind, Newest, TypeOK
    <2>2. preview'.frame = preview.frame
      BY <1>6, <1>10 DEF FrameComes
    <2>3. Owed' = Owed
      BY <1>1, <1>10, <2>1, <2>2, SMTT(30) DEF FrameComes, Get, Owed
    <2>4. QED
      BY <1>1, <1>10, <2>3, MovesSame, OwedSame DEF FrameComes
  <1>11. CASE Preview
    <2>1. CASE StartStreaming \/ StreamFails \/ TellCapture \/ TestRunning \/ EndPreview
               \/ StopStreaming
      BY <1>1, <1>4, <1>5, <2>1, MovesSame DEF StartStreaming, StreamFails, TellCapture,
         TestRunning, EndPreview, StopStreaming
    <2>2. ASSUME Recycle(Len(previewFrames)), previewFrames' = <<>>, UNCHANGED captureQueu,
                 preview'.frame = preview.frame, SameFrames
          PROVE  Kept'
      <3>1. Owed' = Owed
        BY <1>1, <1>3, <2>2 DEF Recycle, Owed
      <3>2. QED
        BY <2>2, <3>1, OwedSame
    <2>3. CASE CreateCapture
      <3>1. SameFrames
        BY <1>1, <2>3 DEF CreateCapture, SameFrames, CaptureState
      <3>2. QED
        BY <1>5, <2>2, <2>3, <3>1 DEF CreateCapture
    <2>4. CASE CreateFails
      BY <1>1, <1>5, <2>2, <2>4, MovesSame DEF CreateFails
    <2>5. CASE WaitPreviewFrame
      <3>1. CASE mIsRunning /\ previewFrames # <<>>
        <4>1. /\ preview'.frame = Head(previewFrames) /\ previewFrames' = Tail(previewFrames)
              /\ preview.at # "draw"
          BY <2>5, <3>1 DEF WaitPreviewFrame
        <4>2. Head(previewFrames) # 0 /\ Len(Tail(previewFrames)) = Len(previewFrames) - 1
          BY <3>1, SMTT(30) DEF TypeOK
        <4>3. One(preview'.frame) = 1 /\ One(preview.frame) = 0
          BY <1>2, <4>1, <4>2 DEF HoldsInv
        <4>4. UNCHANGED <<out, lost, captureQueu, capture>>
          BY <2>5 DEF WaitPreviewFrame
        <4>5. Len(previewFrames') = Len(previewFrames) - 1 /\ One(captureQueu') = One(captureQueu)
          BY <4>1, <4>2, <4>4
        <4>6. out' = out /\ lost' = lost
          BY <4>4
        <4>7. Owed' = Owed
          BY <1>1, <4>3, <4>5, <4>6 DEF Owed
        <4>8. QED
          BY <1>1, <4>4, <4>7, MovesSame, OwedSame
      <3>2. CASE ~(mIsRunning /\ previewFrames # <<>>)
        <4>1. preview'.frame = preview.frame
          BY <2>5, <3>2 DEF WaitPreviewFrame, TypeOK, PreviewState
        <4>2. UNCHANGED <<previewFrames, out, lost, captureQueu, capture>>
          BY <2>5, <3>2 DEF WaitPreviewFrame
        <4>3. QED
          BY <1>1, <1>4, <4>1, <4>2, MovesSame
      <3>3. QED
        BY <3>1, <3>2
    <2>6. ASSUME preview.at = "draw", Drawn
          PROVE  One(preview.frame) = 1 /\ One(preview'.frame) = 0
      BY <1>2, <2>6 DEF Drawn, HoldsInv
    <2>7. CASE AddCaptureFrame
      <3>1. One(captureQueu') = 1
        BY <1>2, <2>7 DEF AddCaptureFrame, HoldsInv
      <3>2. Owed' = Owed
        BY <1>1, <2>6, <2>7, <3>1 DEF AddCaptureFrame, Recycle, Replaced, Owed
      <3>3. QED
        BY <1>1, <2>7, <3>2, MovesSame, OwedSame DEF AddCaptureFrame
    <2>8. CASE ForgetFrame
      <3>1. Owed' = Owed
        BY <1>1, <2>6, <2>8 DEF ForgetFrame, Owed
      <3>2. QED
        BY <1>1, <2>8, <3>1, MovesSame, OwedSame DEF ForgetFrame
    <2>9. CASE DropFrame
      <3>1. Owed' = Owed
        BY <1>1, <2>6, <2>9 DEF DropFrame, Recycle, Owed
      <3>2. QED
        BY <1>1, <2>9, <3>1, MovesSame, OwedSame DEF DropFrame
    <2>10. QED
      BY <1>11, <2>1, <2>3, <2>4, <2>5, <2>7, <2>8, <2>9 DEF Preview
  <1>12. ASSUME NEW s \in Starts, Capture(s)
         PROVE  Kept'
    <2>1. capture[s] \in CaptureState
      BY <1>1
    <2>2. CASE DoCapture(s) \/ ChooseMode(s) \/ CheckCapturing(s)
      <3>1. DoCapture(s) \/ CheckCapturing(s) => SameFrames
        BY <1>1, MovesSame DEF DoCapture, CheckCapturing
      <3>2. ChooseMode(s) => SameFrames
        BY <1>1, <2>1 DEF ChooseMode, CaptureIs, SameFrames, CaptureState
      <3>3. QED
        BY <1>4, <2>2, <3>1, <3>2 DEF DoCapture, ChooseMode, CheckCapturing
    <2>3. CASE ClearCaptureFrame(s)
      <3>1. Owed' = Owed
        BY <1>1, <1>2, <2>3 DEF ClearCaptureFrame, Recycle, Owed
      <3>2. QED
        BY <1>1, <2>3, <3>1, MovesSame, OwedSame DEF ClearCaptureFrame
    <2>4. ASSUME NEW c, CaptureIs(s, c), UNCHANGED preview
          PROVE  /\ \A t \in Starts : t # s => /\ capture'[t].frame = capture[t].frame
                                               /\ capture'[t].converted = capture[t].converted
                 /\ capture'[s].frame = c.frame /\ capture'[s].converted = c.converted
      BY <1>1, <2>4 DEF CaptureIs
    <2>5. CASE WaitCaptureFrame(s)
      <3>1. CASE mIsRunning /\ captureQueu # 0
        <4>1. PICK c : /\ c.frame = captureQueu /\ c.converted = capture[s].converted
                       /\ CaptureIs(s, c)
          BY <2>1, <2>5, <3>1 DEF WaitCaptureFrame, CaptureState
        <4>2. /\ captureQueu' = 0 /\ capture[s].frame = 0 /\ capture[s].converted \in BOOLEAN
              /\ UNCHANGED <<preview, previewFrames, out, lost>>
          BY <2>1, <2>5, <3>1 DEF WaitCaptureFrame, CaptureState, HoldsInv
        <4>3. /\ Cardinality(Capturing') = Cardinality(Capturing) + One(captureQueu) - 0
              /\ Cardinality(Converting') = Cardinality(Converting)
          BY <1>2, <2>4, <4>1, <4>2, OneThread, HeldFinite
        <4>4. Owed' = Owed + One(captureQueu)
          BY <1>1, <1>2, <4>2 DEF Owed
        <4>5. QED
          BY <1>1, <4>3, <4>4, KeptOwed, HeldFinite
      <3>2. CASE ~(mIsRunning /\ captureQueu # 0)
        <4>1. SameFrames
          BY <1>1, <2>5, <3>2 DEF WaitCaptureFrame, CaptureIs, SameFrames, CaptureState
        <4>2. QED
          BY <1>4, <2>5, <3>2, <4>1 DEF WaitCaptureFrame
      <3>3. QED
        BY <3>1, <3>2
    <2>6. CASE CopyToSurface(s)
      <3>1. PICK c : /\ c.frame = capture[s].frame
                     /\ c.converted = (capture[s].converted \/ mIsCapturing)
                     /\ CaptureIs(s, c)
        BY <2>1, <2>6 DEF CopyToSurface, CaptureState
      <3>2. /\ capture[s].converted \in BOOLEAN /\ c.converted \in BOOLEAN
            /\ UNCHANGED <<preview, previewFrames, captureQueu>>
        BY <2>1, <2>6, <3>1 DEF CopyToSurface, CaptureState, TypeOK
      <3>3. Cardinality(Capturing') = Cardinality(Capturing)
        BY <2>4, <3>1, <3>2, OneThread, HeldFinite, OneNat
      <3>4. CASE mIsCapturing /\ ~capture[s].converted
        <4>1. Cardinality(Converting') = Cardinality(Converting) + 1
          <5>1. c.converted /\ ~capture[s].converted
            BY <3>1, <3>4
          <5>2. Cardinality(Converting') = Cardinality(Converting) + 1 - 0
            BY <2>4, <3>1, <3>2, <5>1, OneThread
          <5>3. QED
            BY <5>2, HeldFinite
        <4>2. Owed' = Owed + 1
          BY <1>1, <2>6, <3>2, <3>4 DEF CopyToSurface, Get, Owed
        <4>3. QED
          BY <3>3, <4>1, <4>2, KeptOwed, HeldFinite
      <3>5. CASE ~(mIsCapturing /\ ~capture[s].converted)
        <4>1. Cardinality(Converting') = Cardinality(Converting)
          BY <2>4, <3>1, <3>2, <3>5, OneThread, HeldFinite
        <4>2. Owed' = Owed
          BY <1>1, <2>6, <3>2, <3>5 DEF CopyToSurface, Owed
        <4>3. QED
          BY <3>3, <4>1, <4>2, KeptOwed, HeldFinite
      <3>6. QED
        BY <3>4, <3>5
    <2>7. CASE DoCaptureCallback(s)
      <3>1. PICK c : /\ c.frame = 0 /\ c.converted = capture[s].converted
                     /\ CaptureIs(s, c)
        BY <2>1, <2>7 DEF DoCaptureCallback, CaptureState
      <3>2. /\ capture[s].frame # 0 /\ capture[s].converted \in BOOLEAN
            /\ UNCHANGED <<preview, previewFrames, captureQueu>>
        BY <2>1, <2>7 DEF DoCaptureCallback, CaptureState, HoldsInv
      <3>3. /\ Cardinality(Capturing') = Cardinality(Capturing) + 0 - 1
            /\ Cardinality(Converting') = Cardinality(Converting)
        BY <1>2, <2>4, <3>1, <3>2, OneThread, HeldFinite
      <3>4. Owed' = Owed - 1
        BY <1>1, <2>7, <3>2 DEF DoCaptureCallback, Recycle, Owed
      <3>5. QED
        BY <3>3, <3>4, KeptOwed, HeldFinite
    <2>8. CASE ExitMode(s)
      <3>1. /\ \A t \in Starts : t # s => /\ capture'[t].frame = capture[t].frame
                                          /\ capture'[t].converted = capture[t].converted
            /\ capture'[s].frame = Fresh.frame /\ capture'[s].converted = Fresh.converted
        BY <1>1, <2>8 DEF ExitMode, BroadcastTo, Woken, Fresh, CaptureState
      <3>2. /\ Fresh.frame = 0 /\ Fresh.converted = FALSE
            /\ capture[s].frame = 0 /\ capture[s].converted \in BOOLEAN
            /\ UNCHANGED <<preview, previewFrames, captureQueu>>
        BY <2>1, <2>8 DEF ExitMode, Fresh, CaptureState, HoldsInv
      <3>3. /\ Cardinality(Capturing') = Cardinality(Capturing) + 0 - 0
            /\ Cardinality(Converting') =
                 Cardinality(Converting) + 0 - (IF capture[s].converted THEN 1 ELSE 0)
        <4>1. PICK c : c = Fresh
          OBVIOUS
        <4>2. /\ Cardinality(Capturing') = Cardinality(Capturing) + One(c.frame) - One(capture[s].frame)
              /\ Cardinality(Converting') = Cardinality(Converting)
                   + (IF c.converted THEN 1 ELSE 0) - (IF capture[s].converted THEN 1 ELSE 0)
          BY <3>1, <3>2, <4>1, OneThread
        <4>3. One(c.frame) = 0 /\ One(capture[s].frame) = 0 /\ ~c.converted
          BY <1>2, <3>2, <4>1
        <4>4. QED
          BY <4>2, <4>3
      <3>4. Owed' = Owed - (IF capture[s].converted THEN 1 ELSE 0)
        BY <1>1, <2>8, <3>2 DEF ExitMode, Recycle, Owed
      <3>5. QED
        BY <3>3, <3>4, KeptOwed, HeldFinite
    <2>9. QED
      BY <1>12, <2>2, <2>3, <2>5, <2>6, <2>7, <2>8 DEF Capture
  <1>13. QED
    BY <1>7, <1>8, <1>9, <1>10, <1>11, <1>12 DEF Next

\* Each frame that is out of the pool is in the queue, in the slot or with one thread,
\* but for at most one for each start that addCaptureFrame has not kept: no frame is
\* recycled twice or leaks (UVCPreview.cpp:110-150), for every length of the queue.
THEOREM FramesKept == Spec => []FramesConserved
  <1>1. Init => HoldsInv /\ LostInv /\ Kept
    <2> SUFFICES ASSUME Init PROVE HoldsInv /\ LostInv /\ Kept
      OBVIOUS
    <2>1. HoldsInv /\ LostInv
      BY DEF Init, Fresh, HoldsInv, LostInv
    <2>2. Converting = {} /\ Capturing = {}
      BY DEF Init, Fresh, Converting, Capturing
    <2>3. Len(<<>>) = 0 /\ One(0) = 0
      BY DEF One
    <2>4. Cardinality({}) = 0
      BY FS_EmptySet
    <2>5. QED
      BY <2>1, <2>2, <2>3, <2>4 DEF Init, Kept
  <1>2. Init => ThreadsInv /\ CaptureInv
    BY DEF Init, Calling, Fresh, ThreadsInv, CaptureInv, PresentInv, Stopping, Settled, Starts
  <1>3. TypeOK /\ TypeOK' /\ ThreadsInv /\ CaptureInv /\ HoldsInv /\ LostInv /\ Kept /\ [Next]_vars
          => HoldsInv' /\ LostInv' /\ Kept'
    BY HoldsStep, LostStep, KeptStep
  <1>4. Kept /\ LostInv => FramesConserved
    BY DEF Kept, LostInv, FramesConserved
  <1>5. QED
    BY <1>1, <1>2, <1>3, <1>4, TypeCorrect, StepKeeps, PTL DEF Spec

-------------------------------------------------------------------------------
(* The order of the frames.  A frame moves from the camera to the queue, to the    *)
(* preview thread, to the slot, to a capture thread, or disappears on the way; it  *)
(* is behind what stands before it when it comes, for it is the newest.            *)

Known(n) == n <= made

OrderInv ==
  /\ InOrder
  /\ \A i \in 1 .. Len(previewFrames) : Known(previewFrames[i])
  /\ Known(preview.frame) /\ Known(captureQueu)
  /\ \A s \in Starts : Known(capture[s].frame)

\* A thread that has taken a frame, and one that has given one away.
LEMMA Nothing == \A n : Ahead(0, n) /\ Ahead(n, 0)
  BY DEF Ahead

\* The frames that were there, or fewer of them.
LEMMA FewerInOrder ==
  ASSUME TypeOK, OrderInv, made' = made,
         previewFrames' \in {previewFrames, <<>>},
         preview'.frame \in {preview.frame, 0}, captureQueu' \in {captureQueu, 0},
         \A s \in Starts : capture'[s].frame \in {capture[s].frame, 0}
  PROVE  OrderInv'
  <1> USE Nothing DEF TypeOK, Numbers
  <1>1. 0 <= made /\ Len(<<>>) = 0
    BY PreviewAssumption
  <1>2. \A m : AheadOfQueue(m) => AheadOfQueue(m)'
    BY DEF AheadOfQueue
  <1>3. AheadOfQueue(0)'
    BY DEF AheadOfQueue
  <1>4. /\ AheadOfQueue(preview.frame)' /\ AheadOfQueue(captureQueu)'
        /\ Ahead(captureQueu', preview'.frame)
    BY <1>2, <1>3 DEF OrderInv, InOrder
  <1>5. \A i, j \in 1 .. Len(previewFrames') :
          i < j => Ahead(previewFrames'[i], previewFrames'[j])
    BY DEF OrderInv, InOrder
  <1>6. ASSUME NEW s \in Capturing'
        PROVE  /\ AheadOfQueue(capture[s].frame)'
               /\ Ahead(capture'[s].frame, preview'.frame)
               /\ Ahead(capture'[s].frame, captureQueu')
    <2>1. s \in Capturing /\ capture'[s].frame = capture[s].frame
      BY DEF Capturing
    <2>2. QED
      BY <1>2, <2>1 DEF OrderInv, InOrder
  <1>7. InOrder'
    BY <1>4, <1>5, <1>6 DEF InOrder
  <1>8. ASSUME NEW i \in 1 .. Len(previewFrames')
        PROVE  Known(previewFrames[i])'
    <2>1. CASE previewFrames' = previewFrames
      BY <2>1 DEF OrderInv, Known
    <2>2. CASE previewFrames' = <<>>
      BY <1>1, <2>2
    <2>3. QED
      BY <2>1, <2>2
  <1>9. Known(preview.frame)' /\ Known(captureQueu)' /\ \A s \in Starts : Known(capture[s].frame)'
    BY <1>1 DEF OrderInv, Known
  <1>10. QED
    BY <1>7, <1>8, <1>9 DEF OrderInv

LEMMA OrderStep ==
  ASSUME TypeOK, HoldsInv, OrderInv, [Next]_vars
  PROVE  OrderInv'
  <1> USE Nothing DEF flags, targets, buffers, counts
  <1>1. /\ capture \in [Starts -> CaptureState]
        /\ previewFrames \in Seq(Numbers \ {0}) /\ made \in Numbers
        /\ captureQueu \in Numbers /\ preview.frame \in Numbers
    BY DEF TypeOK, PreviewState
  <1>2. UNCHANGED capture \/ BroadcastTo(capture) \/ SignalCapture
          => \A s \in Starts : capture'[s].frame = capture[s].frame
    BY <1>1, MovesSame DEF SameFrames
  <1>3. ASSUME UNCHANGED <<made, previewFrames, captureQueu>>, preview'.frame = preview.frame,
               UNCHANGED capture \/ BroadcastTo(capture) \/ SignalCapture
        PROVE  OrderInv'
    BY <1>2, <1>3, FewerInOrder
  <1>4. ASSUME NEW from, NEW to, PreviewAt(from, to)
        PROVE  preview'.frame = preview.frame
    BY <1>4 DEF PreviewAt, TypeOK, PreviewState
  <1>5. preview' = Signalled => preview'.frame = preview.frame
    BY DEF Signalled, TypeOK, PreviewState
  <1>6. CASE UNCHANGED vars
    BY <1>3, <1>6 DEF vars
  <1>7. CASE User
    <2>1. CASE StartPreview
      BY <2>1, FewerInOrder DEF StartPreview
    <2>2. ASSUME NEW what, NEW new, NEW next, Set(what, new, next)
          PROVE  OrderInv'
      BY <1>3, <2>2 DEF Set
    <2>3. QED
      BY <1>7, <2>1, <2>2 DEF User, setFrameCallback, setCaptureDisplay, stopPreview
  <1>8. CASE App
    <2>1. CASE AppWaits \/ AppChanges \/ StopRunning \/ JoinCapture
      BY <1>3, <2>1 DEF AppWaits, AppChanges, StopRunning, JoinCapture
    <2>2. CASE WakeThreads
      BY <1>3, <1>5, <2>2 DEF WakeThreads
    <2>3. CASE JoinPreview \/ ClearNow
      <3>1. preview' = preview \/ preview'.frame = 0
        <4>1. CASE JoinPreview
          BY <4>1 DEF JoinPreview
        <4>2. CASE ClearNow
          BY <4>2 DEF ClearNow
        <4>3. QED
          BY <2>3, <4>1, <4>2
      <3>2. /\ previewFrames' = <<>> /\ captureQueu' = 0
            /\ UNCHANGED <<made, capture>>
        BY <2>3 DEF JoinPreview, ClearNow, ClearAll
      <3>3. QED
        BY <3>1, <3>2, FewerInOrder
    <2>4. QED
      BY <1>8, <2>1, <2>2, <2>3 DEF App
  <1>9. CASE FrameComes
    <2>1. /\ made' = Newest /\ previewFrames' = Append(previewFrames, Newest)
          /\ preview'.frame = preview.frame /\ captureQueu' = captureQueu /\ capture' = capture
      BY <1>5, <1>9 DEF FrameComes, Behind
    <2>2. Newest \in Numbers /\ made <= Newest /\ \A n \in Numbers : Known(n) => Ahead(n, Newest)
      BY <1>1, PreviewAssumption DEF Newest, Numbers, Known, Ahead, Older
    <2>3. Len(previewFrames') = Len(previewFrames) + 1 /\ Len(previewFrames) \in Nat
      BY <1>1, <2>1, <2>2
    <2>4. /\ \A i \in 1 .. Len(previewFrames) :
               previewFrames'[i] = previewFrames[i] /\ previewFrames[i] \in Numbers
          /\ previewFrames'[Len(previewFrames) + 1] = Newest
      BY <1>1, <2>1, <2>2
    <2>5. ASSUME NEW m \in Numbers, Known(m), AheadOfQueue(m)
          PROVE  AheadOfQueue(m)'
      <3>1. Ahead(m, Newest)
        BY <2>2, <2>5
      <3>2. \A i \in 1 .. Len(previewFrames') : Ahead(m, previewFrames'[i])
        BY <2>3, <2>4, <2>5, <3>1 DEF AheadOfQueue
      <3>3. QED
        BY <3>2 DEF AheadOfQueue
    <2>6. \A i, j \in 1 .. Len(previewFrames') :
            i < j => Ahead(previewFrames'[i], previewFrames'[j])
      <3> SUFFICES ASSUME NEW i \in 1 .. Len(previewFrames'), NEW j \in 1 .. Len(previewFrames'),
                          i < j
                   PROVE  Ahead(previewFrames'[i], previewFrames'[j])
        OBVIOUS
      <3>1. i \in 1 .. Len(previewFrames) /\ Known(previewFrames[i])
        BY <2>3 DEF OrderInv
      <3>2. CASE j = Len(previewFrames) + 1
        BY <2>2, <2>4, <3>1, <3>2
      <3>3. CASE j # Len(previewFrames) + 1
        <4>1. j \in 1 .. Len(previewFrames)
          BY <2>3, <3>3
        <4>2. QED
          BY <2>4, <3>1, <4>1 DEF OrderInv, InOrder
      <3>4. QED
        BY <3>2, <3>3
    <2>7. ASSUME NEW s \in Capturing'
          PROVE  /\ AheadOfQueue(capture[s].frame)'
                 /\ Ahead(capture'[s].frame, preview'.frame)
                 /\ Ahead(capture'[s].frame, captureQueu')
      <3>1. s \in Capturing /\ s \in Starts
        BY <2>1 DEF Capturing
      <3>2. capture[s].frame \in Numbers /\ Known(capture[s].frame)
        BY <1>1, <3>1 DEF OrderInv, CaptureState
      <3>3. AheadOfQueue(capture[s].frame)
        BY <3>1 DEF OrderInv, InOrder
      <3>4. AheadOfQueue(capture[s].frame)'
        BY <2>1, <2>5, <3>2, <3>3
      <3>5. QED
        BY <2>1, <3>1, <3>4 DEF OrderInv, InOrder
    <2>8. AheadOfQueue(preview.frame)' /\ AheadOfQueue(captureQueu)'
      BY <1>1, <2>1, <2>5 DEF OrderInv, InOrder
    <2>9. InOrder'
      BY <2>1, <2>6, <2>7, <2>8 DEF OrderInv, InOrder
    <2>10. \A n \in Numbers : Known(n) => Known(n)'
      BY <1>1, <2>1, <2>2 DEF Known, Numbers
    <2>11. \A i \in 1 .. Len(previewFrames') : Known(previewFrames[i])'
      <3>1. made' = Newest /\ Newest \in Int /\ made \in Int
        BY <2>1, <2>2, <1>1 DEF Numbers
      <3>2. ASSUME NEW i \in 1 .. Len(previewFrames') PROVE previewFrames'[i] <= made'
        <4>1. CASE i = Len(previewFrames) + 1
          BY <2>4, <3>1, <4>1
        <4>2. CASE i # Len(previewFrames) + 1
          <5>1. i \in 1 .. Len(previewFrames)
            BY <2>3, <4>2
          <5>2. previewFrames[i] <= made /\ previewFrames[i] \in Int
            BY <1>1, <5>1 DEF OrderInv, Known, Numbers
          <5>3. QED
            BY <2>2, <2>4, <3>1, <5>1, <5>2
        <4>3. QED
          BY <4>1, <4>2
      <3>3. QED
        BY <3>2 DEF Known
    <2>12. /\ Known(preview.frame)' /\ Known(captureQueu)'
           /\ \A s \in Starts : Known(capture[s].frame)'
      BY <1>1, <2>1, <2>2 DEF OrderInv, Known, Numbers, CaptureState
    <2>13. QED
      BY <2>9, <2>11, <2>12 DEF OrderInv
  <1>10. CASE Preview
    <2>1. CASE StartStreaming \/ StreamFails \/ TellCapture \/ TestRunning \/ EndPreview
               \/ StopStreaming
      BY <1>3, <1>4, <2>1 DEF StartStreaming, StreamFails, TellCapture, TestRunning, EndPreview,
         StopStreaming
    <2>2. CASE CreateCapture
      <3>1. \A s \in Starts : capture'[s].frame = capture[s].frame
        BY <1>1, <2>2 DEF CreateCapture, CaptureState
      <3>2. QED
        BY <1>4, <2>2, <3>1, FewerInOrder DEF CreateCapture
    <2>3. CASE CreateFails
      BY <1>4, <2>3, FewerInOrder DEF CreateFails
    <2>4. CASE WaitPreviewFrame
      <3>1. CASE mIsRunning /\ previewFrames # <<>>
        <4>1. /\ preview'.frame = Head(previewFrames) /\ previewFrames' = Tail(previewFrames)
              /\ UNCHANGED <<made, captureQueu, capture>>
          BY <2>4, <3>1 DEF WaitPreviewFrame
        <4>2. /\ Len(previewFrames') = Len(previewFrames) - 1 /\ Len(previewFrames) \in Nat \ {0}
              /\ Head(previewFrames) = previewFrames[1]
              /\ \A i \in 1 .. Len(previewFrames') : previewFrames'[i] = previewFrames[i + 1]
          BY <1>1, <3>1, <4>1
        <4>3. \A i \in 1 .. Len(previewFrames') : i + 1 \in 1 .. Len(previewFrames)
          BY <4>2
        <4>4. \A m : AheadOfQueue(m) => Ahead(m, Head(previewFrames)) /\ AheadOfQueue(m)'
          BY <4>2, <4>3 DEF AheadOfQueue
        <4>5. AheadOfQueue(preview.frame)'
          <5>1. \A i \in 1 .. Len(previewFrames') : Ahead(previewFrames[1], previewFrames[i + 1])
            BY <4>2, <4>3 DEF OrderInv, InOrder
          <5>2. QED
            BY <4>1, <4>2, <5>1 DEF AheadOfQueue
        <4>6. \A i, j \in 1 .. Len(previewFrames') :
                i < j => Ahead(previewFrames'[i], previewFrames'[j])
          BY <4>2, <4>3 DEF OrderInv, InOrder
        <4>7. AheadOfQueue(captureQueu)' /\ Ahead(captureQueu', preview'.frame)
          BY <4>1, <4>4 DEF OrderInv, InOrder
        <4>8. \A s \in Capturing' : /\ AheadOfQueue(capture[s].frame)'
                                    /\ Ahead(capture'[s].frame, preview'.frame)
                                    /\ Ahead(capture'[s].frame, captureQueu')
          BY <4>1, <4>4 DEF OrderInv, InOrder, Capturing
        <4>9. InOrder'
          BY <4>5, <4>6, <4>7, <4>8 DEF InOrder
        <4>10. \A i \in 1 .. Len(previewFrames') : Known(previewFrames[i])'
          BY <4>1, <4>2, <4>3 DEF OrderInv, Known
        <4>11. /\ Known(preview.frame)' /\ Known(captureQueu)'
               /\ \A s \in Starts : Known(capture[s].frame)'
          BY <4>1, <4>2 DEF OrderInv, Known
        <4>12. QED
          BY <4>9, <4>10, <4>11 DEF OrderInv
      <3>2. CASE ~(mIsRunning /\ previewFrames # <<>>)
        <4>1. preview'.frame = preview.frame
          BY <2>4, <3>2 DEF WaitPreviewFrame, TypeOK, PreviewState
        <4>2. QED
          BY <1>3, <2>4, <3>2, <4>1 DEF WaitPreviewFrame
      <3>3. QED
        BY <3>1, <3>2
    <2>5. CASE AddCaptureFrame
      <3>1. /\ preview'.frame = 0 /\ captureQueu' = preview.frame
            /\ UNCHANGED <<made, previewFrames>>
            /\ \A s \in Starts : capture'[s].frame = capture[s].frame
        BY <1>2, <2>5 DEF AddCaptureFrame, Drawn
      <3>2. \A m : AheadOfQueue(m) => AheadOfQueue(m)'
        BY <3>1 DEF AheadOfQueue
      <3>3. AheadOfQueue(preview.frame)' /\ AheadOfQueue(captureQueu)'
            /\ Ahead(captureQueu', preview'.frame)
        BY <3>1 DEF OrderInv, InOrder, AheadOfQueue
      <3>4. \A s \in Capturing' : /\ AheadOfQueue(capture[s].frame)'
                                  /\ Ahead(capture'[s].frame, preview'.frame)
                                  /\ Ahead(capture'[s].frame, captureQueu')
        BY <3>1 DEF OrderInv, InOrder, Capturing, AheadOfQueue
      <3>5. InOrder'
        BY <3>1, <3>3, <3>4 DEF OrderInv, InOrder
      <3>6. 0 <= made
        BY <1>1 DEF Numbers
      <3>7. QED
        BY <3>1, <3>5, <3>6 DEF OrderInv, Known
    <2>6. CASE ForgetFrame \/ DropFrame
      BY <2>6, FewerInOrder DEF ForgetFrame, DropFrame, Drawn
    <2>7. QED
      BY <1>10, <2>1, <2>2, <2>3, <2>4, <2>5, <2>6 DEF Preview
  <1>11. ASSUME NEW s \in Starts, Capture(s)
         PROVE  OrderInv'
    <2>1. capture[s] \in CaptureState
      BY <1>1
    <2>2. UNCHANGED <<preview, previewFrames, made>>
      BY <1>11 DEF Capture, ClearCaptureFrame, DoCapture, ChooseMode, CheckCapturing,
         WaitCaptureFrame, CopyToSurface, DoCaptureCallback, ExitMode
    <2>3. ASSUME captureQueu' \in {captureQueu, 0}, NEW c, CaptureIs(s, c),
                 c.frame \in {capture[s].frame, 0}
          PROVE  OrderInv'
      <3>1. \A t \in Starts : capture'[t].frame \in {capture[t].frame, 0}
        BY <1>1, <2>3 DEF CaptureIs
      <3>2. QED
        BY <2>2, <2>3, <3>1, FewerInOrder
    <2>4. ASSUME captureQueu' \in {captureQueu, 0}, NEW from, NEW to, CaptureAt(s, from, to)
          PROVE  OrderInv'
      BY <2>1, <2>3, <2>4 DEF CaptureAt, CaptureState
    <2>5. CASE ClearCaptureFrame(s) \/ DoCapture(s) \/ CheckCapturing(s)
      BY <2>4, <2>5 DEF ClearCaptureFrame, DoCapture, CheckCapturing
    <2>6. CASE ChooseMode(s)
      BY <2>1, <2>3, <2>6 DEF ChooseMode, CaptureState
    <2>7. CASE WaitCaptureFrame(s)
      <3>1. CASE mIsRunning /\ captureQueu # 0
        <4>1. captureQueu' = 0 /\ capture'[s].frame = captureQueu
              /\ \A t \in Starts : t # s => capture'[t] = capture[t]
          BY <1>1, <2>1, <2>7, <3>1 DEF WaitCaptureFrame, CaptureIs, CaptureState
        <4>2. \A m : AheadOfQueue(m) => AheadOfQueue(m)'
          BY <2>2 DEF AheadOfQueue
        <4>3. AheadOfQueue(preview.frame)' /\ AheadOfQueue(captureQueu)'
              /\ Ahead(captureQueu', preview'.frame)
          BY <2>2, <4>1 DEF OrderInv, InOrder, AheadOfQueue
        <4>4. \A t \in Capturing' : /\ AheadOfQueue(capture[t].frame)'
                                    /\ Ahead(capture'[t].frame, preview'.frame)
                                    /\ Ahead(capture'[t].frame, captureQueu')
          BY <2>2, <4>1 DEF OrderInv, InOrder, Capturing, AheadOfQueue
        <4>5. InOrder'
          BY <2>2, <4>3, <4>4 DEF OrderInv, InOrder
        <4>6. 0 <= made
          BY <1>1 DEF Numbers
        <4>7. QED
          BY <2>2, <4>1, <4>5, <4>6 DEF OrderInv, Known
      <3>2. CASE ~(mIsRunning /\ captureQueu # 0)
        <4>1. PICK c : CaptureIs(s, c) /\ c.frame = capture[s].frame
          BY <2>1, <2>7, <3>2 DEF WaitCaptureFrame, CaptureState
        <4>2. QED
          BY <2>3, <2>7, <3>2, <4>1 DEF WaitCaptureFrame
      <3>3. QED
        BY <3>1, <3>2
    <2>8. CASE CopyToSurface(s) \/ DoCaptureCallback(s)
      <3>1. PICK c : CaptureIs(s, c) /\ (c.frame = capture[s].frame \/ c.frame = 0)
        <4>1. CASE CopyToSurface(s)
          <5>1. PICK c : c.frame = capture[s].frame /\ CaptureIs(s, c)
            BY <2>1, <4>1 DEF CopyToSurface, CaptureState
          <5>2. QED
            BY <5>1
        <4>2. CASE DoCaptureCallback(s)
          <5>1. PICK c : c.frame = 0 /\ CaptureIs(s, c)
            BY <2>1, <4>2 DEF DoCaptureCallback, CaptureState
          <5>2. QED
            BY <5>1
        <4>3. QED
          BY <2>8, <4>1, <4>2
      <3>2. QED
        BY <2>3, <2>8, <3>1 DEF CopyToSurface, DoCaptureCallback
    <2>9. CASE ExitMode(s)
      <3>1. \A t \in Starts : capture'[t].frame \in {capture[t].frame, 0}
        BY <1>1, <2>9 DEF ExitMode, BroadcastTo, Woken, Fresh, CaptureState
      <3>2. QED
        BY <2>2, <2>9, <3>1, FewerInOrder DEF ExitMode
    <2>10. QED
      BY <1>11, <2>5, <2>6, <2>7, <2>8, <2>9 DEF Capture
  <1>12. QED
    BY <1>6, <1>7, <1>8, <1>9, <1>10, <1>11 DEF Next

\* The frames keep the order of the camera on their way through the queue, the preview
\* thread, the slot and the capture threads, so that a callback gets them in order and
\* none twice, for every length of the queue and any number of frames.
THEOREM FramesInOrder == Spec => []InOrder
  <1>1. Init => OrderInv
    <2> SUFFICES ASSUME Init PROVE OrderInv
      OBVIOUS
    <2>1. Len(previewFrames) = 0 /\ preview.frame = 0 /\ captureQueu = 0 /\ made = 0
      BY DEF Init
    <2>2. \A s \in Starts : capture[s].frame = 0
      BY DEF Init, Fresh
    <2>3. Capturing = {}
      BY <2>2 DEF Capturing
    <2>4. QED
      BY <2>1, <2>2, <2>3 DEF OrderInv, InOrder, AheadOfQueue, Ahead, Known
  <1>2. Init => ThreadsInv /\ CaptureInv /\ HoldsInv
    BY DEF Init, Calling, Fresh, ThreadsInv, CaptureInv, PresentInv, Stopping, Settled, Starts,
       HoldsInv
  <1>3. TypeOK /\ HoldsInv /\ OrderInv /\ [Next]_vars => OrderInv'
    BY OrderStep
  <1>4. OrderInv => InOrder
    BY DEF OrderInv
  <1>5. QED
    BY <1>1, <1>2, <1>3, <1>4, TypeCorrect, StepKeeps, HoldsStep, PTL DEF Spec

\* Each frame goes to one place and in its order (get_frame, recycle_frame, the queue
\* and the slot).
THEOREM FramesFlow == Spec => []EachFrameOnce
  BY FramesKept, FramesInOrder, PTL DEF EachFrameOnce

-------------------------------------------------------------------------------
(* No wakeup is lost.  The preview thread draws, or waits, while the stream is on; *)
(* the rest of the invariant is the property.  When the app joins, mIsRunning has  *)
(* been cleared, so that whoever begins to wait is late.                           *)

SleepInv ==
  /\ preview.at \in Drawing \cup {"tell"} => streaming
  /\ preview.at = "asleep" => previewFrames = <<>>
  /\ \A s \in Starts : capture[s].at = "asleep" => captureQueu = 0
  /\ app.at \in {"join capture", "join preview"} => preview.at # "asleep" \/ late
  /\ app.at = "join capture" /\ (\E s \in Starts : capture[s].at = "asleep")
       => late \/ \E s \in Starts : Broadcasts(s)

\* A signal wakes one of those that sleep, and the one it wakes will broadcast.
LEMMA SignalWakes ==
  ASSUME capture \in [Starts -> CaptureState], SignalCapture
  PROVE  /\ \A s \in Starts : capture'[s].at = "asleep" => capture[s].at = "asleep"
         /\ \A s \in Starts : Broadcasts(s) => Broadcasts(s)'
         /\ (\E s \in Starts : capture[s].at = "asleep") => \E s \in Starts : Broadcasts(s)'
  <1>1. CASE (\A s \in Starts : capture[s].at # "asleep") /\ UNCHANGED capture
    BY <1>1 DEF Broadcasts
  <1>2. ASSUME NEW s \in Starts, capture[s].at = "asleep",
               capture' = [capture EXCEPT ![s].at = "woken"]
        PROVE  /\ \A r \in Starts : capture'[r].at = "asleep" => capture[r].at = "asleep"
               /\ \A r \in Starts : Broadcasts(r) => Broadcasts(r)'
               /\ \E r \in Starts : Broadcasts(r)'
    <2>1. capture'[s].at = "woken" /\ \A r \in Starts \ {s} : capture'[r] = capture[r]
      BY <1>2 DEF CaptureState
    <2>2. QED
      BY <2>1 DEF Broadcasts
  <1>3. QED
    BY <1>1, <1>2 DEF SignalCapture

LEMMA SleepStep ==
  ASSUME TypeOK, ThreadsInv, CaptureInv, SleepInv, [Next]_vars PROVE SleepInv'
  <1> USE PreviewAssumption DEF flags, targets, buffers, counts
  <1>1. /\ capture \in [Starts -> CaptureState] /\ preview \in PreviewState
        /\ app \in AppState /\ late \in BOOLEAN /\ streaming \in BOOLEAN
    BY DEF TypeOK
  <1> DEFINE Keeps == /\ \A s \in Starts : capture'[s].at = "asleep" => capture[s].at = "asleep"
                      /\ \A s \in Starts : Broadcasts(s) => Broadcasts(s)'
                      /\ captureQueu' \in {captureQueu, 0}
  <1>2. ASSUME Keeps, preview'.at \in Drawing \cup {"tell"} => streaming',
               preview'.at = "asleep" => preview.at = "asleep",
               previewFrames' \in {previewFrames, <<>>}, late' = late,
               \/ app'.at = app.at \/ app'.at \notin {"join capture", "join preview"}
               \/ app.at = "join capture" /\ app'.at = "join preview"
        PROVE  SleepInv'
    BY <1>2 DEF SleepInv
  <1>3. UNCHANGED capture /\ captureQueu' \in {captureQueu, 0} => Keeps
    BY DEF Broadcasts
  <1>4. SignalCapture /\ UNCHANGED captureQueu => Keeps
    BY <1>1, SignalWakes
  <1>5. UNCHANGED <<preview, streaming>> =>
          /\ preview'.at \in Drawing \cup {"tell"} => streaming'
          /\ preview'.at = "asleep" => preview.at = "asleep"
    <2> SUFFICES ASSUME preview' = preview, streaming' = streaming
                 PROVE  preview'.at \in Drawing \cup {"tell"} => streaming'
      OBVIOUS
    <2>1. preview.at \in Drawing \cup {"tell"} => streaming
      BY DEF SleepInv
    <2>2. QED
      BY <2>1
  <1>6. ASSUME BroadcastTo(capture) \/ \E s \in Starts : BroadcastTo([capture EXCEPT ![s] =
                                            [Fresh EXCEPT !.at = "loop"]])
        PROVE  /\ \A s \in Starts : capture'[s].at # "asleep"
               /\ app'.at = app.at \/ app'.at = "change"
    <2>1. ASSUME NEW threads \in [Starts -> CaptureState], BroadcastTo(threads)
          PROVE  \A s \in Starts : capture'[s].at # "asleep"
      <3>1. \A s \in Starts : threads[s] \in CaptureState
        BY <2>1
      <3>2. \A s \in Starts : [threads[s] EXCEPT !.at = "woken"].at = "woken"
        BY <3>1 DEF CaptureState
      <3>3. QED
        BY <2>1, <3>2 DEF BroadcastTo, Woken
    <2>2. [Fresh EXCEPT !.at = "loop"] \in CaptureState
      BY NoFrame DEF Fresh, CaptureState
    <2>3. \A s \in Starts : [capture EXCEPT ![s] = [Fresh EXCEPT !.at = "loop"]]
                              \in [Starts -> CaptureState]
      BY <1>1, <2>2
    <2>4. app'.at = app.at \/ app'.at = "change"
      BY <1>1, <1>6 DEF BroadcastTo, AppState
    <2>5. QED
      BY <1>1, <1>6, <2>1, <2>3, <2>4
  <1>7. CASE UNCHANGED vars
    BY <1>2, <1>3, <1>5, <1>7 DEF vars
  <1>8. CASE StartPreview
    <2>1. /\ app.at = "idle" /\ preview'.at = "start"
          /\ UNCHANGED <<capture, captureQueu, previewFrames, late, app>>
      BY <1>8 DEF StartPreview
    <2>2. QED
      BY <1>2, <1>3, <2>1 DEF Drawing
  <1>9. ASSUME NEW what, NEW new, NEW next \in {"idle", "stop"}, Set(what, new, next)
        PROVE  SleepInv'
    <2>1. /\ app'.at \in {"signal", "idle", "stop"}
          /\ UNCHANGED <<capture, captureQueu, previewFrames, late, preview, streaming>>
      BY <1>9 DEF Set, SetWaits, SetNow, Calling
    <2>2. QED
      BY <1>2, <1>3, <1>5, <2>1
  <1>10. CASE AppWaits \/ AppChanges \/ StopRunning
    <2>1. /\ UNCHANGED <<captureQueu, previewFrames, late, preview, streaming>>
          /\ app'.at \in {"wait", "idle", "stop", "wake", "clear"}
          /\ SignalCapture \/ UNCHANGED capture
      <3>1. CASE AppWaits \/ StopRunning
        BY <1>1, <3>1 DEF AppWaits, StopRunning, AppState
      <3>2. CASE AppChanges
        <4>1. app.next \in {"idle", "stop"}
          BY <1>1 DEF AppState
        <4>2. QED
          BY <3>2, <4>1 DEF AppChanges, Calling
      <3>3. QED
        BY <1>10, <3>1, <3>2
    <2>2. QED
      BY <1>2, <1>3, <1>4, <1>5, <2>1
  <1>11. CASE WakeThreads
    <2>1. /\ preview'.at # "asleep" /\ UNCHANGED <<captureQueu, previewFrames, late, streaming>>
          /\ preview'.at = preview.at \/ preview.at = "asleep"
      BY <1>1, <1>11 DEF WakeThreads, Signalled, PreviewState
    <2>2. /\ \A s \in Starts : capture'[s].at = "asleep" => capture[s].at = "asleep"
          /\ app'.at = "join capture" /\ (\E s \in Starts : capture'[s].at = "asleep")
               => \E s \in Starts : Broadcasts(s)'
      <3>1. CASE mHasCaptureThread
        BY <1>1, <1>11, <3>1, SignalWakes DEF WakeThreads
      <3>2. CASE ~mHasCaptureThread
        BY <1>1, <1>11, <3>2 DEF WakeThreads, AppState
      <3>3. QED
        BY <3>1, <3>2
    <2>3. QED
      BY <2>1, <2>2 DEF SleepInv, Drawing
  <1>12. CASE JoinCapture
    <2>1. /\ app.at = "join capture" /\ app'.at = "join preview"
          /\ UNCHANGED <<capture, captureQueu, previewFrames, late, preview, streaming>>
      BY <1>1, <1>12 DEF JoinCapture, AppState
    <2>2. QED
      BY <1>2, <1>3, <1>5, <2>1
  <1>13. CASE JoinPreview \/ ClearNow
    <2>1. /\ app'.at = "idle" /\ captureQueu' = 0 /\ previewFrames' = <<>>
          /\ UNCHANGED <<capture, late, streaming>>
          /\ preview' = preview \/ preview'.at = "none"
      <3>1. ClearAll /\ (preview' = preview \/ preview'.at = "none")
        <4>1. CASE JoinPreview
          <5>1. preview' = [at |-> "none", frame |-> 0] /\ ClearAll
            BY <4>1 DEF JoinPreview
          <5>2. preview'.at = "none"
            BY <5>1
          <5>3. QED
            BY <5>1, <5>2
        <4>2. CASE ClearNow
          BY <4>2 DEF ClearNow
        <4>3. QED
          BY <1>13, <4>1, <4>2
      <3>2. app'.at = "idle"
        BY <1>1, <3>1 DEF ClearAll, AppState
      <3>3. QED
        BY <3>1, <3>2 DEF ClearAll
    <2>2. QED
      BY <1>2, <1>3, <1>5, <2>1 DEF Drawing
  <1>14. CASE FrameComes
    <2>1. /\ streaming /\ preview'.at # "asleep"
          /\ UNCHANGED <<capture, captureQueu, app, late, streaming>>
      BY <1>1, <1>14 DEF FrameComes, Signalled, PreviewState
    <2>2. QED
      BY <2>1 DEF SleepInv, Broadcasts
  <1>15. CASE Preview
    <2>1. ASSUME NEW from, NEW to, PreviewAt(from, to)
          PROVE  preview.at = from /\ preview'.at = to
      BY <1>1, <2>1 DEF PreviewAt, PreviewState
    <2>2. CASE StartStreaming \/ StreamFails
      <3>1. /\ UNCHANGED <<capture, captureQueu, previewFrames, late, app>>
            /\ preview'.at \in {"create", "ended"}
        BY <2>1, <2>2 DEF StartStreaming, StreamFails
      <3>2. QED
        BY <1>2, <1>3, <3>1 DEF Drawing
    <2>3. CASE CreateCapture
      <3>1. /\ streaming /\ preview.at = "create" /\ preview'.at = "tell"
            /\ capture' = [capture EXCEPT ![starts].at = "clear"] /\ previewFrames' = <<>>
            /\ UNCHANGED <<captureQueu, late, app, streaming>>
        BY <2>1, <2>3 DEF CreateCapture
      <3>2. \A s \in Starts : s = starts => capture[s].at = "none" /\ capture'[s].at = "clear"
        BY <1>1, <3>1 DEF CaptureInv, PresentInv, CaptureState
      <3>3. \A s \in Starts : s # starts => capture'[s] = capture[s]
        BY <1>1, <3>1
      <3>4. Keeps
        BY <3>1, <3>2, <3>3 DEF Broadcasts
      <3>5. QED
        BY <1>2, <3>1, <3>4 DEF Drawing
    <2>4. CASE CreateFails \/ TellCapture \/ TestRunning
      <3>1. /\ UNCHANGED <<capture, captureQueu, late, app, streaming>>
            /\ previewFrames' \in {previewFrames, <<>>}
            /\ streaming \/ preview.at \in {"tell", "test"}
            /\ preview'.at \in {"test", "wait", "out"}
        BY <2>1, <2>4 DEF CreateFails, TellCapture, TestRunning
      <3>2. streaming
        BY <3>1 DEF SleepInv, Drawing
      <3>3. QED
        BY <1>2, <1>3, <3>1, <3>2 DEF Drawing
    <2>5. CASE WaitPreviewFrame
      <3>1. streaming /\ UNCHANGED <<capture, captureQueu, app, streaming>>
        BY <2>5 DEF WaitPreviewFrame, SleepInv, Drawing
      <3>2. \/ /\ preview'.at = "asleep" /\ previewFrames' = previewFrames
               /\ previewFrames = <<>> /\ late' = (late \/ ~mIsRunning)
            \/ preview'.at \in {"draw", "test"} /\ late' = late
        BY <1>1, <2>5 DEF WaitPreviewFrame, PreviewState
      <3>3. app.at \in {"join capture", "join preview"} => ~mIsRunning
        BY DEF ThreadsInv, Stopping
      <3>4. QED
        BY <3>1, <3>2, <3>3 DEF SleepInv, Broadcasts
    <2>6. CASE AddCaptureFrame
      <3>1. /\ preview.at = "draw" /\ preview'.at = "test"
            /\ UNCHANGED <<late, streaming>> /\ BroadcastTo(capture)
        BY <2>6 DEF AddCaptureFrame, Drawn
      <3>2. /\ \A s \in Starts : capture'[s].at # "asleep"
            /\ app'.at = app.at \/ app'.at = "change"
        BY <1>6, <3>1
      <3>3. QED
        BY <3>1, <3>2 DEF SleepInv, Drawing
    <2>7. CASE ForgetFrame \/ DropFrame
      <3>1. /\ preview.at = "draw" /\ preview'.at = "test"
            /\ UNCHANGED <<capture, captureQueu, previewFrames, late, app, streaming>>
        BY <2>7 DEF ForgetFrame, DropFrame, Drawn
      <3>2. streaming
        BY <3>1 DEF SleepInv, Drawing
      <3>3. QED
        BY <1>2, <1>3, <3>1, <3>2
    <2>8. CASE EndPreview
      <3>1. /\ preview.at = "out" /\ preview'.at = "stop" /\ SignalCapture
            /\ UNCHANGED <<captureQueu, previewFrames, late, app, streaming>>
        BY <2>1, <2>8 DEF EndPreview
      <3>2. streaming
        BY <3>1 DEF SleepInv, Drawing
      <3>3. QED
        BY <1>2, <1>4, <3>1, <3>2
    <2>9. CASE StopStreaming
      <3>1. /\ preview'.at = "ended"
            /\ UNCHANGED <<capture, captureQueu, previewFrames, late, app>>
        BY <2>1, <2>9 DEF StopStreaming
      <3>2. QED
        BY <1>2, <1>3, <3>1 DEF Drawing
    <2>10. QED
      BY <1>15, <2>2, <2>3, <2>4, <2>5, <2>6, <2>7, <2>8, <2>9 DEF Preview
  <1>16. ASSUME NEW s \in Starts, Capture(s) PROVE SleepInv'
    <2>1. capture[s] \in CaptureState
      BY <1>1
    <2>2. UNCHANGED <<preview, streaming, previewFrames>>
      BY <1>16 DEF Capture, ClearCaptureFrame, DoCapture, ChooseMode, CheckCapturing,
         WaitCaptureFrame, CopyToSurface, DoCaptureCallback, ExitMode
    <2>3. ASSUME NEW c, CaptureIs(s, c)
          PROVE  capture'[s] = c /\ \A r \in Starts \ {s} : capture'[r] = capture[r]
      BY <1>1, <2>3 DEF CaptureIs
    <2>4. ASSUME NEW c, CaptureIs(s, c), c.at # "asleep",
                 \/ capture[s].at \in {"clear", "loop"}
                 \/ c.at \in {"check", "wait", "exit", "call"},
                 captureQueu' \in {captureQueu, 0}, UNCHANGED <<late, app>>
          PROVE  SleepInv'
      <3>1. Keeps
        BY <2>3, <2>4 DEF Broadcasts
      <3>2. QED
        BY <1>2, <1>5, <2>2, <2>4, <3>1
    <2>5. CASE ClearCaptureFrame(s) \/ DoCapture(s) \/ CheckCapturing(s)
      <3>1. PICK c : /\ CaptureIs(s, c) /\ c.at # "asleep"
                     /\ capture[s].at \in {"clear", "loop"} \/ c.at \in {"wait", "exit"}
        <4>1. PICK to \in {"loop", "mode", "ended", "wait", "exit"} :
                /\ CaptureIs(s, [capture[s] EXCEPT !.at = to])
                /\ capture[s].at \in {"clear", "loop"} \/ to \in {"wait", "exit"}
          BY <2>5 DEF ClearCaptureFrame, DoCapture, CheckCapturing, CaptureAt
        <4>2. [capture[s] EXCEPT !.at = to].at = to
          BY <2>1 DEF CaptureState
        <4>3. QED
          BY <4>1, <4>2
      <3>2. captureQueu' \in {captureQueu, 0} /\ UNCHANGED <<late, app>>
        BY <2>5 DEF ClearCaptureFrame, DoCapture, CheckCapturing
      <3>3. QED
        BY <2>4, <3>1, <3>2
    <2>6. CASE ChooseMode(s) \/ CopyToSurface(s) \/ DoCaptureCallback(s)
      <3>1. PICK c : CaptureIs(s, c) /\ c.at \in {"check", "call"}
        <4>1. CASE ChooseMode(s)
          <5>1. [capture[s] EXCEPT !.at = "check", !.surface = mCaptureWindow # None].at = "check"
            BY <2>1 DEF CaptureState
          <5>2. QED
            BY <4>1, <5>1 DEF ChooseMode
        <4>2. CASE CopyToSurface(s)
          <5>1. [capture[s] EXCEPT !.at = "call",
                   !.converted = capture[s].converted \/ mIsCapturing].at = "call"
            BY <2>1 DEF CaptureState
          <5>2. QED
            BY <4>2, <5>1 DEF CopyToSurface
        <4>3. CASE DoCaptureCallback(s)
          <5>1. [capture[s] EXCEPT !.at = "check", !.frame = 0].at = "check"
            BY <2>1 DEF CaptureState
          <5>2. QED
            BY <4>3, <5>1 DEF DoCaptureCallback
        <4>4. QED
          BY <2>6, <4>1, <4>2, <4>3
      <3>2. UNCHANGED <<captureQueu, late, app>>
        BY <2>6 DEF ChooseMode, CopyToSurface, DoCaptureCallback
      <3>3. QED
        BY <2>4, <3>1, <3>2
    <2>7. CASE WaitCaptureFrame(s)
      <3>1. UNCHANGED app
        BY <2>7 DEF WaitCaptureFrame
      <3>2. CASE capture[s].at = "wait" /\ captureQueu = 0
        <4>1. /\ CaptureIs(s, [capture[s] EXCEPT !.at = "asleep"])
              /\ late' = (late \/ ~mIsRunning) /\ captureQueu' = 0
          BY <2>7, <3>2 DEF WaitCaptureFrame
        <4>2. app.at = "join capture" => ~mIsRunning
          BY DEF ThreadsInv, Stopping
        <4>3. QED
          BY <1>1, <2>2, <3>1, <4>1, <4>2 DEF SleepInv
      <3>3. CASE ~(capture[s].at = "wait" /\ captureQueu = 0)
        <4>1. /\ captureQueu' \in {captureQueu, 0} /\ late' = late
          BY <2>7, <3>3 DEF WaitCaptureFrame
        <4>2. PICK c : /\ CaptureIs(s, c) /\ c.at \in {"copy", "call", "check"}
          <5>1. /\ [capture[s] EXCEPT !.at = "check"].at = "check"
                /\ [capture[s] EXCEPT !.frame = captureQueu,
                      !.at = IF capture[s].surface THEN "copy" ELSE "call"].at
                     \in {"copy", "call"}
            BY <2>1 DEF CaptureState
          <5>2. \/ CaptureIs(s, [capture[s] EXCEPT !.at = "check"])
                \/ CaptureIs(s, [capture[s] EXCEPT !.frame = captureQueu,
                                    !.at = IF capture[s].surface THEN "copy" ELSE "call"])
            BY <2>7, <3>3 DEF WaitCaptureFrame
          <5>3. QED
            BY <5>1, <5>2
        <4>3. Keeps
          BY <2>3, <4>1, <4>2 DEF Broadcasts
        <4>4. QED
          BY <1>2, <1>5, <2>2, <3>1, <4>1, <4>3
      <3>4. QED
        BY <3>2, <3>3
    <2>8. CASE ExitMode(s)
      <3>1. /\ BroadcastTo([capture EXCEPT ![s] = [Fresh EXCEPT !.at = "loop"]])
            /\ UNCHANGED late
        BY <2>8 DEF ExitMode
      <3>2. /\ \A r \in Starts : capture'[r].at # "asleep"
            /\ app'.at = app.at \/ app'.at = "change"
        BY <1>6, <3>1
      <3>3. QED
        BY <2>2, <3>1, <3>2 DEF SleepInv
    <2>9. QED
      BY <1>16, <2>5, <2>6, <2>7, <2>8 DEF Capture
  <1>17. CASE User
    BY <1>8, <1>9, <1>17 DEF User, setFrameCallback, setCaptureDisplay, stopPreview
  <1>18. CASE App
    BY <1>10, <1>11, <1>12, <1>13, <1>18 DEF App
  <1>19. QED
    BY <1>7, <1>14, <1>15, <1>16, <1>17, <1>18 DEF Next

\* Over any number of starts: a thread sleeps only while what it waits for is not there,
\* and when the app joins the threads each has been woken or is about to be, unless it
\* looked at mIsRunning before that was cleared and began to wait after it (stopPreview,
\* waitPreviewFrame, waitCaptureFrame, do_capture).
THEOREM WakeupsKept == Spec => []NobodyForgotten
  <1>1. Init => ThreadsInv /\ CaptureInv /\ SleepInv
    BY DEF Init, Calling, Fresh, ThreadsInv, CaptureInv, PresentInv, Stopping, Settled, Starts,
       SleepInv, Drawing
  <1>2. TypeOK /\ ThreadsInv /\ CaptureInv /\ SleepInv /\ [Next]_vars => SleepInv'
    BY SleepStep
  <1>3. SleepInv => NobodyForgotten
    BY DEF SleepInv, NobodyForgotten, Drawing
  <1>4. QED
    BY <1>1, <1>2, <1>3, TypeCorrect, StepKeeps, PTL DEF Spec
===============================================================================
