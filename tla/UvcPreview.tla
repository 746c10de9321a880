------------------------------ MODULE UvcPreview -------------------------------
(***************************************************************************)
(* The preview of a USB camera, UVCPreview.cpp.  Four kinds of threads     *)
(* share the object: the app's, which starts and stops the preview and     *)
(* says where frames are captured to; the thread of libuvc that brings the *)
(* frames; the preview thread, which takes them from a queue, draws them   *)
(* and puts the newest into a slot; and a capture thread for each start,   *)
(* which takes them from the slot, writes them to a window and calls back  *)
(* to Java.  preview_mutex guards the queue, capture_mutex the slot and    *)
(* what is captured to, pool_mutex the pool of frames; mIsRunning,         *)
(* mIsCapturing and mHasCaptureThread are read and written without a lock, *)
(* and the capture thread takes no lock to use the callback and the window.*)
(*                                                                         *)
(* A section under a mutex is one step.  A frame is known by its number;   *)
(* the frames from MaxFrames on are not told apart.  Buffers are counted. *)
(* A wait is left when it is signalled, never without a reason.            *)
(***************************************************************************)
EXTENDS Integers, Sequences, FiniteSets

CONSTANTS MaxCalls,    \* bound on the starts and, after the first, the changes of the
                       \* callback and the window
          MaxFrames,   \* bound on the numbers of frames
          MAX_FRAME,   \* the length of the queue, 4
          Callbacks, Windows, None

ASSUME PreviewAssumption ==
  /\ MaxCalls \in Nat /\ MaxFrames \in Nat \ {0}
  /\ MAX_FRAME \in Nat \ {0}
  /\ None \notin Callbacks \cup Windows

VARIABLES mIsRunning, mIsCapturing, mHasCaptureThread,
          mFrameCallbackObj, mCaptureWindow,
          previewFrames,    \* the queue
          captureQueu,      \* the slot: the number of a frame, or 0
          streaming,        \* libuvc calls back
          app,              \* what the app's thread is about to do
          preview,          \* the preview thread and the frame it draws
          capture,          \* the capture thread of each start
          capture_thread,   \* the start whose capture thread was made last, or 0
          starts, sets,
          made,             \* the number of the newest frame
          out, lost,        \* history: frames taken from the pool, and forgotten ones
          late,             \* history: a thread began to wait after it should stop
          early             \* history: the starts that were stopped too soon to
                            \* see their capture thread

flags   == <<mIsRunning, mIsCapturing, mHasCaptureThread>>
targets == <<mFrameCallbackObj, mCaptureWindow>>
buffers == <<out, lost>>
counts  == <<starts, sets>>
vars    == <<flags, targets, previewFrames, captureQueu, buffers, streaming,
             app, preview, capture, capture_thread, counts, made, late, early>>

Starts  == 1 .. MaxCalls
Numbers == 0 .. MaxFrames

\* What the threads are about to do.
AppState ==
  [at : {"idle", "signal", "wait", "change", "stop", "wake", "join capture",
         "join preview", "clear"},
   what : {"callback", "window"},
   new : Callbacks \cup Windows \cup {None}, next : {"idle", "stop"}]
PreviewState ==
  [at : {"none", "start", "create", "tell", "test", "wait", "asleep", "woken", "draw",
         "out", "stop", "ended"},
   frame : Numbers]
CaptureState ==
  [at : {"none", "clear", "loop", "mode", "check", "wait", "asleep", "woken", "copy",
         "call", "exit", "ended"},
   frame : Numbers, surface : BOOLEAN, converted : BOOLEAN]

TypeOK ==
  /\ mIsRunning \in BOOLEAN /\ mIsCapturing \in BOOLEAN
  /\ mHasCaptureThread \in BOOLEAN /\ streaming \in BOOLEAN
  /\ mFrameCallbackObj \in Callbacks \cup {None}
  /\ mCaptureWindow \in Windows \cup {None}
  /\ previewFrames \in Seq(Numbers \ {0}) /\ Len(previewFrames) <= MAX_FRAME
  /\ captureQueu \in Numbers /\ made \in Numbers
  /\ out \in Int /\ lost \in Nat
  /\ app \in AppState
  /\ app.new \in (IF app.what = "callback" THEN Callbacks ELSE Windows) \cup {None}
  /\ preview \in PreviewState
  /\ capture \in [Starts -> CaptureState]
  /\ capture_thread \in 0 .. MaxCalls
  /\ starts \in 0 .. MaxCalls /\ sets \in 0 .. MaxCalls
  /\ late \in BOOLEAN /\ early \in SUBSET (0 .. MaxCalls)

\* The app, while it does not change a callback or a window; a capture thread that
\* holds nothing.
Calling(at) == [at |-> at, what |-> "callback", new |-> None, next |-> "idle"]
Fresh == [at |-> "none", frame |-> 0, surface |-> FALSE, converted |-> FALSE]

-------------------------------------------------------------------------------
(* The frames.  One that a conversion takes and gives back within a step is left out. *)

\* get_frame: one of the pool, or a new one.
Get == out' = out + 1 /\ UNCHANGED lost

\* recycle_frame of n frames: to the pool, or freed when it is full.
Recycle(n) == out' = out - n /\ UNCHANGED lost

One(frame) == IF frame = 0 THEN 0 ELSE 1

-------------------------------------------------------------------------------
(* capture_sync. *)

\* capture_mutex is held across steps only by an app that is about to wait.
CaptureMutexFree == app.at # "signal"

Woken(threads) ==
  [s \in Starts |-> IF threads[s].at = "asleep"
                    THEN [threads[s] EXCEPT !.at = "woken"] ELSE threads[s]]

\* pthread_cond_broadcast.
BroadcastTo(threads) ==
  /\ capture' = Woken(threads)
  /\ app' = IF app.at = "wait" THEN [app EXCEPT !.at = "change"] ELSE app

\* pthread_cond_signal, while the app does not wait: one of the capture threads.
SignalCapture ==
  \/ (\A s \in Starts : capture[s].at # "asleep") /\ UNCHANGED capture
  \/ \E s \in Starts : /\ capture[s].at = "asleep"
                       /\ capture' = [capture EXCEPT ![s].at = "woken"]

-------------------------------------------------------------------------------
(* The app: UVCCamera.stopPreview clears the callback before it stops. *)

StartPreview ==
  /\ app.at = "idle" /\ ~mIsRunning /\ starts + sets < MaxCalls
  /\ mIsRunning' = TRUE
  /\ preview' = [at |-> "start", frame |-> 0]
  /\ starts' = starts + 1
  /\ UNCHANGED <<mIsCapturing, mHasCaptureThread, targets, previewFrames, captureQueu,
                 buffers, streaming, app, capture, capture_thread, sets, made,
                 late, early>>

\* The assignment at the end of setFrameCallback and setCaptureDisplay.
Assign(what, new) ==
  IF what = "callback"
  THEN mFrameCallbackObj' = new /\ UNCHANGED mCaptureWindow
  ELSE mCaptureWindow' = new /\ UNCHANGED mFrameCallbackObj

Current(what) == IF what = "callback" THEN mFrameCallbackObj ELSE mCaptureWindow

\* setFrameCallback and setCaptureDisplay: something is captured to, and the app
\* is going to wait, with the mutex still held; or it is not.
SetWaits(what, new, next) ==
  /\ mIsRunning /\ mIsCapturing /\ Current(what) # None
  /\ mIsCapturing' = FALSE
  /\ app' = [at |-> "signal", what |-> what, new |-> new, next |-> next]
  /\ UNCHANGED <<mIsRunning, mHasCaptureThread, targets>>

SetNow(what, new, next) ==
  /\ ~(mIsRunning /\ mIsCapturing /\ Current(what) # None)
  /\ mIsCapturing' = (mIsCapturing /\ ~mIsRunning)
  /\ Assign(what, new)
  /\ app' = Calling(next)
  /\ UNCHANGED <<mIsRunning, mHasCaptureThread>>

Set(what, new, next) ==
  /\ app.at = "idle"
  /\ SetWaits(what, new, next) \/ SetNow(what, new, next)
  /\ UNCHANGED <<previewFrames, captureQueu, buffers, streaming, preview,
                 capture, capture_thread, starts, made, late, early>>

\* Before the first start the app sets what it likes; then each change takes one of its
\* calls, as a start does.
Counted ==
  IF starts = 0 THEN UNCHANGED sets ELSE starts + sets < MaxCalls /\ sets' = sets + 1

setFrameCallback(c)  == Set("callback", c, "idle") /\ Counted
setCaptureDisplay(w) == Set("window", w, "idle") /\ Counted
stopPreview == Set("callback", None, "stop") /\ UNCHANGED sets

\* The signal and the wait "finishing capturing".
AppWaits ==
  /\ app.at = "signal"
  /\ app' = [app EXCEPT !.at = "wait"]
  /\ SignalCapture
  /\ UNCHANGED <<flags, targets, previewFrames, captureQueu, buffers, streaming,
                 preview, capture_thread, counts, made, late, early>>

\* The wait is over.
AppChanges ==
  /\ app.at = "change"
  /\ Assign(app.what, app.new)
  /\ app' = Calling(app.next)
  /\ UNCHANGED <<flags, previewFrames, captureQueu, buffers, streaming,
                 preview, capture, capture_thread, counts, made, late, early>>

StopRunning ==
  /\ app.at = "stop"
  /\ mIsRunning' = FALSE
  /\ app' = [app EXCEPT !.at = IF mIsRunning THEN "wake" ELSE "clear"]
  /\ UNCHANGED <<mIsCapturing, mHasCaptureThread, targets, previewFrames, captureQueu,
                 buffers, streaming, preview, capture, capture_thread, counts,
                 made, late, early>>

\* pthread_cond_signal(&preview_sync), and a variant without it.
NotSignalled == preview
Signalled == IF preview.at = "asleep" THEN [preview EXCEPT !.at = "woken"] ELSE preview

\* mHasCaptureThread may be that of an earlier start, or of none: the flag is not
\* set by the constructor.
WakeThreads ==
  /\ app.at = "wake"
  /\ preview' = Signalled
  /\ IF mHasCaptureThread
     THEN app' = [app EXCEPT !.at = "join capture"] /\ SignalCapture
     ELSE app' = [app EXCEPT !.at = "join preview"] /\ UNCHANGED capture
  /\ early' = IF preview.at \in {"start", "create", "tell"}
              THEN early \cup {starts} ELSE early
  /\ UNCHANGED <<flags, targets, previewFrames, captureQueu, buffers, streaming,
                 capture_thread, counts, made, late>>

\* To join a thread that has been joined, or that never was, fails at once.
JoinCapture ==
  /\ app.at = "join capture"
  /\ \A s \in Starts : s = capture_thread => capture[s].at = "ended"
  /\ app' = [app EXCEPT !.at = "join preview"]
  /\ UNCHANGED <<flags, targets, previewFrames, captureQueu, buffers, streaming,
                 preview, capture, capture_thread, counts, made, late, early>>

\* clearPreviewFrame, clearCaptureFrame and the windows.
ClearAll ==
  /\ Recycle(Len(previewFrames) + One(captureQueu))
  /\ previewFrames' = <<>> /\ captureQueu' = 0
  /\ mCaptureWindow' = None
  /\ app' = [app EXCEPT !.at = "idle"]
  /\ UNCHANGED <<flags, mFrameCallbackObj, streaming, capture, capture_thread, counts,
                 made, late, early>>

\* The preview thread is joined, and all is cleared.
JoinPreview ==
  /\ app.at = "join preview" /\ preview.at = "ended"
  /\ preview' = [at |-> "none", frame |-> 0]
  /\ ClearAll

\* A stop of a preview that does not run.
ClearNow == app.at = "clear" /\ ClearAll /\ UNCHANGED preview

-------------------------------------------------------------------------------
(* The thread of libuvc, uvc_preview_frame_callback. *)

Newest == IF made < MaxFrames THEN made + 1 ELSE MaxFrames

\* A frame that comes while the preview runs is copied, and added if the queue has
\* room (addPreviewFrame); variants add it in front, or when there is none.
Overfull == Len(previewFrames) <= MAX_FRAME
HasRoom  == Len(previewFrames) < MAX_FRAME
InFront(n) == <<n>> \o previewFrames
Behind(n)  == Append(previewFrames, n)

FrameComes ==
  /\ streaming /\ mIsRunning /\ HasRoom
  /\ made' = Newest
  /\ previewFrames' = Behind(Newest)
  /\ Get
  /\ preview' = Signalled
  /\ UNCHANGED <<flags, targets, captureQueu, streaming, app, capture, capture_thread,
                 counts, late, early>>

-------------------------------------------------------------------------------
(* The preview thread, do_preview. *)

PreviewAt(from, to) == preview.at = from /\ preview' = [preview EXCEPT !.at = to]

\* prepare_preview and uvc_start_streaming_bandwidth: the first may fail, and the
\* second.
StartStreaming ==
  /\ PreviewAt("start", "ended") \/ PreviewAt("start", "create")
  /\ streaming' \in {FALSE, preview'.at = "create"}
  /\ UNCHANGED <<flags, targets, previewFrames, captureQueu, buffers, app, capture,
                 capture_thread, counts, made, late, early>>

\* mHasCaptureThread is reset.  If the stream has started the queue is cleared and
\* the capture thread created, which may fail.
CreateCapture ==
  /\ streaming /\ PreviewAt("create", "tell")
  /\ mHasCaptureThread' = FALSE
  /\ Recycle(Len(previewFrames)) /\ previewFrames' = <<>>
  /\ capture' = [capture EXCEPT ![starts].at = "clear"]
  /\ capture_thread' = starts
  /\ UNCHANGED <<mIsRunning, mIsCapturing, targets, captureQueu, streaming, app, counts,
                 made, late, early>>

CreateFails ==
  /\ streaming /\ PreviewAt("create", "test")
  /\ mHasCaptureThread' = FALSE
  /\ Recycle(Len(previewFrames)) /\ previewFrames' = <<>>
  /\ UNCHANGED <<mIsRunning, mIsCapturing, targets, captureQueu, streaming, app, capture,
                 capture_thread, counts, made, late, early>>

StreamFails ==
  /\ ~streaming /\ PreviewAt("create", "ended")
  /\ mHasCaptureThread' = FALSE
  /\ UNCHANGED <<mIsRunning, mIsCapturing, targets, previewFrames, captureQueu, buffers,
                 streaming, app, capture, capture_thread, counts, made, late, early>>

\* The flag is set, and a variant in which it is not.
NotTold == FALSE
Told == TRUE

TellCapture ==
  /\ PreviewAt("tell", "test")
  /\ mHasCaptureThread' = Told
  /\ UNCHANGED <<mIsRunning, mIsCapturing, targets, previewFrames, captureQueu, buffers,
                 streaming, app, capture, capture_thread, counts, made,
                 late, early>>

TestRunning ==
  /\ PreviewAt("test", IF mIsRunning THEN "wait" ELSE "out")
  /\ UNCHANGED <<flags, targets, previewFrames, captureQueu, buffers, streaming,
                 app, capture, capture_thread, counts, made, late, early>>

\* waitPreviewFrame: the queue is looked at before the flag.
WaitPreviewFrame ==
  /\ preview.at \in {"wait", "woken"}
  /\ CASE preview.at = "wait" /\ previewFrames = <<>> ->
            /\ preview' = [preview EXCEPT !.at = "asleep"]
            /\ late' = (late \/ ~mIsRunning)
            /\ UNCHANGED previewFrames
       [] mIsRunning /\ previewFrames # <<>> ->
            /\ preview' = [at |-> "draw", frame |-> Head(previewFrames)]
            /\ previewFrames' = Tail(previewFrames)
            /\ UNCHANGED late
       [] OTHER ->
            /\ preview' = [preview EXCEPT !.at = "test"]
            /\ UNCHANGED <<previewFrames, late>>
  /\ UNCHANGED <<flags, targets, captureQueu, buffers, streaming, app, capture,
                 capture_thread, counts, made, early>>

Drawn == preview' = [at |-> "test", frame |-> 0]

\* draw_preview_one and addCaptureFrame: the slot keeps the newest frame, and a
\* variant of it that forgets the one before.
Forgets == 0
Replaced == One(captureQueu)

AddCaptureFrame ==
  /\ preview.at = "draw" /\ CaptureMutexFree /\ mIsRunning
  /\ Drawn
  /\ Recycle(Replaced)
  /\ captureQueu' = preview.frame
  /\ BroadcastTo(capture)
  /\ UNCHANGED <<flags, targets, previewFrames, streaming, capture_thread,
                 counts, made, late, early>>

\* A frame that is drawn after the preview was stopped is kept by nobody.
ForgetFrame ==
  /\ preview.at = "draw" /\ CaptureMutexFree /\ ~mIsRunning
  /\ Drawn
  /\ lost' = lost + 1
  /\ UNCHANGED <<flags, targets, previewFrames, captureQueu, out, streaming, app,
                 capture, capture_thread, counts, made, late, early>>

\* uvc_mjpeg2yuyv fails.
DropFrame ==
  /\ preview.at = "draw"
  /\ Drawn
  /\ Recycle(1)
  /\ UNCHANGED <<flags, targets, previewFrames, captureQueu, streaming, app,
                 capture, capture_thread, counts, made, late, early>>

EndPreview ==
  /\ PreviewAt("out", "stop")
  /\ SignalCapture
  /\ UNCHANGED <<flags, targets, previewFrames, captureQueu, buffers, streaming,
                 app, capture_thread, counts, made, late, early>>

\* uvc_stop_streaming waits for the thread that brings the frames.
StopStreaming ==
  /\ PreviewAt("stop", "ended")
  /\ streaming' = FALSE
  /\ UNCHANGED <<flags, targets, previewFrames, captureQueu, buffers, app,
                 capture, capture_thread, counts, made, late, early>>

-------------------------------------------------------------------------------
(* The capture thread of start s, do_capture. *)

CaptureIs(s, thread) == capture' = [capture EXCEPT ![s] = thread]
CaptureAt(s, from, to) ==
  capture[s].at = from /\ CaptureIs(s, [capture[s] EXCEPT !.at = to])

ClearCaptureFrame(s) ==
  /\ CaptureAt(s, "clear", "loop")
  /\ CaptureMutexFree
  /\ Recycle(One(captureQueu))
  /\ captureQueu' = 0
  /\ UNCHANGED <<flags, targets, previewFrames, streaming, app, preview,
                 capture_thread, counts, made, late, early>>

DoCapture(s) ==
  /\ CaptureAt(s, "loop", IF mIsRunning THEN "mode" ELSE "ended")
  /\ mIsCapturing' = (mIsCapturing \/ mIsRunning)
  /\ UNCHANGED <<mIsRunning, mHasCaptureThread, targets, previewFrames, captureQueu,
                 buffers, streaming, app, preview, capture_thread, counts, made,
                 late, early>>

\* do_capture_surface, or do_capture_idle_loop.
ChooseMode(s) ==
  /\ capture[s].at = "mode"
  /\ CaptureIs(s, [capture[s] EXCEPT !.at = "check", !.surface = mCaptureWindow # None])
  /\ UNCHANGED <<flags, targets, previewFrames, captureQueu, buffers, streaming,
                 app, preview, capture_thread, counts, made, late, early>>

CheckCapturing(s) ==
  /\ CaptureAt(s, "check", IF mIsRunning /\ mIsCapturing THEN "wait" ELSE "exit")
  /\ UNCHANGED <<flags, targets, previewFrames, captureQueu, buffers, streaming,
                 app, preview, capture_thread, counts, made, late, early>>

\* waitCaptureFrame.
WaitCaptureFrame(s) ==
  /\ capture[s].at \in {"wait", "woken"} /\ CaptureMutexFree
  /\ CASE capture[s].at = "wait" /\ captureQueu = 0 ->
            /\ CaptureIs(s, [capture[s] EXCEPT !.at = "asleep"])
            /\ late' = (late \/ ~mIsRunning)
            /\ UNCHANGED captureQueu
       [] mIsRunning /\ captureQueu # 0 ->
            /\ CaptureIs(s, [capture[s] EXCEPT !.frame = captureQueu,
                                !.at = IF capture[s].surface THEN "copy" ELSE "call"])
            /\ captureQueu' = 0
            /\ UNCHANGED late
       [] OTHER ->
            /\ CaptureIs(s, [capture[s] EXCEPT !.at = "check"])
            /\ UNCHANGED <<captureQueu, late>>
  /\ UNCHANGED <<flags, targets, previewFrames, buffers, streaming, app, preview,
                 capture_thread, counts, made, early>>

\* The frame is converted and written to the window.
CopyToSurface(s) ==
  /\ capture[s].at = "copy"
  /\ CaptureIs(s, [capture[s] EXCEPT !.at = "call",
                      !.converted = capture[s].converted \/ mIsCapturing])
  /\ IF mIsCapturing /\ ~capture[s].converted THEN Get ELSE UNCHANGED buffers
  /\ UNCHANGED <<flags, targets, previewFrames, captureQueu, streaming, app,
                 preview, capture_thread, counts, made, late, early>>

\* do_capture_callback: the frame, or a conversion of it, is given to the callback if
\* there is one, and recycled.
DoCaptureCallback(s) ==
  /\ capture[s].at = "call"
  /\ CaptureIs(s, [capture[s] EXCEPT !.at = "check", !.frame = 0])
  /\ Recycle(1)
  /\ UNCHANGED <<flags, targets, previewFrames, captureQueu, streaming, app,
                 preview, capture_thread, counts, made, late, early>>

\* The end of do_capture_surface lets go of the window, whichever it is by now;
\* then do_capture broadcasts, without the mutex.
ExitMode(s) ==
  /\ capture[s].at = "exit"
  /\ BroadcastTo([capture EXCEPT ![s] = [Fresh EXCEPT !.at = "loop"]])
  /\ Recycle(IF capture[s].converted THEN 1 ELSE 0)
  /\ mCaptureWindow' = IF capture[s].surface THEN None ELSE mCaptureWindow
  /\ UNCHANGED <<flags, mFrameCallbackObj, previewFrames, captureQueu, streaming, preview,
                 capture_thread, counts, made, late, early>>

-------------------------------------------------------------------------------
Init ==
  /\ mIsRunning = FALSE /\ mIsCapturing = FALSE /\ mHasCaptureThread \in BOOLEAN
  /\ mFrameCallbackObj = None /\ mCaptureWindow = None
  /\ previewFrames = <<>> /\ captureQueu = 0
  /\ streaming = FALSE
  /\ app = Calling("idle")
  /\ preview = [at |-> "none", frame |-> 0]
  /\ capture = [s \in Starts |-> Fresh]
  /\ capture_thread = 0 /\ starts = 0 /\ sets = 0
  /\ made = 0 /\ out = 0 /\ lost = 0
  /\ late = FALSE /\ early = {}

User ==
  \/ StartPreview \/ stopPreview
  \/ \E c \in Callbacks \cup {None} : setFrameCallback(c)
  \/ \E w \in Windows \cup {None} : setCaptureDisplay(w)

App == AppWaits \/ AppChanges \/ StopRunning \/ WakeThreads \/ JoinCapture
       \/ JoinPreview \/ ClearNow

Preview ==
  \/ StartStreaming \/ CreateCapture \/ CreateFails \/ StreamFails \/ TellCapture
  \/ TestRunning \/ WaitPreviewFrame
  \/ AddCaptureFrame \/ ForgetFrame \/ DropFrame
  \/ EndPreview \/ StopStreaming

Capture(s) ==
  \/ ClearCaptureFrame(s) \/ DoCapture(s) \/ ChooseMode(s) \/ CheckCapturing(s)
  \/ WaitCaptureFrame(s) \/ CopyToSurface(s)
  \/ DoCaptureCallback(s) \/ ExitMode(s)

Next == User \/ App \/ FrameComes \/ Preview \/ \E s \in Starts : Capture(s)

\* The threads run, the camera goes on sending frames, and a callback returns.
\* Not every frame fails to be converted.
Fairness ==
  /\ WF_vars(App) /\ WF_vars(FrameComes) /\ WF_vars(Preview) /\ SF_vars(AddCaptureFrame)
  /\ \A s \in Starts : WF_vars(Capture(s))

Spec == Init /\ [][Next]_vars /\ Fairness

-------------------------------------------------------------------------------
\* The frames that each thread holds.
Converting == {s \in Starts : capture[s].converted}
Capturing  == {s \in Starts : capture[s].frame # 0}

\* No frame is recycled twice or leaks: each that was taken from the pool is in the
\* queue, in the slot or with one thread, but for those addCaptureFrame has not kept,
\* one for each stop at most.
FramesConserved ==
  /\ out = Len(previewFrames) + One(captureQueu) + One(preview.frame)
           + Cardinality(Converting) + Cardinality(Capturing) + lost
  /\ lost <= starts

\* The frames are in the order of the camera all the way: what a capture thread
\* holds is older than the slot, the slot older than what is drawn, and so on.
\* So a capture thread gives its frames in order, and none twice.
Older(m, n) == m < n \/ (m = MaxFrames /\ n = MaxFrames)
Ahead(m, n) == m = 0 \/ n = 0 \/ Older(m, n)
AheadOfQueue(m) == \A i \in 1 .. Len(previewFrames) : Ahead(m, previewFrames[i])

InOrder ==
  /\ \A i, j \in 1 .. Len(previewFrames) : i < j => Ahead(previewFrames[i], previewFrames[j])
  /\ AheadOfQueue(preview.frame)
  /\ AheadOfQueue(captureQueu) /\ Ahead(captureQueu, preview.frame)
  /\ \A s \in Capturing : /\ AheadOfQueue(capture[s].frame)
                          /\ Ahead(capture[s].frame, preview.frame)
                          /\ Ahead(capture[s].frame, captureQueu)

\* Both: each frame goes to one place, in its order.
EachFrameOnce == FramesConserved /\ InOrder

\* After stopPreview nothing of the preview runs any more: libuvc brings no frames,
\* the preview thread is joined, and so is the capture thread, unless it was asked
\* for before the preview thread could say that there is one.
NothingLeft ==
  app.at = "idle" /\ ~mIsRunning
    => /\ ~streaming /\ preview.at = "none"
       /\ \A s \in Starts : capture[s].at \in {"none", "ended"} \/ s \in early

\* The capture thread of start s is in a loop whose end broadcasts.
Broadcasts(s) == capture[s].at \in {"mode", "check", "wait", "woken", "copy", "call", "exit"}

\* No wakeup is lost.  The preview thread sleeps on an empty queue of a stream that
\* brings frames, a capture thread on an empty slot; and when the app joins them the
\* preview thread does not sleep, and if a capture thread does another one is on its way
\* to broadcast, unless one began to wait after mIsRunning was cleared (addPreviewFrame,
\* addCaptureFrame, stopPreview, do_capture).
NobodyForgotten ==
  /\ preview.at = "asleep" => streaming /\ previewFrames = <<>>
  /\ \A s \in Starts : capture[s].at = "asleep" => captureQueu = 0
  /\ app.at \in {"join capture", "join preview"} => preview.at # "asleep" \/ late
  /\ app.at = "join capture" /\ (\E s \in Starts : capture[s].at = "asleep")
       => late \/ \E s \in Starts : Broadcasts(s)

\* Each call of the app comes back: stopPreview, unless a thread that looked at
\* mIsRunning before it was cleared has begun to wait for frames after that, for
\* nothing wakes that one; and the wait of setFrameCallback and setCaptureDisplay, with
\* as many frames as it takes, unless the preview has ended by itself.
CallsEnd ==
  (app.at # "idle")
    ~> (app.at = "idle" \/ late \/ (app.at = "wait" /\ preview.at = "ended"))
===============================================================================
