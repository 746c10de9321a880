------------------------------- MODULE CameraTest -------------------------------
(***************************************************************************)
(* The camera test: what testOnce() of CameraTestFragment does with the    *)
(* Camera2 API.  Three threads meet in it: the Timer thread, which opens   *)
(* the camera, takes a picture and closes it once in each round; the main  *)
(* thread, which closes the camera when the user leaves the app and ends   *)
(* the background thread; and the background thread, which receives the    *)
(* answers of the camera.  A semaphore with one permit is held from the    *)
(* request to open until the answer, and while the camera is closed.       *)
(*                                                                         *)
(* A picture is complete when its file name, its result and its image have *)
(* come, in an order the camera chooses; a thread of a pool then saves it. *)
(* The readers that hold the images count the savers that use them.        *)
(*                                                                         *)
(* What is done under mCameraStateLock is one step.  The Timer itself, its *)
(* count and its end are in CountTimerTest.                                *)
(***************************************************************************)
EXTENDS Integers, FiniteSets, FiniteSetsExt

CONSTANTS MaxRounds,   \* bound on the calls of testOnce()
          MaxLeaves,   \* bound on the times the user leaves the app
          MaxErrors    \* bound on the failures of a camera that is open

ASSUME CameraAssumption ==
  MaxRounds \in Nat /\ MaxLeaves \in Nat /\ MaxErrors \in Nat

VARIABLES timer,                 \* the Timer thread: its next step in testOnce
          rounds,                \* the rounds that have begun
          ui,                    \* the main thread: its next step in onPause
          leaves, errors,
          permits,               \* of mCameraOpenCloseLock
          mState, mCameraDevice, \* mCameraDevice is not null
          mCaptureSession, mPendingUserCaptures,
          device,                \* the camera as the system sees it
          reach,                 \* its answers reach a thread that lives
          refusals,              \* requests it has refused and still answers
          mJpegImageReader,      \* the number of the reader, 0 for null
          refs,                  \* the mRefCount of each reader, -1 if closed
          mRequestCounter,
          mJpegResultQueue,      \* the requests that have a builder
          builder,               \* what the builder of a request has got
          flying,                \* what the camera owes to each request
          source,                \* the reader that gets its image
          savers,                \* the ImageSavers that have not finished
          heard,                 \* the result or the image that the background
                                 \* thread waits with for mCameraStateLock, and
                                 \* the reader it has read for the image
          crashed,               \* an exception nobody catches
          marked,                \* history: this round is a failure
          trouble,               \* history: the camera refused something in
                                 \* this round, was closed before the result
                                 \* got the lock, or the user left
          stills,                \* history: the pictures asked for in this round
          crossed,               \* history: the user has left in the instant in
                                 \* which a round began, or one began as he left
          twice,                 \* history: a refused request was answered too
          stray                  \* history: a capture failed whose image may come

threads  == <<timer, rounds, ui, leaves>>
camera   == <<device, reach, refusals, errors>>
state    == <<mState, mCameraDevice, mCaptureSession, mPendingUserCaptures>>
readers  == <<mJpegImageReader, refs>>
pictures == <<mRequestCounter, mJpegResultQueue, builder, flying,
              source, savers, heard>>
history  == <<marked, trouble, stills, crossed, twice, stray>>
vars     == <<threads, camera, permits, state, readers, pictures, history, crashed>>

Readers  == 1 .. MaxRounds
Requests == 1 .. MaxRounds + 1
Callbacks == {"started", "result", "image"}
Builders == [file : BOOLEAN, result : BOOLEAN, image : 0 .. MaxRounds + 1,
             reader : 0 .. MaxRounds]
Heard    == [what : {"result", "image"}, request : Requests, reader : 0 .. MaxRounds]
Nothing  == [what |-> "none", request |-> 0, reader |-> 0]

TypeOK ==
  /\ timer \in {"idle", "setup", "acquire", "open", "take", "close", "closing"}
  /\ rounds \in 0 .. MaxRounds
  /\ ui \in {"resumed", "leaving", "closing", "quitting", "paused"}
  /\ leaves \in 0 .. MaxLeaves /\ errors \in 0 .. MaxErrors
  /\ permits \in Nat
  /\ mState \in {"CLOSED", "OPENED", "PREVIEW", "WAITING"}
  /\ mCameraDevice \in BOOLEAN
  /\ mCaptureSession \in {"null", "configuring", "ready"}
  /\ mPendingUserCaptures \in Nat
  /\ device \in {"closed", "opening", "open"} /\ reach \in BOOLEAN
  /\ refusals \in Nat
  /\ mJpegImageReader \in 0 .. MaxRounds
  /\ refs \in [Readers -> Nat \cup {-1}]
  /\ mRequestCounter \in 0 .. MaxRounds + 1
  /\ mJpegResultQueue \subseteq Requests
  /\ builder \in [Requests -> Builders]
  /\ flying \in [Requests -> SUBSET Callbacks]
  /\ source \in [Requests -> 0 .. MaxRounds]
  /\ savers \subseteq [image : Requests, reader : Readers]
  /\ heard \in {Nothing} \cup Heard
  /\ crashed \in BOOLEAN
  /\ marked \in BOOLEAN /\ trouble \in BOOLEAN /\ stills \in Nat
  /\ crossed \in BOOLEAN /\ twice \in BOOLEAN /\ stray \in BOOLEAN

-------------------------------------------------------------------------------
(* The Timer thread: testOnce().                                           *)

\* The next step of the Timer thread and of the main thread, while the process
\* lives.
At(step)    == timer = step /\ ~crashed
Shows(step) == ui = step /\ ~crashed

\* testOnce() does nothing when there is no background thread.
Begins ==
  /\ At("idle") /\ rounds < MaxRounds
  /\ ui # "paused"
  /\ crossed' = (crossed \/ ui # "resumed")
  /\ timer' = "setup" /\ rounds' = rounds + 1
  /\ marked' = FALSE /\ trouble' = (ui # "resumed") /\ stills' = 0
  /\ UNCHANGED <<ui, leaves, camera, permits, state, readers, pictures, crashed,
                 twice, stray>>

\* getAndRetain() and close() of the counted reader, each with a variant.
LooksOnly(n) == refs[n]
Retained(n)  == refs[n] + 1
Released(n)  == IF refs[n] >= 0 THEN refs[n] - 1 ELSE -1

\* A new reader, unless the last one is there and not closed.  Without a
\* background thread its listener has no looper and the call throws, where
\* nobody catches it.
SetUpCameraOutputs ==
  /\ At("setup")
  /\ timer' = "acquire"
  /\ IF mJpegImageReader # 0 /\ refs[mJpegImageReader] >= 0
     THEN /\ refs' = [refs EXCEPT ![mJpegImageReader] =
                                     Retained(mJpegImageReader)]
          /\ UNCHANGED mJpegImageReader
     ELSE /\ mJpegImageReader' = rounds
          /\ refs' = [refs EXCEPT ![rounds] = 0]
  /\ crashed' = (ui = "paused")
  /\ UNCHANGED <<rounds, ui, leaves, camera, permits, state, pictures, history>>

\* release() of the semaphore, and a variant that forgets it.
KeepPermit == UNCHANGED permits
Release    == permits' = permits + 1

\* tryAcquire() waits 2.5 seconds.  When they have passed openCamera releases
\* a permit it has not got.
TryAcquire ==
  /\ At("acquire")
  /\ \/ /\ permits > 0
        /\ permits' = permits - 1
        /\ timer' = "open"
        /\ UNCHANGED marked
     \/ /\ permits = 0
        /\ Release
        /\ timer' = "take"
        /\ marked' = TRUE
  /\ UNCHANGED <<rounds, ui, leaves, camera, state, readers, pictures, trouble,
                 stills, crossed, twice, stray, crashed>>

\* The request to open, which the system takes or refuses at once.  A refusal is
\* an exception, and may be an answer as well (onError, onDisconnected), which
\* needs a handler.
OpenCamera ==
  /\ At("open")
  /\ timer' = "take"
  /\ \/ /\ device = "closed" /\ ui # "paused"
        /\ device' = "opening"
        /\ reach' = (ui # "quitting")
        /\ UNCHANGED <<refusals, permits, marked, trouble>>
     \/ /\ Release
        /\ marked' = TRUE /\ trouble' = TRUE
        /\ \/ UNCHANGED refusals
           \/ ui \notin {"quitting", "paused"} /\ refusals' = refusals + 1
        /\ UNCHANGED <<device, reach>>
  /\ UNCHANGED <<rounds, ui, leaves, errors, state, readers, pictures, stills,
                 crossed, twice, stray, crashed>>

\* The picture is asked for a third of the period later, whether or not the
\* preview is there.  The camera may refuse the trigger of the focus.
TakePicture ==
  /\ At("take")
  /\ timer' = "close"
  /\ mPendingUserCaptures' = mPendingUserCaptures + 1
  /\ IF mState = "PREVIEW"
     THEN /\ mState' = "WAITING"
          /\ \/ UNCHANGED <<marked, trouble>>
             \/ marked' = TRUE /\ trouble' = TRUE
     ELSE UNCHANGED <<mState, marked, trouble>>
  /\ UNCHANGED <<rounds, ui, leaves, camera, permits, mCameraDevice,
                 mCaptureSession, readers, pictures, stills, crossed, twice, stray,
                 crashed>>

\* closeCamera(), on either thread: it waits for the permit, and variants that
\* take it without waiting, or not at all.
Reduces == permits' = permits - 1
Barges  == UNCHANGED permits
Acquire == permits > 0 /\ permits' = permits - 1

\* The captures that closeCamera still owes, and a variant that keeps them.
StillOwed == mPendingUserCaptures
Dropped   == 0

\* The captures of a camera that is closed are never answered.
CloseDevice ==
  /\ device' = "closed"
  /\ flying' = [r \in Requests |-> {}]

CloseCamera ==
  /\ mPendingUserCaptures' = Dropped
  /\ mState' = "CLOSED"
  /\ mCaptureSession' = IF mCaptureSession = "ready" \/ mCameraDevice
                        THEN "null" ELSE mCaptureSession
  /\ IF mCameraDevice THEN CloseDevice ELSE UNCHANGED <<device, flying>>
  /\ mCameraDevice' = FALSE
  /\ refs' = IF mJpegImageReader = 0 THEN refs
             ELSE [refs EXCEPT ![mJpegImageReader] = Released(mJpegImageReader)]
  /\ mJpegImageReader' = 0
  /\ Release

RoundAcquires ==
  /\ At("close")
  /\ timer' = "closing"
  /\ Acquire
  /\ UNCHANGED <<rounds, ui, leaves, camera, state, readers, pictures, history,
                 crashed>>

RoundCloses ==
  /\ At("closing")
  /\ timer' = "idle"
  /\ CloseCamera
  /\ UNCHANGED <<rounds, ui, leaves, reach, refusals, errors, mRequestCounter,
                 mJpegResultQueue, builder, source, savers, heard, history, crashed>>

-------------------------------------------------------------------------------
(* The main thread: onPause() and onResume().                              *)

Leaves ==
  /\ Shows("resumed") /\ leaves < MaxLeaves
  /\ crossed' = (crossed \/ timer \in {"setup", "acquire"})
  /\ ui' = "leaving" /\ leaves' = leaves + 1
  /\ trouble' = TRUE
  /\ UNCHANGED <<timer, rounds, camera, permits, state, readers, pictures,
                 marked, stills, twice, stray, crashed>>

LeavingAcquires ==
  /\ Shows("leaving")
  /\ ui' = "closing"
  /\ Acquire
  /\ UNCHANGED <<timer, rounds, leaves, camera, state, readers, pictures,
                 history, crashed>>

LeavingCloses ==
  /\ Shows("closing")
  /\ ui' = "quitting"
  /\ CloseCamera
  /\ UNCHANGED <<timer, rounds, leaves, reach, refusals, errors, mRequestCounter,
                 mJpegResultQueue, builder, source, savers, heard, history, crashed>>

\* stopBackgroundThread(): the main thread waits for what the background thread
\* is at and for the answers that are posted; what the camera says from here on
\* is lost.
ThreadEnds ==
  /\ Shows("quitting") /\ heard = Nothing /\ refusals = 0
  /\ ui' = "paused"
  /\ reach' = FALSE
  /\ UNCHANGED <<timer, rounds, leaves, device, refusals, errors, permits, state,
                 readers, pictures, history, crashed>>

Returns ==
  /\ Shows("paused")
  /\ ui' = "resumed"
  /\ UNCHANGED <<timer, rounds, leaves, camera, permits, state, readers,
                 pictures, history, crashed>>

-------------------------------------------------------------------------------
(* The background thread: the answers of the camera.                       *)

Listens == reach /\ heard = Nothing /\ ~crashed

Answers(from, to) == Listens /\ device = from /\ device' = to

\* onOpened.  The preview is configured if the view has a surface, which takes
\* the surface of the reader too.
Opened ==
  /\ Answers("opening", "open")
  /\ mState' = "OPENED" /\ mCameraDevice' = TRUE
  /\ Release
  /\ \/ mCaptureSession' = "configuring" /\ mJpegImageReader # 0
        /\ UNCHANGED <<marked, trouble>>
     \/ UNCHANGED <<mCaptureSession, marked, trouble>>
     \/ marked' = TRUE /\ trouble' = (trouble \/ mJpegImageReader # 0)
        /\ UNCHANGED mCaptureSession
  /\ UNCHANGED <<threads, reach, refusals, errors, mPendingUserCaptures, readers,
                 pictures, stills, crossed, twice, stray, crashed>>

\* onError and onDisconnected, of which the first marks a failure.
GivesUp ==
  /\ mState' = "CLOSED" /\ mCameraDevice' = FALSE
  /\ Release
  /\ mCaptureSession' = IF mCaptureSession = "ready" THEN "ready" ELSE "null"
  /\ trouble' = TRUE
  /\ marked' \in {marked, TRUE}
  /\ UNCHANGED <<threads, reach, mPendingUserCaptures, readers, mRequestCounter,
                 mJpegResultQueue, builder, source, savers, heard, stills, crossed,
                 stray, crashed>>

OpenFails ==
  /\ Answers("opening", "closed") /\ GivesUp
  /\ flying' = [r \in Requests |-> {}]
  /\ UNCHANGED <<refusals, errors, twice>>

DeviceFails ==
  /\ Answers("open", "closed") /\ GivesUp
  /\ flying' = [r \in Requests |-> {}]
  /\ errors < MaxErrors /\ errors' = errors + 1
  /\ UNCHANGED <<refusals, twice>>

\* The answer to a request that was refused with an exception before, in any
\* order with the others: it has nothing to do with a camera that is open.
RefusalComes ==
  /\ refusals > 0 /\ heard = Nothing /\ ~crashed
  /\ refusals' = refusals - 1
  /\ GivesUp
  /\ twice' = TRUE
  /\ UNCHANGED <<device, flying, errors>>

\* The answer to an open whose background thread has ended.
AnswerLost ==
  /\ ~reach /\ device = "opening" /\ ~crashed
  /\ device' \in {"open", "closed"}
  /\ UNCHANGED <<threads, reach, refusals, errors, permits, state, readers, pictures,
                 history, crashed>>

\* onConfigured, where setRepeatingRequest may throw, and onConfigureFailed.
Configured ==
  /\ Listens /\ mCaptureSession = "configuring"
  /\ \/ mCaptureSession' = "ready" /\ mState' = "PREVIEW"
        /\ UNCHANGED <<marked, trouble>>
     \/ mCaptureSession' = "null"
        /\ marked' \in {marked, TRUE} /\ trouble' = TRUE
        /\ UNCHANGED mState
  /\ UNCHANGED <<threads, camera, permits, mCameraDevice, mPendingUserCaptures,
                 readers, pictures, stills, crossed, twice, stray, crashed>>

\* captureStillPictureLocked for each of these requests: a builder joins the
\* queue before the camera takes the request, which may refuse either.
CaptureStill(asked) ==
  \E joined \in SUBSET asked : \E taken \in SUBSET joined :
    /\ mJpegResultQueue' = mJpegResultQueue \cup joined
    /\ builder' = [r \in Requests |->
         IF r \in joined THEN [file |-> FALSE, result |-> FALSE, image |-> 0,
                               reader |-> 0]
         ELSE builder[r]]
    /\ source' = [r \in Requests |->
                   IF r \in taken THEN mJpegImageReader ELSE source[r]]
    /\ flying' = [r \in Requests |->
                   IF r \in taken THEN Callbacks ELSE flying[r]]
    /\ marked'  = (marked \/ taken # asked)
    /\ trouble' = (trouble \/ taken # asked)

\* A result of the preview that finds the focus and the exposure ready, or the
\* second that they may take passed.
Process ==
  /\ Listens /\ device = "open" /\ mCaptureSession = "ready"
  /\ mState = "WAITING" /\ mPendingUserCaptures > 0
  /\ mRequestCounter + mPendingUserCaptures <= MaxRounds + 1
  /\ CaptureStill(mRequestCounter + 1 .. mRequestCounter + mPendingUserCaptures)
  /\ mRequestCounter' = mRequestCounter + mPendingUserCaptures
  /\ stills' = stills + mPendingUserCaptures
  /\ mPendingUserCaptures' = 0
  /\ mState' = "PREVIEW"
  /\ UNCHANGED <<threads, camera, permits, mCameraDevice, mCaptureSession,
                 readers, savers, heard, crossed, twice, stray, crashed>>

\* What the camera owes a request, whose capture starts before anything comes.
Delivers(r, what) ==
  /\ Listens /\ what \in flying[r]
  /\ what = "started" \/ "started" \notin flying[r]
  /\ flying' = [flying EXCEPT ![r] = @ \ {what}]

\* buildIfComplete().
IsComplete(b) == b.file /\ b.result /\ b.image # 0

\* handleCompletionLocked() after builder r has become b.
HandleCompletion(r, b) ==
  /\ builder' = [builder EXCEPT ![r] = b]
  /\ IF IsComplete(b)
     THEN /\ mJpegResultQueue' = mJpegResultQueue \ {r}
          /\ savers' = savers \cup {[image |-> b.image, reader |-> b.reader]}
     ELSE UNCHANGED <<mJpegResultQueue, savers>>

CaptureStarted(r) ==
  /\ Delivers(r, "started")
  /\ builder' = IF r \in mJpegResultQueue
                THEN [builder EXCEPT ![r].file = TRUE] ELSE builder
  /\ UNCHANGED <<threads, camera, permits, state, readers, mRequestCounter,
                 mJpegResultQueue, source, savers, heard, history, crashed>>

\* The two answers that the background thread may wait with for the lock while
\* the camera is closed.
WaitsWith(what, r, reader) ==
  /\ Delivers(r, what)
  /\ heard' = [what |-> what, request |-> r, reader |-> reader]
  /\ UNCHANGED <<threads, camera, permits, state, readers, mRequestCounter,
                 mJpegResultQueue, builder, source, savers, history, crashed>>

ResultAvailable(r) == WaitsWith("result", r, 0)

\* onImageAvailable reads the reader of the moment, which may be another one
\* when dequeueAndSaveImage has the lock.
ImageAvailable(r) == /\ WaitsWith("image", r, mJpegImageReader)
                     /\ refs[source[r]] >= 0

\* The camera may refuse the release of the focus that follows, and is not
\* there for it (mCaptureSession is null) when it has been closed meanwhile.
CaptureCompleted ==
  /\ heard.what = "result" /\ ~crashed
  /\ heard' = Nothing
  /\ LET r == heard.request
     IN  IF r \in mJpegResultQueue
         THEN HandleCompletion(r, [builder[r] EXCEPT !.result = TRUE])
         ELSE UNCHANGED <<builder, mJpegResultQueue, savers>>
  /\ \/ UNCHANGED <<marked, trouble>>
     \/ marked' = TRUE /\ trouble' = TRUE
  /\ UNCHANGED <<threads, camera, permits, state, readers, mRequestCounter, flying,
                 source, stills, crossed, twice, stray, crashed>>

\* A capture fails instead of having a result.  Its image may have come, or may
\* still come (CaptureFailure.wasImageCaptured).
CaptureFailed(r) ==
  /\ Listens /\ "result" \in flying[r]
  /\ \E owed \in SUBSET ({"image"} \cap flying[r]) :
       /\ flying' = [flying EXCEPT ![r] = owed]
       /\ stray' = (stray \/ owed # {})
  /\ mJpegResultQueue' = mJpegResultQueue \ {r}
  /\ marked' = TRUE /\ trouble' = TRUE
  /\ UNCHANGED <<threads, camera, permits, state, readers, mRequestCounter,
                 builder, source, savers, heard, stills, crossed, twice, crashed>>

\* The next image of the reader goes to the first request, and the reader is
\* retained.  Without an entry, and without an image in the reader, a null
\* pointer is thrown.
DequeueAndSaveImage ==
  /\ heard.what = "image" /\ ~crashed
  /\ heard' = Nothing
  /\ LET r == heard.request
         m == heard.reader
         first == Min(mJpegResultQueue)
         canRetain == mJpegResultQueue # {} /\ m # 0 /\ refs[m] >= 0
     IN  \/ /\ canRetain
            /\ refs' = [refs EXCEPT ![m] = Retained(m)]
            /\ HandleCompletion(first, [builder[first] EXCEPT
                                          !.image = r, !.reader = m])
            /\ crashed' = (m # source[r])
         \/ /\ ~canRetain
            /\ mJpegResultQueue' = {n \in mJpegResultQueue : n # first}
            /\ crashed' = (mJpegResultQueue = {})
            /\ UNCHANGED <<refs, builder, savers>>
  /\ UNCHANGED <<threads, camera, permits, state, mJpegImageReader,
                 mRequestCounter, flying, source, history>>

-------------------------------------------------------------------------------
(* The threads of the pool: ImageSaver.run().                              *)

Saves ==
  /\ ~crashed
  /\ \E s \in savers :
       /\ savers' = savers \ {s}
       /\ refs' = [refs EXCEPT ![s.reader] = Released(s.reader)]
  /\ UNCHANGED <<threads, camera, permits, state, mJpegImageReader,
                 mRequestCounter, mJpegResultQueue, builder, flying, source,
                 heard, history, crashed>>

-------------------------------------------------------------------------------
Init ==
  /\ timer = "idle" /\ rounds = 0
  /\ ui = "resumed" /\ leaves = 0 /\ errors = 0
  /\ permits = 1
  /\ mState = "CLOSED" /\ mCameraDevice = FALSE
  /\ mCaptureSession = "null" /\ mPendingUserCaptures = 0
  /\ device = "closed" /\ reach = FALSE /\ refusals = 0
  /\ mJpegImageReader = 0 /\ refs = [n \in Readers |-> -1]
  /\ mRequestCounter = 0 /\ mJpegResultQueue = {}
  /\ builder = [r \in Requests |-> [file |-> FALSE, result |-> FALSE,
                                    image |-> 0, reader |-> 0]]
  /\ flying = [r \in Requests |-> {}]
  /\ source = [r \in Requests |-> 0]
  /\ savers = {} /\ heard = Nothing
  /\ crashed = FALSE
  /\ marked = FALSE /\ trouble = FALSE /\ stills = 0
  /\ crossed = FALSE /\ twice = FALSE /\ stray = FALSE

TestOnce == \/ SetUpCameraOutputs \/ TryAcquire \/ OpenCamera \/ TakePicture
            \/ RoundAcquires \/ RoundCloses
OnPause  == LeavingAcquires \/ LeavingCloses \/ ThreadEnds
Opening  == Opened \/ OpenFails \/ AnswerLost
Capture(r) == \/ CaptureStarted(r) \/ ResultAvailable(r) \/ ImageAvailable(r)
              \/ CaptureFailed(r)
Locked   == CaptureCompleted \/ DequeueAndSaveImage

Next == \/ Begins \/ TestOnce
        \/ Leaves \/ OnPause \/ Returns
        \/ Opening \/ RefusalComes \/ DeviceFails \/ Configured \/ Process
        \/ \E r \in Requests : Capture(r)
        \/ Locked \/ Saves

Spec == Init /\ [][Next]_vars

\* The threads run and the system answers a request to open.  Nothing is asked
\* of the user, nor of a capture.
Fairness ==
  /\ WF_vars(TestOnce) /\ WF_vars(OnPause) /\ WF_vars(Opening)
  /\ WF_vars(RefusalComes) /\ WF_vars(Locked) /\ WF_vars(Saves)

FairSpec == Spec /\ Fairness

-------------------------------------------------------------------------------
(* What the camera test promises.                                          *)

\* The reference count prevents a reader "from being closed while we are saving
\* its Images in a background thread", whenever the camera is closed meanwhile
\* (dequeueAndSaveImage, closeCamera, ImageSaver.run).
OpenWhileSaving == \A s \in savers : refs[s.reader] >= 0

\* A round asks for one picture at most: what an earlier round could not take is
\* not made up for (takePicture, process, closeCamera).
OnePicture == stills <= 1

\* What the promises about the semaphore need: no user who leaves in the instant
\* in which a round begins, and none of the answers in which onError and
\* onDisconnected release a permit that nobody holds, from a camera that is open
\* or after a refusal that openCamera has caught.
Orderly == ~crossed /\ errors = 0 /\ ~twice

\* When the user has left, no camera is open or being opened, whatever the round
\* was doing (openCamera, onOpened, closeCamera in onPause).
ClosedWhenPaused == ui = "paused" /\ Orderly => device = "closed"

\* No exception ends the process: an image always finds a request in the queue
\* and is in the reader of the moment, and a new reader has a thread that hears
\* of its images (dequeueAndSaveImage, onCaptureFailed, setUpCameraOutputs).
\* Three things do end it: the image of a capture that has failed, for
\* onCaptureFailed takes its request away; a second answer to a refused request,
\* which makes the code forget a camera that is open; and a round without a thread.
NeverCrashes == crashed => stray \/ twice \/ crossed

\* Both: an image is saved from a reader that is there.
SavesSafely == OpenWhileSaving /\ NeverCrashes

\* A round is only a failure when the camera has refused something or was closed
\* before the result of its picture got the lock, or the user has left during the
\* round: the 2.5 seconds for the permit never pass, and the preview never misses
\* its reader (the catch clauses of openCamera and of the configuration).
NoFalseFailure == marked /\ Orderly => trouble

\* Both: a round is one picture, or a failure with a reason.
OneTruePicture == OnePicture /\ NoFalseFailure

\* While a thread waits for the permit there is one, or someone who has it and will
\* release it: the thread that opens or closes, or the camera whose answer is heard.
PermitComesBack ==
  ~crossed => \/ permits > 0
              \/ timer \in {"open", "closing"} \/ ui = "closing"
              \/ device = "opening" /\ reach

\* Both: the user who leaves gets the permit and leaves no camera open.
CanLeave == ClosedWhenPaused /\ PermitComesBack

\* Each round ends, and leaving the app does: nobody waits for the permit for
\* ever, unless an answer went to the thread that onPause was ending
\* (openCamera, closeCamera, and the three answers to an open).
RoundsEnd == /\ timer # "idle" ~> timer = "idle" \/ crashed \/ crossed
             /\ ui = "leaving" ~> ui = "paused" \/ crashed \/ crossed
===============================================================================
