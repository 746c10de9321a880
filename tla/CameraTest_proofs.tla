---------------------------- MODULE CameraTest_proofs ----------------------------
(***************************************************************************)
(* Proofs about CameraTest: its types, that the readers stay open while    *)
(* images are saved, what a round may ask for and report, that the permit  *)
(* of the camera comes back and nothing stays open behind a user, for any  *)
(* number of rounds, of users who leave and of failures.                   *)
(***************************************************************************)
EXTENDS CameraTest, FiniteSetTheorems, TLAPS

\* An image that has found its builder has a reader.
TypeInv ==
  /\ TypeOK
  /\ \A r \in Requests : builder[r].image # 0 => builder[r].reader # 0

\* A round has a number.
LEMMA Sizes == MaxRounds \in Nat /\ Readers \subseteq Nat /\ Requests \subseteq Nat
  BY CameraAssumption DEF Readers, Requests

\* The first request in the queue is one of them.
LEMMA FirstWaits == ASSUME NEW S, S \subseteq Nat, S # {} PROVE Min(S) \in S
  <1>1. PICK x \in S : \A y \in S : ~(<<y, x>> \in OpToRel(<, Nat))
    BY NatLessThanWellFounded, WFMin
  <1>2. \A y \in S : ~(y < x)
    BY <1>1 DEF OpToRel
  <1>3. \A y \in S : x <= y
    BY <1>2
  <1>4. QED
    BY <1>3 DEF Min

\* The reader keeps a count that is no less than -1.
LEMMA CountTyped ==
  ASSUME refs \in [Readers -> Nat \cup {-1}], NEW n \in Readers
  PROVE  /\ Released(n) \in Nat \cup {-1}
         /\ Retained(n) \in Nat
  BY DEF Released, Retained

\* closeCamera() keeps the types.
LEMMA CloseTyped ==
  ASSUME TypeInv, CloseCamera
  PROVE  /\ permits' \in Nat /\ mPendingUserCaptures' \in Nat
         /\ mState' \in {"CLOSED", "OPENED", "PREVIEW", "WAITING"}
         /\ mCameraDevice' \in BOOLEAN
         /\ mCaptureSession' \in {"null", "configuring", "ready"}
         /\ device' \in {"closed", "opening", "open"}
         /\ mJpegImageReader' \in 0 .. MaxRounds
         /\ refs' \in [Readers -> Nat \cup {-1}]
         /\ flying' \in [Requests -> SUBSET Callbacks]
  <1>1. permits' \in Nat /\ mPendingUserCaptures' \in Nat
    BY DEF TypeInv, TypeOK, CloseCamera, Release, Dropped
  <1>2. /\ mState' \in {"CLOSED", "OPENED", "PREVIEW", "WAITING"}
        /\ mCameraDevice' \in BOOLEAN
        /\ mCaptureSession' \in {"null", "configuring", "ready"}
    BY DEF TypeInv, TypeOK, CloseCamera
  <1>3. /\ device' \in {"closed", "opening", "open"}
        /\ flying' \in [Requests -> SUBSET Callbacks]
    <2>1. CASE mCameraDevice
      BY <2>1 DEF CloseCamera, CloseDevice
    <2>2. CASE ~mCameraDevice
      BY <2>2 DEF CloseCamera, TypeInv, TypeOK
    <2>3. QED
      BY <2>1, <2>2
  <1>4. mJpegImageReader' \in 0 .. MaxRounds
    BY Sizes DEF CloseCamera
  <1>5. refs' \in [Readers -> Nat \cup {-1}]
    <2>1. CASE mJpegImageReader = 0
      BY <2>1 DEF CloseCamera, TypeInv, TypeOK
    <2>2. CASE mJpegImageReader # 0
      <3>1. mJpegImageReader \in Readers
        BY <2>2, Sizes DEF TypeInv, TypeOK, Readers
      <3>2. QED
        BY <2>2, <3>1, CountTyped DEF CloseCamera, TypeInv, TypeOK
    <2>3. QED
      BY <2>1, <2>2
  <1>6. QED
    BY <1>1, <1>2, <1>3, <1>4, <1>5

\* A builder that has got its result or its image is complete, or waits for the rest.
LEMMA CompletionTyped ==
  ASSUME TypeInv, NEW r, NEW b \in Builders, HandleCompletion(r, b),
         b.image # 0 => b.reader # 0
  PROVE  /\ builder' \in [Requests -> Builders]
         /\ mJpegResultQueue' \subseteq Requests
         /\ savers' \subseteq [image : Requests, reader : Readers]
         /\ \A q \in Requests : builder'[q].image # 0 => builder'[q].reader # 0
  <1>1. /\ builder' \in [Requests -> Builders]
        /\ \A q \in Requests : builder'[q].image # 0 => builder'[q].reader # 0
    BY DEF TypeInv, TypeOK, HandleCompletion
  <1>2. CASE IsComplete(b)
    <2>1. b.image \in Requests /\ b.reader \in Readers
      BY <1>2, Sizes DEF Builders, IsComplete, Requests, Readers
    <2>2. QED
      BY <1>1, <1>2, <2>1 DEF TypeInv, TypeOK, HandleCompletion
  <1>3. CASE ~IsComplete(b)
    BY <1>1, <1>3 DEF TypeInv, TypeOK, HandleCompletion
  <1>4. QED
    BY <1>2, <1>3

LEMMA TypeStep == TypeInv /\ [Next]_vars => TypeInv'
  <1> SUFFICES ASSUME TypeInv, [Next]_vars PROVE TypeInv'
    OBVIOUS
  <1> USE CameraAssumption DEF threads, camera, state, readers, pictures, history
  <1>1. CASE UNCHANGED vars
    BY <1>1 DEF vars, TypeInv, TypeOK
  <1>2. CASE Begins
    <2>1. rounds' \in 0 .. MaxRounds
      BY <1>2 DEF Begins, TypeInv, TypeOK
    <2>2. marked' \in BOOLEAN /\ trouble' \in BOOLEAN /\ crossed' \in BOOLEAN
      BY <1>2 DEF Begins
    <2>3. QED
      BY <1>2, <2>1, <2>2 DEF Begins, TypeInv, TypeOK
  <1>3. CASE SetUpCameraOutputs
    <2>1. mJpegImageReader' \in 0 .. MaxRounds /\ refs' \in [Readers -> Nat \cup {-1}]
      <3>1. CASE mJpegImageReader # 0 /\ refs[mJpegImageReader] >= 0
        <4>1. mJpegImageReader \in Readers
          BY <3>1 DEF TypeInv, TypeOK, Readers
        <4>2. QED
          BY <1>3, <3>1, <4>1, CountTyped DEF SetUpCameraOutputs, TypeInv, TypeOK
      <3>2. CASE ~(mJpegImageReader # 0 /\ refs[mJpegImageReader] >= 0)
        BY <1>3, <3>2 DEF SetUpCameraOutputs, TypeInv, TypeOK
      <3>3. QED
        BY <3>1, <3>2
    <2>2. QED
      BY <1>3, <2>1 DEF SetUpCameraOutputs, TypeInv, TypeOK
  <1>4. CASE TryAcquire
    <2>1. permits' \in Nat
      BY <1>4 DEF TryAcquire, Release, TypeInv, TypeOK
    <2>2. marked' \in BOOLEAN
      BY <1>4 DEF TryAcquire, TypeInv, TypeOK
    <2>3. timer' \in {"open", "take"}
      BY <1>4 DEF TryAcquire
    <2>4. QED
      BY <1>4, <2>1, <2>2, <2>3 DEF TryAcquire, TypeInv, TypeOK
  <1>5. CASE OpenCamera
    <2>1. permits' \in Nat
      BY <1>5 DEF OpenCamera, Release, TypeInv, TypeOK
    <2>2. device' \in {"closed", "opening", "open"} /\ timer' = "take"
      BY <1>5 DEF OpenCamera, TypeInv, TypeOK
    <2>3. reach' \in BOOLEAN /\ marked' \in BOOLEAN /\ trouble' \in BOOLEAN
      BY <1>5 DEF OpenCamera, TypeInv, TypeOK
    <2>4. refusals' \in Nat
      BY <1>5 DEF OpenCamera, TypeInv, TypeOK
    <2>5. QED
      BY <1>5, <2>1, <2>2, <2>3, <2>4 DEF OpenCamera, TypeInv, TypeOK
  <1>6. CASE TakePicture
    <2>1. mPendingUserCaptures' \in Nat
      BY <1>6 DEF TakePicture, TypeInv, TypeOK
    <2>2. marked' \in BOOLEAN /\ trouble' \in BOOLEAN
      BY <1>6 DEF TakePicture, TypeInv, TypeOK
    <2>3. mState' \in {mState, "WAITING"}
      BY <1>6 DEF TakePicture
    <2>4. QED
      BY <1>6, <2>1, <2>2, <2>3 DEF TakePicture, TypeInv, TypeOK
  <1>7. CASE RoundAcquires
    BY <1>7 DEF RoundAcquires, Acquire, TypeInv, TypeOK
  <1>8. CASE RoundCloses
    BY <1>8, CloseTyped DEF RoundCloses, TypeInv, TypeOK
  <1>9. CASE Leaves
    BY <1>9 DEF Leaves, TypeInv, TypeOK
  <1>10. CASE LeavingAcquires
    BY <1>10 DEF LeavingAcquires, Acquire, TypeInv, TypeOK
  <1>11. CASE LeavingCloses
    BY <1>11, CloseTyped DEF LeavingCloses, TypeInv, TypeOK
  <1>12. CASE ThreadEnds \/ Returns
    <2>1. ui' \in {"paused", "resumed"}
      BY <1>12 DEF ThreadEnds, Returns
    <2>2. reach' \in BOOLEAN
      BY <1>12 DEF ThreadEnds, Returns, TypeInv, TypeOK
    <2>3. UNCHANGED <<timer, rounds, leaves, device, refusals, errors, permits, state,
                      readers, pictures, history, crashed>>
      BY <1>12 DEF ThreadEnds, Returns
    <2>4. QED
      BY <2>1, <2>2, <2>3 DEF TypeInv, TypeOK
  <1>13. CASE Opened
    <2>1. permits' \in Nat
      BY <1>13 DEF Opened, Release, TypeInv, TypeOK
    <2>2. mCaptureSession' \in {"null", "configuring", "ready"}
      BY <1>13 DEF Opened, TypeInv, TypeOK
    <2>3. marked' \in BOOLEAN /\ trouble' \in BOOLEAN
      BY <1>13 DEF Opened, TypeInv, TypeOK
    <2>4. QED
      BY <1>13, <2>1, <2>2, <2>3 DEF Opened, Answers, TypeInv, TypeOK
  <1>14. CASE OpenFails \/ DeviceFails \/ RefusalComes
    <2>1. GivesUp /\ device' \in {"closed", device}
      BY <1>14 DEF OpenFails, DeviceFails, RefusalComes, Answers
    <2>2. permits' \in Nat
      BY <2>1 DEF GivesUp, Release, TypeInv, TypeOK
    <2>3. /\ refusals' \in Nat /\ errors' \in 0 .. MaxErrors /\ twice' \in BOOLEAN
      <3>1. CASE OpenFails
        BY <3>1 DEF OpenFails, TypeInv, TypeOK
      <3>2. CASE DeviceFails
        BY <3>2 DEF DeviceFails, TypeInv, TypeOK
      <3>3. CASE RefusalComes
        BY <3>3 DEF RefusalComes, TypeInv, TypeOK
      <3>4. QED
        BY <1>14, <3>1, <3>2, <3>3
    <2>4. mCaptureSession' \in {"null", "configuring", "ready"}
      BY <2>1 DEF GivesUp
    <2>5. marked' \in BOOLEAN /\ trouble' \in BOOLEAN
      BY <2>1 DEF GivesUp, TypeInv, TypeOK
    <2>6. flying' \in [Requests -> SUBSET Callbacks]
      BY <1>14 DEF OpenFails, DeviceFails, RefusalComes, TypeInv, TypeOK
    <2>7. device' \in {"closed", "opening", "open"}
      BY <2>1 DEF TypeInv, TypeOK
    <2>8. /\ mState' = "CLOSED" /\ mCameraDevice' = FALSE
          /\ UNCHANGED <<threads, reach, mPendingUserCaptures, readers, mRequestCounter,
                         mJpegResultQueue, builder, source, savers, heard, stills, crossed,
                         stray, crashed>>
      BY <2>1 DEF GivesUp
    <2>9. \A r \in Requests : builder'[r].image # 0 => builder'[r].reader # 0
      BY <2>8 DEF TypeInv
    <2>10. TypeOK'
      BY <2>2, <2>3, <2>4, <2>5, <2>6, <2>7, <2>8, ZenonT(60) DEF TypeInv, TypeOK, threads, readers
    <2>11. QED
      BY <2>9, <2>10 DEF TypeInv
  <1>15. CASE AnswerLost
    BY <1>15 DEF AnswerLost, TypeInv, TypeOK
  <1>16. CASE Configured
    <2>1. /\ mCaptureSession' \in {"null", "ready"}
          /\ mState' \in {mState, "PREVIEW"}
      BY <1>16 DEF Configured
    <2>2. marked' \in BOOLEAN /\ trouble' \in BOOLEAN
      BY <1>16 DEF Configured, TypeInv, TypeOK
    <2>3. QED
      BY <1>16, <2>1, <2>2 DEF Configured, TypeInv, TypeOK
  <1>17. CASE Process
    <2>1. /\ mRequestCounter' \in 0 .. MaxRounds + 1 /\ stills' \in Nat
          /\ mRequestCounter + 1 .. mRequestCounter + mPendingUserCaptures \subseteq Requests
      BY <1>17 DEF Process, TypeInv, TypeOK, Requests
    <2>2. PICK joined \in SUBSET Requests, taken \in SUBSET Requests :
            /\ mJpegResultQueue' = mJpegResultQueue \cup joined
            /\ builder' = [r \in Requests |->
                 IF r \in joined THEN [file |-> FALSE, result |-> FALSE, image |-> 0,
                                       reader |-> 0]
                 ELSE builder[r]]
            /\ source' = [r \in Requests |->
                           IF r \in taken THEN mJpegImageReader ELSE source[r]]
            /\ flying' = [r \in Requests |->
                           IF r \in taken THEN Callbacks ELSE flying[r]]
            /\ marked' \in BOOLEAN /\ trouble' \in BOOLEAN
      BY <1>17, <2>1 DEF Process, CaptureStill, TypeInv, TypeOK
    <2>3. [file |-> FALSE, result |-> FALSE, image |-> 0, reader |-> 0] \in Builders
      BY DEF Builders
    <2>4. /\ builder' \in [Requests -> Builders]
          /\ \A r \in Requests : builder'[r].image # 0 => builder'[r].reader # 0
      BY <2>2, <2>3 DEF TypeInv, TypeOK
    <2>5. source' \in [Requests -> 0 .. MaxRounds] /\ flying' \in [Requests -> SUBSET Callbacks]
      BY <2>2 DEF TypeInv, TypeOK
    <2>6. QED
      BY <1>17, <2>1, <2>2, <2>4, <2>5 DEF Process, TypeInv, TypeOK
  <1>18. ASSUME NEW r \in Requests, CaptureStarted(r) PROVE TypeInv'
    <2>1. /\ builder' \in [Requests -> Builders]
          /\ \A q \in Requests : builder'[q].image # 0 => builder'[q].reader # 0
      BY <1>18, ZenonT(60) DEF CaptureStarted, TypeInv, TypeOK, Builders
    <2>2. flying' \in [Requests -> SUBSET Callbacks]
      BY <1>18 DEF CaptureStarted, Delivers, TypeInv, TypeOK
    <2>3. QED
      BY <1>18, <2>1, <2>2 DEF CaptureStarted, TypeInv, TypeOK
  <1>19. CASE CaptureCompleted
    <2> DEFINE r == heard.request
    <2>0. r \in Requests
      BY <1>19 DEF CaptureCompleted, TypeInv, TypeOK, Heard, Nothing
    <2> HIDE DEF r
    <2>1. /\ builder' \in [Requests -> Builders]
          /\ mJpegResultQueue' \subseteq Requests
          /\ savers' \subseteq [image : Requests, reader : Readers]
          /\ \A q \in Requests : builder'[q].image # 0 => builder'[q].reader # 0
      <3>1. CASE r \in mJpegResultQueue
        <4>1. [builder[r] EXCEPT !.result = TRUE] \in Builders
          BY <2>0, ZenonT(60) DEF TypeInv, TypeOK, Builders
        <4>2. [builder[r] EXCEPT !.result = TRUE].image # 0
                => [builder[r] EXCEPT !.result = TRUE].reader # 0
          BY <2>0 DEF TypeInv, TypeOK, Builders
        <4>3. HandleCompletion(r, [builder[r] EXCEPT !.result = TRUE])
          BY <1>19, <3>1 DEF CaptureCompleted, r
        <4>4. QED
          BY <4>1, <4>2, <4>3, CompletionTyped
      <3>2. CASE r \notin mJpegResultQueue
        BY <1>19, <3>2 DEF CaptureCompleted, TypeInv, TypeOK, r
      <3>3. QED
        BY <3>1, <3>2
    <2>2. marked' \in BOOLEAN /\ trouble' \in BOOLEAN
      BY <1>19 DEF CaptureCompleted, TypeInv, TypeOK
    <2>3. QED
      BY <1>19, <2>1, <2>2 DEF CaptureCompleted, TypeInv, TypeOK
  <1>20. ASSUME NEW r \in Requests, CaptureFailed(r) PROVE TypeInv'
    <2>1. flying' \in [Requests -> SUBSET Callbacks] /\ stray' \in BOOLEAN
      BY <1>20 DEF CaptureFailed, Callbacks, TypeInv, TypeOK
    <2>2. QED
      BY <1>20, <2>1 DEF CaptureFailed, TypeInv, TypeOK
  <1>21. ASSUME NEW r \in Requests, ResultAvailable(r) \/ ImageAvailable(r) PROVE TypeInv'
    <2>1. flying' \in [Requests -> SUBSET Callbacks]
      BY <1>21 DEF ResultAvailable, ImageAvailable, WaitsWith, Delivers, TypeInv, TypeOK
    <2>2. heard' \in Heard
      BY <1>21 DEF ResultAvailable, ImageAvailable, WaitsWith, Heard, TypeInv, TypeOK
    <2>3. QED
      BY <1>21, <2>1, <2>2 DEF ResultAvailable, ImageAvailable, WaitsWith, TypeInv, TypeOK
  <1>22. CASE DequeueAndSaveImage
    <2> DEFINE r == heard.request
               m == heard.reader
               first == Min(mJpegResultQueue)
    <2>1. r \in Requests /\ m \in 0 .. MaxRounds
      BY <1>22 DEF DequeueAndSaveImage, TypeInv, TypeOK, Heard, Nothing
    <2>2. /\ heard' = Nothing
          /\ UNCHANGED <<threads, camera, permits, state, mJpegImageReader,
                         mRequestCounter, flying, source, history>>
      BY <1>22 DEF DequeueAndSaveImage
    <2>3. \/ /\ m # 0 /\ refs[m] >= 0 /\ mJpegResultQueue # {}
             /\ refs' = [refs EXCEPT ![m] = Retained(m)]
             /\ HandleCompletion(first, [builder[first] EXCEPT !.image = r, !.reader = m])
             /\ crashed' \in BOOLEAN
          \/ /\ mJpegResultQueue' \subseteq mJpegResultQueue
             /\ crashed' \in BOOLEAN
             /\ UNCHANGED <<refs, builder, savers>>
      BY <1>22 DEF DequeueAndSaveImage
    <2> HIDE DEF r, m, first
    <2>4. CASE /\ m # 0 /\ refs[m] >= 0 /\ mJpegResultQueue # {}
               /\ refs' = [refs EXCEPT ![m] = Retained(m)]
               /\ HandleCompletion(first, [builder[first] EXCEPT !.image = r, !.reader = m])
               /\ crashed' \in BOOLEAN
      <3>1. m \in Readers
        BY <2>1, <2>4 DEF Readers
      <3>2. refs' \in [Readers -> Nat \cup {-1}]
        BY <2>4, <3>1, CountTyped DEF TypeInv, TypeOK
      <3>3. first \in Requests
        BY <2>4, FirstWaits, Sizes DEF first, TypeInv, TypeOK
      <3>4. builder[first] \in Builders /\ r \in 0 .. MaxRounds + 1
        BY <2>1, <3>3, Sizes DEF TypeInv, TypeOK, Requests
      <3>5. /\ [builder[first] EXCEPT !.image = r, !.reader = m] \in Builders
            /\ [builder[first] EXCEPT !.image = r, !.reader = m].reader = m
        BY <2>1, <3>4 DEF Builders
      <3>6. /\ builder' \in [Requests -> Builders]
            /\ mJpegResultQueue' \subseteq Requests
            /\ savers' \subseteq [image : Requests, reader : Readers]
            /\ \A q \in Requests : builder'[q].image # 0 => builder'[q].reader # 0
        BY <2>4, <3>5, CompletionTyped
      <3>7. QED
        BY <2>2, <2>4, <3>2, <3>6 DEF TypeInv, TypeOK
    <2>5. CASE /\ mJpegResultQueue' \subseteq mJpegResultQueue
               /\ crashed' \in BOOLEAN
               /\ UNCHANGED <<refs, builder, savers>>
      BY <2>2, <2>5 DEF TypeInv, TypeOK
    <2>6. QED
      BY <2>3, <2>4, <2>5
  <1>23. CASE Saves
    <2>1. PICK s \in savers : /\ savers' = savers \ {s}
                              /\ refs' = [refs EXCEPT ![s.reader] = Released(s.reader)]
      BY <1>23 DEF Saves
    <2>2. s.reader \in Readers
      BY DEF TypeInv, TypeOK
    <2>3. refs' \in [Readers -> Nat \cup {-1}]
      BY <2>1, <2>2, CountTyped DEF TypeInv, TypeOK
    <2>4. QED
      BY <1>23, <2>1, <2>3 DEF Saves, TypeInv, TypeOK
  <1>24. QED
    BY <1>1, <1>2, <1>3, <1>4, <1>5, <1>6, <1>7, <1>8, <1>9, <1>10, <1>11, <1>12,
       <1>13, <1>14, <1>15, <1>16, <1>17, <1>18, <1>19, <1>20, <1>21, <1>22, <1>23
       DEF Next, TestOnce, OnPause, Opening, Capture, Locked

LEMMA InitTyped == Init => TypeInv
  <1> SUFFICES ASSUME Init PROVE TypeInv
    OBVIOUS
  <1> USE CameraAssumption
  <1>1. /\ rounds \in 0 .. MaxRounds /\ leaves \in 0 .. MaxLeaves /\ errors \in 0 .. MaxErrors
        /\ permits \in Nat /\ mPendingUserCaptures \in Nat /\ stills \in Nat
        /\ mJpegImageReader \in 0 .. MaxRounds /\ mRequestCounter \in 0 .. MaxRounds + 1
    BY DEF Init
  <1>2. /\ refs \in [Readers -> Nat \cup {-1}]
        /\ source \in [Requests -> 0 .. MaxRounds]
    BY DEF Init
  <1>3. [file |-> FALSE, result |-> FALSE, image |-> 0, reader |-> 0] \in Builders
    BY DEF Builders
  <1>4. /\ builder \in [Requests -> Builders] /\ flying \in [Requests -> SUBSET Callbacks]
        /\ \A r \in Requests : builder[r].image # 0 => builder[r].reader # 0
    BY <1>3 DEF Init
  <1>5. /\ reach \in BOOLEAN /\ mCameraDevice \in BOOLEAN /\ crashed \in BOOLEAN
        /\ marked \in BOOLEAN /\ trouble \in BOOLEAN /\ crossed \in BOOLEAN
        /\ twice \in BOOLEAN /\ stray \in BOOLEAN /\ refusals \in Nat
    BY DEF Init
  <1>6. QED
    BY <1>1, <1>2, <1>4, <1>5 DEF Init, TypeInv, TypeOK

\* The variables keep their types: a counter of images is never below -1, and each
\* image that is saved has its reader (the whole of testOnce, onPause and the answers
\* of the camera).
THEOREM TypeCorrect == Spec => []TypeOK
  <1>1. Init => TypeInv
    BY InitTyped
  <1>2. TypeInv => TypeOK
    BY DEF TypeInv
  <1>3. QED
    BY <1>1, <1>2, TypeStep, PTL DEF Spec

-------------------------------------------------------------------------------
\* A round asks for one picture: takePicture() comes once, and what it asks for is
\* either still owed or has been asked of the camera.
PictureInv ==
  /\ timer \in {"idle", "setup", "acquire", "open", "take"} => mPendingUserCaptures = 0
  /\ timer \in {"setup", "acquire", "open", "take"} => stills = 0
  /\ mPendingUserCaptures + stills <= 1

LEMMA PictureStep == TypeInv /\ PictureInv /\ [Next]_vars => PictureInv'
  <1> SUFFICES ASSUME TypeInv, PictureInv, [Next]_vars PROVE PictureInv'
    OBVIOUS
  <1> USE DEF threads, camera, state, readers, pictures, history
  <1>0. mPendingUserCaptures \in Nat /\ stills \in Nat
    BY DEF TypeInv, TypeOK
  <1>1. CASE Begins
    BY <1>0, <1>1 DEF Begins, At, PictureInv
  <1>2. CASE TakePicture
    BY <1>0, <1>2 DEF TakePicture, At, PictureInv
  <1>3. CASE SetUpCameraOutputs \/ TryAcquire \/ OpenCamera \/ RoundAcquires
    BY <1>0, <1>3 DEF SetUpCameraOutputs, TryAcquire, OpenCamera, RoundAcquires, At, PictureInv
  <1>4. CASE RoundCloses \/ LeavingCloses
    <2>1. /\ mPendingUserCaptures' = 0 /\ stills' = stills
          /\ timer' = timer \/ (timer = "closing" /\ timer' = "idle")
      BY <1>4 DEF RoundCloses, LeavingCloses, CloseCamera, Dropped, At
    <2>2. QED
      BY <1>0, <2>1 DEF PictureInv
  <1>5. CASE Process
    <2>1. /\ mPendingUserCaptures > 0 /\ mPendingUserCaptures' = 0
          /\ stills' = stills + mPendingUserCaptures /\ timer' = timer
      BY <1>5 DEF Process
    <2>2. QED
      BY <1>0, <2>1 DEF PictureInv
  <1>6. ASSUME UNCHANGED <<timer, mPendingUserCaptures, stills>> PROVE PictureInv'
    BY <1>6 DEF PictureInv
  <1>7. CASE UNCHANGED vars \/ Leaves \/ LeavingAcquires \/ ThreadEnds \/ Returns
    BY <1>6, <1>7 DEF vars, Leaves, LeavingAcquires, ThreadEnds, Returns
  <1>8. CASE Opened \/ OpenFails \/ DeviceFails \/ RefusalComes \/ AnswerLost \/ Configured
    BY <1>6, <1>8 DEF Opened, OpenFails, DeviceFails, RefusalComes, GivesUp, AnswerLost, Configured
  <1>9. CASE Locked \/ Saves \/ \E r \in Requests : Capture(r)
    BY <1>6, <1>9 DEF Locked, DequeueAndSaveImage, CaptureCompleted, Saves, Capture,
                      CaptureStarted, ResultAvailable, ImageAvailable, WaitsWith,
                      CaptureFailed
  <1>10. QED
    BY <1>1, <1>2, <1>3, <1>4, <1>5, <1>7, <1>8, <1>9 DEF Next, TestOnce, OnPause, Opening

\* In a round in which the user leaves there may be trouble, and without trouble a
\* round has its reader.
TroubleInv ==
  /\ timer # "idle" => rounds # 0
  /\ ui # "resumed" => trouble
  /\ timer \in {"acquire", "open", "take", "close"} => mJpegImageReader # 0 \/ trouble

LEMMA TroubleStep == TypeInv /\ TroubleInv /\ [Next]_vars => TroubleInv'
  <1> SUFFICES ASSUME TypeInv, TroubleInv, [Next]_vars PROVE TroubleInv'
    OBVIOUS
  <1> USE DEF threads, camera, state, readers, pictures, history
  <1>1. CASE Begins
    BY <1>1 DEF Begins, TroubleInv, TypeInv, TypeOK
  <1>2. CASE SetUpCameraOutputs
    <2>1. /\ timer' = "acquire" /\ UNCHANGED <<ui, trouble, rounds>>
          /\ mJpegImageReader' # 0 \/ mJpegImageReader' = rounds
          /\ timer = "setup"
      BY <1>2 DEF SetUpCameraOutputs, At
    <2>2. QED
      BY <2>1 DEF TroubleInv
  <1>3. CASE Leaves
    BY <1>3 DEF Leaves, TroubleInv
  <1>4. CASE LeavingCloses
    <2>1. ui = "closing" /\ UNCHANGED <<timer, rounds, trouble>>
      BY <1>4 DEF LeavingCloses, Shows
    <2>2. QED
      BY <2>1 DEF TroubleInv
  <1>5. CASE RoundCloses
    BY <1>5 DEF RoundCloses, TroubleInv
  <1>6. CASE TryAcquire \/ OpenCamera \/ TakePicture \/ RoundAcquires
    <2>1. /\ UNCHANGED <<ui, rounds, mJpegImageReader>>
          /\ trouble => trouble'
          /\ timer \in {"acquire", "open", "take", "close"}
      BY <1>6 DEF TryAcquire, OpenCamera, TakePicture, RoundAcquires, At
    <2>2. QED
      BY <2>1 DEF TroubleInv
  <1>7. ASSUME UNCHANGED <<timer, rounds, mJpegImageReader>>, ui' \in {ui, "resumed"} \/ ui # "resumed",
               trouble => trouble'
        PROVE  TroubleInv'
    BY <1>7 DEF TroubleInv
  <1>8. CASE UNCHANGED vars \/ LeavingAcquires \/ ThreadEnds \/ Returns
    BY <1>7, <1>8 DEF vars, LeavingAcquires, ThreadEnds, Returns, Shows
  <1>9. CASE Opened \/ OpenFails \/ DeviceFails \/ RefusalComes \/ AnswerLost \/ Configured
    BY <1>7, <1>9 DEF Opened, OpenFails, DeviceFails, RefusalComes, GivesUp, AnswerLost, Configured
  <1>10. CASE Process
    BY <1>7, <1>10 DEF Process, CaptureStill
  <1>11. CASE Locked \/ Saves \/ \E r \in Requests : Capture(r)
    BY <1>7, <1>11 DEF Locked, DequeueAndSaveImage, CaptureCompleted, Saves, Capture,
                       CaptureStarted, ResultAvailable, ImageAvailable, WaitsWith,
                       CaptureFailed
  <1>12. QED
    BY <1>1, <1>2, <1>3, <1>4, <1>5, <1>6, <1>8, <1>9, <1>10, <1>11
       DEF Next, TestOnce, OnPause, Opening

-------------------------------------------------------------------------------
\* Where the one permit is as long as the test is Orderly: in the semaphore, with the
\* thread that opens or closes, or with the camera that is being opened.
Held(b) == IF b THEN 1 ELSE 0

PermitInv ==
  /\ permits + Held(timer \in {"open", "closing"}) + Held(ui = "closing")
             + Held(device = "opening") = 1
  /\ timer \in {"setup", "acquire"} => ui = "resumed"
  /\ timer = "open" => ui \in {"resumed", "leaving"}
  /\ device = "opening" => /\ reach /\ timer \in {"take", "close"}
                           /\ ui \in {"resumed", "leaving"}
  /\ device = "open" => mCameraDevice
  /\ ui \in {"quitting", "paused"} => device = "closed"
  /\ marked => trouble

OrderlyInv == Orderly => PermitInv

LEMMA PermitStep ==
  ASSUME TypeInv, TroubleInv, OrderlyInv, [Next]_vars
  PROVE  OrderlyInv'
  <1> SUFFICES ASSUME Orderly' PROVE PermitInv'
    BY DEF OrderlyInv
  <1> USE DEF threads, camera, state, readers, pictures, history
  <1>1. Orderly /\ errors = 0 /\ errors' = 0 /\ ~twice'
    <2>1. errors' = errors \/ errors' = errors + 1
      BY DEF Next, vars, Begins, TestOnce, SetUpCameraOutputs, TryAcquire, OpenCamera, TakePicture,
             RoundAcquires, RoundCloses, Leaves, OnPause, LeavingAcquires, LeavingCloses,
             ThreadEnds, Returns, Opening, Opened, OpenFails, AnswerLost, DeviceFails, GivesUp,
             RefusalComes, Configured, Process, Capture, CaptureStarted, ResultAvailable,
             ImageAvailable, WaitsWith, CaptureFailed, Locked, CaptureCompleted,
             DequeueAndSaveImage, Saves
    <2>2. crossed => crossed'
      BY DEF Next, vars, Begins, TestOnce, SetUpCameraOutputs, TryAcquire, OpenCamera, TakePicture,
             RoundAcquires, RoundCloses, Leaves, OnPause, LeavingAcquires, LeavingCloses,
             ThreadEnds, Returns, Opening, Opened, OpenFails, AnswerLost, DeviceFails, GivesUp,
             RefusalComes, Configured, Process, Capture, CaptureStarted, ResultAvailable,
             ImageAvailable, WaitsWith, CaptureFailed, Locked, CaptureCompleted,
             DequeueAndSaveImage, Saves
    <2>3. twice => twice'
      BY DEF Next, vars, Begins, TestOnce, SetUpCameraOutputs, TryAcquire, OpenCamera, TakePicture,
             RoundAcquires, RoundCloses, Leaves, OnPause, LeavingAcquires, LeavingCloses,
             ThreadEnds, Returns, Opening, Opened, OpenFails, AnswerLost, DeviceFails, GivesUp,
             RefusalComes, Configured, Process, Capture, CaptureStarted, ResultAvailable,
             ImageAvailable, WaitsWith, CaptureFailed, Locked, CaptureCompleted,
             DequeueAndSaveImage, Saves
    <2>4. errors \in Nat
      BY CameraAssumption DEF TypeInv, TypeOK
    <2>5. QED
      BY <2>1, <2>2, <2>3, <2>4 DEF Orderly
  <1>2. /\ PermitInv /\ permits \in Nat
        /\ timer \in {"idle", "setup", "acquire", "open", "take", "close", "closing"}
        /\ ui \in {"resumed", "leaving", "closing", "quitting", "paused"}
        /\ device \in {"closed", "opening", "open"}
    BY <1>1 DEF OrderlyInv, TypeInv, TypeOK
  <1>3. ASSUME UNCHANGED <<timer, ui, permits, device, reach, mCameraDevice>>,
               marked' => trouble'
        PROVE  PermitInv'
    BY <1>2, <1>3 DEF PermitInv, Held
  <1>4. CASE Begins
    <2>1. /\ timer = "idle" /\ timer' = "setup" /\ ~marked'
          /\ ui = "resumed"
          /\ UNCHANGED <<ui, permits, device, reach, mCameraDevice>>
      BY <1>1, <1>4 DEF Begins, At, Orderly
    <2>2. QED
      BY <1>2, <2>1 DEF PermitInv, Held
  <1>5. CASE SetUpCameraOutputs
    <2>1. /\ timer = "setup" /\ timer' = "acquire"
          /\ UNCHANGED <<ui, permits, device, reach, mCameraDevice, marked, trouble>>
      BY <1>5 DEF SetUpCameraOutputs, At
    <2>2. QED
      BY <1>2, <2>1 DEF PermitInv, Held
  <1>6. CASE TryAcquire
    <2>1. timer = "acquire" /\ permits = 1
      BY <1>2, <1>6 DEF TryAcquire, At, PermitInv, Held
    <2>2. /\ permits' = 0 /\ timer' = "open"
          /\ UNCHANGED <<ui, device, reach, mCameraDevice, marked, trouble>>
      BY <1>6, <2>1 DEF TryAcquire
    <2>3. QED
      BY <1>2, <2>1, <2>2 DEF PermitInv, Held
  <1>7. CASE OpenCamera
    <2>1. /\ timer = "open" /\ timer' = "take" /\ permits = 0
          /\ UNCHANGED <<ui, mCameraDevice>>
      BY <1>2, <1>7 DEF OpenCamera, At, PermitInv, Held
    <2>2. \/ /\ device' = "opening" /\ reach' = (ui # "quitting")
             /\ UNCHANGED <<permits, marked, trouble>>
          \/ permits' = permits + 1 /\ trouble' /\ UNCHANGED <<device, reach>>
      BY <1>7 DEF OpenCamera, Release
    <2>3. ui \in {"resumed", "leaving"} /\ ui # "quitting" /\ ui # "closing"
      BY <1>2, <2>1 DEF PermitInv
    <2>4. CASE device' = "opening" /\ reach' = (ui # "quitting") /\ UNCHANGED <<permits, marked, trouble>>
      <3>1. reach'
        BY <2>3, <2>4
      <3>2. QED
        BY <1>2, <2>1, <2>3, <2>4, <3>1 DEF PermitInv, Held
    <2>5. CASE permits' = permits + 1 /\ trouble' /\ UNCHANGED <<device, reach>>
      BY <1>2, <2>1, <2>3, <2>5 DEF PermitInv, Held
    <2>6. QED
      BY <2>2, <2>4, <2>5
  <1>8. CASE TakePicture
    <2>1. /\ timer = "take" /\ timer' = "close"
          /\ marked' => trouble'
          /\ UNCHANGED <<ui, permits, device, reach, mCameraDevice>>
      BY <1>2, <1>8 DEF TakePicture, At, PermitInv
    <2>2. QED
      BY <1>2, <2>1 DEF PermitInv, Held
  <1>9. CASE RoundAcquires
    <2>1. /\ timer = "close" /\ timer' = "closing" /\ permits > 0 /\ permits' = permits - 1
          /\ UNCHANGED <<ui, device, reach, mCameraDevice, marked, trouble>>
      BY <1>9 DEF RoundAcquires, Acquire, At
    <2>2. QED
      BY <1>2, <2>1 DEF PermitInv, Held
  <1>10. ASSUME CloseCamera, device # "opening", UNCHANGED <<reach, marked, trouble>>
         PROVE  permits' = permits + 1 /\ device' = "closed"
    <2>1. CASE mCameraDevice
      BY <1>10, <2>1 DEF CloseCamera, CloseDevice, Release
    <2>2. CASE ~mCameraDevice
      BY <1>2, <1>10, <2>2 DEF CloseCamera, Release, PermitInv
    <2>3. QED
      BY <2>1, <2>2
  <1>11. CASE RoundCloses
    <2>1. /\ timer = "closing" /\ timer' = "idle" /\ CloseCamera
          /\ UNCHANGED <<ui, reach, marked, trouble>>
      BY <1>11 DEF RoundCloses, At
    <2>2. permits = 0 /\ device # "opening" /\ ui # "closing"
      BY <1>2, <2>1 DEF PermitInv, Held
    <2>3. permits' = 1 /\ device' = "closed"
      BY <1>10, <2>1, <2>2
    <2>4. QED
      BY <1>2, <2>1, <2>2, <2>3 DEF PermitInv, Held
  <1>12. CASE Leaves
    <2>1. /\ ui = "resumed" /\ ui' = "leaving" /\ trouble'
          /\ timer \notin {"setup", "acquire"}
          /\ UNCHANGED <<timer, permits, device, reach, mCameraDevice>>
      BY <1>1, <1>12 DEF Leaves, Shows, Orderly
    <2>2. QED
      BY <1>2, <2>1 DEF PermitInv, Held
  <1>13. CASE LeavingAcquires
    <2>1. /\ ui = "leaving" /\ ui' = "closing" /\ permits > 0 /\ permits' = permits - 1
          /\ UNCHANGED <<timer, device, reach, mCameraDevice, marked, trouble>>
      BY <1>13 DEF LeavingAcquires, Acquire, Shows
    <2>2. QED
      BY <1>2, <2>1 DEF PermitInv, Held
  <1>14. CASE LeavingCloses
    <2>1. /\ ui = "closing" /\ ui' = "quitting" /\ CloseCamera
          /\ UNCHANGED <<timer, reach, marked, trouble>>
      BY <1>14 DEF LeavingCloses, Shows
    <2>2. permits = 0 /\ device # "opening" /\ timer \notin {"setup", "acquire", "open", "closing"}
      BY <1>2, <2>1 DEF PermitInv, Held
    <2>3. permits' = 1 /\ device' = "closed"
      BY <1>10, <2>1, <2>2
    <2>4. QED
      BY <1>2, <2>1, <2>2, <2>3 DEF PermitInv, Held
  <1>15. CASE ThreadEnds
    <2>1. /\ ui = "quitting" /\ ui' = "paused"
          /\ UNCHANGED <<timer, permits, device, mCameraDevice, marked, trouble>>
      BY <1>15 DEF ThreadEnds, Shows
    <2>2. QED
      BY <1>2, <2>1 DEF PermitInv, Held
  <1>16. CASE Returns
    <2>1. /\ ui = "paused" /\ ui' = "resumed"
          /\ UNCHANGED <<timer, permits, device, reach, mCameraDevice, marked, trouble>>
      BY <1>16 DEF Returns, Shows
    <2>2. QED
      BY <1>2, <2>1 DEF PermitInv, Held
  <1>17. CASE Opened
    <2>1. /\ device = "opening" /\ device' = "open" /\ mCameraDevice'
          /\ permits' = permits + 1
          /\ UNCHANGED <<timer, ui, reach>>
      BY <1>17 DEF Opened, Answers, Release
    <2>2. mJpegImageReader # 0 \/ trouble
      BY <1>2, <2>1 DEF PermitInv, TroubleInv
    <2>3. marked' => trouble'
      <3>1. marked => trouble
        BY <1>2 DEF PermitInv
      <3>2. UNCHANGED <<marked, trouble>> \/ trouble' = (trouble \/ mJpegImageReader # 0)
        BY <1>17 DEF Opened
      <3>3. QED
        BY <2>2, <3>1, <3>2
    <2>4. QED
      BY <1>2, <2>1, <2>3 DEF PermitInv, Held
  <1>18. CASE OpenFails
    <2>1. /\ device = "opening" /\ device' = "closed" /\ trouble'
          /\ permits' = permits + 1
          /\ UNCHANGED <<timer, ui, reach>>
      BY <1>18 DEF OpenFails, GivesUp, Answers, Release
    <2>2. QED
      BY <1>2, <2>1 DEF PermitInv, Held
  <1>19. CASE DeviceFails
    <2>1. errors' = errors + 1 /\ errors \in Nat
      BY <1>19, CameraAssumption DEF DeviceFails, TypeInv, TypeOK
    <2>2. QED
      BY <1>1, <2>1
  <1>20. CASE RefusalComes
    BY <1>1, <1>20 DEF RefusalComes
  <1>20b. CASE AnswerLost
    BY <1>2, <1>20b DEF AnswerLost, PermitInv
  <1>21. CASE UNCHANGED vars \/ Configured
    <2>1. marked' => trouble'
      <3>1. marked => trouble
        BY <1>2 DEF PermitInv
      <3>2. UNCHANGED <<marked, trouble>> \/ trouble'
        BY <1>21 DEF vars, Configured
      <3>3. QED
        BY <3>1, <3>2
    <2>2. UNCHANGED <<timer, ui, permits, device, reach, mCameraDevice>>
      BY <1>21 DEF vars, Configured
    <2>3. QED
      BY <1>3, <2>1, <2>2
  <1>22. CASE Process
    <2>1. marked' => trouble'
      BY <1>2, <1>22 DEF Process, CaptureStill, PermitInv
    <2>2. QED
      BY <1>3, <1>22, <2>1 DEF Process
  <1>23. CASE Locked \/ Saves \/ \E r \in Requests : Capture(r)
    BY <1>2, <1>3, <1>23 DEF Locked, DequeueAndSaveImage, CaptureCompleted, Saves, Capture,
                             CaptureStarted, ResultAvailable, ImageAvailable, WaitsWith,
                             CaptureFailed, PermitInv
  <1>24. QED
    BY <1>4, <1>5, <1>6, <1>7, <1>8, <1>9, <1>11, <1>12, <1>13, <1>14, <1>15, <1>16, <1>17,
       <1>18, <1>19, <1>20, <1>20b, <1>21, <1>22, <1>23 DEF Next, TestOnce, OnPause, Opening

LEMMA Always == Spec => [](TypeInv /\ PictureInv /\ TroubleInv /\ OrderlyInv)
  <1>1. Init => TypeInv
    BY InitTyped
  <1>2. Init => PictureInv /\ TroubleInv /\ OrderlyInv
    BY DEF Init, PictureInv, TroubleInv, OrderlyInv, PermitInv, Held
  <1>3. QED
    BY <1>1, <1>2, TypeStep, PictureStep, TroubleStep, PermitStep, PTL DEF Spec

\* Whatever the user and the camera do, a round asks for one picture at most; and while
\* nobody leaves in the instant in which a round begins and no permit is released twice,
\* no round waits in vain for the permit of the one before, and no preview misses its
\* reader: a failure has another reason (takePicture, closeCamera, openCamera, onOpened).
THEOREM PicturesTrue == Spec => []OneTruePicture
  <1>1. TypeInv /\ PictureInv /\ OrderlyInv => OneTruePicture
    <2> SUFFICES ASSUME TypeInv, PictureInv, OrderlyInv PROVE OneTruePicture
      OBVIOUS
    <2>1. OnePicture
      BY DEF TypeInv, TypeOK, PictureInv, OnePicture
    <2>2. NoFalseFailure
      BY DEF OrderlyInv, PermitInv, NoFalseFailure
    <2>3. QED
      BY <2>1, <2>2 DEF OneTruePicture
  <1>2. QED
    BY <1>1, Always, PTL

\* Under the same condition nothing is open, or being opened, behind a user who has
\* left, wherever the round was when he did (closeCamera in onPause, openCamera).
THEOREM PausedClosed == Spec => []ClosedWhenPaused
  <1>1. OrderlyInv => ClosedWhenPaused
    BY DEF OrderlyInv, PermitInv, ClosedWhenPaused
  <1>2. QED
    BY <1>1, Always, PTL

-------------------------------------------------------------------------------
\* A reader counts one for each image that is being saved or waits for the rest of its
\* picture, and for being the reader of the moment, less the first; one that has not
\* been made yet counts none.
Users(m)   == {s \in savers : s.reader = m}
Waiting(m) == {r \in mJpegResultQueue : builder[r].image # 0 /\ builder[r].reader = m}

Balance(m) ==
  refs[m] + 1 >= Cardinality(Users(m)) + Cardinality(Waiting(m)) + Held(mJpegImageReader = m)
Fresh(m) == m > rounds \/ (m = rounds /\ timer = "setup")

ReaderInv ==
  /\ IsFiniteSet(savers)
  /\ \A m \in Readers : Balance(m)
  /\ \A m \in Readers : Fresh(m) => refs[m] = -1

LEMMA FewUsers ==
  ASSUME TypeInv, IsFiniteSet(savers), NEW m
  PROVE  /\ IsFiniteSet(Users(m)) /\ Cardinality(Users(m)) \in Nat
         /\ IsFiniteSet(Waiting(m)) /\ Cardinality(Waiting(m)) \in Nat
  <1>1. IsFiniteSet(Users(m))
    BY FS_Subset DEF Users
  <1>2. IsFiniteSet(Requests)
    BY FS_Interval, CameraAssumption DEF Requests
  <1>3. Waiting(m) \in SUBSET Requests
    BY DEF Waiting, TypeInv, TypeOK
  <1>4. IsFiniteSet(Waiting(m))
    BY <1>2, <1>3, FS_Subset
  <1>5. QED
    BY <1>1, <1>4, FS_CardinalityType

\* Every reader in use is open, so that what is released or retained is not fresh.
LEMMA UsedIsOpen ==
  ASSUME TypeInv, ReaderInv
  PROVE  /\ mJpegImageReader # 0 => mJpegImageReader \in Readers /\ refs[mJpegImageReader] >= 0
         /\ \A s \in savers : s.reader \in Readers /\ refs[s.reader] >= 0
         /\ \A m \in Readers : refs[m] = -1 => Users(m) = {} /\ Waiting(m) = {}
  <1>1. ASSUME NEW m \in Readers
        PROVE  /\ refs[m] \in Int /\ refs[m] >= -1
               /\ Cardinality(Users(m)) \in Nat /\ Cardinality(Waiting(m)) \in Nat
               /\ Held(mJpegImageReader = m) \in {0, 1}
               /\ Balance(m)
    BY FewUsers DEF ReaderInv, TypeInv, TypeOK, Held
  <1>2. ASSUME mJpegImageReader # 0
        PROVE  mJpegImageReader \in Readers /\ refs[mJpegImageReader] >= 0
    <2>1. mJpegImageReader \in Readers
      BY <1>2, Sizes DEF TypeInv, TypeOK, Readers
    <2>2. QED
      BY <1>1, <2>1 DEF Balance, Held
  <1>3. ASSUME NEW s \in savers
        PROVE  s.reader \in Readers /\ refs[s.reader] >= 0
    <2>1. s.reader \in Readers /\ s \in Users(s.reader)
      BY DEF TypeInv, TypeOK, Users
    <2>2. Cardinality(Users(s.reader)) # 0
      BY <2>1, FewUsers, FS_EmptySet DEF ReaderInv
    <2>3. QED
      BY <1>1, <2>1, <2>2 DEF Balance
  <1>4. ASSUME NEW m \in Readers, refs[m] = -1
        PROVE  Users(m) = {} /\ Waiting(m) = {}
    <2>1. Cardinality(Users(m)) = 0 /\ Cardinality(Waiting(m)) = 0
      BY <1>1, <1>4 DEF Balance
    <2>2. QED
      BY <2>1, FewUsers, FS_EmptySet DEF ReaderInv
  <1>5. QED
    BY <1>2, <1>3, <1>4

\* Nothing more is taken from a reader.
LEMMA BalanceKept ==
  ASSUME TypeInv, TypeInv', ReaderInv, NEW m \in Readers,
         Users(m)' \subseteq Users(m), Waiting(m)' \subseteq Waiting(m),
         refs'[m] >= refs[m], mJpegImageReader' = m => mJpegImageReader = m
  PROVE  Balance(m)'
  <1>1. /\ Cardinality(Users(m)') <= Cardinality(Users(m)) /\ Cardinality(Users(m)') \in Nat
        /\ Cardinality(Waiting(m)') <= Cardinality(Waiting(m)) /\ Cardinality(Waiting(m)') \in Nat
    BY FewUsers, FS_Subset, FS_CardinalityType DEF ReaderInv
  <1>2. /\ Cardinality(Users(m)) \in Nat /\ Cardinality(Waiting(m)) \in Nat
        /\ refs[m] \in Int /\ refs'[m] \in Int
    BY FewUsers DEF ReaderInv, TypeInv, TypeOK
  <1>3. Balance(m)
    BY DEF ReaderInv
  <1>4. QED
    BY <1>1, <1>2, <1>3 DEF Balance, Held

\* A builder that has got something and is complete, or not, takes a reader only for
\* the image it has not had before.
LEMMA CompletionCounts ==
  ASSUME TypeInv, ReaderInv, NEW r \in mJpegResultQueue, NEW b \in Builders,
         HandleCompletion(r, b), NEW m \in Readers
  PROVE  /\ IsFiniteSet(savers')
         /\ Cardinality(Users(m)') \in Nat /\ Cardinality(Waiting(m)') \in Nat
         /\ Cardinality(Users(m)') + Cardinality(Waiting(m)')
              <= Cardinality(Users(m)) + Cardinality(Waiting(m))
                 + Held(b.image # 0 /\ b.reader = m /\ r \notin Waiting(m))
  <1>1. /\ IsFiniteSet(Users(m)) /\ Cardinality(Users(m)) \in Nat
        /\ IsFiniteSet(Waiting(m)) /\ Cardinality(Waiting(m)) \in Nat
    BY FewUsers DEF ReaderInv
  <1>2. r \in Requests /\ builder' = [builder EXCEPT ![r] = b] /\ builder'[r] = b
        /\ \A q \in Requests \ {r} : builder'[q] = builder[q]
    BY DEF TypeInv, TypeOK, HandleCompletion
  <1>3. CASE IsComplete(b)
    <2> DEFINE s == [image |-> b.image, reader |-> b.reader]
    <2>1. savers' = savers \cup {s} /\ mJpegResultQueue' = mJpegResultQueue \ {r} /\ b.image # 0
      BY <1>3 DEF HandleCompletion, IsComplete
    <2>2. IsFiniteSet(savers')
      BY <2>1, FS_AddElement DEF ReaderInv
    <2>3. Waiting(m)' = Waiting(m) \ {r}
      BY <1>2, <2>1 DEF Waiting, TypeInv, TypeOK
    <2>4. Cardinality(Waiting(m)') = IF r \in Waiting(m) THEN Cardinality(Waiting(m)) - 1
                                     ELSE Cardinality(Waiting(m))
      BY <1>1, <2>3, FS_RemoveElement
    <2>5. Cardinality(Waiting(m)') \in Nat
      BY <1>1, <2>3, FS_RemoveElement, FS_CardinalityType
    <2>6. CASE b.reader = m
      <3>1. Users(m)' = Users(m) \cup {s}
        BY <2>1, <2>6 DEF Users
      <3>2. Cardinality(Users(m)') = IF s \in Users(m) THEN Cardinality(Users(m))
                                     ELSE Cardinality(Users(m)) + 1
        BY <1>1, <3>1, FS_AddElement
      <3>3. Cardinality(Users(m)') \in Nat /\ Cardinality(Users(m)') <= Cardinality(Users(m)) + 1
        BY <1>1, <3>2
      <3>4. QED
        BY <1>1, <2>1, <2>2, <2>4, <2>5, <2>6, <3>3 DEF Held
    <2>7. CASE b.reader # m
      <3>1. Users(m)' = Users(m)
        BY <2>1, <2>7 DEF Users
      <3>2. QED
        BY <1>1, <2>2, <2>4, <2>5, <2>7, <3>1 DEF Held
    <2>8. QED
      BY <2>6, <2>7
  <1>4. CASE ~IsComplete(b)
    <2>1. savers' = savers /\ mJpegResultQueue' = mJpegResultQueue
      BY <1>4 DEF HandleCompletion
    <2>2. Users(m)' = Users(m) /\ IsFiniteSet(savers')
      BY <2>1 DEF Users, ReaderInv
    <2>3. CASE b.image # 0 /\ b.reader = m
      <3>1. Waiting(m)' = Waiting(m) \cup {r}
        BY <1>2, <2>1, <2>3 DEF Waiting, TypeInv, TypeOK
      <3>2. /\ Cardinality(Waiting(m)') = IF r \in Waiting(m) THEN Cardinality(Waiting(m))
                                          ELSE Cardinality(Waiting(m)) + 1
        BY <1>1, <3>1, FS_AddElement
      <3>3. QED
        BY <1>1, <2>2, <2>3, <3>2 DEF Held
    <2>4. CASE ~(b.image # 0 /\ b.reader = m)
      <3>1. Waiting(m)' = Waiting(m) \ {r}
        BY <1>2, <2>1, <2>4 DEF Waiting, TypeInv, TypeOK
      <3>2. Cardinality(Waiting(m)') \in Nat
        BY <1>1, <3>1, FS_RemoveElement, FS_CardinalityType
      <3>3. Cardinality(Waiting(m)') <= Cardinality(Waiting(m))
        BY <1>1, <3>1, FS_Subset
      <3>4. QED
        BY <1>1, <2>2, <2>4, <3>2, <3>3 DEF Held
    <2>5. QED
      BY <2>3, <2>4
  <1>5. QED
    BY <1>3, <1>4

LEMMA ReaderStep ==
  ASSUME TypeInv, TypeInv', TroubleInv, ReaderInv, [Next]_vars
  PROVE  ReaderInv'
  <1> USE DEF threads, camera, state, readers, pictures, history
  <1>1. /\ rounds \in Nat /\ rounds' \in Nat
        /\ \A m \in Readers : m \in Nat /\ refs[m] \in Int /\ refs'[m] \in Int
    BY Sizes, CameraAssumption DEF TypeInv, TypeOK
  <1>2. IsFiniteSet(savers) /\ refs \in [Readers -> Nat \cup {-1}]
    BY DEF ReaderInv, TypeInv, TypeOK
  <1>3. ASSUME UNCHANGED refs, savers' = savers, mJpegImageReader' = mJpegImageReader,
               mJpegResultQueue' \subseteq mJpegResultQueue,
               \A r \in mJpegResultQueue' :
                  builder'[r].image = builder[r].image /\ builder'[r].reader = builder[r].reader,
               \A m \in Readers : Fresh(m)' => Fresh(m)
        PROVE  ReaderInv'
    <2>1. ASSUME NEW m \in Readers PROVE Balance(m)'
      <3>1. Users(m)' \subseteq Users(m) /\ Waiting(m)' \subseteq Waiting(m)
        BY <1>3 DEF Users, Waiting
      <3>2. refs'[m] >= refs[m] /\ (mJpegImageReader' = m => mJpegImageReader = m)
        BY <1>1, <1>3
      <3>3. QED
        BY <3>1, <3>2, BalanceKept
    <2>2. QED
      BY <1>2, <1>3, <2>1 DEF ReaderInv
  <1>4. CASE Begins
    <2>1. \A m \in Readers : Fresh(m)' => Fresh(m)
      BY <1>1, <1>4 DEF Begins, Fresh
    <2>2. QED
      BY <1>3, <1>4, <2>1 DEF Begins
  <1>5. CASE \/ UNCHANGED vars \/ TryAcquire \/ OpenCamera \/ TakePicture \/ RoundAcquires
             \/ Leaves \/ LeavingAcquires \/ ThreadEnds \/ Returns
    <2>1. /\ UNCHANGED <<rounds, readers, savers, mJpegResultQueue, builder>>
          /\ timer' = timer \/ timer' # "setup"
      BY <1>5 DEF vars, TryAcquire, OpenCamera, TakePicture, RoundAcquires, Leaves,
                  LeavingAcquires, ThreadEnds, Returns
    <2>2. \A m \in Readers : Fresh(m)' => Fresh(m)
      BY <2>1 DEF Fresh
    <2>3. QED
      BY <1>3, <2>1, <2>2
  <1>6. CASE Opened \/ OpenFails \/ DeviceFails \/ RefusalComes \/ AnswerLost \/ Configured
    <2>1. UNCHANGED <<timer, rounds, readers, savers, mJpegResultQueue, builder>>
      BY <1>6 DEF Opened, OpenFails, DeviceFails, RefusalComes, GivesUp, AnswerLost, Configured
    <2>2. \A m \in Readers : Fresh(m)' => Fresh(m)
      BY <2>1 DEF Fresh
    <2>3. QED
      BY <1>3, <2>1, <2>2
  <1>7. CASE SetUpCameraOutputs
    <2>1. /\ timer = "setup" /\ timer' = "acquire" /\ rounds # 0 /\ rounds \in Readers
          /\ UNCHANGED <<rounds, savers, mJpegResultQueue, builder>>
      BY <1>7, Sizes DEF SetUpCameraOutputs, At, TroubleInv, TypeInv, TypeOK, Readers
    <2>2. \A m \in Readers : Users(m)' = Users(m) /\ Waiting(m)' = Waiting(m)
      BY <2>1 DEF Users, Waiting
    <2>3. CASE mJpegImageReader # 0 /\ refs[mJpegImageReader] >= 0
      <3> DEFINE n == mJpegImageReader
      <3>1. n \in Readers /\ refs' = [refs EXCEPT ![n] = Retained(n)] /\ mJpegImageReader' = n
        BY <1>7, <2>3, UsedIsOpen DEF SetUpCameraOutputs
      <3>2. \A m \in Readers : refs'[m] >= refs[m] /\ (m # n => refs'[m] = refs[m])
        BY <1>1, <1>2, <3>1 DEF Retained
      <3>3. \A m \in Readers : Balance(m)'
        BY <2>2, <3>1, <3>2, BalanceKept
      <3>4. \A m \in Readers : Fresh(m)' => Fresh(m) /\ m # n
        <4>1. ASSUME NEW m \in Readers, Fresh(m)' PROVE Fresh(m) /\ m # n
          <5>1. Fresh(m)
            BY <2>1, <4>1 DEF Fresh
          <5>2. refs[m] = -1
            BY <5>1 DEF ReaderInv
          <5>3. QED
            BY <2>3, <5>1, <5>2
        <4>2. QED
          BY <4>1
      <3>5. QED
        BY <1>2, <2>1, <3>2, <3>3, <3>4 DEF ReaderInv
    <2>4. CASE ~(mJpegImageReader # 0 /\ refs[mJpegImageReader] >= 0)
      <3>1. mJpegImageReader = 0
        BY <2>4, UsedIsOpen
      <3>2. mJpegImageReader' = rounds /\ refs' = [refs EXCEPT ![rounds] = 0]
        BY <1>7, <2>4 DEF SetUpCameraOutputs
      <3>3. Fresh(rounds) /\ refs[rounds] = -1
        BY <2>1 DEF Fresh, ReaderInv
      <3>4. Users(rounds) = {} /\ Waiting(rounds) = {}
        BY <2>1, <3>3, UsedIsOpen
      <3>5. Balance(rounds)'
        <4>1. /\ Cardinality(Users(rounds)') = 0 /\ Cardinality(Waiting(rounds)') = 0
              /\ refs'[rounds] = 0
          BY <1>2, <2>1, <2>2, <3>2, <3>4, FS_EmptySet
        <4>2. QED
          BY <2>1, <4>1 DEF Balance, Held
      <3>6. \A m \in Readers \ {rounds} : Balance(m)'
        <4>1. ASSUME NEW m \in Readers \ {rounds} PROVE Balance(m)'
          <5>1. refs'[m] >= refs[m] /\ mJpegImageReader' # m
            BY <1>1, <1>2, <3>2
          <5>2. QED
            BY <2>2, <5>1, BalanceKept
        <4>2. QED
          BY <4>1
      <3>7. \A m \in Readers : Fresh(m)' => Fresh(m) /\ m # rounds
        BY <1>1, <2>1 DEF Fresh
      <3>8. \A m \in Readers : Fresh(m)' => refs'[m] = -1
        BY <1>2, <3>2, <3>7 DEF ReaderInv
      <3>9. QED
        BY <1>2, <2>1, <3>5, <3>6, <3>8 DEF ReaderInv
    <2>5. QED
      BY <2>3, <2>4
  <1>8. CASE RoundCloses \/ LeavingCloses
    <2>1. /\ CloseCamera /\ UNCHANGED <<rounds, savers, mJpegResultQueue, builder>>
          /\ timer' \in {timer, "idle"}
      BY <1>8 DEF RoundCloses, LeavingCloses
    <2>2. \A m \in Readers : Users(m)' = Users(m) /\ Waiting(m)' = Waiting(m)
      BY <2>1 DEF Users, Waiting
    <2>3. \A m \in Readers : Fresh(m)' => Fresh(m)
      BY <2>1 DEF Fresh
    <2>4. CASE mJpegImageReader = 0
      BY <1>3, <2>1, <2>3, <2>4 DEF CloseCamera
    <2>5. CASE mJpegImageReader # 0
      <3>0. PICK n \in Readers : n = mJpegImageReader
        BY <2>5, UsedIsOpen
      <3>1. /\ refs[n] >= 0 /\ refs' = [refs EXCEPT ![n] = refs[n] - 1]
            /\ mJpegImageReader' = 0
        BY <2>1, <2>5, <3>0, UsedIsOpen DEF CloseCamera, Released
      <3>2. Balance(n)'
        <4>1. Cardinality(Users(n)) \in Nat /\ Cardinality(Waiting(n)) \in Nat /\ Balance(n)
          BY <1>2, FewUsers DEF ReaderInv
        <4>2. /\ Cardinality(Users(n)') = Cardinality(Users(n))
              /\ Cardinality(Waiting(n)') = Cardinality(Waiting(n))
              /\ refs'[n] = refs[n] - 1 /\ 0 \notin Readers
          BY <1>2, <2>2, <3>1 DEF Readers
        <4>3. refs'[n] + 1 >= Cardinality(Users(n)') + Cardinality(Waiting(n)')
          BY <1>1, <3>0, <3>1, <4>1, <4>2 DEF Balance, Held
        <4>4. QED
          BY <1>1, <3>1, <4>1, <4>2, <4>3 DEF Balance, Held
      <3>3. \A m \in Readers \ {n} : Balance(m)'
        <4>1. ASSUME NEW m \in Readers \ {n} PROVE Balance(m)'
          <5>1. refs'[m] >= refs[m] /\ mJpegImageReader' # m
            BY <1>1, <1>2, <3>1 DEF Readers
          <5>2. QED
            BY <2>2, <5>1, BalanceKept
        <4>2. QED
          BY <4>1
      <3>4. \A m \in Readers : Fresh(m)' => refs'[m] = -1
        BY <1>1, <1>2, <2>3, <3>1 DEF ReaderInv
      <3>5. QED
        BY <1>2, <2>1, <3>1, <3>2, <3>3, <3>4 DEF ReaderInv
    <2>6. QED
      BY <2>4, <2>5
  <1>9. CASE Process
    <2>1. PICK joined \in SUBSET (mRequestCounter + 1 .. mRequestCounter + mPendingUserCaptures) :
            /\ mJpegResultQueue' = mJpegResultQueue \cup joined
            /\ builder' = [r \in Requests |->
                 IF r \in joined THEN [file |-> FALSE, result |-> FALSE, image |-> 0, reader |-> 0]
                 ELSE builder[r]]
      BY <1>9 DEF Process, CaptureStill
    <2>2. UNCHANGED <<timer, rounds, mJpegImageReader, refs, savers>>
      BY <1>9 DEF Process
    <2>3. ASSUME NEW m \in Readers PROVE Balance(m)'
      <3>1. Users(m)' \subseteq Users(m)
        BY <2>2 DEF Users
      <3>2. Waiting(m)' \subseteq Waiting(m)
        <4>1. ASSUME NEW r \in Waiting(m)' PROVE r \in Waiting(m)
          <5>1. r \in mJpegResultQueue' /\ r \in Requests /\ builder'[r].image # 0
                /\ builder'[r].reader = m
            BY DEF Waiting, TypeInv, TypeOK
          <5>2. r \notin joined
            BY <2>1, <5>1
          <5>3. QED
            BY <2>1, <5>1, <5>2 DEF Waiting
        <4>2. QED
          BY <4>1
      <3>3. refs'[m] >= refs[m]
        BY <1>1, <2>2
      <3>4. QED
        BY <2>2, <3>1, <3>2, <3>3, BalanceKept
    <2>4. QED
      BY <1>2, <2>2, <2>3 DEF ReaderInv, Fresh
  <1>10. ASSUME NEW r \in Requests, Capture(r)
         PROVE  ReaderInv'
    <2>1. UNCHANGED <<timer, rounds, mJpegImageReader, refs, savers>>
      BY <1>10 DEF Capture, CaptureStarted, CaptureFailed, ResultAvailable, ImageAvailable,
                   WaitsWith
    <2>2. mJpegResultQueue' \subseteq mJpegResultQueue
      BY <1>10 DEF Capture, CaptureStarted, CaptureFailed, ResultAvailable, ImageAvailable,
                   WaitsWith
    <2>3. \A q \in Requests : builder'[q].image = builder[q].image
                              /\ builder'[q].reader = builder[q].reader
      BY <1>10 DEF Capture, CaptureStarted, CaptureFailed, ResultAvailable, ImageAvailable,
                   WaitsWith, TypeInv, TypeOK, Builders
    <2>4. \A q \in mJpegResultQueue' : builder'[q].image = builder[q].image
                                       /\ builder'[q].reader = builder[q].reader
      BY <2>3 DEF TypeInv, TypeOK
    <2>5. \A m \in Readers : Fresh(m)' => Fresh(m)
      BY <2>1 DEF Fresh
    <2>6. QED
      BY <1>3, <2>1, <2>2, <2>4, <2>5
  <1>11. ASSUME NEW r \in mJpegResultQueue, NEW b \in Builders, HandleCompletion(r, b),
                UNCHANGED <<timer, rounds, mJpegImageReader>>,
                \/ refs' = refs /\ b.image = builder[r].image /\ b.reader = builder[r].reader
                \/ /\ b.reader \in Readers /\ refs[b.reader] >= 0
                   /\ refs' = [refs EXCEPT ![b.reader] = refs[b.reader] + 1]
         PROVE  ReaderInv'
    <2>1. ASSUME NEW m \in Readers PROVE Balance(m)'
      <3> DEFINE more == Held(b.image # 0 /\ b.reader = m /\ r \notin Waiting(m))
      <3>1. /\ Cardinality(Users(m)') \in Nat /\ Cardinality(Waiting(m)') \in Nat
            /\ Cardinality(Users(m)') + Cardinality(Waiting(m)')
                 <= Cardinality(Users(m)) + Cardinality(Waiting(m)) + more
        BY <1>11, CompletionCounts
      <3>2. Cardinality(Users(m)) \in Nat /\ Cardinality(Waiting(m)) \in Nat /\ Balance(m)
        BY <1>2, FewUsers DEF ReaderInv
      <3>3. refs'[m] >= refs[m] + more
        <4>1. CASE refs' = refs /\ b.image = builder[r].image /\ b.reader = builder[r].reader
          <5>1. more = 0
            BY <4>1 DEF Waiting, Held
          <5>2. QED
            BY <1>1, <4>1, <5>1
        <4>2. CASE /\ b.reader \in Readers /\ refs[b.reader] >= 0
                   /\ refs' = [refs EXCEPT ![b.reader] = refs[b.reader] + 1]
          <5>1. CASE b.reader = m
            BY <1>1, <1>2, <4>2, <5>1 DEF Held
          <5>2. CASE b.reader # m
            BY <1>1, <1>2, <4>2, <5>2 DEF Held
          <5>3. QED
            BY <5>1, <5>2
        <4>3. QED
          BY <1>11, <4>1, <4>2
      <3>4. more \in {0, 1}
        BY DEF Held
      <3> HIDE DEF more
      <3>5. QED
        BY <1>1, <1>11, <3>1, <3>2, <3>3, <3>4 DEF Balance, Held
    <2>2. ASSUME NEW m \in Readers, Fresh(m)' PROVE refs'[m] = -1
      <3>1. refs[m] = -1
        BY <1>11, <2>2 DEF Fresh, ReaderInv
      <3>2. QED
        BY <1>1, <1>2, <1>11, <3>1
    <2>3. IsFiniteSet(savers')
      <3>1. CASE Readers = {}
        BY <3>1, FS_EmptySet, ZenonT(60) DEF TypeInv, TypeOK
      <3>2. CASE Readers # {}
        BY <1>11, <3>2, CompletionCounts
      <3>3. QED
        BY <3>1, <3>2
    <2>4. QED
      BY <2>1, <2>2, <2>3 DEF ReaderInv
  <1>12. CASE CaptureCompleted
    <2> DEFINE r == heard.request
    <2>0. r \in Requests
      BY <1>12 DEF CaptureCompleted, TypeInv, TypeOK, Heard, Nothing
    <2>1. UNCHANGED <<timer, rounds, mJpegImageReader, refs>>
      BY <1>12 DEF CaptureCompleted
    <2> HIDE DEF r
    <2>2. CASE r \in mJpegResultQueue
      <3> DEFINE b == [builder[r] EXCEPT !.result = TRUE]
      <3>1. HandleCompletion(r, b)
        BY <1>12, <2>2 DEF CaptureCompleted, r
      <3>2. b \in Builders /\ b.image = builder[r].image /\ b.reader = builder[r].reader
        BY <2>0, ZenonT(60) DEF TypeInv, TypeOK, Builders
      <3> HIDE DEF b
      <3>3. QED
        BY <1>11, <2>1, <2>2, <3>1, <3>2
    <2>3. CASE r \notin mJpegResultQueue
      <3>1. UNCHANGED <<builder, mJpegResultQueue, savers>>
        BY <1>12, <2>3 DEF CaptureCompleted, r
      <3>2. \A m \in Readers : Fresh(m)' => Fresh(m)
        BY <2>1 DEF Fresh
      <3>3. QED
        BY <1>3, <2>1, <3>1, <3>2
    <2>4. QED
      BY <2>2, <2>3
  <1>13. CASE DequeueAndSaveImage
    <2> DEFINE r == heard.request
               m == heard.reader
               first == Min(mJpegResultQueue)
               b == [builder[first] EXCEPT !.image = r, !.reader = m]
    <2>1. r \in Requests /\ m \in 0 .. MaxRounds /\ UNCHANGED <<timer, rounds, mJpegImageReader>>
      BY <1>13 DEF DequeueAndSaveImage, TypeInv, TypeOK, Heard, Nothing
    <2>2. \/ /\ mJpegResultQueue # {} /\ m # 0 /\ refs[m] >= 0
             /\ refs' = [refs EXCEPT ![m] = Retained(m)]
             /\ HandleCompletion(first, b)
          \/ mJpegResultQueue' \subseteq mJpegResultQueue /\ UNCHANGED <<refs, builder, savers>>
      BY <1>13 DEF DequeueAndSaveImage
    <2> HIDE DEF r, m, first
    <2>3. CASE /\ mJpegResultQueue # {} /\ m # 0 /\ refs[m] >= 0
               /\ refs' = [refs EXCEPT ![m] = Retained(m)]
               /\ HandleCompletion(first, b)
      <3>1. first \in mJpegResultQueue
        BY <2>3, FirstWaits, Sizes DEF first, TypeInv, TypeOK
      <3>2. builder[first] \in Builders /\ r \in 0 .. MaxRounds + 1
        BY <2>1, <3>1, Sizes DEF TypeInv, TypeOK, Requests
      <3>3. b \in Builders /\ b.reader = m
        BY <2>1, <3>2 DEF Builders
      <3>4. m \in Readers /\ Retained(m) = refs[m] + 1
        BY <2>1, <2>3 DEF Readers, Retained
      <3> HIDE DEF b
      <3>5. QED
        BY <1>11, <2>1, <2>3, <3>1, <3>3, <3>4
    <2>4. CASE mJpegResultQueue' \subseteq mJpegResultQueue /\ UNCHANGED <<refs, builder, savers>>
      <3>1. \A q \in Readers : Fresh(q)' => Fresh(q)
        BY <2>1 DEF Fresh
      <3>2. QED
        BY <1>3, <2>1, <2>4, <3>1
    <2>5. QED
      BY <2>2, <2>3, <2>4
  <1>14. CASE Saves
    <2>1. PICK s \in savers : /\ savers' = savers \ {s}
                              /\ refs' = [refs EXCEPT ![s.reader] = Released(s.reader)]
      BY <1>14 DEF Saves
    <2>2. UNCHANGED <<timer, rounds, mJpegImageReader, mJpegResultQueue, builder>>
      BY <1>14 DEF Saves
    <2> DEFINE n == s.reader
    <2>3. /\ n \in Readers /\ refs[n] >= 0 /\ refs' = [refs EXCEPT ![n] = refs[n] - 1]
          /\ s \in Users(n)
      BY <2>1, UsedIsOpen DEF Released, Users
    <2>4. \A m \in Readers : Waiting(m)' = Waiting(m)
      BY <2>2 DEF Waiting
    <2>5. Balance(n)'
      <3>1. /\ IsFiniteSet(Users(n)) /\ Cardinality(Users(n)) \in Nat
            /\ Cardinality(Waiting(n)) \in Nat /\ Balance(n)
        BY <1>2, <2>3, FewUsers DEF ReaderInv
      <3>2. Users(n)' = Users(n) \ {s}
        BY <2>1 DEF Users
      <3>3. Cardinality(Users(n)') = Cardinality(Users(n)) - 1
        BY <2>3, <3>1, <3>2, FS_RemoveElement
      <3>4. refs'[n] = refs[n] - 1 /\ Cardinality(Waiting(n)') = Cardinality(Waiting(n))
        BY <1>2, <2>3, <2>4
      <3>5. Held(mJpegImageReader' = n) = Held(mJpegImageReader = n)
            /\ Held(mJpegImageReader = n) \in {0, 1}
        BY <2>2 DEF Held
      <3>6. QED
        BY <1>1, <2>3, <3>1, <3>3, <3>4, <3>5 DEF Balance
    <2>6. \A m \in Readers \ {n} : Balance(m)'
      <3>1. ASSUME NEW m \in Readers \ {n} PROVE Balance(m)'
        <4>1. Users(m)' \subseteq Users(m) /\ refs'[m] >= refs[m]
          BY <1>1, <1>2, <2>1, <2>3 DEF Users
        <4>2. QED
          BY <2>2, <2>4, <4>1, BalanceKept
      <3>2. QED
        BY <3>1
    <2>7. IsFiniteSet(savers')
      BY <1>2, <2>1, FS_RemoveElement
    <2>8. \A m \in Readers : Fresh(m)' => refs'[m] = -1
      BY <1>1, <1>2, <2>2, <2>3 DEF ReaderInv, Fresh
    <2>9. QED
      BY <2>3, <2>5, <2>6, <2>7, <2>8 DEF ReaderInv
  <1>15. QED
    BY <1>4, <1>5, <1>6, <1>7, <1>8, <1>9, <1>10, <1>12, <1>13, <1>14
       DEF Next, TestOnce, OnPause, Opening, Locked

\* For any number of rounds, of users who leave and of failures, no reader is closed
\* while an image of it is being saved: the count outlives closeCamera and a reader that
\* takes its place (dequeueAndSaveImage, closeCamera, ImageSaver.run).
THEOREM ReadersStayOpen == Spec => []OpenWhileSaving
  <1>1. Init => TypeInv /\ TroubleInv /\ ReaderInv
    <2> SUFFICES ASSUME Init PROVE ReaderInv
      BY InitTyped DEF Init, TroubleInv
    <2>1. \A m \in Readers : refs[m] = -1 /\ m # 0
      BY DEF Init, Readers
    <2>2. \A m : Users(m) = {} /\ Waiting(m) = {}
      BY DEF Init, Users, Waiting
    <2>3. \A m \in Readers : Balance(m)
      <3>1. ASSUME NEW m \in Readers PROVE Balance(m)
        <4>1. /\ refs[m] = -1 /\ Held(mJpegImageReader = m) = 0
              /\ Cardinality(Users(m)) = 0 /\ Cardinality(Waiting(m)) = 0
          BY <2>1, <2>2, FS_EmptySet DEF Init, Held
        <4>2. QED
          BY <4>1 DEF Balance
      <3>2. QED
        BY <3>1
    <2>4. QED
      BY <2>1, <2>3, FS_EmptySet DEF Init, ReaderInv
  <1>2. TypeInv /\ TroubleInv /\ ReaderInv /\ [Next]_vars => TypeInv' /\ TroubleInv' /\ ReaderInv'
    BY TypeStep, TroubleStep, ReaderStep
  <1>3. TypeInv /\ ReaderInv => OpenWhileSaving
    BY UsedIsOpen DEF OpenWhileSaving
  <1>4. QED
    BY <1>1, <1>2, <1>3, PTL DEF Spec

-------------------------------------------------------------------------------
\* What the threads see of the camera: a round begins while the user is there, or it
\* crosses; whoever is told of the camera has it, and nothing else is called open; a
\* preview has a reader.
SceneInv ==
  /\ timer = "setup" => ui = "resumed" \/ crossed
  /\ device = "open" /\ reach => mCameraDevice \/ twice
  /\ mCameraDevice => device = "open"
  /\ mCaptureSession = "configuring" => mCameraDevice /\ mJpegImageReader # 0
  /\ mState \in {"PREVIEW", "WAITING"} => mJpegImageReader # 0

LEMMA SceneStep == TypeInv /\ TroubleInv /\ SceneInv /\ [Next]_vars => SceneInv'
  <1> SUFFICES ASSUME TypeInv, TroubleInv, SceneInv, [Next]_vars PROVE SceneInv'
    OBVIOUS
  <1> USE DEF threads, camera, state, readers, pictures, history
  <1>1. CASE Begins
    BY <1>1 DEF Begins, SceneInv
  <1>2. CASE SetUpCameraOutputs
    <2>1. /\ timer' = "acquire" /\ mJpegImageReader' \in {mJpegImageReader, rounds}
          /\ mJpegImageReader = 0 => mJpegImageReader' = rounds
          /\ timer = "setup" /\ UNCHANGED <<camera, state, twice>>
      BY <1>2 DEF SetUpCameraOutputs, At
    <2>2. rounds # 0
      BY <2>1 DEF TroubleInv
    <2>3. QED
      BY <2>1, <2>2 DEF SceneInv
  <1>3. CASE Leaves
    BY <1>3 DEF Leaves, Shows, SceneInv
  <1>4. ASSUME timer' # "setup" \/ UNCHANGED <<timer, ui>> \/ (timer' = timer /\ ui # "resumed"),
               UNCHANGED <<crossed, twice>>, UNCHANGED <<device, mCameraDevice, mCaptureSession, mState,
                                               mJpegImageReader>>,
               reach' = reach \/ ~reach'
        PROVE  SceneInv'
    BY <1>4 DEF SceneInv
  <1>5. CASE UNCHANGED vars \/ TryAcquire \/ RoundAcquires
    BY <1>4, <1>5 DEF vars, TryAcquire, RoundAcquires
  <1>6. CASE LeavingAcquires \/ ThreadEnds \/ Returns
    BY <1>4, <1>6 DEF LeavingAcquires, ThreadEnds, Returns, Shows
  <1>7. CASE OpenCamera
    <2>1. /\ timer' = "take" /\ UNCHANGED <<state, mJpegImageReader, twice>>
          /\ \/ device = "closed" /\ device' = "opening"
             \/ UNCHANGED <<device, reach>>
      BY <1>7 DEF OpenCamera
    <2>2. QED
      BY <2>1 DEF SceneInv
  <1>8. CASE TakePicture
    BY <1>8 DEF TakePicture, SceneInv
  <1>9. CASE RoundCloses \/ LeavingCloses
    <2>1. CloseCamera /\ UNCHANGED <<reach, crossed, twice>>
      BY <1>9 DEF RoundCloses, LeavingCloses
    <2>2. /\ mState' = "CLOSED" /\ mCameraDevice' = FALSE
          /\ mCaptureSession' # "configuring"
          /\ mCameraDevice => device' = "closed"
          /\ ~mCameraDevice => device' = device
      BY <2>1 DEF CloseCamera, CloseDevice, SceneInv
    <2>3. timer' = "setup" => ui = "resumed" \/ crossed
      BY <1>9 DEF RoundCloses, LeavingCloses, SceneInv
    <2>4. timer' = "setup" => ui' = "resumed" \/ crossed'
      BY <1>9, <2>3 DEF RoundCloses, LeavingCloses, Shows
    <2>5. QED
      BY <2>1, <2>2, <2>4 DEF SceneInv
  <1>10. CASE Opened
    BY <1>10 DEF Opened, Answers, SceneInv
  <1>11. CASE OpenFails \/ DeviceFails \/ RefusalComes
    <2>1. GivesUp /\ (device' # "open" \/ twice')
      BY <1>11 DEF OpenFails, DeviceFails, RefusalComes, Answers
    <2>2. /\ mCameraDevice' = FALSE /\ mCaptureSession' # "configuring" /\ mState' = "CLOSED"
          /\ UNCHANGED <<timer, ui, crossed, mJpegImageReader>>
      BY <2>1 DEF GivesUp
    <2>3. device' = "open" /\ reach' => mCameraDevice' \/ twice'
      BY <2>1
    <2>4. timer' = "setup" => ui' = "resumed" \/ crossed'
      BY <2>2 DEF SceneInv
    <2>5. QED
      BY <2>2, <2>3, <2>4 DEF SceneInv
  <1>12. CASE AnswerLost
    BY <1>12 DEF AnswerLost, SceneInv
  <1>13. CASE Configured
    BY <1>13 DEF Configured, SceneInv
  <1>14. CASE Process
    BY <1>14 DEF Process, SceneInv
  <1>15. CASE Locked \/ Saves \/ \E r \in Requests : Capture(r)
    BY <1>4, <1>15 DEF Locked, DequeueAndSaveImage, CaptureCompleted, Saves, Capture,
                       CaptureStarted, ResultAvailable, ImageAvailable, WaitsWith,
                       CaptureFailed
  <1>16. QED
    BY <1>1, <1>2, <1>3, <1>5, <1>6, <1>7, <1>8, <1>9, <1>10, <1>11, <1>12, <1>13, <1>14, <1>15
       DEF Next, TestOnce, OnPause, Opening

LEMMA SceneAlways == Spec => []SceneInv
  <1>1. Init => SceneInv
    BY DEF Init, SceneInv
  <1>2. QED
    BY <1>1, SceneStep, Always, PTL DEF Spec

-------------------------------------------------------------------------------
\* The permits there are and those of everyone who will release one.  Whoever ends the
\* background thread has released his own, and the round that is about to open has
\* another.
Sources == permits + Held(timer \in {"open", "closing"}) + Held(ui = "closing")
                   + Held(device = "opening" /\ reach)

SemaphoreInv == ~crossed =>
  /\ Sources >= 1
  /\ timer \in {"setup", "acquire"} => ui = "resumed"
  /\ ui = "quitting" /\ (timer = "open" \/ (device = "opening" /\ reach)) => Sources >= 2

LEMMA SemaphoreStep ==
  TypeInv /\ TypeInv' /\ SceneInv /\ SemaphoreInv /\ [Next]_vars => SemaphoreInv'
  <1> SUFFICES ASSUME TypeInv, TypeInv', SceneInv, SemaphoreInv, [Next]_vars, ~crossed'
               PROVE  /\ Sources' >= 1
                      /\ timer' \in {"setup", "acquire"} => ui' = "resumed"
                      /\ ui' = "quitting" /\ (timer' = "open" \/ (device' = "opening" /\ reach'))
                           => Sources' >= 2
    BY DEF SemaphoreInv
  <1> USE DEF threads, camera, state, readers, pictures, history
  <1>1. ~crossed
    BY DEF Next, vars, Begins, TestOnce, SetUpCameraOutputs, TryAcquire, OpenCamera, TakePicture,
           RoundAcquires, RoundCloses, Leaves, OnPause, LeavingAcquires, LeavingCloses,
           ThreadEnds, Returns, Opening, Opened, OpenFails, AnswerLost, DeviceFails, GivesUp,
           RefusalComes, Configured, Process, Capture, CaptureStarted, ResultAvailable,
           ImageAvailable, WaitsWith, CaptureFailed, Locked, CaptureCompleted,
           DequeueAndSaveImage, Saves
  <1>2. /\ permits \in Nat /\ permits' \in Nat
        /\ Sources >= 1
        /\ timer \in {"setup", "acquire"} => ui = "resumed"
        /\ ui = "quitting" /\ (timer = "open" \/ (device = "opening" /\ reach)) => Sources >= 2
    BY <1>1 DEF SemaphoreInv, TypeInv, TypeOK
  <1>3. CASE Begins \/ SetUpCameraOutputs
    <2>1. /\ UNCHANGED <<ui, camera, permits>>
          /\ ui = "resumed"
          /\ timer \in {"idle", "setup"} /\ timer' \in {"setup", "acquire"}
      BY <1>2, <1>3 DEF Begins, SetUpCameraOutputs, At
    <2>2. QED
      BY <1>2, <2>1 DEF Sources, Held
  <1>4. CASE TryAcquire
    <2>1. /\ timer = "acquire" /\ ui = "resumed" /\ UNCHANGED <<ui, camera>>
          /\ \/ permits' = permits - 1 /\ timer' = "open"
             \/ permits' = permits + 1 /\ timer' = "take"
      BY <1>2, <1>4 DEF TryAcquire, At, Release
    <2>2. /\ Held(ui' = "closing") = 0 /\ Held(ui = "closing") = 0
          /\ Held(timer \in {"open", "closing"}) = 0
          /\ Held(timer' \in {"open", "closing"}) = Held(timer' = "open")
          /\ Held(device' = "opening" /\ reach') = Held(device = "opening" /\ reach)
          /\ Held(device = "opening" /\ reach) \in {0, 1}
      BY <2>1 DEF Held
    <2>3. Sources' >= Sources /\ Sources \in Nat /\ Sources' \in Nat
      <3>1. CASE permits' = permits - 1 /\ timer' = "open"
        <4>1. Held(timer' = "open") = 1
          BY <3>1 DEF Held
        <4>2. QED
          BY <1>2, <2>2, <3>1, <4>1 DEF Sources
      <3>2. CASE permits' = permits + 1 /\ timer' = "take"
        <4>1. Held(timer' = "open") = 0
          BY <3>2 DEF Held
        <4>2. QED
          BY <1>2, <2>2, <3>2, <4>1 DEF Sources
      <3>3. QED
        BY <2>1, <3>1, <3>2
    <2>4. ui' = "resumed"
      BY <2>1
    <2>5. QED
      BY <1>2, <2>3, <2>4
  <1>5. CASE OpenCamera
    <2>1. /\ timer = "open" /\ timer' = "take" /\ ui' = ui
          /\ \/ /\ device = "closed" /\ device' = "opening" /\ permits' = permits
                /\ reach' = (ui # "quitting")
             \/ permits' = permits + 1 /\ UNCHANGED <<device, reach>>
      BY <1>5 DEF OpenCamera, At, Release
    <2>2. CASE device = "closed" /\ device' = "opening" /\ reach' /\ permits' = permits
      <3>1. Sources' = Sources
        BY <1>2, <2>1, <2>2 DEF Sources, Held
      <3>2. ui' # "quitting" /\ timer' = "take"
        BY <2>1, <2>2
      <3>3. QED
        BY <1>2, <3>1, <3>2
    <2>3. CASE device = "closed" /\ ~reach' /\ ui = "quitting" /\ permits' = permits
      <3>1. Sources' >= 1
        BY <1>2, <2>1, <2>3 DEF Sources, Held
      <3>2. QED
        BY <2>1, <2>3, <3>1
    <2>4. CASE permits' = permits + 1 /\ UNCHANGED <<device, reach>>
      <3>1. Sources' = Sources
        BY <1>2, <2>1, <2>4 DEF Sources, Held
      <3>2. QED
        BY <1>2, <2>1, <3>1
    <2>5. QED
      BY <2>1, <2>2, <2>3, <2>4
  <1>6. CASE RoundAcquires
    BY <1>2, <1>6 DEF RoundAcquires, At, Acquire, Sources, Held
  <1>7. CASE LeavingAcquires
    <2>1. /\ ui = "leaving" /\ ui' = "closing" /\ permits' = permits - 1
          /\ UNCHANGED <<timer, camera>>
      BY <1>7 DEF LeavingAcquires, Shows, Acquire
    <2>2. QED
      BY <1>2, <2>1 DEF Sources, Held
  <1>8. CASE RoundCloses \/ LeavingCloses
    <2>1. /\ CloseCamera /\ permits' = permits + 1 /\ reach' = reach
          /\ \/ timer = "closing" /\ timer' = "idle" /\ ui' = ui
             \/ ui = "closing" /\ ui' = "quitting" /\ timer' = timer
      BY <1>8 DEF RoundCloses, LeavingCloses, At, Shows, CloseCamera, Release
    <2>2. \/ device' = device
          \/ device = "open" /\ device' = "closed"
      BY <2>1 DEF CloseCamera, CloseDevice, SceneInv
    <2>3. Held(device' = "opening" /\ reach') = Held(device = "opening" /\ reach)
      BY <2>1, <2>2 DEF Held
    <2>4. Sources' = Sources
      BY <1>2, <2>1, <2>3 DEF Sources, Held
    <2>5. CASE timer = "closing" /\ timer' = "idle" /\ ui' = ui
      BY <1>2, <2>1, <2>2, <2>4, <2>5
    <2>6. CASE ui = "closing" /\ ui' = "quitting" /\ timer' = timer
      BY <1>2, <2>1, <2>4, <2>6 DEF Sources, Held
    <2>7. QED
      BY <2>1, <2>5, <2>6
  <1>9. CASE Leaves
    <2>1. /\ UNCHANGED <<timer, camera, permits>> /\ ui' = "leaving" /\ ui = "resumed"
          /\ timer \notin {"setup", "acquire"}
      BY <1>9 DEF Leaves, Shows
    <2>2. QED
      BY <1>2, <2>1 DEF Sources, Held
  <1>10. CASE ThreadEnds
    <2>1. /\ ui = "quitting" /\ ui' = "paused" /\ reach' = FALSE
          /\ UNCHANGED <<timer, device, permits>>
      BY <1>10 DEF ThreadEnds, Shows
    <2>2. QED
      BY <1>2, <2>1 DEF Sources, Held
  <1>11. CASE Returns
    <2>1. /\ ui = "paused" /\ ui' = "resumed" /\ UNCHANGED <<timer, camera, permits>>
      BY <1>11 DEF Returns, Shows
    <2>2. QED
      BY <1>2, <2>1 DEF Sources, Held
  <1>12. CASE Opened \/ OpenFails \/ DeviceFails \/ RefusalComes
    <2>1. /\ UNCHANGED <<timer, ui, reach>> /\ permits' = permits + 1
          /\ (device' # "opening" \/ device' = device)
      BY <1>12 DEF Opened, OpenFails, DeviceFails, RefusalComes, GivesUp, Answers, Release
    <2>2. Sources' >= 1
      BY <1>2, <2>1 DEF Sources, Held
    <2>3. timer = "open" \/ (device' = "opening" /\ reach) => Sources' >= 2
      BY <1>2, <2>1 DEF Sources, Held
    <2>4. QED
      BY <1>2, <2>1, <2>2, <2>3
  <1>13. CASE AnswerLost
    <2>1. ~reach /\ UNCHANGED <<timer, ui, reach, permits>>
      BY <1>13 DEF AnswerLost
    <2>2. QED
      BY <1>2, <2>1 DEF Sources, Held
  <1>14. ASSUME UNCHANGED <<ui, device, reach, permits>>,
                timer' = timer \/ (timer = "take" /\ timer' = "close")
         PROVE  /\ Sources' >= 1
                /\ timer' \in {"setup", "acquire"} => ui' = "resumed"
                /\ ui' = "quitting" /\ (timer' = "open" \/ (device' = "opening" /\ reach'))
                     => Sources' >= 2
    BY <1>2, <1>14 DEF Sources, Held
  <1>15. CASE UNCHANGED vars \/ TakePicture \/ Configured \/ Process
    BY <1>14, <1>15 DEF vars, TakePicture, At, Configured, Process
  <1>16. CASE Locked \/ Saves \/ \E r \in Requests : Capture(r)
    BY <1>14, <1>16 DEF Locked, DequeueAndSaveImage, CaptureCompleted, Saves, Capture,
                        CaptureStarted, ResultAvailable, ImageAvailable, WaitsWith,
                        CaptureFailed
  <1>17. QED
    BY <1>3, <1>4, <1>5, <1>6, <1>7, <1>8, <1>9, <1>10, <1>11, <1>12, <1>13, <1>15, <1>16
       DEF Next, TestOnce, OnPause, Opening

\* Whatever fails, and however often: while nobody crosses the beginning of a round
\* there is a permit, or someone who will release one, so that the Timer thread and the
\* main thread never both wait for what nobody gives back (openCamera, closeCamera, and
\* the three answers to an open).
THEOREM PermitReturns == Spec => []PermitComesBack
  <1>1. Init => SemaphoreInv
    BY DEF Init, SemaphoreInv, Sources, Held
  <1>2. TypeInv /\ SemaphoreInv => PermitComesBack
    <2> SUFFICES ASSUME permits \in Nat, Sources >= 1
                 PROVE  \/ permits > 0 \/ timer \in {"open", "closing"} \/ ui = "closing"
                        \/ (device = "opening" /\ reach)
      BY DEF TypeInv, TypeOK, SemaphoreInv, PermitComesBack
    <2> QED
      BY DEF Sources, Held
  <1>3. TypeInv /\ TypeInv' /\ SceneInv /\ SemaphoreInv /\ [Next]_vars => SemaphoreInv'
    BY SemaphoreStep
  <1>4. QED
    BY <1>1, <1>2, <1>3, SceneAlways, Always, PTL DEF Spec

\* The user can leave at any time, as far as a state can tell: the permit that onPause
\* waits for comes back, and what it has closed is not opened again (onPause, openCamera,
\* onOpened, closeCamera).
THEOREM UserCanLeave == Spec => []CanLeave
  BY PausedClosed, PermitReturns, PTL DEF CanLeave

-------------------------------------------------------------------------------
\* What may have ended the process.
Excused == stray \/ twice \/ crossed

\* Until a refused request is answered no more than one request is flying, that of the
\* picture of this round, into the reader of the moment: whoever closes the camera has
\* it and makes it forget the request.  Unless a capture has failed whose image may
\* come, the image finds a request in the queue, and what the background thread has
\* heard of is in its reader.
FlyingInv ==
  /\ crashed => Excused
  /\ ~twice => \A r \in Requests : flying[r] # {} =>
       /\ r = mRequestCounter /\ stills # 0 /\ timer \in {"close", "closing"}
       /\ device = "open" /\ mCameraDevice /\ source[r] = mJpegImageReader
  /\ ~twice /\ ~stray => \A r \in Requests : "image" \in flying[r] =>
       r \in mJpegResultQueue /\ builder[r].image = 0 /\ heard.what # "image"
  /\ ~twice /\ ~stray /\ heard.what = "image" =>
       mJpegResultQueue # {} /\ heard.reader = source[heard.request]

LEMMA FlyingStep ==
  ASSUME TypeInv, PictureInv, SceneInv, FlyingInv, [Next]_vars
  PROVE  FlyingInv'
  <1> USE DEF threads, camera, state, readers, pictures, history, Excused
  <1>1. /\ crossed \in BOOLEAN /\ crashed \in BOOLEAN
        /\ stray \in BOOLEAN /\ twice \in BOOLEAN
    BY DEF TypeInv, TypeOK
  <1>2. ASSUME ~twice => \A r \in Requests : flying'[r] = {},
               crashed' => Excused',
               UNCHANGED <<source, mJpegResultQueue, heard, stray, twice>>
        PROVE  FlyingInv'
    BY <1>2 DEF FlyingInv
  <1>3. ASSUME UNCHANGED <<crashed, device, mCameraDevice, mRequestCounter, stills, source,
                           mJpegImageReader, mJpegResultQueue, builder, flying, heard,
                           stray, twice>>,
               timer' = timer \/ timer' \in {"close", "closing"},
               crossed => crossed'
        PROVE  FlyingInv'
    BY <1>3 DEF FlyingInv
  <1>4. CASE Begins \/ SetUpCameraOutputs \/ TryAcquire \/ OpenCamera
    <2>1. timer \in {"idle", "setup", "acquire", "open"}
      BY <1>4 DEF Begins, SetUpCameraOutputs, TryAcquire, OpenCamera, At
    <2>2. ~twice => \A r \in Requests : flying[r] = {}
      BY <2>1 DEF FlyingInv
    <2>3. UNCHANGED <<flying, source, mJpegResultQueue, heard, stray, twice>>
      BY <1>4 DEF Begins, SetUpCameraOutputs, TryAcquire, OpenCamera
    <2>4. crashed' => Excused'
      <3>1. CASE SetUpCameraOutputs
        BY <3>1 DEF SetUpCameraOutputs, At, SceneInv
      <3>2. CASE Begins \/ TryAcquire \/ OpenCamera
        <4>1. UNCHANGED <<crashed, stray, twice>>
          BY <3>2 DEF Begins, TryAcquire, OpenCamera
        <4>2. crossed => crossed'
          BY <1>1, <3>2 DEF Begins, TryAcquire, OpenCamera
        <4>3. QED
          BY <4>1, <4>2 DEF FlyingInv
      <3>3. QED
        BY <1>4, <3>1, <3>2
    <2>5. QED
      BY <1>2, <2>2, <2>3, <2>4
  <1>5. CASE UNCHANGED vars \/ TakePicture \/ RoundAcquires
    BY <1>3, <1>5 DEF vars, TakePicture, RoundAcquires
  <1>6. CASE Leaves \/ LeavingAcquires \/ ThreadEnds \/ Returns \/ Configured \/ Saves
    BY <1>1, <1>3, <1>6 DEF Leaves, LeavingAcquires, ThreadEnds, Returns, Configured, Saves
  <1>7. CASE RoundCloses \/ LeavingCloses
    <2>1. /\ CloseCamera
          /\ UNCHANGED <<crashed, crossed, source, mJpegResultQueue, heard, stray, twice>>
      BY <1>7 DEF RoundCloses, LeavingCloses
    <2>2. ~twice => \A r \in Requests : flying'[r] = {}
      BY <2>1 DEF CloseCamera, CloseDevice, FlyingInv
    <2>3. QED
      BY <1>2, <2>1, <2>2 DEF FlyingInv
  <1>8. CASE Opened \/ AnswerLost
    <2>1. /\ device = "opening"
          /\ UNCHANGED <<crashed, crossed, flying, source, mJpegResultQueue, heard, stray, twice>>
      BY <1>8 DEF Opened, Answers, AnswerLost
    <2>2. ~twice => \A r \in Requests : flying[r] = {}
      BY <2>1 DEF FlyingInv
    <2>3. QED
      BY <1>2, <2>1, <2>2 DEF FlyingInv
  <1>9. CASE OpenFails \/ DeviceFails
    <2>1. /\ flying' = [r \in Requests |-> {}]
          /\ UNCHANGED <<crashed, crossed, source, mJpegResultQueue, heard, stray, twice>>
      BY <1>9 DEF OpenFails, DeviceFails, GivesUp
    <2>2. QED
      BY <1>2, <2>1 DEF FlyingInv
  <1>10. CASE RefusalComes
    BY <1>10 DEF RefusalComes, FlyingInv
  <1>11. CASE Process
    <2>1. mPendingUserCaptures = 1 /\ stills = 0
      BY <1>11 DEF Process, PictureInv, TypeInv, TypeOK
    <2>2. timer \in {"close", "closing"}
      BY <2>1 DEF PictureInv, TypeInv, TypeOK
    <2>3. ~twice => \A r \in Requests : flying[r] = {}
      BY <2>1 DEF FlyingInv
    <2>4. device = "open" /\ (~twice => mCameraDevice)
      BY <1>11 DEF Process, Listens, SceneInv
    <2>5. /\ heard = Nothing /\ mRequestCounter' = mRequestCounter + 1 /\ stills' = 1
          /\ UNCHANGED <<timer, device, mCameraDevice, crashed, crossed, heard,
                         mJpegImageReader, stray, twice>>
      BY <1>11, <2>1 DEF Process, Listens, TypeInv, TypeOK
    <2>6. mRequestCounter + 1 .. mRequestCounter + mPendingUserCaptures = {mRequestCounter'}
      BY <2>1, <2>5 DEF TypeInv, TypeOK
    <2>7. PICK joined \in SUBSET (mRequestCounter + 1 .. mRequestCounter + mPendingUserCaptures) :
          \E taken \in SUBSET joined :
            /\ mJpegResultQueue' = mJpegResultQueue \cup joined
            /\ builder' = [r \in Requests |->
                 IF r \in joined THEN [file |-> FALSE, result |-> FALSE, image |-> 0, reader |-> 0]
                 ELSE builder[r]]
            /\ source' = [r \in Requests |->
                           IF r \in taken THEN mJpegImageReader ELSE source[r]]
            /\ flying' = [r \in Requests |->
                           IF r \in taken THEN Callbacks ELSE flying[r]]
      BY <1>11 DEF Process, CaptureStill
    <2>8. PICK taken \in SUBSET joined :
            /\ mJpegResultQueue' = mJpegResultQueue \cup joined
            /\ builder' = [r \in Requests |->
                 IF r \in joined THEN [file |-> FALSE, result |-> FALSE, image |-> 0, reader |-> 0]
                 ELSE builder[r]]
            /\ source' = [r \in Requests |->
                           IF r \in taken THEN mJpegImageReader ELSE source[r]]
            /\ flying' = [r \in Requests |->
                           IF r \in taken THEN Callbacks ELSE flying[r]]
      BY <2>7
    <2>9. ~twice => \A r \in Requests : flying'[r] # {} => r \in taken
      BY <2>3, <2>8
    <2>10. ASSUME NEW r \in Requests, r \in taken
           PROVE  /\ r = mRequestCounter' /\ r \in mJpegResultQueue' /\ builder'[r].image = 0
                  /\ source'[r] = mJpegImageReader'
      BY <2>5, <2>6, <2>8, <2>10
    <2>11. heard'.what # "image" /\ (crashed' => Excused')
      BY <2>5 DEF Nothing, FlyingInv
    <2>12. ASSUME ~twice'
           PROVE  \A r \in Requests : flying'[r] # {} =>
                    /\ r = mRequestCounter' /\ stills' # 0 /\ timer' \in {"close", "closing"}
                    /\ device' = "open" /\ mCameraDevice' /\ source'[r] = mJpegImageReader'
                    /\ r \in mJpegResultQueue' /\ builder'[r].image = 0
      BY <2>2, <2>4, <2>5, <2>9, <2>10, <2>12
    <2>13. QED
      BY <2>11, <2>12 DEF FlyingInv
  <1>12. ASSUME NEW r \in Requests, Capture(r)
         PROVE  /\ heard = Nothing /\ flying[r] # {} /\ flying'[r] \subseteq flying[r]
                /\ \A q \in Requests \ {r} : flying'[q] = flying[q]
                /\ UNCHANGED <<timer, device, mCameraDevice, crashed, crossed, mRequestCounter,
                               stills, source, mJpegImageReader, twice>>
                /\ stray => stray'
    <2>1. heard = Nothing /\ flying[r] # {}
      BY <1>12 DEF Capture, CaptureStarted, ResultAvailable, ImageAvailable, WaitsWith,
                   CaptureFailed, Delivers, Listens
    <2>2. /\ flying'[r] \subseteq flying[r]
          /\ \A q \in Requests \ {r} : flying'[q] = flying[q]
      BY <1>12 DEF Capture, CaptureStarted, ResultAvailable, ImageAvailable, WaitsWith,
                   CaptureFailed, Delivers, TypeInv, TypeOK
    <2>3. UNCHANGED <<timer, device, mCameraDevice, crashed, crossed, mRequestCounter, stills,
                      source, mJpegImageReader, twice>>
      BY <1>12 DEF Capture, CaptureStarted, ResultAvailable, ImageAvailable, WaitsWith,
                   CaptureFailed
    <2>4. stray => stray'
      BY <1>1, <1>12 DEF Capture, CaptureStarted, ResultAvailable, ImageAvailable, WaitsWith,
                         CaptureFailed
    <2>5. QED
      BY <2>1, <2>2, <2>3, <2>4
  <1>13. ASSUME NEW r \in Requests, Capture(r),
                ~twice /\ ~stray' => \A q \in Requests : "image" \in flying'[q] =>
                  q \in mJpegResultQueue' /\ builder'[q].image = 0 /\ heard'.what # "image",
                ~twice /\ ~stray' /\ heard'.what = "image" =>
                  mJpegResultQueue' # {} /\ heard'.reader = source[heard'.request]
         PROVE  FlyingInv'
    <2>1. crashed' => Excused'
      BY <1>12, <1>13 DEF FlyingInv
    <2>2. ~twice' => \A q \in Requests : flying'[q] # {} =>
            /\ q = mRequestCounter' /\ stills' # 0 /\ timer' \in {"close", "closing"}
            /\ device' = "open" /\ mCameraDevice' /\ source'[q] = mJpegImageReader'
      <3>1. \A q \in Requests : flying'[q] # {} => flying[q] # {}
        BY <1>12, <1>13
      <3>2. QED
        BY <1>12, <1>13, <3>1 DEF FlyingInv
    <2>3. UNCHANGED <<source, twice>>
      BY <1>12, <1>13
    <2>4. QED
      BY <1>13, <2>1, <2>2, <2>3 DEF FlyingInv
  <1>14. ASSUME NEW r \in Requests, CaptureStarted(r) \/ ResultAvailable(r) PROVE FlyingInv'
    <2>1. /\ \A q \in Requests : flying'[q] \subseteq flying[q]
          /\ heard'.what # "image" /\ UNCHANGED <<stray, mJpegResultQueue>>
          /\ heard.what # "image"
      BY <1>12, <1>14 DEF Capture, CaptureStarted, ResultAvailable, WaitsWith, Delivers, Listens,
                          Nothing
    <2>2. \A q \in Requests : builder'[q].image = builder[q].image
      <3>1. CASE CaptureStarted(r)
        BY <3>1 DEF CaptureStarted, TypeInv, TypeOK, Builders
      <3>2. CASE ResultAvailable(r)
        BY <3>2 DEF ResultAvailable, WaitsWith
      <3>3. QED
        BY <1>14, <3>1, <3>2
    <2>3. QED
      BY <1>13, <1>14, <2>1, <2>2 DEF Capture, FlyingInv
  <1>15. ASSUME NEW r \in Requests, CaptureFailed(r) PROVE FlyingInv'
    <2>1. PICK owed \in SUBSET ({"image"} \cap flying[r]) :
            flying' = [flying EXCEPT ![r] = owed] /\ stray' = (stray \/ owed # {})
      BY <1>15 DEF CaptureFailed
    <2>2. /\ heard = Nothing /\ heard' = heard /\ builder' = builder
          /\ mJpegResultQueue' = mJpegResultQueue \ {r}
      BY <1>15 DEF CaptureFailed, Listens
    <2>3. ~stray' => ~stray /\ flying'[r] = {}
      BY <2>1 DEF TypeInv, TypeOK
    <2>4. \A q \in Requests \ {r} : flying'[q] = flying[q]
      BY <2>1 DEF TypeInv, TypeOK
    <2>5. heard.what # "image" /\ heard'.what # "image"
      BY <2>2 DEF Nothing
    <2>6. ~twice /\ ~stray' => \A q \in Requests : "image" \in flying'[q] =>
            q \in mJpegResultQueue' /\ builder'[q].image = 0 /\ heard'.what # "image"
      BY <2>2, <2>3, <2>4, <2>5 DEF FlyingInv
    <2>7. QED
      BY <1>13, <1>15, <2>5, <2>6 DEF Capture
  <1>16. ASSUME NEW r \in Requests, ImageAvailable(r) PROVE FlyingInv'
    <2>1. /\ "image" \in flying[r] /\ flying' = [flying EXCEPT ![r] = @ \ {"image"}]
          /\ heard' = [what |-> "image", request |-> r, reader |-> mJpegImageReader]
          /\ UNCHANGED <<mJpegResultQueue, builder, stray>>
      BY <1>16 DEF ImageAvailable, WaitsWith, Delivers
    <2>2. ~twice /\ ~stray => r \in mJpegResultQueue /\ source[r] = mJpegImageReader
      BY <2>1 DEF FlyingInv
    <2>3. ~twice => \A q \in Requests : flying[q] # {} => q = r
      BY <2>1 DEF FlyingInv
    <2>4. \A q \in Requests : flying'[q] = IF q = r THEN flying[q] \ {"image"} ELSE flying[q]
      BY <2>1 DEF TypeInv, TypeOK
    <2>5. ~twice => \A q \in Requests : "image" \notin flying'[q]
      BY <2>3, <2>4
    <2>6. heard'.request = r /\ heard'.reader = mJpegImageReader
      BY <2>1
    <2>7. QED
      BY <1>13, <1>16, <2>1, <2>2, <2>5, <2>6 DEF Capture
  <1>17. CASE CaptureCompleted
    <2> DEFINE r == heard.request
               b == [builder[r] EXCEPT !.result = TRUE]
    <2>1. /\ heard.what # "image" /\ heard' = Nothing
          /\ UNCHANGED <<timer, device, mCameraDevice, mRequestCounter, stills, source, crashed,
                         mJpegImageReader, flying, crossed, stray, twice>>
      BY <1>17 DEF CaptureCompleted
    <2>2. r \in Requests
      BY <1>17 DEF CaptureCompleted, TypeInv, TypeOK, Heard, Nothing
    <2>3. \/ r \in mJpegResultQueue /\ HandleCompletion(r, b)
          \/ UNCHANGED <<builder, mJpegResultQueue, savers>>
      BY <1>17 DEF CaptureCompleted
    <2> HIDE DEF r
    <2>4. ASSUME NEW q \in Requests, q \in mJpegResultQueue, builder[q].image = 0
          PROVE  q \in mJpegResultQueue' /\ builder'[q].image = 0
      <3>1. CASE UNCHANGED <<builder, mJpegResultQueue, savers>>
        BY <2>4, <3>1
      <3>2. CASE HandleCompletion(r, b) /\ q # r
        <4>1. builder'[q] = builder[q] /\ q \in mJpegResultQueue'
          BY <2>2, <2>4, <3>2 DEF HandleCompletion, TypeInv, TypeOK
        <4>2. QED
          BY <2>4, <4>1
      <3>3. CASE HandleCompletion(r, b) /\ q = r
        <4>1. b.image = 0
          BY <2>2, <2>4, <3>3 DEF TypeInv, TypeOK, Builders
        <4>2. builder'[r] = b
          BY <2>2, <3>3 DEF HandleCompletion, TypeInv, TypeOK
        <4> HIDE DEF b
        <4>3. QED
          BY <2>4, <3>3, <4>1, <4>2 DEF HandleCompletion, IsComplete
      <3>4. QED
        BY <2>3, <3>1, <3>2, <3>3
    <2>5. heard'.what # "image"
      BY <2>1 DEF Nothing
    <2> HIDE DEF b
    <2>6. QED
      BY <2>1, <2>4, <2>5 DEF FlyingInv
  <1>18. CASE DequeueAndSaveImage
    <2>1. /\ heard.what = "image" /\ heard' = Nothing
          /\ UNCHANGED <<timer, device, mCameraDevice, mRequestCounter, stills, source,
                         mJpegImageReader, flying, crossed, stray, twice>>
      BY <1>18 DEF DequeueAndSaveImage
    <2>2. ~twice /\ ~stray => mJpegResultQueue # {} /\ heard.reader = source[heard.request]
      BY <2>1 DEF FlyingInv
    <2>3. \/ crashed' = (heard.reader # source[heard.request])
          \/ crashed' = (mJpegResultQueue = {})
      BY <1>18 DEF DequeueAndSaveImage
    <2>4. crashed' => Excused'
      BY <2>1, <2>2, <2>3
    <2>5. ~twice /\ ~stray => \A q \in Requests : "image" \notin flying[q]
      BY <2>1 DEF FlyingInv
    <2>6. heard'.what # "image"
      BY <2>1 DEF Nothing
    <2>7. QED
      BY <2>1, <2>4, <2>5, <2>6 DEF FlyingInv
  <1>19. QED
    BY <1>4, <1>5, <1>6, <1>7, <1>8, <1>9, <1>10, <1>11, <1>14, <1>15, <1>16, <1>17, <1>18
       DEF Next, TestOnce, OnPause, Opening, Capture, Locked

\* Unless a capture fails whose image still comes, a refused request is answered too, or a
\* user leaves in the instant in which a round begins, no image meets an empty queue or a
\* reader it is not in, however often an open camera fails, and with what is proved of the
\* readers every image is saved from one that is open (onImageAvailable, onCaptureFailed,
\* dequeueAndSaveImage, captureStillPictureLocked).
THEOREM ImagesSavedSafely == Spec => []SavesSafely
  <1>1. Init => FlyingInv
    BY DEF Init, FlyingInv, Nothing
  <1>2. TypeInv /\ PictureInv /\ SceneInv /\ FlyingInv /\ [Next]_vars => FlyingInv'
    BY FlyingStep
  <1>3. FlyingInv /\ OpenWhileSaving => SavesSafely
    BY DEF FlyingInv, Excused, SavesSafely, NeverCrashes
  <1>4. QED
    BY <1>1, <1>2, <1>3, SceneAlways, Always, ReadersStayOpen, PTL DEF Spec
===============================================================================
