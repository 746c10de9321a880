# AndroidStressTest: models, checks and proofs

AndroidStressTest is an app that tests a device until it fails: it loads the CPU
and the memory, plays video and audio, switches radios on and off, puts the
device to sleep and wakes it, reboots it, shuts it down and resets it to its
factory state, and counts what goes wrong. A wrong count, a run that stops by
itself or a test that leaves the device changed makes the result worthless, and
a test that restarts the device cannot be watched by a unit test. This directory
holds TLA+ models of that logic, what TLC shows of them on small instances and
what TLAPS proves of them for every value of the constants.

The models are written from the source under `src/`; `app` below stands for
`src/app/src/main/java/com/ayst/stresstest` and `jni` for
`src/libuvccamera/src/main/jni`. `PROJECT.json` maps each definition
to the lines it models.

## 1. The system

| part | state | operations | talks to |
|---|---|---|---|
| Screen, `app/ui/MainActivity`, `app/test/base/BaseTestFragment` | 15 fragments, each with `mState`, `isAvailable`, a result; the mutex table | start and stop with their dialogs, `onFragmentInteraction`, `setAvailable`, `update`, exit | all fragments, by messages of the main looper |
| Tests counted on a timer: airplane mode, Wifi, Bluetooth, network (`BaseCountTestWithTimerFragment`) | counters, a `java.util.Timer`, a receiver, the radio | `start`, `testOnce`, `next`, `stop` | main thread against timer thread |
| Reboot and timing boot test, `RebootReceiver` | counters, eight `SharedPreferences` | `start`, `check`, countdown, `saveState`, `cleanState`, `stop` | the system: shutdown, boot broadcast |
| Recovery test, `WorkService` | counters, a file that outlives the reset, the extras of an intent | the same with a file; the service's command | the recovery system, the worker thread of the service |
| Sleep test | counters, an alarm, a wake lock, the screen timeout | `start`, `onReceive`, the network check, `stop` | alarm manager, power manager, a worker thread |
| Tests that run for a time: CPU, memory, DDR, video, audio (`BaseTimingTestFragment`) | elapsed time, workers, native blocks, players | `start`, the one-second tick, `stop` | timer thread, workers, a root shell, `MemOpUtils.cpp` |
| Camera test | camera state, a semaphore, pending captures, a counted reader | open, take a picture, close | camera callbacks on a background thread |
| USB camera test | camera, monitor, error flag, two locks | register, connect, capture, release | `USBMonitor`'s thread, timer thread |
| `libuvccamera`, Java side | devices, permissions, control blocks | connect, open, start and stop a preview | USB, the native side |
| Native preview, `jni/UVCCamera/UVCPreview.cpp` | three flags, a queue of frames, a slot, a pool, the callback and the window | `startPreview`, `stopPreview`, `setFrameCallback`, `setCaptureDisplay` | the app's threads, libuvc's, a preview thread, a capture thread for each start |
| Video stream of libuvc, `jni/libuvc/src/stream.c` | transfers, two frame buffers with their sequence numbers and errors, the flag `running` | start, the answer to a transfer, the user's thread, stop and close | libusb's event thread, the callback of `UVCPreview` |
| `usbCameraCommon` | encoder threads, a muxer | record | not used by the app but for a file name |
| log service, utilities, widgets, third-party libraries | – | – | – |

What makes them correct, and what is hard about it:

* **Screen.** Tests that exclude each other must not run together; a running
  test can be stopped; no start button stays off for ever. The difficulty:
  a fragment starts at once but the activity hears of it by a message, a
  click and its repaint are messages too, and nothing is looked at again when a
  dialog is answered.
* **Counted tests.** As many tests as asked for, nothing left behind, and no
  failure but a real one. The difficulty: `cancel()` does not wait for a task
  that has begun, so that two threads run `stop()` and `next()`.
* **Tests that restart the device.** The run goes on after the restart, with its
  target, its count and its failures, and a run that was stopped does not come
  back. The difficulty: the power may fail between any two writes, `onStart` is
  also called when the user just comes back to the app, and countdown messages
  outlive the run that sent them.
* **Recovery.** The same, with a file that is deleted before it is written and a
  service that has to be told.
* **Sleep.** Timeout, lock and alarm are given back at every end, a sleeping
  device is woken, and a round is judged by its own check of the network. The
  difficulty: that check waits for DNS on a thread of its own.
* **Camera.** Nothing stays open behind the user, no image is freed while it is
  saved, each round takes its one picture. The difficulty: three threads meet in a
  semaphore that is given back in places where it was not taken, and result, image and file
  name of a picture come in any order, or not at all.
* **Video stream.** A frame that is handed over is never
  mixed with its neighbour, and the user never goes back in time; closing ends the threads
  before it frees what they use. The difficulty: `running` and the error of the
  frame are looked at without the lock, packets are lost, the camera is
  unplugged between any two answers, and the start may fail half way.
* **Native preview.** A stop leaves no thread behind and ends, frames are neither
  lost nor recycled twice and keep their order. The difficulty: five threads and
  three mutexes, flags that are read without any of them, signals that nobody
  waits for yet, and a flag the constructor does not set.
* **The others** are listed with their hazards in `PROJECT.json` and planned below.

## 2. Modules

| module | what it is |
|---|---|
| `MutexTable` | the table of `MainActivity.initView` as a function |
| `TestBoard` | the screen, for any set of tests and any table |
| `CountTimerTest` | one of the four counted tests, with its dialogs, timers, receiver and radio |
| `SurvivingRun` | abstract: a run that aims at one goal over all restarts, never advances by more than one round and does not come back when it is over |
| `BootTest` | reboot and timing boot test with their preferences and the device; implements `SurvivingRun` |
| `RecoveryTest` | recovery test, its file, `WorkService` and the device; implements `SurvivingRun` |
| `SleepTest` | the sleep test with the alarm, the broadcasts and the network check |
| `CameraTest` | `testOnce()` of the camera test: opening, capturing and closing on three threads |
| `LatestFrame` | abstract: a relay that hands over the newest of the frames made so far and never goes back |
| `UvcStream` | one video stream of libuvc on the event thread, the user's thread and the closing thread; implements `LatestFrame` |
| `UvcPreview` | the native preview: queue, slot, preview thread, capture threads and the app's calls |
| `*_proofs` | the theorems of the module they are named for |
| `MC*` | the instances TLC checks; each has one `.cfg` for each question |

`TestBoard` composes the fragments through what they share: `start`, `stop` and the
messages. The other modules look at one fragment each and the system under it.
The mutex table allows two counted tests at once, but they share no state.
`UvcStream` and `UvcPreview` meet in one call, the callback with a frame: for
`UvcPreview` it is `FrameComes`, which brings frames in the order that
`UvcStream` is shown to keep (`Relays`); for `UvcStream` it is `CallUser`.

### How state and actions correspond to the code

Variables bear the names of the fields. One action is one run of a handler on
its thread, up to the next point where another thread, a message or a power
failure can come between:

* `TestBoard`: `Tap` is the click the view system posts, `OnStartClicked` its
  handling, `ConfirmTarget`/`ConfirmStop` the buttons of the dialogs, `OnRunning` and
  `OnStop` the two branches of `onFragmentInteraction`, `UpdateImpl` the repaint,
  `OnStart`…`Launch` the life of the activity. `queue` is the main looper's queue of
  clicks and interactions, `dirty` its `MSG_UPDATE`s, which commute.
* `CountTimerTest`: `start()` and `stop()` are two actions each, for the timer thread
  sees the state between what the subclass does and what `BaseTestFragment` does;
  a timer task is `Fire`, `Test`, `ReadCount`, `WriteCount`, `NextStops`, `Halt`, because
  `mCurrentCount++` is not atomic. The radio settles later, but for the airplane
  mode, which is a setting.
* `BootTest`: the looper's countdown messages are counted (`ready`, `later`), one
  `Tick` is a second, each `Commit` is one `SharedPreferences` commit and `Cut` the
  power failure between any two of them. `job` and `step` stand for the rest of the
  handler that is under way. Of the eight preferences the model keeps the four
  that decide about the run.
* `RecoveryTest`: `Delete` and `Write` are the two halves of `saveState`;
  `Send`, `CheckRecoveryState`, `Launch` are the command, the worker's reading of the file and
  its `startActivity`. Opening the app from the launcher gives no extras. `Delete` may leave the file,
  for nobody looks at its result; `WriteFails` shows the error dialog, `RecoveryFails` is the
  exception of `bootCommand`, which is logged and nothing else.
* `SleepTest`: `events` holds the broadcasts that are under way, which may overtake
  each other; `held` and `leaked` are the lock `mWakeLock` points to and one nothing
  points to any more. Times are left out: what matters is the order of screen,
  alarm and check. `check` says of a check that runs whether it belongs to the round under way or
  to one that is over (`Overtaken`); `result` is what the round's own check has found. `Repaint`
  is the repaint that divides by a target of zero.
* `CameraTest`: what runs under `mCameraStateLock` is one step; the semaphore
  is `permits`. `device` is the camera as the system sees it and `reach` whether its answers
  find a thread that lives; `flying` is what it owes to each request. A capture that fails may have
  an image all the same, a refused open may both throw and call back (`RefusalComes`), and an answer that
  has come may wait for the lock (`heard`) while the camera is closed. `Listens`
  is the background thread between two callbacks; `ImageAvailable` reads the
  field before `DequeueAndSaveImage` has the lock. The periods of the round are left out,
  so that an answer may come at any point of it.
* `UvcStream`: a section under `cb_mutex` is one step, and so is what a thread
  does between two looks at shared state; `ctl`, `ev` and `cb` say where the
  closing thread, the event thread and `_uvc_user_caller` stand. A transfer carries one
  packet, a packet the number of the frame it belongs to, of which the code sees
  one bit (`FidOf`); what a buffer contains is the set of the frames its packets
  came from. After the handle is freed nothing looks at it in the model: the run
  `stream_unplug` shows that the code would. `gone`, `failed` and `shown` are histories.
* `UvcPreview`: a section under `preview_mutex` or `capture_mutex` is one step;
  the field `at` of each thread says where it is between two of them. A frame is
  its number, and buffers are counted (`out`, `lost`). `mHasCaptureThread` is not set by
  the constructor, so that `Init` lets it be either. `late` says that a thread that had
  looked at `mIsRunning` began to wait after the stop had signalled, `early` which starts were
  stopped before the preview thread could say that it had a capture thread.

### What bounds and switches mean

Switches state the conditions under which a property holds, and the run or the
theorem names the one it needs:

* `Patient` (`TestBoard`): one tap at a time, when the looper is idle. `Patient`
  (`BootTest`): no run is started while the check of the last one is due.
* `Calm` (`CountTimerTest`, `SleepTest`): the main thread does not act while a timer
  task, a broadcast or a check is under way, and a dialog is answered while the test is
  still as the dialog found it.
* `CutInStop` (`BootTest`), `FailsInStop` (`RecoveryTest`): the power, and the deletion of the file,
  may fail inside `stop()`, too.
* `Caller`, `Orderly` (`RecoveryTest`): somebody may send `WorkService` its command after
  each start, and he and the user wait for each other. That he does is never assumed: nothing in the
  repository sends the command.

`CameraTest` has no switch but histories. `crossed` says that the user has left in the
instant in which a round begins, or a round has begun as he left; what depends on the
semaphore is promised until that happens. `twice` says that a refused request was answered again by a
callback, `errors` that an open camera has failed: either releases a permit that nobody holds, and
`ClosedWhenPaused` and `NoFalseFailure` are promised until then (`Orderly`). `stray` says that a capture that
had failed has brought an image, `trouble` that a round has a reason to fail.
`UvcStream` and `UvcPreview` have none either: what the code does not keep is named in the
property itself (`gone`, `failed`, `Dropped`; `late`, `early`, `lost`).

Bounds: `MaxPending` (queue), `MaxDialogs`, `MaxStarts`, `MaxTests`, `MaxCuts`, `MaxEntries`,
`MaxErrors`, `MaxTouches`, `MaxRounds`, `MaxLeaves`, `MaxFrames`, `MaxCalls`. `Transfers` is
the set of libuvc's transfers, `MAX_FRAME` the length of the preview's queue. In `UvcStream` the
camera stops after `MaxFrames` frames, in `UvcPreview` the frames from `MaxFrames` on are not
told apart. Every counter is bounded by the target of its run, so that
no run needs a state constraint.

## 3. What the runs check

| run | instance | shows |
|---|---|---|
| `board_patient` | the CPU, Wifi, airplane mode, network and reboot tests: a one-sided row, and one test (CPU) that may fail to start | `MutualExclusion`; `WaysOut`: a running test can be stopped (`StopReachable`) and leaving never crashes (`UserExitNeverCrashes`) |
| `board_impatient` | the Wifi, network and sleep tests, clicks and dialogs overlap | `ButtonsFollow`: opponents of a running test are off (`RunningDisables`), none is off for good (`NoStrandedTest`); `TouchesAreFresh`: a button that takes a touch has an opponent running only if the activity has not heard of it or the repaint is on its way; `Reenabled` under a fair looper |
| `count_tests` | all four tests, targets 0–2, two clicks at once | `HoldsWhileRunning`: a running test has its timer and receiver, a stopped one nothing, and no receiver is given back twice (`GivenBackOnce`); `CountsTests`; `TrueReport`: no failure is invented (`NoFalseFailure`) and the screen shows the run (`Displayed`); `RunEnds` |
| `boot_counts` | both tests, targets 1–3, two power failures | `RoundsKept`: `CountsBoots`, `FailuresKept`, `CheckedBeforeSave`, `FailsOncePerBoot` |
| `boot_survives` | both tests, targets 1 and 2, two power failures, a return to the app, impatient user | `LivesOn`: refinement of `SurvivingRun` (`SurvivesReboots`), and a run that goes on never lies idle (`NeverStalls`); `RunEnds` |
| `recovery_called` | targets 1 and 3, two power failures, a write or a reboot that fails, a return to the app | `RoundsAsAsked`: `CountsResets`, `WipesAsChosen`; `LivesOn`: refinement of `SurvivingRun` (`SurvivesReset`), and a run lies idle only after a failed write or reboot (`NeverStalls`); `EachRoundEnds`: a countdown comes to its reset, a command that finds the run to the next countdown |
| `recovery_resume` | violation of `RunEnds` | what `RebootReceiver` starts never resumes a saved run |
| `sleep_calm` | targets 0, 1 and 3, two dialogs at once | `GivesBack`: `TimeoutRestored`, `LocksBalanced`, `AlarmPending`; `CountsWakes`; `CheckedRounds`: a round that has asked for a check fails exactly if that check, and no other, has not found the network |
| `camera_rounds` | two rounds, the user leaves twice, one failure of an open camera | `SavesSafely`: readers stay open while saving (`OpenWhileSaving`) and no image of a picture that was taken goes astray (`NeverCrashes`); `CanLeave`: a user who leaves gets the permit (`PermitComesBack`) and leaves no camera open (`ClosedWhenPaused`); `OneTruePicture`: one picture in a round (`OnePicture`), and no failure without a reason (`NoFalseFailure`); `RoundsEnd` |
| `stream_frames` | two transfers, three frames, an unplugged camera, any packet lost or broken, failing submissions | `NeighboursApart`: no frame that is handed over has data of its neighbour; `QuietWhenFreed`, `WaitersAreWoken`, refinement of `LatestFrame`, `Ends` |
| `stream_unplug` | violation of `ThreadsHaveDied`, two frames | a stream that ceased to run by itself is freed under the user's thread |
| `preview_stops` | two starts, or a start and a change of the callback or the window; a queue of two | `EachFrameOnce`: no frame is lost or recycled twice (`FramesConserved`), all keep their order (`InOrder`); `NobodyForgotten`, `NothingLeft`, `CallsEnd` |

Each passing run but `board_impatient` and `boot_survives` also checks `TypeOK` of its
component. The two violations are findings; `PROJECT.json` quotes the line of the
repository each contradicts. Three more things came up while modelling. They are
consequences of a table or of a timing and contradict the repository only loosely:

* The row of the network test in `MainActivity` lists the Wifi and the airplane mode test,
  whose rows do not list it: while the Wifi test runs the network test can be started. `MutualExclusion`
  is about tests that list each other.
* `start()` of the reboot test makes the test RUNNING while its dialog "After confirming, the
  system will be restarted" is unanswered: a user who leaves the app and comes back to
  the dialog begins the countdown with `onStart`, and the device is rebooted.
* The camera test's semaphore, "to prevent the app from exiting before closing the
  camera", does not when a round begins as the user leaves (see `Orderly` below).

**Why the bounds are enough.** An exclusion needs two tests, a one-sided row
three, a test that is held back by two others while a fourth frees it five; a queue of three messages holds a click, an
interaction and a second click. A timer that outlives its run needs two starts.
A round that is counted twice, or a save that is torn, needs one power failure,
a mistake in the recovery from it a second one; a target of three has a first,
a middle and a last round. A picture that is left over shows in
the round after it, so that two rounds of the camera test are enough (three have been run
once, without failures of the camera, with the same result). Of a stream's frames the
first is never given to the user, the second may be given while the third is
made; one transfer is answered while the other waits to be submitted. With two
starts of a preview the capture thread of the first may go on beside that of the
second; with a queue of two a frame may be dropped from a full queue. One return to the app gives a second chain of
countdown messages. The theorems below drop all of these bounds.

**Fairness.** The looper delivers its messages and the seconds pass (`Handler`);
`Timer` threads and workers run; a radio that is asked to change settles; the
system does what it was asked for (a shutdown, a reset, an alarm, a boot of a
device that is off); nobody is asked to send `WorkService` its command, so that `EachRoundEnds` begins again with
each command that comes;
the camera is opened or refused when it was asked for, but need not take a picture. libusb answers each transfer within its timeout, again and
again (`SF` for each transfer); the threads of libuvc and of the preview run, the camera goes
on sending while it is there, and not every frame fails to be converted (`SF` of
`AddCaptureFrame`). Nothing is asked of
the user: a dialog may stay open for ever, and `RunEnds` of the boot and recovery tests
therefore begins with the countdown. Deadlock is checked except where a test
may rest for good (`CHECK_DEADLOCK FALSE`: `CountTimerTest`,
`CameraTest`, `UvcStream` and `UvcPreview`, whose starts, rounds and frames are bounded,
and `SleepTest`, whose process may be ended by an
exception).

**Where the switches bite**, found by running the same properties without them:

* `BootTest` with `CutInStop` and two power failures: `SurvivesReboots` fails. `stop()` saves eight
  preferences one by one, and one that is torn resumes a run that was stopped. For the
  timing boot test a shutdown inside `stop()` and one failure suffice.
* `BootTest` with returns to the app: of `RoundsKept`, `CheckedBeforeSave` fails and the count is
  one too high; without `Patient`, `FailsOncePerBoot` fails, for two checks mark the same failure.
* `RecoveryTest` with `FailsInStop`, or without `Orderly`: `SurvivesReset` fails.
  `WipesAsChosen` says nothing of a run during which the user comes
  back to the app: then the countdown of a run that is still being asked about goes on.
* `CountTimerTest` without `Calm`: the receiver is given back twice and the process
  ends, a lost timer goes on for ever (both `HoldsWhileRunning`), a test is counted twice or not at
  all (`CountsTests`). With or without it the repaint divides by a target of zero (`ConfirmNothing`,
  `UpdateImpl`); no property says otherwise.
* `TestBoard` without `Patient`: two start buttons touched before the looper answers
  (two fingers are enough) both open their dialog, and `MutualExclusion` fails.
* `CameraTest` without `~crossed`: a camera stays open or is being opened behind the user
  (`ClosedWhenPaused`), a round that has lost its permit never ends (`PermitComesBack`,
  `RoundsEnd`), and a reader made without a background thread throws (`SavesSafely`).
* `CameraTest` without `errors = 0`: `onError` of an open camera releases a permit that nobody
  had acquired, from then on there are two, and `closeCamera` of `onPause` no
  longer waits for the camera that is being opened: `ClosedWhenPaused` and `NoFalseFailure` fail.
  `PermitComesBack`, `SavesSafely` and `RoundsEnd` do not need it. Without `~twice` it is the same: `openCamera` has
  released the permit in its catch clause, and `onError` or `onDisconnected` of the same refusal releases another.
* `CameraTest` without `stray` or `twice` in `NeverCrashes`: the image of a capture that has failed finds
  no request (`dequeueAndSaveImage`), nor does the one of a camera that was forgotten with its refusal.
* `SleepTest` without `Calm`: a second start releases a lock that is not held and
  loses the user's timeout; an alarm that is on its way at the stop takes a
  second lock, and counts into the run the user has started since (`GivesBack`, `CountsWakes`). A check that is under way when
  the alarm comes answers for the next round (`CheckedRounds`).
* `UvcStream` without the condition on `gone` and `failed`: `QuietWhenFreed` fails, as in
  `stream_unplug`; without the one on `Dropped`, `Ends` fails, for a transfer that could not be
  submitted again is never deleted.
* `UvcPreview` without `late`: `stopPreview` waits for ever for a thread that went to
  sleep after the signal (`CallsEnd`); without `early`, a capture thread outlives the stop
  (`NothingLeft`).

## 4. What is proved

All theorems hold for every value of the constants that the named assumption of
the module allows; the `*_proofs` modules are checked to the last leaf. No
recursion is used in the modules that are proved about.

Every property of a passing run that is not about liveness is the property of a
theorem here. `ASSUME Calm`, `ASSUME Patient` and so on are the switches above.

* **`TestBoard_proofs`**: `TypeCorrect`; `RunningSwitchesOff`, `NobodyStranded` and both together,
  `ButtonsAlwaysFollow`, and `TouchesAlwaysFresh`, for any user; `PatientExclusion`, `PatientStops` and
  `PatientGetsOut` for a patient one.
  Exclusion is not inductive: between `start()` and the message the activity does
  not know of the test. The invariant `IInv` says that at most one
  interaction, click or dialog is then under way (`OneIntent`), that a test that
  is to be started excludes no running one (`IntentClear`), that a running test
  the activity has not heard of has its message in the queue and no other test
  intended (`UnheardClear`), and that buttons agree with availability when nothing
  is to be painted (`Painted`). `NobodyStranded` needs that each test which is
  off has an opponent running or a STOP in the queue that comes after every
  RUNNING of it (`FollowedTail`, `FollowedAppend`). `ExitInv` says how far the activity has gone
  when a fragment is detached, and with it that no message finds it so.
* **`CountTimerTest_proofs`**: `TypeCorrect`; under `Calm`, `CalmLeavesNothing`,
  `CalmEquipped` and both together `CalmHolds`, `CalmCounts`, `CalmFalseFailure`. The invariant
  `Order` says where the one task that may run stands between the start and the stop
  of its run, and with it what the count, the timer and the receiver are at each
  place; `Expecting` relates the Wifi state that the next test must find to the one
  the last one asked for. `ScreenShowsRun` needs no `Calm`: `ShownInv` says that a repaint is
  under way whenever the screen is behind. `CalmTrueReport` joins the two.
* **`BootTest_proofs`**: `TypeCorrect`, `Survives` and `RunsGoOn`, together `RunsLiveOn`, for any user
  and any number of power failures outside `stop()`; `ChecksFirst`, `BootsCounted`, `FailuresSurvive`, `FailsOnce`, together
  `RoundsSurvive`, for a user who does not come back. `Persisted` describes every half-done save and
  clean: what is written so far is, read at the next boot, either the old run or the
  new one or no run; with it every step of a run that lives leaves a message, a commit or a restart
  behind (`GoesOn`). `Chain` says that one chain of countdown messages is
  under way and where the check stands in it; `CountBehind` and `FailBehind` give the
  distance between what the preferences hold and what has happened, which a
  power failure may lengthen by one.
* **`RecoveryTest_proofs`**: `TypeCorrect`; `RunSurvives` and `RunsGoOn`, together `RunsLiveOn`, and
  `RoundsAlwaysAsAsked` for a user
  and a caller who take turns and power that does not fail inside `stop()`. There
  is one run at each time, and it is in one place: `StageInv`, `RunInv` and `CallInv` say what the fragment, the file,
  the command and the extras hold of it at each stage of a round. `CountInv` adds the
  distance between the count and the resets, `WipeInv` that the wipe in each place is the chosen one.
* **`SleepTest_proofs`**: `TypeCorrect` for any user; `CalmGivesBack`, `CalmCountsWakes` and
  `RoundsJudged` under `Calm`, where `CalmInv` says that at most one broadcast is on its
  way, that a running test has one alarm, set or on its way, and that the lock is held when, and
  only when, no test runs; the count is behind the wakes by the alarm that is on its way. `Judged` says that a round's own
  check runs in it or not at all, and that what is left of the check of an earlier run is over before the
  first alarm is received.
* **`CameraTest_proofs`**: `TypeCorrect`; `PicturesTrue`, `PausedClosed`, `PermitReturns`, `UserCanLeave`,
  `ReadersStayOpen` and `ImagesSavedSafely` for any number of rounds, leaves and failures. `TroubleInv` and `PermitInv` follow the one permit of the semaphore: it is free,
  or the Timer thread, the main thread or the camera that was asked to open has
  it, and where it is says what the device does. `ReadersStayOpen` holds even when the semaphore is
  broken: `ReaderInv` says that the count of references is the number of those who use the reader.
  `PermitInv` ends with the first failure of an open camera, for then there are two permits.
  `PermitReturns` holds after any number of them: `SemaphoreInv` counts the permits
  together with those who will release one (`Sources`) and finds one at least, and two while
  `onPause` ends the background thread under a round that opens a camera, whose answer may not be heard. `ImagesSavedSafely` needs
  that one image at most is on its way, into the reader of the moment (`FlyingInv`); both rest on what
  the threads see of the device (`SceneInv`).
* **`UvcStream_proofs`**: `TypeCorrect`, `FramesStayApart`, `RelaysFrames`, `FreedInSilence` and `NobodyForgotten` for any finite set of transfers and any number of frames. Two frames whose numbers differ by
  one differ in the frame id, so that the buffer is swapped between them; the
  number copied under the lock never falls behind the one shown; the closing
  thread leaves its wait only when no transfer is left. `NobodyForgotten` states
  `WaitersAreWoken`; `WakeInv` adds that a transfer that was given back occupies the event
  thread, that all have been submitted once the stream is on, and that a stream does not run
  before its start nor while it is being closed.
* **`UvcPreview_proofs`**: `TypeCorrect`, `StopsWhole`, `FramesKept` and `FramesInOrder`, together
  `FramesFlow`, and `WakeupsKept` for any number of starts, any length of the queue, any callbacks and windows, with every failure.
  `ThreadsInv` says which threads exist at each place of the app's call, `CaptureInv` that a capture thread
  is of the last start, has ended or is among the `early` ones. `HoldsInv` says
  which places hold a frame or a conversion buffer, `LostInv` that each start forgets one frame at most;
  `OrderInv` is the order of the frames with the places between two steps added to it.
  `SleepInv` says that a thread sleeps only on what is empty, and that of the capture threads a
  stop finds asleep one has been woken whose end wakes the others: `pthread_cond_signal`
  wakes one, the end of each loop broadcasts. `WakeupsKept` states `NobodyForgotten`.

The assumptions on constants (`BoardAssumption`, `CountTimerAssumption`, `BootAssumption`,
`RecoveryAssumption`, `SleepAssumption`, `CameraAssumption`, `StreamAssumption`, `PreviewAssumption`) say that bounds are
natural numbers, sets of targets hold natural numbers, the queue has room for a frame, and the
like; TLC evaluates each in the run of its module.

Only model-checked: what is under fairness (`Reenabled`, `RunEnds`, `EachRoundEnds`, `RoundsEnd`, `Ends`,
`CallsEnd`), which TLAPS cannot prove. Behind each of them stands a safety property that
is proved and says that nobody waits for what nobody will do: `NoStrandedTest` behind `Reenabled`; for
`RunEnds` and `EachRoundEnds`, `Equipped` (a running test has its timer) and `NeverStalls` of the boot and of the recovery
test; `PermitComesBack` behind `RoundsEnd`, `WaitersAreWoken` behind `Ends`, `NobodyForgotten`
behind `CallsEnd`. What is left to TLC is that those who have something to do get to do it, and
that it comes to an end. `NeverStalls` of the recovery test takes a run that waits in the file for the command as one
that goes on; `recovery_resume` shows that without a caller the command never comes.

## 5. What is not modelled, and why

* Times in milliseconds, the texts and pictures of the screen, lists of access
  points and Bluetooth devices: no property is about them.
* The fragments that the system restores when it creates the activity again
  (`MainActivity` then adds a second set): depends on the device's configuration.
* The answer of the error dialog of a test that has started a second time.
* Of the sleep test: the `FULL_WAKE_LOCK` that lights the screen for the time of a round
  (`SleepTestFragment.java:248`), which the system takes back when its time is over; it delays the timeout of the
  screen, which may go off at any moment of the model. When the screen goes off before the first alarm of a
  run, or with the box ticked since the last one, a failure is counted or not by what an earlier round left in
  `mNetworkActivate`: the model has that failure, and `CheckedRounds` does not judge it.
* The camera shot in the check of the reboot test: one free outcome.
* Of the camera test: sizes, the transformation of the view, the permissions, and two
  Timers of which each makes its rounds (`CountTimerTest` has what leads to them).
* Of the stream: the negotiation of formats, polling with `uvc_stream_get_frame`, the headers
  of the iSight cameras, frames longer than the buffer, and headers of less than two bytes, whose payload a bulk
  stream appends without comparing the frame id (`stream.c:718`). Transfers of several packets
  are transfers of one: their packets are handled in a loop by one thread.
* Of the preview: pictures, their sizes and conversions, the preview window,
  which is assumed to be there. Waits do not end without a signal, the pool is a
  count, a buffer that is taken and given back within a step does not appear.
  The call into Java is one step: that `setFrameCallback` deletes the callback
  object under it (`UVCPreview.cpp:218`) is a hazard no property covers.
* Third-party code: `libusb`, `libjpeg-turbo`, `rapidjson` and `libuvc` but for its
  stream. It is nearly all of the C and C++ in the repository; the program's own logic is
  Java, and the two native files with state and threads of their own, `stream.c` and
  `UVCPreview.cpp`, are modelled. libusb appears as the answers to transfers.
* The tests that run for a time (CPU, memory, DDR, video, audio). Their
  start and stop as the screen sees them are in `TestBoard`. Hazards that remain: the tick
  of `BaseTimingTestFragment` against the user's stop, the workers of two runs of the CPU test
  (`CPUTestFragment.java:325`), and `MemOpUtils.cpp:40`, where `malloc` and `free` share a counter without a lock.
* The USB camera test and `USBMonitor`: `onDestroy` takes `mSync` and then the
  fragment (`UVCCameraTestFragment.java:147`), other threads take them the other way round.
* The encoders and the muxer of `usbCameraCommon`: the app uses only the name of a file.
  The native pipelines beside `UVCPreview` are compiled and not used.
* Log service, widgets, utilities: no state that a test depends on.

## 6. Plan

Done: `TestBoard`, `CountTimerTest`, `BootTest`, `RecoveryTest`, `SleepTest`, `CameraTest`, `UvcStream`,
`UvcPreview`, each with its proofs.

Left, in this order:

1. `TimingTest` – `BaseTimingTestFragment` with the CPU test: tick against stop, the
   workers of two runs, the reader thread that `stop()` joins.
2. `MemoryTest` – the fill timer of `onStart` and `MemOpUtils`; property: every block is
   freed after the stop.
3. `UvcTest` – the USB camera test with the part of `USBMonitor` it uses: lock order,
   the late connection, the flag that a test reads.
4. `Recorder` – `MediaEncoder` and `MediaMuxerWrapper`: the end of the stream, the wait
   without a condition, the barrier of the muxer against an abstract recorder.

There is one run for each question; a run of a component whose question another
one answers better is given up for a new component.
