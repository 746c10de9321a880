\* Two frames are enough: the thread that calls the user is under way when the
\* camera is unplugged.
CONSTANTS
  Transfers = {t1, t2}
  MaxFrames = 2
SPECIFICATION Spec
INVARIANT ThreadsHaveDied
CHECK_DEADLOCK FALSE
