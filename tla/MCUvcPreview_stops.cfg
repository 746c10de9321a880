\* Two starts, or one start and a change of the callback or the window while the
\* preview runs.
CONSTANTS
  MaxCalls = 2
  MaxFrames = 2
  MAX_FRAME = 2
  Callbacks = {k}
  Windows = {w}
  None = None
SPECIFICATION Spec
INVARIANTS TypeOK EachFrameOnce NothingLeft NobodyForgotten
PROPERTY CallsEnd
CHECK_DEADLOCK FALSE
