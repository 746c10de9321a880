\* Three frames: the first is never given to the user, the second may be given
\* while the third is made.
CONSTANTS
  Transfers = {t1, t2}
  MaxFrames = 3
SPECIFICATION Spec
INVARIANTS TypeOK NeighboursApart QuietWhenFreed WaitersAreWoken
PROPERTIES Relays Ends
CHECK_DEADLOCK FALSE
