\* Fragments of one unit, as long as the buffer and longer; one failed write,
\* and one deletion that leaves the text visible or hides it.
SPECIFICATION FairSpec
CONSTANTS
  RunBytes = 3
  PendingBytes = 2
  SizeFlushBytes = 2
  Pieces = {1, 2, 3}
  PageSizes = {2}
  MaxCaptured = 4
  MaxFaults = 1
  MaxGeneration = 1
INVARIANTS
  TypeOK
  SegmentIsContiguous
  CursorStaysValid
PROPERTIES
  ImplementsFeed
  EventuallyDrained
CHECK_DEADLOCK FALSE
