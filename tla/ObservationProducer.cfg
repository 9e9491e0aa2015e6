SPECIFICATION FairSpec
CONSTANTS
  Publishers = {"p1", "p2"}
  Sizes = {1, 3}
  CapacityBytes = 2
  CapacityEvents = 2
  MaxPendingLossRanges = 1
  MaxSequence = 4
  MaxFaults = 2
INVARIANTS
  TypeOK
  BytesBalanced
  HonestFrontier
  NothingStranded
  DroppedStaysLost
PROPERTIES
  ImplementsLedger
  EverySequenceSettles
CHECK_DEADLOCK FALSE
