CONSTANTS
  FrameUnits = 2
  MaxSegment = 6
  SyncIntervals = {0, 3}
  InitialSizes = {0, 3, 9}
  MaxBatch = 4
  MaxOffered = 8
  MaxStarts = 3
SPECIFICATION FairSpec
INVARIANTS TypeOK AppendExact SegmentLimit SyncCadence SyncCovers
PROPERTIES ImplementsLog CallsEnd
CHECK_DEADLOCK FALSE
