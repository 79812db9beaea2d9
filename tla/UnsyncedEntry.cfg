CONSTANTS
  FrameUnits = 2
  MaxSegment = 4
  SyncIntervals = {3}
  InitialSizes = {0}
  MaxBatch = 1
  MaxOffered = 1
  MaxStarts = 2
SPECIFICATION Spec
INVARIANTS SyncSurvives
CHECK_DEADLOCK FALSE
