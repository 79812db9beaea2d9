CONSTANTS
  Radix = 6
  Magic = 490
  One = 1679615
  MaxFrames = 3
  MaxBatch = 2
  Chunks = {20, 33}
  Wrong = {0, 5}
  MaxAltered = 2
SPECIFICATION Spec
INVARIANTS RecordsArrive EveryByteCounts
