CONSTANTS
  Capacity = 3
  Laps = 2
  MaxBatch = 3
  MaxFrames = 8
SPECIFICATION Spec
INVARIANTS TypeOK NoSlotRace InOrder ProducerEstimate EofComplete
PROPERTY ImplementsChannel
