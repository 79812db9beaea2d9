CONSTANTS
  c1 = c1
  c2 = c2
  NoConn = NoConn
  Conns = {c1}
  MaxClients = 2
  FrameUnits = 1
  BadFrame <- AllValid
  MaxUnits <- OneUnit
  Endless = {}
  Capacity = 3
  RecvUnits = 2
  MaxInput = 8
  CompactAt = 2
  PauseFrames = 2
  ResumeFrames = 1
  MaxEvents = 64
  IpcBatch = 2
  StoreBatch = 3
  Faults = {}
  Signals = {"stop", "kill"}
SPECIFICATION FairSpec
PROPERTIES ReaderLossEnds
CHECK_DEADLOCK FALSE
