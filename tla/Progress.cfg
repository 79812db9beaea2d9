CONSTANTS
  c1 = c1
  c2 = c2
  NoConn = NoConn
  Conns = {c1, c2}
  MaxClients = 3
  FrameUnits = 1
  BadFrame <- AllValid
  MaxUnits <- TwoAndNone
  Endless = {c1}
  Capacity = 2
  RecvUnits = 1
  MaxInput = 8
  CompactAt = 2
  PauseFrames = 2
  ResumeFrames = 0
  MaxEvents = 64
  IpcBatch = 2
  StoreBatch = 2
  Faults = {}
  Signals = {}
SPECIFICATION FairSpec
PROPERTIES EventuallyStored HangupsServed
