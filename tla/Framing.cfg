CONSTANTS
  c1 = c1
  c2 = c2
  NoConn = NoConn
  Conns = {c1, c2}
  MaxClients = 3
  FrameUnits = 2
  BadFrame <- ThirdBad
  MaxUnits <- SixAndTwo
  Endless = {}
  Capacity = 2
  RecvUnits = 3
  MaxInput = 8
  CompactAt = 1
  PauseFrames = 1
  ResumeFrames = 0
  MaxEvents = 2
  IpcBatch = 2
  StoreBatch = 3
  Faults = {}
  Signals = {}
SPECIFICATION Spec
INVARIANTS StreamsIntact InputBounded EpollInSync EventsFresh
PROPERTIES NoFramesDropped
