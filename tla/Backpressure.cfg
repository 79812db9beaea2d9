CONSTANTS
  c1 = c1
  c2 = c2
  NoConn = NoConn
  Conns = {c1}
  MaxClients = 2
  FrameUnits = 1
  BadFrame <- AllValid
  MaxUnits <- ThreeUnits
  Endless = {}
  Capacity = 2
  RecvUnits = 2
  MaxInput = 8
  CompactAt = 2
  PauseFrames = 1
  ResumeFrames = 0
  MaxEvents = 64
  IpcBatch = 2
  StoreBatch = 3
  Faults = {}
  Signals = {"term", "stop"}
SPECIFICATION Spec
INVARIANTS TypeOK Conserved NeverFull NoSpuriousFailure
