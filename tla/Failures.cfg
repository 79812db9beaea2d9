CONSTANTS
  c1 = c1
  c2 = c2
  NoConn = NoConn
  Conns = {c1}
  MaxClients = 2
  FrameUnits = 1
  BadFrame <- AllValid
  MaxUnits <- TwoUnits
  Endless = {}
  Capacity = 1
  RecvUnits = 2
  MaxInput = 8
  CompactAt = 2
  PauseFrames = 1
  ResumeFrames = 0
  MaxEvents = 64
  IpcBatch = 2
  StoreBatch = 2
  Faults = {"store", "eventfd", "start", "epoll", "accept", "reset", "waitpid"}
  Signals = {"term", "kill", "kill main"}
SPECIFICATION FairSpec
INVARIANTS SuccessMeansStored
PROPERTIES PauseEnds ReaderLossEnds ShutdownEnds AnnouncedStored FullRingIsFatal ImplementsChannel ImplementsService
