CONSTANT Repeat = 2
SPECIFICATION FairSpec
INVARIANTS TypeOK CleanExit SuccessMeansMeasured
PROPERTY ProfilerEnds
