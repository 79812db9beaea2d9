CONSTANT Repeat = 1
SPECIFICATION Spec
INVARIANT NoOrphans
