----------------------------- MODULE StoreConfig -----------------------------
(* The settings of a FileStore and what it demands of them.                *)
EXTENDS Integers

CONSTANT FrameUnits      \* kFrameSize

(* validateConfig()                                                        *)
ValidConfig(maxSegment, syncEvery) ==
  /\ maxSegment >= FrameUnits
  /\ maxSegment % FrameUnits = 0
  /\ syncEvery # 0 => syncEvery <= maxSegment
=============================================================================
