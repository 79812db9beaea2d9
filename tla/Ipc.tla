-------------------------------- MODULE Ipc --------------------------------
(***************************************************************************)
(* What the server process and the reader process share: the ring, at the  *)
(* level of its calls, and the two eventfds.                               *)
(*                                                                         *)
(* SharedRing shows that the ring is a FrameChannel, so here it is the     *)
(* sequence of the frames ever published and the number of them released.  *)
(* A load of the other side's index may return an old value, no older than *)
(* one already seen.  A notification orders memory: what its sender did    *)
(* before eventfd_write() is visible after the eventfd_read() it wakes.    *)
(***************************************************************************)
EXTENDS Integers, Sequences

CONSTANTS Capacity,      \* capacityFrames
          Faults         \* which groups of system calls may fail

ASSUME IpcAssumption == Capacity \in Nat \ {0}

VARIABLES
  stream,           \* every frame ever published, in order
  tail,             \* how many of them the consumer has released
  tailSeen,         \* newest tail the server has loaded
  headSeen,         \* newest head the reader has loaded
  producerClosed,
  dataReady,        \* head at the last unconsumed notification, or NotSet
  spaceReady        \* tail at the last unconsumed notification, or NotSet

ipcVars == <<stream, tail, tailSeen, headSeen, producerClosed, dataReady, spaceReady>>

NotSet == -1
head == Len(stream)
Larger(a, b) == IF a >= b THEN a ELSE b
Smaller(a, b) == IF a <= b THEN a ELSE b

IpcInit ==
  /\ stream = <<>> /\ tail = 0 /\ tailSeen = 0 /\ headSeen = 0
  /\ producerClosed = FALSE
  /\ dataReady = NotSet /\ spaceReady = NotSet

(* Faulty PushCount: one frame too many.                                   *)
PushCountOffByOne(frames, t) ==
  IF producerClosed THEN 0 ELSE Smaller(Len(frames), Capacity - (head - t) + 1)

(* tryPushBatch(frames) with the tail loaded as t: the longest prefix that *)
(* fits, or nothing once the producer is closed.                           *)
PushCount(frames, t) ==
  IF producerClosed THEN 0 ELSE Smaller(Len(frames), Capacity - (head - t))
TryPushBatch(frames, t) ==
  /\ tailSeen' = t
  /\ stream' = stream \o SubSeq(frames, 1, PushCount(frames, t))

(* tryPopBatch() into a span of n frames with the head loaded as h.        *)
PopCount(n, h) == Smaller(n, h - tail)
TryPopBatch(n, h) ==
  /\ headSeen' = h
  /\ tail' = tail + PopCount(n, h)

(* pendingFrames() called by the server, with the tail loaded as t.        *)
PendingFrames(t) == head - t

CloseProducer == producerClosed' = TRUE

NotifyData == dataReady' = head
NotifySpace == spaceReady' = tail

(* eventfd_read() blocks while the counter is zero.                        *)
ConsumeData ==
  /\ dataReady # NotSet
  /\ headSeen' = Larger(headSeen, dataReady)
  /\ dataReady' = NotSet
ConsumeSpace ==
  /\ spaceReady # NotSet
  /\ tailSeen' = Larger(tailSeen, spaceReady)
  /\ spaceReady' = NotSet
=============================================================================
