----------------------------- MODULE SharedRing -----------------------------
(***************************************************************************)
(* SharedRingBuffer (Ipc): the single-producer single-consumer frame queue *)
(* in memory shared by the server (producer) and the reader (consumer),    *)
(* at the granularity of its atomic loads and stores and of its memcpys.   *)
(*                                                                         *)
(* head and tail count the frames ever published and ever released.  The   *)
(* two std::atomic<uint64_t> of the code hold these counts wrapped at 2^64 *)
(* (Wrap), and every decision below is computed from the wrapped values.   *)
(*                                                                         *)
(* The value of a frame is its position in the producer's stream: slot     *)
(* contents are copied and never examined.                                 *)
(*                                                                         *)
(* Memory order: an acquire load of the other side's index may return any  *)
(* value between the last one this side saw and the current one; once it   *)
(* has returned a value, everything released with it is visible.           *)
(***************************************************************************)
EXTENDS Integers, Sequences

CONSTANTS Capacity,   \* capacityFrames, 2^17 in the code
          Laps,       \* the counters wrap after Laps * Capacity, 2^64 in the code
          MaxBatch,   \* largest span, in frames, that a caller passes
          MaxFrames   \* bound on the number of frames ever offered

ASSUME RingAssumption ==
  /\ Capacity \in Nat \ {0}
  /\ Laps \in Nat /\ Laps >= 2
  /\ MaxBatch \in Nat \ {0}
  /\ MaxFrames \in Nat

VARIABLES
  head, tail,        \* frames ever published / released
  producerClosed,    \* the closing flag
  slots,             \* the frame in each slot
  ppc, pCount,       \* producer: where it is in tryPushBatch(), frames it copies
  tailSeen,          \* producer: newest tail it has loaded
  pPending,          \* producer: result of its last pendingFrames(), or Unknown
  cpc, cCount,       \* consumer: where it is in tryPopBatch(), frames it copies
  headSeen,          \* consumer: newest head it has loaded
  out,               \* consumer: the private span frames are copied to
  got,               \* the frames ever handed to the consumer, in order
  eof                \* the consumer concluded end of stream

producerVars == <<ppc, pCount, tailSeen, pPending>>
consumerVars == <<cpc, cCount, headSeen, out, got, eof>>
vars == <<head, tail, producerClosed, slots, producerVars, consumerVars>>

Slots == 0..(Capacity - 1)
Unknown == -1      \* no estimate of the occupancy taken yet
ZeroFrame == -1    \* a slot or a span entry never written
Modulus == Laps * Capacity

Min2(a, b) == IF a <= b THEN a ELSE b

-----------------------------------------------------------------------------
(* Arithmetic of the code on the wrapped counters.                         *)

Wrap(n) == n % Modulus

(* Faulty Pending: operands swapped.                                       *)
PendingSwapped(h, t) == (t - h) % Modulus

(* uint64_t subtraction *)
Pending(h, t) == (h - t) % Modulus

SlotOf(n) == Wrap(n) % Capacity

(* Faulty FreeFrames: one frame too many.                                  *)
FreeFramesOffByOne(h, t) == Capacity - Pending(h, t) + 1

FreeFrames(h, t) == Capacity - Pending(h, t)

(* Frames of a run of count frames that fit before the end of the slots.   *)
FirstRun(n, count) == Min2(count, Capacity - SlotOf(n))

-----------------------------------------------------------------------------
Init ==
  /\ head = 0 /\ tail = 0
  /\ producerClosed = FALSE
  /\ slots = [s \in Slots |-> ZeroFrame]
  /\ ppc = "idle" /\ pCount = 0 /\ tailSeen = 0 /\ pPending = Unknown
  /\ cpc = "idle" /\ cCount = 0 /\ headSeen = 0
  /\ out = [k \in 0..(MaxBatch - 1) |-> ZeroFrame]
  /\ got = <<>>
  /\ eof = FALSE

(* tryPushBatch() up to the computation of count, for a span of n frames.  *)
TryPushBatch(n) ==
  /\ ppc = "idle"
  /\ ~producerClosed
  /\ head + n <= MaxFrames
  /\ \E t \in tailSeen..tail :
       LET count == Min2(n, FreeFrames(Wrap(head), Wrap(t))) IN
       /\ tailSeen' = t
       /\ pCount' = count
       /\ ppc' = IF count = 0 THEN "idle" ELSE "copyFirst"
  /\ pPending' = Unknown
  /\ UNCHANGED <<head, tail, producerClosed, slots, consumerVars>>

(* tryPush(): one frame, its own test for a full ring.                     *)
TryPush ==
  /\ ppc = "idle"
  /\ ~producerClosed
  /\ head + 1 <= MaxFrames
  /\ \E t \in tailSeen..tail :
       /\ tailSeen' = t
       /\ IF Pending(Wrap(head), Wrap(t)) >= Capacity
            THEN pCount' = 0 /\ ppc' = "idle"
            ELSE pCount' = 1 /\ ppc' = "copyFirst"
  /\ pPending' = Unknown
  /\ UNCHANGED <<head, tail, producerClosed, slots, consumerVars>>

(* memcpy of the run that ends at the last slot at the latest.             *)
PushCopyFirst ==
  /\ ppc = "copyFirst"
  /\ LET index == SlotOf(head)
         first == FirstRun(head, pCount)
     IN /\ slots' = [s \in Slots |->
                       IF s \in index..(index + first - 1)
                         THEN head + (s - index) ELSE slots[s]]
        /\ ppc' = IF first # pCount THEN "copyRest" ELSE "publish"
  /\ UNCHANGED <<head, tail, producerClosed, pCount, tailSeen, pPending, consumerVars>>

(* Faulty PushCopyRest: copies the batch again from its start.             *)
PushCopyRestFromStart ==
  /\ ppc = "copyRest"
  /\ LET first == FirstRun(head, pCount)
     IN slots' = [s \in Slots |->
                    IF s < pCount - first THEN head + s ELSE slots[s]]
  /\ ppc' = "publish"
  /\ UNCHANGED <<head, tail, producerClosed, pCount, tailSeen, pPending, consumerVars>>

(* memcpy of what is left of the batch to the beginning of the slots.      *)
PushCopyRest ==
  /\ ppc = "copyRest"
  /\ LET first == FirstRun(head, pCount)
     IN slots' = [s \in Slots |->
                    IF s < pCount - first THEN head + first + s ELSE slots[s]]
  /\ ppc' = "publish"
  /\ UNCHANGED <<head, tail, producerClosed, pCount, tailSeen, pPending, consumerVars>>

(* head.store(head + count, release)                                       *)
Publish ==
  /\ ppc = "publish"
  /\ head' = head + pCount
  /\ ppc' = "idle"
  /\ UNCHANGED <<tail, producerClosed, slots, pCount, tailSeen, pPending, consumerVars>>

(* pendingFrames(), pendingBytes() and empty() called by the producer: the *)
(* head is its own, the tail may be old.                                   *)
ProducerPending ==
  /\ ppc = "idle"
  /\ \E t \in tailSeen..tail :
       /\ tailSeen' = t
       /\ pPending' = Pending(Wrap(head), Wrap(t))
  /\ UNCHANGED <<head, tail, producerClosed, slots, ppc, pCount, consumerVars>>

(* closeProducer()                                                         *)
CloseProducer ==
  /\ ppc = "idle"
  /\ ~producerClosed
  /\ producerClosed' = TRUE
  /\ UNCHANGED <<head, tail, slots, producerVars, consumerVars>>

-----------------------------------------------------------------------------
(* Faulty TryPopBatch: pops what it was asked for, available or not.       *)
TryPopBatchUnclamped(n) ==
  /\ cpc = "idle"
  /\ \E h \in headSeen..head :
       /\ headSeen' = h
       /\ cCount' = n
       /\ cpc' = "copyFirst"
  /\ UNCHANGED <<head, tail, producerClosed, slots, out, got, eof, producerVars>>

(* tryPopBatch() up to the computation of count, for a span of n frames.   *)
TryPopBatch(n) ==
  /\ cpc = "idle"
  /\ \E h \in headSeen..head :
       LET count == Min2(n, Pending(Wrap(h), Wrap(tail))) IN
       /\ headSeen' = h
       /\ cCount' = count
       /\ cpc' = IF count = 0 THEN "idle" ELSE "copyFirst"
  /\ UNCHANGED <<head, tail, producerClosed, slots, out, got, eof, producerVars>>

(* tryPop(): one frame, its own test for an empty ring.                    *)
TryPop ==
  /\ cpc = "idle"
  /\ \E h \in headSeen..head :
       /\ headSeen' = h
       /\ IF Wrap(tail) = Wrap(h)
            THEN cCount' = 0 /\ cpc' = "idle"
            ELSE cCount' = 1 /\ cpc' = "copyFirst"
  /\ UNCHANGED <<head, tail, producerClosed, slots, out, got, eof, producerVars>>

PopCopyFirst ==
  /\ cpc = "copyFirst"
  /\ LET index == SlotOf(tail)
         first == FirstRun(tail, cCount)
     IN /\ out' = [k \in DOMAIN out |-> IF k < first THEN slots[index + k] ELSE out[k]]
        /\ cpc' = IF first # cCount THEN "copyRest" ELSE "release"
  /\ UNCHANGED <<head, tail, producerClosed, slots, cCount, headSeen, got, eof, producerVars>>

PopCopyRest ==
  /\ cpc = "copyRest"
  /\ LET first == FirstRun(tail, cCount)
     IN out' = [k \in DOMAIN out |->
                  IF k \in first..(cCount - 1) THEN slots[k - first] ELSE out[k]]
  /\ cpc' = "release"
  /\ UNCHANGED <<head, tail, producerClosed, slots, cCount, headSeen, got, eof, producerVars>>

(* tail.store(tail + count, release): the span now belongs to the caller.  *)
Release ==
  /\ cpc = "release"
  /\ tail' = tail + cCount
  /\ got' = got \o [i \in 1..cCount |-> out[i - 1]]
  /\ cpc' = "idle"
  /\ UNCHANGED <<head, producerClosed, slots, cCount, headSeen, out, eof, producerVars>>

(* Faulty LoadClosed: a relaxed load, which makes nothing else visible.    *)
LoadClosedRelaxed ==
  /\ cpc = "idle" /\ ~eof
  /\ producerClosed
  /\ cpc' = "closedSeen"
  /\ UNCHANGED <<head, tail, producerClosed, slots, cCount, headSeen, out, got, eof, producerVars>>

(* producerClosed() called by the consumer.  Reading the flag as set makes *)
(* everything the producer did before closing visible.                     *)
LoadClosed ==
  /\ cpc = "idle" /\ ~eof
  /\ producerClosed
  /\ headSeen' = head
  /\ cpc' = "closedSeen"
  /\ UNCHANGED <<head, tail, producerClosed, slots, cCount, out, got, eof, producerVars>>

(* empty() called by the consumer after it has seen the flag: the tail is  *)
(* its own.  The reader stops when the ring is empty, else it pops again.  *)
LoadEmpty ==
  /\ cpc = "closedSeen"
  /\ \E h \in headSeen..head :
       /\ headSeen' = h
       /\ eof' = (Pending(Wrap(h), Wrap(tail)) = 0)
  /\ cpc' = "idle"
  /\ UNCHANGED <<head, tail, producerClosed, slots, cCount, out, got, producerVars>>

Producer ==
  \/ \E n \in 1..MaxBatch : TryPushBatch(n)
  \/ TryPush \/ PushCopyFirst \/ PushCopyRest \/ Publish
  \/ ProducerPending \/ CloseProducer

Consumer ==
  \/ \E n \in 1..MaxBatch : TryPopBatch(n)
  \/ TryPop \/ PopCopyFirst \/ PopCopyRest \/ Release
  \/ LoadClosed \/ LoadEmpty

Next == Producer \/ Consumer

Spec == Init /\ [][Next]_vars

-----------------------------------------------------------------------------
(* Type correctness, with the bounds of the counters.                      *)
TypeOK ==
  /\ head \in Nat /\ tail \in Nat /\ tailSeen \in Nat /\ headSeen \in Nat
  /\ producerClosed \in BOOLEAN /\ eof \in BOOLEAN
  /\ slots \in [Slots -> Int]
  /\ ppc \in {"idle", "copyFirst", "copyRest", "publish"}
  /\ cpc \in {"idle", "copyFirst", "copyRest", "release", "closedSeen"}
  /\ pCount \in 0..Capacity /\ cCount \in 0..Min2(Capacity, MaxBatch)
  /\ pPending \in Int
  /\ out \in [0..(MaxBatch - 1) -> Int]
  /\ got \in Seq(Int)

(* The slots the producer is writing and the consumer is reading now.      *)
Writing ==
  CASE ppc = "copyFirst" -> SlotOf(head)..(SlotOf(head) + FirstRun(head, pCount) - 1)
    [] ppc = "copyRest"  -> 0..(pCount - FirstRun(head, pCount) - 1)
    [] OTHER -> {}
Reading ==
  CASE cpc = "copyFirst" -> SlotOf(tail)..(SlotOf(tail) + FirstRun(tail, cCount) - 1)
    [] cpc = "copyRest"  -> 0..(cCount - FirstRun(tail, cCount) - 1)
    [] OTHER -> {}

(* While the producer is inside a memcpy into the slots and the consumer   *)
(* inside a memcpy out of them, they touch different slots: no frame is    *)
(* torn or overwritten, although neither side ever locks.                  *)
NoSlotRace == Writing \cap Reading = {}

(* The consumer receives exactly the producer's stream: every frame once,  *)
(* in order, none skipped, across partial batches, slot wrap-around and    *)
(* counter wrap-around.                                                    *)
InOrder ==
  /\ Len(got) = tail
  /\ \A i \in 1..Len(got) : got[i] = i - 1

(* What the server learns from pendingFrames() is never below the true     *)
(* occupancy and never above the capacity: it may pause too early or wait  *)
(* once more, but it never believes the ring drained when it is not.       *)
ProducerEstimate ==
  pPending # Unknown => /\ head - tail <= pPending
                        /\ pPending <= Capacity

(* The reader concludes end of stream (producerClosed() && empty()) only   *)
(* when it has taken every frame ever published.                           *)
EofComplete == eof => producerClosed /\ tail = head

(* The ring implements the bounded reliable channel.                       *)
Channel == INSTANCE FrameChannel
             WITH accepted <- head, delivered <- got,
                  closed <- producerClosed, ended <- eof
ImplementsChannel == Channel!Spec
=============================================================================
