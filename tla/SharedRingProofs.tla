-------------------------- MODULE SharedRingProofs --------------------------
(***************************************************************************)
(* Proofs about SharedRing for every capacity, batch size and counter      *)
(* width that is a multiple of the capacity.                               *)
(***************************************************************************)
EXTENDS SharedRing, TLAPS

-----------------------------------------------------------------------------
(* Arithmetic of % on the wrapped counters.                                *)

(* Quotient and remainder of a division by a positive number.              *)
LEMMA DivMod ==
  ASSUME NEW a \in Int, NEW m \in Nat \ {0}
  PROVE  /\ a = m * (a \div m) + (a % m)
         /\ a % m \in 0..(m - 1)
         /\ a \div m \in Int
  BY SMT

(* A nonzero multiple of m is at least m away from 0.                      *)
LEMMA NonzeroMultiple ==
  ASSUME NEW k \in Int, NEW m \in Nat \ {0}
  PROVE  (k >= 1 => m * k >= m) /\ (k <= -1 => m * k <= -m)
<1>1. k >= 1 => m * k >= m
  BY SMT
<1>2. k <= -1 => m * k <= -m
  BY SMT
<1>. QED  BY <1>1, <1>2

(* The remainder is the only number of 0..m-1 that differs from a by a     *)
(* multiple of m.                                                          *)
LEMMA ModUnique ==
  ASSUME NEW m \in Nat \ {0}, NEW a \in Int, NEW q \in Int, NEW r \in 0..(m - 1),
         a = m * q + r
  PROVE  a % m = r
<1> DEFINE k == q - (a \div m)
<1>1. a = m * (a \div m) + (a % m) /\ a % m \in 0..(m - 1) /\ a \div m \in Int
  BY DivMod
<1>2. k \in Int /\ m * k = m * q - m * (a \div m)
  BY <1>1
<1>3. m * k = (a % m) - r
  BY <1>1, <1>2
<1>4. m * k < m /\ m * k > -m
  BY <1>1, <1>3
<1>5. k = 0
  BY <1>4, <1>2, NonzeroMultiple
<1>. QED  BY <1>3, <1>5, <1>1

(* The remainder of n + k is n's remainder moved by k, wrapping at most    *)
(* once: where the k-th frame of a batch is, in slots.                     *)
LEMMA ModShift ==
  ASSUME NEW m \in Nat \ {0}, NEW n \in Nat, NEW k \in 0..(m - 1)
  PROVE  /\ n % m \in 0..(m - 1)
         /\ (n % m) + k < m => (n + k) % m = (n % m) + k
         /\ (n % m) + k >= m => (n + k) % m = (n % m) + k - m
<1> DEFINE q == n \div m
           r == n % m
<1>1. n = m * q + r /\ r \in 0..(m - 1) /\ q \in Int
  BY DivMod
<1>2. m * (q + 1) = m * q + m
  BY <1>1
<1>3. ASSUME r + k < m PROVE (n + k) % m = r + k
  <2> DEFINE a == n + k
             s == r + k
             p == q
  <2>1. a = m * p + s /\ s \in 0..(m - 1) /\ a \in Int /\ p \in Int
    BY <1>1, <1>3
  <2> HIDE DEF a, s, p
  <2>2. a % m = s
    BY <2>1, ModUnique
  <2>. QED  BY <2>2 DEF a, s
<1>4. ASSUME r + k >= m PROVE (n + k) % m = r + k - m
  <2> DEFINE a == n + k
             s == r + k - m
             p == q + 1
  <2>1. a = m * p + s /\ s \in 0..(m - 1) /\ a \in Int /\ p \in Int
    BY <1>1, <1>2, <1>4
  <2> HIDE DEF a, s, p
  <2>2. a % m = s
    BY <2>1, ModUnique
  <2>. QED  BY <2>2 DEF a, s
<1>. QED  BY <1>1, <1>3, <1>4

(* Two different stream positions less than a capacity apart are kept in   *)
(* different slots.                                                        *)
LEMMA SlotsDiffer ==
  ASSUME NEW i \in Nat, NEW j \in Nat, i < j, j < i + Capacity
  PROVE  i % Capacity # j % Capacity
<1> DEFINE k == j - i
<1>1. k \in 0..(Capacity - 1) /\ k # 0 /\ i + k = j
  BY RingAssumption
<1> HIDE DEF k
<1>2. /\ i % Capacity \in 0..(Capacity - 1)
      /\ (i % Capacity) + k < Capacity => j % Capacity = (i % Capacity) + k
      /\ (i % Capacity) + k >= Capacity => j % Capacity = (i % Capacity) + k - Capacity
  BY <1>1, ModShift, RingAssumption
<1>. QED  BY <1>1, <1>2, RingAssumption

(* The counters can represent more than one full ring.                     *)
LEMMA ModulusBig == Modulus \in Nat \ {0} /\ Capacity < Modulus
<1>1. Laps * Capacity >= 2 * Capacity /\ Laps * Capacity \in Int
  BY RingAssumption, SMT
<1>. QED  BY <1>1, RingAssumption DEF Modulus

(* Subtraction modulo m of two remainders.                                 *)
LEMMA ModDifference ==
  ASSUME NEW m \in Nat \ {0}, NEW h \in Nat, NEW t \in Nat, t <= h, h - t < m
  PROVE  ((h % m) - (t % m)) % m = h - t
<1> DEFINE qh == h \div m
           qt == t \div m
           wh == h % m
           wt == t % m
           q  == qt - qh
           d  == wh - wt
           n  == h - t
<1>1. h = m * qh + wh /\ wh \in 0..(m - 1) /\ qh \in Int
  BY DivMod
<1>2. t = m * qt + wt /\ wt \in 0..(m - 1) /\ qt \in Int
  BY DivMod
<1> HIDE DEF qh, qt, wh, wt
<1>3. m * q = m * qt - m * qh /\ q \in Int
  BY <1>1, <1>2
<1>4. d = m * q + n /\ d \in Int /\ n \in 0..(m - 1)
  BY <1>1, <1>2, <1>3
<1> HIDE DEF q, d, n
<1>5. d % m = n
  BY <1>3, <1>4, ModUnique
<1>. QED  BY <1>5 DEF n, d, wh, wt

(* A remainder by a multiple of c has the same remainder by c.             *)
LEMMA ModOfMod ==
  ASSUME NEW c \in Nat \ {0}, NEW l \in Nat, NEW m \in Nat \ {0}, m = l * c,
         NEW n \in Nat
  PROVE  (n % m) % c = n % c
<1> DEFINE q == n \div m
           w == n % m
           p == w \div c
           r == w % c
           x == l * q
           z == x + p
<1>1. n = m * q + w /\ w \in 0..(m - 1) /\ q \in Int
  <2>1. n \in Int
    OBVIOUS
  <2>. QED  BY <2>1, DivMod
<1> HIDE DEF q, w
<1>2. w = c * p + r /\ r \in 0..(c - 1) /\ p \in Int
  BY <1>1, DivMod
<1> HIDE DEF p, r
<1>3. m * q = c * x /\ x \in Int
  BY <1>1
<1> HIDE DEF x
<1>4. c * z = c * x + c * p /\ z \in Int
  BY <1>3, <1>2
<1> HIDE DEF z
<1>5. n = c * z + r
  <2>1. c * z \in Int /\ c * x \in Int /\ c * p \in Int
    BY <1>2, <1>3, <1>4
  <2>. QED  BY <2>1, <1>1, <1>2, <1>3, <1>4
<1>6. n % c = r
  BY <1>5, <1>4, <1>2, ModUnique
<1>. QED  BY <1>6 DEF r, w

(* uint64_t subtraction of the wrapped counters gives the true occupancy,  *)
(* also when head has wrapped and tail has not.                            *)
LEMMA PendingExact ==
  ASSUME NEW h \in Nat, NEW t \in Nat, t <= h, h <= t + Capacity
  PROVE  Pending(Wrap(h), Wrap(t)) = h - t
<1>1. h - t < Modulus
  BY ModulusBig, RingAssumption
<1>. QED  BY <1>1, ModulusBig, ModDifference DEF Pending, Wrap

(* The slot computed from a wrapped counter is the slot of the frame's     *)
(* position: the capacity divides the wrap-around.                         *)
LEMMA SlotOfPosition ==
  ASSUME NEW n \in Nat
  PROVE  SlotOf(n) = n % Capacity
<1>1. Modulus \in Nat \ {0} /\ Modulus = Laps * Capacity
  BY ModulusBig DEF Modulus
<1>. QED  BY <1>1, ModOfMod, RingAssumption DEF SlotOf, Wrap

(* How a run of count frames starting at position n lies in the slots: a   *)
(* first part up to the last slot at the latest, the rest from slot 0.     *)
LEMMA RunInSlots ==
  ASSUME NEW n \in Nat, NEW count \in 1..Capacity
  PROVE  /\ SlotOf(n) = n % Capacity
         /\ SlotOf(n) \in Slots
         /\ FirstRun(n, count) \in 1..count
         /\ SlotOf(n) + FirstRun(n, count) <= Capacity
         /\ \A k \in 0..(FirstRun(n, count) - 1) : (n + k) % Capacity = SlotOf(n) + k
         /\ \A k \in FirstRun(n, count)..(count - 1) :
              (n + k) % Capacity = k - FirstRun(n, count)
<1> DEFINE s == SlotOf(n)
           f == FirstRun(n, count)
<1>1. s = n % Capacity
  BY SlotOfPosition
<1>2. \A k \in 0..(Capacity - 1) :
        /\ n % Capacity \in 0..(Capacity - 1)
        /\ (n % Capacity) + k < Capacity => (n + k) % Capacity = (n % Capacity) + k
        /\ (n % Capacity) + k >= Capacity => (n + k) % Capacity = (n % Capacity) + k - Capacity
  BY ModShift, RingAssumption
<1>3. s \in 0..(Capacity - 1)
  <2>1. 0 \in 0..(Capacity - 1)
    BY RingAssumption
  <2>. QED  BY <2>1, <1>1, <1>2
<1>4. f = IF count <= Capacity - s THEN count ELSE Capacity - s
  BY DEF FirstRun, Min2
<1> HIDE DEF s, f
<1>5. f \in 1..count /\ s + f <= Capacity /\ (f # count => s + f = Capacity)
  BY <1>3, <1>4, RingAssumption
<1>6. ASSUME NEW k \in 0..(f - 1) PROVE (n + k) % Capacity = s + k
  <2>1. k \in 0..(Capacity - 1) /\ s + k < Capacity
    BY <1>3, <1>5, RingAssumption
  <2>2. s + k < Capacity => (n + k) % Capacity = s + k
    BY <2>1, <1>1, <1>2
  <2>. QED  BY <2>1, <2>2
<1>7. ASSUME NEW k \in f..(count - 1) PROVE (n + k) % Capacity = k - f
  <2>1. k \in 0..(Capacity - 1) /\ s + k >= Capacity /\ s + k - Capacity = k - f
    BY <1>3, <1>5, RingAssumption
  <2>2. s + k >= Capacity => (n + k) % Capacity = s + k - Capacity
    BY <2>1, <1>1, <1>2
  <2>. QED  BY <2>1, <2>2
<1>. QED  BY <1>1, <1>3, <1>5, <1>6, <1>7 DEF s, f, Slots

-----------------------------------------------------------------------------
(* The inductive invariant.                                                *)

(* Each side's knowledge of the other's counter is old, never wrong.       *)
Knowledge ==
  /\ tailSeen <= tail /\ tail <= headSeen /\ headSeen <= head
  /\ head <= tailSeen + Capacity

(* A push in progress fits in the room the producer has seen.              *)
PushFits ==
  ppc # "idle" => /\ pCount >= 1
                  /\ head + pCount <= tailSeen + Capacity
                  /\ ~producerClosed
                  /\ pPending = Unknown

(* A pop in progress takes frames the consumer has seen published.         *)
PopFits ==
  cpc \in {"copyFirst", "copyRest", "release"} =>
    cCount >= 1 /\ tail + cCount <= headSeen

(* Published frames stay intact in their slots until they are released.    *)
Stored == \A i \in tail..(head - 1) : slots[i % Capacity] = i

(* The part of a push or of a pop already copied is in place.              *)
PushCopied ==
  \A k \in 0..(pCount - 1) :
    \/ ppc = "publish"
    \/ ppc = "copyRest" /\ k < FirstRun(head, pCount)
    => slots[(head + k) % Capacity] = head + k
PopCopied ==
  \A k \in 0..(cCount - 1) :
    \/ cpc = "release"
    \/ cpc = "copyRest" /\ k < FirstRun(tail, cCount)
    => out[k] = tail + k

(* The closing flag, once seen, fixes the end of the stream.               *)
EndKnown ==
  /\ cpc = "closedSeen" => producerClosed /\ headSeen = head /\ ~eof
  /\ eof => producerClosed /\ tail = head

IInv ==
  /\ TypeOK /\ Knowledge /\ PushFits /\ PopFits /\ Stored
  /\ PushCopied /\ PopCopied /\ InOrder /\ ProducerEstimate /\ EndKnown

(* The counts a loaded index leads to.                                     *)
LEMMA PushCount ==
  ASSUME TypeOK, Knowledge, NEW t \in tailSeen..tail
  PROVE  /\ t \in Nat /\ tailSeen <= t /\ t <= tail
         /\ Pending(Wrap(head), Wrap(t)) = head - t
         /\ FreeFrames(Wrap(head), Wrap(t)) = Capacity - (head - t)
         /\ head <= t + Capacity /\ t <= head
<1>1. t \in Nat /\ t <= head /\ head <= t + Capacity /\ tailSeen <= t /\ t <= tail
  BY RingAssumption DEF TypeOK, Knowledge
<1>2. Pending(Wrap(head), Wrap(t)) = head - t
  BY <1>1, PendingExact DEF TypeOK
<1>. QED  BY <1>1, <1>2 DEF FreeFrames

LEMMA PopCount ==
  ASSUME TypeOK, Knowledge, NEW h \in headSeen..head
  PROVE  /\ h \in Nat /\ headSeen <= h /\ h <= head
         /\ Pending(Wrap(h), Wrap(tail)) = h - tail
         /\ tail <= h /\ h <= tail + Capacity
<1>1. h \in Nat /\ tail <= h /\ h <= tail + Capacity /\ headSeen <= h /\ h <= head
  BY RingAssumption DEF TypeOK, Knowledge
<1>2. Pending(Wrap(h), Wrap(tail)) = h - tail
  BY <1>1, PendingExact DEF TypeOK
<1>. QED  BY <1>1, <1>2

(* The invariant holds in the mapping constructed by create().             *)
LEMMA InitInv == Init => IInv
<1> SUFFICES ASSUME Init PROVE IInv
  OBVIOUS
<1>1. TypeOK
  BY RingAssumption DEF Init, TypeOK, Slots, ZeroFrame, Unknown, Min2
<1>2. Knowledge /\ PushFits /\ PopFits /\ Stored /\ PushCopied /\ PopCopied
  BY RingAssumption DEF Init, Knowledge, PushFits, PopFits, Stored, PushCopied, PopCopied
<1>3. InOrder /\ ProducerEstimate /\ EndKnown
  BY DEF Init, InOrder, ProducerEstimate, EndKnown
<1>. QED  BY <1>1, <1>2, <1>3 DEF IInv

(* Loading the tail for a push or for an estimate.                         *)
LEMMA TryPushBatchInv ==
  ASSUME IInv, NEW n \in 1..MaxBatch, TryPushBatch(n)
  PROVE  IInv'
<1> USE DEF IInv
<1>1. PICK t \in tailSeen..tail :
        /\ tailSeen' = t
        /\ pCount' = Min2(n, FreeFrames(Wrap(head), Wrap(t)))
        /\ ppc' = IF pCount' = 0 THEN "idle" ELSE "copyFirst"
  BY DEF TryPushBatch
<1>2. /\ t \in Nat /\ tailSeen <= t /\ t <= tail
      /\ FreeFrames(Wrap(head), Wrap(t)) = Capacity - (head - t)
      /\ head <= t + Capacity /\ t <= head
  BY PushCount
<1>3. /\ UNCHANGED <<head, tail, producerClosed, slots>> /\ UNCHANGED consumerVars
      /\ pPending' = Unknown /\ ~producerClosed
  BY DEF TryPushBatch
<1>4. pCount' \in 0..Capacity /\ head + pCount' <= t + Capacity
  BY <1>1, <1>2, RingAssumption DEF Min2, TypeOK
<1>5. TypeOK'
  BY <1>1, <1>2, <1>3, <1>4 DEF TypeOK, consumerVars, Unknown
<1>6. Knowledge' /\ PushFits' /\ PopFits'
  BY <1>1, <1>2, <1>3, <1>4 DEF TypeOK, Knowledge, PushFits, PopFits, consumerVars
<1>7. Stored' /\ PushCopied' /\ PopCopied'
  BY <1>1, <1>3 DEF Stored, PushCopied, PopCopied, consumerVars, FirstRun, SlotOf, Wrap
<1>8. InOrder' /\ ProducerEstimate' /\ EndKnown'
  BY <1>3 DEF InOrder, ProducerEstimate, EndKnown, consumerVars
<1>. QED  BY <1>5, <1>6, <1>7, <1>8

LEMMA TryPushInv ==
  ASSUME IInv, TryPush
  PROVE  IInv'
<1> USE DEF IInv
<1>1. PICK t \in tailSeen..tail :
        /\ tailSeen' = t
        /\ IF Pending(Wrap(head), Wrap(t)) >= Capacity
             THEN pCount' = 0 /\ ppc' = "idle"
             ELSE pCount' = 1 /\ ppc' = "copyFirst"
  BY DEF TryPush
<1>2. /\ t \in Nat /\ tailSeen <= t /\ t <= tail
      /\ Pending(Wrap(head), Wrap(t)) = head - t
      /\ head <= t + Capacity /\ t <= head
  BY PushCount
<1>3. /\ UNCHANGED <<head, tail, producerClosed, slots>> /\ UNCHANGED consumerVars
      /\ pPending' = Unknown /\ ~producerClosed
  BY DEF TryPush
<1>4. pCount' \in 0..Capacity /\ (ppc' # "idle" => pCount' = 1 /\ head + 1 <= t + Capacity)
  BY <1>1, <1>2, RingAssumption DEF TypeOK
<1>5. TypeOK'
  BY <1>1, <1>2, <1>3, <1>4 DEF TypeOK, consumerVars, Unknown
<1>6. Knowledge' /\ PushFits' /\ PopFits'
  BY <1>1, <1>2, <1>3, <1>4 DEF TypeOK, Knowledge, PushFits, PopFits, consumerVars
<1>7. Stored' /\ PushCopied' /\ PopCopied'
  BY <1>1, <1>3 DEF Stored, PushCopied, PopCopied, consumerVars, FirstRun, SlotOf, Wrap
<1>8. InOrder' /\ ProducerEstimate' /\ EndKnown'
  BY <1>3 DEF InOrder, ProducerEstimate, EndKnown, consumerVars
<1>. QED  BY <1>5, <1>6, <1>7, <1>8

LEMMA ProducerPendingInv ==
  ASSUME IInv, ProducerPending
  PROVE  IInv'
<1> USE DEF IInv
<1>1. PICK t \in tailSeen..tail :
        tailSeen' = t /\ pPending' = Pending(Wrap(head), Wrap(t))
  BY DEF ProducerPending
<1>2. /\ t \in Nat /\ tailSeen <= t /\ t <= tail
      /\ pPending' = head - t
      /\ head <= t + Capacity /\ t <= head
  BY <1>1, PushCount
<1>3. /\ UNCHANGED <<head, tail, producerClosed, slots, ppc, pCount>>
      /\ UNCHANGED consumerVars /\ ppc = "idle"
  BY DEF ProducerPending
<1>4. TypeOK'
  BY <1>1, <1>2, <1>3 DEF TypeOK, consumerVars
<1>5. Knowledge' /\ PushFits' /\ PopFits'
  BY <1>1, <1>2, <1>3 DEF TypeOK, Knowledge, PushFits, PopFits, consumerVars
<1>6. Stored' /\ PushCopied' /\ PopCopied'
  BY <1>1, <1>3 DEF Stored, PushCopied, PopCopied, consumerVars, FirstRun, SlotOf, Wrap
<1>7. InOrder' /\ EndKnown'
  BY <1>3 DEF InOrder, EndKnown, consumerVars
<1>8. ProducerEstimate'
  BY <1>2, <1>3, RingAssumption DEF ProducerEstimate, TypeOK
<1>. QED  BY <1>4, <1>5, <1>6, <1>7, <1>8

(* Copying into the slots: the frames still to be released are elsewhere.  *)
LEMMA PushCopyFirstInv ==
  ASSUME IInv, PushCopyFirst
  PROVE  IInv'
<1> USE DEF IInv
<1> DEFINE index == SlotOf(head)
           first == FirstRun(head, pCount)
<1>1. /\ ppc = "copyFirst"
      /\ slots' = [s \in Slots |-> IF s \in index..(index + first - 1)
                                     THEN head + (s - index) ELSE slots[s]]
      /\ ppc' = IF first # pCount THEN "copyRest" ELSE "publish"
      /\ UNCHANGED <<head, tail, producerClosed, pCount, tailSeen, pPending>>
      /\ UNCHANGED consumerVars
  BY DEF PushCopyFirst
<1>2. /\ head \in Nat /\ tail \in Nat /\ tailSeen \in Nat /\ pCount \in 1..Capacity
      /\ tailSeen <= tail /\ tail <= head /\ head + pCount <= tailSeen + Capacity
  BY <1>1, RingAssumption DEF TypeOK, PushFits, Knowledge
<1>3. /\ index \in Slots /\ first \in 1..pCount /\ index + first <= Capacity
      /\ \A k \in 0..(first - 1) : (head + k) % Capacity = index + k
  BY <1>2, RunInSlots
<1>u. index' = index /\ first' = first
  BY <1>1 DEF SlotOf, Wrap, FirstRun
<1> HIDE DEF index, first
<1>4. TypeOK'
  <2>1. slots' \in [Slots -> Int]
    BY <1>1, <1>2, <1>3 DEF TypeOK, Slots
  <2>. QED  BY <2>1, <1>1 DEF TypeOK, consumerVars
<1>5. Knowledge' /\ PushFits' /\ PopFits'
  BY <1>1 DEF Knowledge, PushFits, PopFits, consumerVars
<1>6. Stored'
  <2> SUFFICES ASSUME NEW i \in tail..(head - 1)
               PROVE  slots'[i % Capacity] = i
    BY <1>1 DEF Stored
  <2>0. i \in Nat
    BY <1>2
  <2>1. i \in Nat /\ i % Capacity \in Slots /\ slots[i % Capacity] = i
    BY <2>0, DivMod, RingAssumption DEF Stored, Slots
  <2>2. i % Capacity \notin index..(index + first - 1)
    <3> SUFFICES ASSUME i % Capacity \in index..(index + first - 1) PROVE FALSE
      OBVIOUS
    <3> DEFINE k == (i % Capacity) - index
    <3>1. k \in 0..(first - 1) /\ i % Capacity = index + k
      BY <2>1, <1>3 DEF Slots
    <3> HIDE DEF k
    <3>2. (head + k) % Capacity = i % Capacity
      BY <3>1, <1>3
    <3>3. head + k \in Nat /\ i < head + k /\ head + k < i + Capacity
      BY <3>1, <1>2, <1>3, RingAssumption
    <3>. QED  BY <3>2, <3>3, <2>1, SlotsDiffer
  <2>. QED  BY <2>1, <2>2, <1>1
<1>7. PushCopied'
  <2> SUFFICES ASSUME NEW k \in 0..(first - 1)
               PROVE  slots'[(head + k) % Capacity] = head + k
    BY <1>1, <1>2, <1>3, <1>u DEF PushCopied, first
  <2>1. (head + k) % Capacity = index + k
    BY <1>3
  <2>2. /\ index + k \in Slots /\ index + k \in index..(index + first - 1)
        /\ (index + k) - index = k
    BY <1>2, <1>3, RingAssumption DEF Slots
  <2>3. slots'[index + k] = head + ((index + k) - index)
    BY <2>2, <1>1
  <2>. QED  BY <2>1, <2>2, <2>3
<1>8. PopCopied'
  BY <1>1 DEF PopCopied, consumerVars, FirstRun, SlotOf, Wrap
<1>9. InOrder' /\ ProducerEstimate' /\ EndKnown'
  BY <1>1 DEF InOrder, ProducerEstimate, EndKnown, consumerVars
<1>. QED  BY <1>4, <1>5, <1>6, <1>7, <1>8, <1>9

LEMMA PushCopyRestInv ==
  ASSUME IInv, PushCopyRest
  PROVE  IInv'
<1> USE DEF IInv
<1> DEFINE first == FirstRun(head, pCount)
<1>1. /\ ppc = "copyRest"
      /\ slots' = [s \in Slots |-> IF s < pCount - first
                                     THEN head + first + s ELSE slots[s]]
      /\ ppc' = "publish"
      /\ UNCHANGED <<head, tail, producerClosed, pCount, tailSeen, pPending>>
      /\ UNCHANGED consumerVars
  BY DEF PushCopyRest
<1>2. /\ head \in Nat /\ tail \in Nat /\ tailSeen \in Nat /\ pCount \in 1..Capacity
      /\ tailSeen <= tail /\ tail <= head /\ head + pCount <= tailSeen + Capacity
  BY <1>1, RingAssumption DEF TypeOK, PushFits, Knowledge
<1>3. /\ first \in 1..pCount
      /\ \A k \in first..(pCount - 1) : (head + k) % Capacity = k - first
  BY <1>2, RunInSlots
<1>c. \A k \in 0..(first - 1) : slots[(head + k) % Capacity] = head + k
  BY <1>1, <1>2, <1>3 DEF PushCopied
<1> HIDE DEF first
<1>4. TypeOK'
  <2>1. slots' \in [Slots -> Int]
    BY <1>1, <1>2, <1>3 DEF TypeOK, Slots
  <2>. QED  BY <2>1, <1>1 DEF TypeOK, consumerVars
<1>5. Knowledge' /\ PushFits' /\ PopFits'
  BY <1>1 DEF Knowledge, PushFits, PopFits, consumerVars
\* a slot below pCount - first holds none of the positions tail..(head + first - 1)
<1>d. ASSUME NEW i \in Nat, tail <= i, i < head + first
      PROVE  slots'[i % Capacity] = slots[i % Capacity]
  <2>1. i % Capacity \in Slots
    BY DivMod, RingAssumption DEF Slots
  <2>2. ~(i % Capacity < pCount - first)
    <3> SUFFICES ASSUME i % Capacity < pCount - first PROVE FALSE
      OBVIOUS
    <3> DEFINE k == (i % Capacity) + first
    <3>1. k \in first..(pCount - 1) /\ i % Capacity = k - first
      BY <2>1, <1>3, <1>2 DEF Slots
    <3> HIDE DEF k
    <3>2. (head + k) % Capacity = i % Capacity
      BY <3>1, <1>3
    <3>3. head + k \in Nat /\ i < head + k /\ head + k < i + Capacity
      BY <3>1, <1>2, <1>3, <1>d, RingAssumption
    <3>. QED  BY <3>2, <3>3, SlotsDiffer
  <2>. QED  BY <2>1, <2>2, <1>1
<1>6. Stored'
  <2> SUFFICES ASSUME NEW i \in tail..(head - 1)
               PROVE  slots'[i % Capacity] = i
    BY <1>1 DEF Stored
  <2>1. i \in Nat /\ tail <= i /\ i < head + first /\ slots[i % Capacity] = i
    BY <1>2, <1>3 DEF Stored
  <2>. QED  BY <2>1, <1>d
<1>7. PushCopied'
  <2> SUFFICES ASSUME NEW k \in 0..(pCount - 1)
               PROVE  slots'[(head + k) % Capacity] = head + k
    BY <1>1 DEF PushCopied
  <2>1. CASE k < first
    <3>1. head + k \in Nat /\ tail <= head + k /\ head + k < head + first
      BY <2>1, <1>2, <1>3
    <3>0. k \in 0..(first - 1)
      BY <2>1, <1>2, <1>3
    <3>2. slots[(head + k) % Capacity] = head + k
      BY <3>0, <1>c
    <3>. QED  BY <3>1, <3>2, <1>d
  <2>2. CASE k >= first
    <3>1. (head + k) % Capacity = k - first
      BY <2>2, <1>2, <1>3
    <3>2. k - first \in Slots /\ k - first < pCount - first
      BY <2>2, <1>2, <1>3, RingAssumption DEF Slots
    <3>3. slots'[k - first] = head + first + (k - first)
      BY <3>2, <1>1
    <3>. QED  BY <3>1, <3>3, <1>2, <1>3
  <2>. QED  BY <2>1, <2>2, <1>2, <1>3
<1>8. PopCopied'
  BY <1>1 DEF PopCopied, consumerVars, FirstRun, SlotOf, Wrap
<1>9. InOrder' /\ ProducerEstimate' /\ EndKnown'
  BY <1>1 DEF InOrder, ProducerEstimate, EndKnown, consumerVars
<1>. QED  BY <1>4, <1>5, <1>6, <1>7, <1>8, <1>9

(* The release store of head makes the copied batch part of the stream.    *)
LEMMA PublishInv ==
  ASSUME IInv, Publish
  PROVE  IInv'
<1> USE DEF IInv
<1>1. /\ ppc = "publish" /\ head' = head + pCount /\ ppc' = "idle"
      /\ UNCHANGED <<tail, producerClosed, slots, pCount, tailSeen, pPending>>
      /\ UNCHANGED consumerVars
  BY DEF Publish
<1>2. /\ head \in Nat /\ tail \in Nat /\ tailSeen \in Nat /\ pCount \in 1..Capacity
      /\ tailSeen <= tail /\ tail <= head /\ head + pCount <= tailSeen + Capacity
      /\ pPending = Unknown /\ ~producerClosed
  BY <1>1, RingAssumption DEF TypeOK, PushFits, Knowledge
<1>3. TypeOK'
  BY <1>1, <1>2 DEF TypeOK, consumerVars
<1>4. Knowledge' /\ PushFits' /\ PopFits'
  BY <1>1, <1>2 DEF TypeOK, Knowledge, PushFits, PopFits, consumerVars
<1>5. Stored'
  <2> SUFFICES ASSUME NEW i \in tail'..(head' - 1)
               PROVE  slots'[i % Capacity] = i
    BY DEF Stored
  <2>0. i \in tail..(head + pCount - 1) /\ slots' = slots
    BY <1>1, <1>2
  <2>1. CASE i < head
    <3>1. i \in tail..(head - 1)
      BY <2>0, <2>1, <1>2
    <3>. QED  BY <2>0, <3>1 DEF Stored
  <2>2. CASE i >= head
    <3> DEFINE k == i - head
    <3>1. k \in 0..(pCount - 1) /\ head + k = i
      BY <2>0, <2>2, <1>2
    <3> HIDE DEF k
    <3>2. slots[(head + k) % Capacity] = head + k
      BY <3>1, <1>1 DEF PushCopied
    <3>. QED  BY <2>0, <3>1, <3>2
  <2>. QED  BY <2>0, <2>1, <2>2, <1>2
<1>6. PushCopied' /\ PopCopied'
  BY <1>1 DEF PushCopied, PopCopied, consumerVars, FirstRun, SlotOf, Wrap
<1>7. InOrder' /\ ProducerEstimate' /\ EndKnown'
  <2>1. InOrder' /\ ProducerEstimate'
    BY <1>1, <1>2 DEF InOrder, ProducerEstimate, consumerVars
  <2>2. EndKnown'
    BY <1>1, <1>2 DEF EndKnown, consumerVars
  <2>. QED  BY <2>1, <2>2
<1>. QED  BY <1>3, <1>4, <1>5, <1>6, <1>7

LEMMA CloseProducerInv ==
  ASSUME IInv, CloseProducer
  PROVE  IInv'
<1> USE DEF IInv
<1>1. /\ ppc = "idle" /\ producerClosed' = TRUE
      /\ UNCHANGED <<head, tail, slots>> /\ UNCHANGED producerVars /\ UNCHANGED consumerVars
  BY DEF CloseProducer
<1>2. TypeOK' /\ Knowledge' /\ PushFits' /\ PopFits'
  BY <1>1 DEF TypeOK, Knowledge, PushFits, PopFits, producerVars, consumerVars
<1>3. Stored' /\ PushCopied' /\ PopCopied'
  BY <1>1 DEF Stored, PushCopied, PopCopied, producerVars, consumerVars, FirstRun, SlotOf, Wrap
<1>4. InOrder' /\ ProducerEstimate' /\ EndKnown'
  BY <1>1 DEF InOrder, ProducerEstimate, EndKnown, producerVars, consumerVars
<1>. QED  BY <1>2, <1>3, <1>4

(* Loading the head for a pop.                                             *)
LEMMA TryPopBatchInv ==
  ASSUME IInv, NEW n \in 1..MaxBatch, TryPopBatch(n)
  PROVE  IInv'
<1> USE DEF IInv
<1>1. PICK h \in headSeen..head :
        /\ headSeen' = h
        /\ cCount' = Min2(n, Pending(Wrap(h), Wrap(tail)))
        /\ cpc' = IF cCount' = 0 THEN "idle" ELSE "copyFirst"
  BY DEF TryPopBatch
<1>2. /\ h \in Nat /\ headSeen <= h /\ h <= head
      /\ Pending(Wrap(h), Wrap(tail)) = h - tail
      /\ tail <= h /\ h <= tail + Capacity
  BY PopCount
<1>3. /\ UNCHANGED <<head, tail, producerClosed, slots, out, got, eof>>
      /\ UNCHANGED producerVars
  BY DEF TryPopBatch
<1>4. cCount' \in 0..Min2(Capacity, MaxBatch) /\ tail + cCount' <= h
  BY <1>1, <1>2, RingAssumption DEF Min2, TypeOK
<1>5. TypeOK' /\ Knowledge' /\ PushFits'
  BY <1>1, <1>2, <1>3, <1>4 DEF TypeOK, Knowledge, PushFits, producerVars
<1>6. PopFits'
  BY <1>1, <1>2, <1>3, <1>4, RingAssumption DEF PopFits, Min2
<1>7. Stored' /\ PushCopied' /\ PopCopied'
  BY <1>1, <1>3 DEF Stored, PushCopied, PopCopied, producerVars, FirstRun, SlotOf, Wrap
<1>8. InOrder' /\ ProducerEstimate' /\ EndKnown'
  BY <1>1, <1>3 DEF InOrder, ProducerEstimate, EndKnown, producerVars
<1>. QED  BY <1>5, <1>6, <1>7, <1>8

LEMMA TryPopInv ==
  ASSUME IInv, TryPop
  PROVE  IInv'
<1> USE DEF IInv
<1>1. PICK h \in headSeen..head :
        /\ headSeen' = h
        /\ IF Wrap(tail) = Wrap(h)
             THEN cCount' = 0 /\ cpc' = "idle"
             ELSE cCount' = 1 /\ cpc' = "copyFirst"
  BY DEF TryPop
<1>2. h \in Nat /\ headSeen <= h /\ h <= head /\ tail <= h /\ h <= tail + Capacity
  BY PopCount
<1>3. /\ UNCHANGED <<head, tail, producerClosed, slots, out, got, eof>>
      /\ UNCHANGED producerVars
  BY DEF TryPop
<1>4. cCount' \in 0..Min2(Capacity, MaxBatch) /\ (cpc' # "idle" => tail # h /\ cCount' = 1)
  BY <1>1, RingAssumption DEF Min2
<1>5. TypeOK' /\ Knowledge' /\ PushFits'
  BY <1>1, <1>2, <1>3, <1>4 DEF TypeOK, Knowledge, PushFits, producerVars
<1>6. PopFits'
  <2>1. tail' = tail /\ headSeen' = h /\ tail \in Nat
    BY <1>1, <1>3 DEF TypeOK
  <2>2. tail # h => tail + 1 <= h
    BY <2>1, <1>2
  <2>3. cpc' # "idle" => cCount' = 1 /\ tail' + cCount' <= headSeen'
    BY <2>1, <2>2, <1>4
  <2>. QED  BY <2>3 DEF PopFits
<1>7. Stored' /\ PushCopied' /\ PopCopied'
  BY <1>1, <1>3 DEF Stored, PushCopied, PopCopied, producerVars, FirstRun, SlotOf, Wrap
<1>8. InOrder' /\ ProducerEstimate' /\ EndKnown'
  BY <1>1, <1>3 DEF InOrder, ProducerEstimate, EndKnown, producerVars
<1>. QED  BY <1>5, <1>6, <1>7, <1>8

(* Copying out of the slots.                                               *)
LEMMA PopCopyFirstInv ==
  ASSUME IInv, PopCopyFirst
  PROVE  IInv'
<1> USE DEF IInv
<1> DEFINE index == SlotOf(tail)
           first == FirstRun(tail, cCount)
<1>1. /\ cpc = "copyFirst"
      /\ out' = [k \in DOMAIN out |-> IF k < first THEN slots[index + k] ELSE out[k]]
      /\ cpc' = IF first # cCount THEN "copyRest" ELSE "release"
      /\ UNCHANGED <<head, tail, producerClosed, slots, cCount, headSeen, got, eof>>
      /\ UNCHANGED producerVars
  BY DEF PopCopyFirst
<1>2. /\ head \in Nat /\ tail \in Nat /\ headSeen \in Nat /\ cCount \in 1..Capacity
      /\ cCount <= MaxBatch /\ tail + cCount <= headSeen /\ headSeen <= head
      /\ DOMAIN out = 0..(MaxBatch - 1)
  BY <1>1, RingAssumption DEF TypeOK, PopFits, Knowledge, Min2
<1>3. /\ index \in Slots /\ first \in 1..cCount /\ index + first <= Capacity
      /\ \A k \in 0..(first - 1) : (tail + k) % Capacity = index + k
  BY <1>2, RunInSlots
<1>u. first' = first
  BY <1>1 DEF SlotOf, Wrap, FirstRun
<1> HIDE DEF index, first
<1>4. TypeOK'
  <2>1. \A k \in 0..(MaxBatch - 1) : k < first => index + k \in Slots
    BY <1>2, <1>3, RingAssumption DEF Slots
  <2>2. out' \in [0..(MaxBatch - 1) -> Int]
    BY <2>1, <1>1, <1>2 DEF TypeOK
  <2>. QED  BY <2>2, <1>1 DEF TypeOK, producerVars
<1>5. Knowledge' /\ PushFits' /\ PopFits'
  BY <1>1 DEF Knowledge, PushFits, PopFits, producerVars
<1>6. Stored' /\ PushCopied'
  BY <1>1 DEF Stored, PushCopied, producerVars, FirstRun, SlotOf, Wrap
<1>7. PopCopied'
  <2> SUFFICES ASSUME NEW k \in 0..(first - 1)
               PROVE  out'[k] = tail + k
    BY <1>1, <1>2, <1>3, <1>u DEF PopCopied, first
  <2>1. k \in DOMAIN out /\ tail + k \in tail..(head - 1)
    BY <1>2, <1>3, RingAssumption
  <2>2. out'[k] = slots[(tail + k) % Capacity]
    BY <2>1, <1>1, <1>3
  <2>. QED  BY <2>1, <2>2 DEF Stored
<1>8. InOrder' /\ ProducerEstimate' /\ EndKnown'
  BY <1>1 DEF InOrder, ProducerEstimate, EndKnown, producerVars
<1>. QED  BY <1>4, <1>5, <1>6, <1>7, <1>8

LEMMA PopCopyRestInv ==
  ASSUME IInv, PopCopyRest
  PROVE  IInv'
<1> USE DEF IInv
<1> DEFINE first == FirstRun(tail, cCount)
<1>1. /\ cpc = "copyRest"
      /\ out' = [k \in DOMAIN out |->
                   IF k \in first..(cCount - 1) THEN slots[k - first] ELSE out[k]]
      /\ cpc' = "release"
      /\ UNCHANGED <<head, tail, producerClosed, slots, cCount, headSeen, got, eof>>
      /\ UNCHANGED producerVars
  BY DEF PopCopyRest
<1>2. /\ head \in Nat /\ tail \in Nat /\ headSeen \in Nat /\ cCount \in 1..Capacity
      /\ cCount <= MaxBatch /\ tail + cCount <= headSeen /\ headSeen <= head
      /\ DOMAIN out = 0..(MaxBatch - 1)
  BY <1>1, RingAssumption DEF TypeOK, PopFits, Knowledge, Min2
<1>3. /\ first \in 1..cCount
      /\ \A k \in first..(cCount - 1) : (tail + k) % Capacity = k - first
  BY <1>2, RunInSlots
<1>c. \A k \in 0..(cCount - 1) : k < first => out[k] = tail + k
  BY <1>1 DEF PopCopied
<1> HIDE DEF first
<1>4. TypeOK'
  <2>1. \A k \in first..(cCount - 1) : k - first \in Slots
    BY <1>2, <1>3, RingAssumption DEF Slots
  <2>2. out' \in [0..(MaxBatch - 1) -> Int]
    BY <2>1, <1>1, <1>2 DEF TypeOK
  <2>. QED  BY <2>2, <1>1 DEF TypeOK, producerVars
<1>5. Knowledge' /\ PushFits' /\ PopFits'
  BY <1>1 DEF Knowledge, PushFits, PopFits, producerVars
<1>6. Stored' /\ PushCopied'
  BY <1>1 DEF Stored, PushCopied, producerVars, FirstRun, SlotOf, Wrap
<1>7. PopCopied'
  <2> SUFFICES ASSUME NEW k \in 0..(cCount - 1)
               PROVE  out'[k] = tail + k
    BY <1>1 DEF PopCopied
  <2>1. k \in DOMAIN out /\ tail + k \in tail..(head - 1)
    BY <1>2, RingAssumption
  <2>2. CASE k < first
    BY <2>1, <2>2, <1>1, <1>2, <1>3, <1>c
  <2>3. CASE k >= first
    <3>1. k \in first..(cCount - 1)
      BY <2>3, <1>2, <1>3
    <3>2. out'[k] = slots[(tail + k) % Capacity]
      BY <3>1, <2>1, <1>1, <1>3
    <3>. QED  BY <2>1, <3>2 DEF Stored
  <2>. QED  BY <2>2, <2>3, <1>2, <1>3
<1>8. InOrder' /\ ProducerEstimate' /\ EndKnown'
  BY <1>1 DEF InOrder, ProducerEstimate, EndKnown, producerVars
<1>. QED  BY <1>4, <1>5, <1>6, <1>7, <1>8

(* The release store of tail hands the copied frames to the caller.        *)
LEMMA ReleaseInv ==
  ASSUME IInv, Release
  PROVE  IInv'
<1> USE DEF IInv
<1> DEFINE batch == [i \in 1..cCount |-> out[i - 1]]
<1>1. /\ cpc = "release" /\ tail' = tail + cCount /\ got' = got \o batch /\ cpc' = "idle"
      /\ UNCHANGED <<head, producerClosed, slots, cCount, headSeen, out, eof>>
      /\ UNCHANGED producerVars
  BY DEF Release
<1>2. /\ head \in Nat /\ tail \in Nat /\ headSeen \in Nat /\ tailSeen \in Nat
      /\ cCount \in 1..Capacity /\ cCount <= MaxBatch
      /\ tail + cCount <= headSeen /\ headSeen <= head /\ tailSeen <= tail
  BY <1>1, RingAssumption DEF TypeOK, PopFits, Knowledge, Min2
<1>3. batch \in Seq(Int) /\ Len(batch) = cCount /\ DOMAIN batch = 1..cCount
  <2>1. \A i \in 1..cCount : out[i - 1] \in Int
    BY <1>2, RingAssumption DEF TypeOK
  <2>. QED  BY <2>1, <1>2
<1>4. \A i \in 1..cCount : batch[i] = tail + i - 1
  <2> TAKE i \in 1..cCount
  <2>1. i - 1 \in 0..(cCount - 1)
    BY <1>2
  <2>2. out[i - 1] = tail + (i - 1)
    BY <2>1, <1>1 DEF PopCopied
  <2>. QED  BY <2>2, <1>2
<1> HIDE DEF batch
<1>5. TypeOK'
  BY <1>1, <1>2, <1>3 DEF TypeOK, producerVars
<1>6. Knowledge' /\ PushFits' /\ PopFits'
  BY <1>1, <1>2 DEF Knowledge, PushFits, PopFits, producerVars, TypeOK
<1>7. Stored' /\ PushCopied' /\ PopCopied'
  BY <1>1, <1>2 DEF Stored, PushCopied, PopCopied, producerVars, FirstRun, SlotOf, Wrap
<1>8. InOrder'
  <2>0. got \in Seq(Int) /\ Len(got) = tail
    BY DEF InOrder, TypeOK
  <2>a. Len(got \o batch) = Len(got) + Len(batch)
    BY <2>0, <1>3
  <2>1. Len(got') = tail'
    BY <2>0, <2>a, <1>1, <1>3
  <2>2. ASSUME NEW i \in 1..Len(got') PROVE got'[i] = i - 1
    <3>0. i \in 1..(tail + cCount)
      BY <2>1, <1>1
    <3>1. CASE i <= tail
      BY <3>0, <3>1, <2>0, <1>1, <1>2, <1>3 DEF InOrder
    <3>2. CASE i > tail
      <4>1. i - tail \in 1..cCount
        BY <3>0, <3>2, <1>2
      <4>2. i \in 1..(Len(got) + Len(batch)) /\ ~(i <= Len(got))
        BY <3>0, <3>2, <2>0, <1>2, <1>3
      <4>3. (got \o batch)[i] = batch[i - Len(got)]
        BY <4>2, <2>0, <1>3
      <4>4. got'[i] = batch[i - tail]
        BY <4>3, <2>0, <1>1
      <4>. QED  BY <4>1, <4>4, <3>0, <1>4, <1>2
    <3>. QED  BY <3>0, <3>1, <3>2, <1>2
  <2>. QED  BY <2>1, <2>2 DEF InOrder
<1>9. ProducerEstimate' /\ EndKnown'
  BY <1>1, <1>2, RingAssumption DEF ProducerEstimate, EndKnown, producerVars, TypeOK
<1>. QED  BY <1>5, <1>6, <1>7, <1>8, <1>9

(* The end-of-stream test.                                                 *)
LEMMA LoadClosedInv ==
  ASSUME IInv, LoadClosed
  PROVE  IInv'
<1> USE DEF IInv
<1>1. /\ cpc = "idle" /\ ~eof /\ producerClosed /\ headSeen' = head /\ cpc' = "closedSeen"
      /\ UNCHANGED <<head, tail, producerClosed, slots, cCount, out, got, eof>>
      /\ UNCHANGED producerVars
  BY DEF LoadClosed
<1>2. TypeOK' /\ Knowledge' /\ PushFits' /\ PopFits'
  BY <1>1 DEF TypeOK, Knowledge, PushFits, PopFits, producerVars
<1>3. Stored' /\ PushCopied' /\ PopCopied'
  BY <1>1 DEF Stored, PushCopied, PopCopied, producerVars, FirstRun, SlotOf, Wrap
<1>4. InOrder' /\ ProducerEstimate' /\ EndKnown'
  BY <1>1 DEF InOrder, ProducerEstimate, EndKnown, producerVars
<1>. QED  BY <1>2, <1>3, <1>4

LEMMA LoadEmptyInv ==
  ASSUME IInv, LoadEmpty
  PROVE  IInv'
<1> USE DEF IInv
<1>1. PICK h \in headSeen..head :
        headSeen' = h /\ eof' = (Pending(Wrap(h), Wrap(tail)) = 0)
  BY DEF LoadEmpty
<1>2. /\ cpc = "closedSeen" /\ cpc' = "idle"
      /\ UNCHANGED <<head, tail, producerClosed, slots, cCount, out, got>>
      /\ UNCHANGED producerVars
  BY DEF LoadEmpty
<1>3. h = head /\ eof' = (head - tail = 0) /\ producerClosed
  BY <1>1, <1>2, PopCount DEF EndKnown, TypeOK
<1>4. TypeOK' /\ Knowledge' /\ PushFits' /\ PopFits'
  BY <1>1, <1>2, <1>3 DEF TypeOK, Knowledge, PushFits, PopFits, producerVars
<1>5. Stored' /\ PushCopied' /\ PopCopied'
  BY <1>2 DEF Stored, PushCopied, PopCopied, producerVars, FirstRun, SlotOf, Wrap
<1>6. InOrder' /\ ProducerEstimate'
  BY <1>2 DEF InOrder, ProducerEstimate, producerVars
<1>7. EndKnown'
  BY <1>2, <1>3 DEF EndKnown, TypeOK
<1>. QED  BY <1>4, <1>5, <1>6, <1>7

-----------------------------------------------------------------------------
(* IInv is inductive.                                                      *)
LEMMA StepInv == IInv /\ [Next]_vars => IInv'
<1> SUFFICES ASSUME IInv, [Next]_vars PROVE IInv'
  OBVIOUS
<1>1. CASE Producer
  BY <1>1, TryPushBatchInv, TryPushInv, PushCopyFirstInv, PushCopyRestInv, PublishInv,
     ProducerPendingInv, CloseProducerInv DEF Producer
<1>2. CASE Consumer
  BY <1>2, TryPopBatchInv, TryPopInv, PopCopyFirstInv, PopCopyRestInv, ReleaseInv,
     LoadClosedInv, LoadEmptyInv DEF Consumer
<1>3. CASE UNCHANGED vars
  <2> USE <1>3 DEF vars, producerVars, consumerVars
  <2>1. TypeOK' /\ Knowledge' /\ PushFits' /\ PopFits'
    BY DEF IInv, TypeOK, Knowledge, PushFits, PopFits
  <2>2. Stored' /\ PushCopied' /\ PopCopied'
    BY DEF IInv, Stored, PushCopied, PopCopied, FirstRun, SlotOf, Wrap
  <2>3. InOrder' /\ ProducerEstimate' /\ EndKnown'
    BY DEF IInv, InOrder, ProducerEstimate, EndKnown
  <2>. QED  BY <2>1, <2>2, <2>3 DEF IInv
<1>. QED  BY <1>1, <1>2, <1>3 DEF Next

LEMMA AlwaysIInv == Spec => []IInv
  BY InitInv, StepInv, PTL DEF Spec

(* Every counter, batch size and slot stays in its range.                  *)
THEOREM TypeCorrect == Spec => []TypeOK
<1>1. IInv => TypeOK
  BY DEF IInv
<1>. QED  BY <1>1, AlwaysIInv, PTL

(* Where a copy in progress is, in stream positions.                       *)
LEMMA CopiesInRange ==
  ASSUME IInv
  PROVE  /\ \A s \in Writing : \E k \in 0..(pCount - 1) :
               ppc # "idle" /\ s = (head + k) % Capacity
         /\ \A s \in Reading : \E k \in 0..(cCount - 1) :
               cpc \in {"copyFirst", "copyRest"} /\ s = (tail + k) % Capacity
<1>1. ASSUME NEW s \in Writing
      PROVE  \E k \in 0..(pCount - 1) : ppc # "idle" /\ s = (head + k) % Capacity
  <2> DEFINE index == SlotOf(head)
             first == FirstRun(head, pCount)
  <2>1. ppc \in {"copyFirst", "copyRest"}
    BY DEF Writing
  <2>2. head \in Nat /\ pCount \in 1..Capacity
    BY <2>1, RingAssumption DEF IInv, TypeOK, PushFits
  <2>3. /\ index \in Slots /\ first \in 1..pCount
        /\ \A k \in 0..(first - 1) : (head + k) % Capacity = index + k
        /\ \A k \in first..(pCount - 1) : (head + k) % Capacity = k - first
    BY <2>2, RunInSlots
  <2>4. \/ ppc = "copyFirst" /\ s \in index..(index + first - 1)
        \/ ppc = "copyRest" /\ s \in 0..(pCount - first - 1)
    BY <2>1 DEF Writing
  <2> HIDE DEF index, first
  <2>5. CASE ppc = "copyFirst" /\ s \in index..(index + first - 1)
    <3>1. s - index \in 0..(first - 1) /\ s - index \in 0..(pCount - 1)
          /\ index + (s - index) = s
      BY <2>5, <2>2, <2>3 DEF Slots
    <3>. QED  BY <3>1, <2>3, <2>5
  <2>6. CASE ppc = "copyRest" /\ s \in 0..(pCount - first - 1)
    <3>1. s + first \in first..(pCount - 1) /\ s + first \in 0..(pCount - 1)
          /\ (s + first) - first = s
      BY <2>6, <2>2, <2>3
    <3>. QED  BY <3>1, <2>3, <2>6
  <2>. QED  BY <2>4, <2>5, <2>6
<1>2. ASSUME NEW s \in Reading
      PROVE  \E k \in 0..(cCount - 1) :
               cpc \in {"copyFirst", "copyRest"} /\ s = (tail + k) % Capacity
  <2> DEFINE index == SlotOf(tail)
             first == FirstRun(tail, cCount)
  <2>1. cpc \in {"copyFirst", "copyRest"}
    BY DEF Reading
  <2>2. tail \in Nat /\ cCount \in 1..Capacity
    BY <2>1, RingAssumption DEF IInv, TypeOK, PopFits, Min2
  <2>3. /\ index \in Slots /\ first \in 1..cCount
        /\ \A k \in 0..(first - 1) : (tail + k) % Capacity = index + k
        /\ \A k \in first..(cCount - 1) : (tail + k) % Capacity = k - first
    BY <2>2, RunInSlots
  <2>4. \/ cpc = "copyFirst" /\ s \in index..(index + first - 1)
        \/ cpc = "copyRest" /\ s \in 0..(cCount - first - 1)
    BY <2>1 DEF Reading
  <2> HIDE DEF index, first
  <2>5. CASE cpc = "copyFirst" /\ s \in index..(index + first - 1)
    <3>1. s - index \in 0..(first - 1) /\ s - index \in 0..(cCount - 1)
          /\ index + (s - index) = s
      BY <2>5, <2>2, <2>3 DEF Slots
    <3>. QED  BY <3>1, <2>3, <2>5
  <2>6. CASE cpc = "copyRest" /\ s \in 0..(cCount - first - 1)
    <3>1. s + first \in first..(cCount - 1) /\ s + first \in 0..(cCount - 1)
          /\ (s + first) - first = s
      BY <2>6, <2>2, <2>3
    <3>. QED  BY <3>1, <2>3, <2>6
  <2>. QED  BY <2>4, <2>5, <2>6
<1>. QED  BY <1>1, <1>2

(* The two memcpys never touch the same slot, for every ring size.         *)
THEOREM NoRace == Spec => []NoSlotRace
<1>1. IInv => NoSlotRace
  <2> SUFFICES ASSUME IInv, NEW s \in Writing, s \in Reading PROVE FALSE
    BY DEF NoSlotRace
  <2>1. PICK k \in 0..(pCount - 1) : ppc # "idle" /\ s = (head + k) % Capacity
    BY CopiesInRange
  <2>2. PICK j \in 0..(cCount - 1) :
          cpc \in {"copyFirst", "copyRest"} /\ s = (tail + j) % Capacity
    BY CopiesInRange
  <2>3. /\ head \in Nat /\ tail \in Nat /\ tailSeen \in Nat /\ headSeen \in Nat
        /\ pCount \in Nat /\ cCount \in Nat
        /\ head + pCount <= tailSeen + Capacity /\ tailSeen <= tail
        /\ tail + cCount <= headSeen /\ headSeen <= head
    BY <2>1, <2>2, RingAssumption DEF IInv, TypeOK, Knowledge, PushFits, PopFits, Min2
  <2>4. /\ tail + j \in Nat /\ head + k \in Nat
        /\ tail + j < head + k /\ head + k < (tail + j) + Capacity
    BY <2>3, RingAssumption
  <2>. QED  BY <2>1, <2>2, <2>4, SlotsDiffer
<1>. QED  BY <1>1, AlwaysIInv, PTL

(* The consumer gets the producer's stream, every frame once and in order. *)
THEOREM StreamInOrder == Spec => []InOrder
<1>1. IInv => InOrder
  BY DEF IInv
<1>. QED  BY <1>1, AlwaysIInv, PTL

(* The producer never underestimates the occupancy.                        *)
THEOREM EstimateSafe == Spec => []ProducerEstimate
<1>1. IInv => ProducerEstimate
  BY DEF IInv
<1>. QED  BY <1>1, AlwaysIInv, PTL

(* End of stream is concluded only when nothing is left.                   *)
THEOREM EofIsComplete == Spec => []EofComplete
<1>1. IInv => EofComplete
  BY DEF IInv, EndKnown, EofComplete
<1>. QED  BY <1>1, AlwaysIInv, PTL

(* The ring implements FrameChannel: publishing a batch accepts its        *)
(* frames, releasing one delivers them, and every other step is invisible. *)
THEOREM RingImplementsChannel == Spec => ImplementsChannel
<1>1. Init => Channel!Init
  BY DEF Init, Channel!Init
<1>2. IInv /\ [Next]_vars => [Channel!Next]_Channel!channelVars
  <2> SUFFICES ASSUME IInv, Next, ~UNCHANGED <<head, got, producerClosed, eof>>
               PROVE  Channel!Next
    BY DEF vars, consumerVars, producerVars, Channel!channelVars
  <2> USE DEF IInv
  <2>1. CASE Publish
    <3>1. /\ pCount \in 1..Capacity /\ ~producerClosed
          /\ head + pCount - Len(got) <= Capacity
      BY <2>1, RingAssumption DEF Publish, PushFits, Knowledge, TypeOK, InOrder
    <3>2. Channel!Accept(pCount)
      BY <2>1, <3>1 DEF Publish, Channel!Accept, consumerVars
    <3>. QED  BY <3>1, <3>2 DEF Channel!Next
  <2>2. CASE Release
    <3>1. /\ cCount \in 1..Capacity /\ cCount <= head - Len(got) /\ tail = Len(got)
      BY <2>2, RingAssumption DEF Release, PopFits, Knowledge, TypeOK, InOrder, Min2
    <3>2. \A i \in 1..cCount : out[i - 1] = Len(got) + i - 1
      <4> TAKE i \in 1..cCount
      <4>1. i - 1 \in 0..(cCount - 1)
        BY <3>1
      <4>2. out[i - 1] = tail + (i - 1)
        BY <4>1, <2>2 DEF PopCopied, Release
      <4>. QED  BY <4>2, <3>1, <4>1 DEF TypeOK
    <3>3. [i \in 1..cCount |-> out[i - 1]] = [i \in 1..cCount |-> Len(got) + i - 1]
      BY <3>2
    <3>4. Channel!Deliver(cCount)
      BY <2>2, <3>1, <3>3 DEF Release, Channel!Deliver
    <3>. QED  BY <3>1, <3>4 DEF Channel!Next
  <2>3. CASE CloseProducer
    BY <2>3 DEF CloseProducer, consumerVars, Channel!Close, Channel!Next
  <2>4. CASE LoadEmpty
    <3>1. eof' /\ producerClosed /\ tail = head /\ eof' = TRUE
      <4>1. ~eof /\ producerClosed /\ eof \in BOOLEAN /\ eof' \in BOOLEAN
        BY <2>4, LoadEmptyInv DEF LoadEmpty, EndKnown, TypeOK
      <4>2. eof' # eof /\ UNCHANGED <<head, tail, producerClosed, got>>
        BY <2>4 DEF LoadEmpty
      <4>3. eof' => tail' = head'
        BY <2>4, LoadEmptyInv DEF EndKnown
      <4>. QED  BY <4>1, <4>2, <4>3
    <3>2. Channel!End
      BY <3>1, <2>4 DEF LoadEmpty, Channel!End, InOrder
    <3>. QED  BY <3>2 DEF Channel!Next
  <2>5. ASSUME NEW n \in 1..MaxBatch, TryPushBatch(n) \/ TryPopBatch(n) PROVE FALSE
    BY <2>5 DEF TryPushBatch, TryPopBatch, consumerVars
  <2>6. CASE TryPush \/ PushCopyFirst \/ PushCopyRest \/ ProducerPending
    BY <2>6 DEF TryPush, PushCopyFirst, PushCopyRest, ProducerPending, consumerVars
  <2>7. CASE TryPop \/ PopCopyFirst \/ PopCopyRest \/ LoadClosed
    BY <2>7 DEF TryPop, PopCopyFirst, PopCopyRest, LoadClosed
  <2>. QED
    BY <2>1, <2>2, <2>3, <2>4, <2>5, <2>6, <2>7 DEF Next, Producer, Consumer
<1>. QED  BY <1>1, <1>2, AlwaysIInv, PTL DEF Spec, ImplementsChannel, Channel!Spec
=============================================================================
