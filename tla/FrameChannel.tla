---------------------------- MODULE FrameChannel ----------------------------
(***************************************************************************)
(* What the shared ring promises to the two processes that use it: a       *)
(* bounded, reliable, ordered stream of frames from one producer to one    *)
(* consumer, which ends only when the producer has closed it and every     *)
(* accepted frame has been delivered.                                      *)
(*                                                                         *)
(* A frame is identified by its position in the producer's stream, 0, 1,   *)
(* 2, ...: the ring never looks inside a frame.                            *)
(***************************************************************************)
EXTENDS Integers, Sequences

CONSTANT Capacity        \* frames the channel can hold

VARIABLES accepted,      \* number of frames taken from the producer
          delivered,     \* the frames handed to the consumer, in order
          closed,        \* the producer has closed its end
          ended          \* the consumer has concluded end of stream

channelVars == <<accepted, delivered, closed, ended>>

Init ==
  /\ accepted = 0
  /\ delivered = <<>>
  /\ closed = FALSE
  /\ ended = FALSE

(* The producer hands over its next n frames, all at once.                 *)
Accept(n) ==
  /\ ~closed
  /\ accepted + n - Len(delivered) <= Capacity
  /\ accepted' = accepted + n
  /\ UNCHANGED <<delivered, closed, ended>>

(* The consumer takes the n oldest frames, all at once.                    *)
Deliver(n) ==
  /\ n <= accepted - Len(delivered)
  /\ delivered' = delivered \o [i \in 1..n |-> Len(delivered) + i - 1]
  /\ UNCHANGED <<accepted, closed, ended>>

Close ==
  /\ closed' = TRUE
  /\ UNCHANGED <<accepted, delivered, ended>>

End ==
  /\ closed
  /\ Len(delivered) = accepted
  /\ ended' = TRUE
  /\ UNCHANGED <<accepted, delivered, closed>>

Next ==
  \/ \E n \in 1..Capacity : Accept(n) \/ Deliver(n)
  \/ Close
  \/ End

Spec == Init /\ [][Next]_channelVars
=============================================================================
