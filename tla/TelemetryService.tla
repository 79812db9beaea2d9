-------------------------- MODULE TelemetryService --------------------------
(***************************************************************************)
(* What the whole program promises: it accepts the valid frames of each    *)
(* connection in the order they were sent, from the first one and without  *)
(* gaps, stores what it accepted in one order, and ends with success only  *)
(* when everything accepted is stored and synced.                          *)
(***************************************************************************)
EXTENDS Frames, FiniteSets

VARIABLES accepted,      \* frames taken from the connections, in order
          stored,        \* frames in the file
          durable,       \* all of them are synced
          outcome        \* "none", "success" or "failure"

serviceVars == <<accepted, stored, durable, outcome>>

Init == accepted = <<>> /\ stored = <<>> /\ durable = TRUE /\ outcome = "none"

(* The next frames of connection c, all of them valid.                     *)
AcceptedOf(c) == Cardinality({i \in DOMAIN accepted : accepted[i][1][1] = c})
Accept(c) ==
  /\ outcome = "none"
  /\ \E n \in 1..Len(accepted') :
       LET next == [i \in 1..n |-> SentFrame(c, AcceptedOf(c) + i - 1)]
       IN /\ \A i \in 1..n : Decodes(next[i])
          /\ accepted' = accepted \o next
  /\ UNCHANGED <<stored, durable, outcome>>

(* The next n accepted frames.                                             *)
Store(n) ==
  /\ outcome = "none"
  /\ Len(stored) + n <= Len(accepted)
  /\ stored' = SubSeq(accepted, 1, Len(stored) + n)
  /\ durable' \in BOOLEAN
  /\ UNCHANGED <<accepted, outcome>>

Finish(result) ==
  /\ outcome = "none"
  /\ result = "success" => stored = accepted /\ durable
  /\ outcome' = result
  /\ UNCHANGED <<accepted, stored, durable>>

Next ==
  \/ \E c \in Conns : Accept(c)
  \/ \E n \in 0..Len(accepted) : Store(n)
  \/ \E result \in {"success", "failure"} : Finish(result)

Spec == Init /\ [][Next]_serviceVars
=============================================================================
