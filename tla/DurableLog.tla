----------------------------- MODULE DurableLog -----------------------------
(***************************************************************************)
(* What the store promises: a log of whole frames that only grows at its   *)
(* end, and of which a loss of power takes at most an unsynced tail.       *)
(* A frame is a number; frames are offered in increasing order, and one    *)
(* that was lost is not offered again.  So the log is the set of its       *)
(* frames, and the order of the numbers is the order of the log.           *)
(***************************************************************************)
EXTENDS Integers

VARIABLES log,        \* the frames in the files
          durable     \* those that would survive a loss of power

logVars == <<log, durable>>

(* Every frame of a comes before every frame of b.                         *)
Before(a, b) == \A f \in a, g \in b : f < g

Init == log \subseteq Nat /\ durable = log

Extend ==
  /\ log \subseteq log' /\ log' \subseteq Nat
  /\ Before(log, log' \ log)
  /\ UNCHANGED durable

Sync == durable' = log /\ UNCHANGED log

PowerLoss ==
  /\ durable \subseteq log' /\ log' \subseteq log
  /\ Before(log', log \ log')
  /\ durable' = log'

Spec == Init /\ [][Extend \/ Sync \/ PowerLoss]_logVars
=============================================================================
