------------------------------ MODULE MCSystem ------------------------------
(* Instances of System for TLC.                                            *)
EXTENDS System

CONSTANTS c1, c2

(* Nobody sends an invalid frame; or the first connection does.            *)
AllValid == [c \in Conns |-> Never]
ThirdBad == [c \in Conns |-> IF c = c1 THEN 2 ELSE Never]

(* Units each connection sends.                                            *)
OneUnit == [c \in Conns |-> 1]
TwoAndNone == [c \in Conns |-> IF c = c1 THEN 2 ELSE 0]
SixAndTwo == [c \in Conns |-> IF c = c1 THEN 6 ELSE 2]
TwoUnits == [c \in Conns |-> 2]
ThreeUnits == [c \in Conns |-> 3]
=============================================================================
