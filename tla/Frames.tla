------------------------------- MODULE Frames -------------------------------
(***************************************************************************)
(* Frames on their way from a connection to the file.                      *)
(*                                                                         *)
(* A connection sends a stream of units, <<c, 0>>, <<c, 1>>, ...; a frame  *)
(* is any FrameUnits consecutive units of an input buffer.  What decode()  *)
(* looks at is abstracted to whether the frame holds a unit of the frame   *)
(* that connection c got wrong, number BadFrame[c]; a frame cut at the     *)
(* wrong place is accepted otherwise, the worst that decode() may do.      *)
(***************************************************************************)
EXTENDS Integers, Sequences

CONSTANTS Conns,         \* connections that peers may open, each once
          FrameUnits,    \* kFrameSize in units
          BadFrame       \* number of the invalid frame of each connection, or Never

Never == -1

ASSUME FramesAssumption ==
  /\ FrameUnits \in Nat \ {0}
  /\ BadFrame \in [Conns -> Nat \cup {Never}]

Units(c, from, to) == [i \in 1..(to - from) |-> <<c, from + i - 1>>]

(* decode(): is the frame accepted?                                        *)
Decodes(frame) ==
  \A i \in DOMAIN frame : frame[i][2] \div FrameUnits # BadFrame[frame[i][1]]

(* The n-th frame that connection c sends.                                 *)
SentFrame(c, n) == Units(c, n * FrameUnits, (n + 1) * FrameUnits)
=============================================================================
