-------------------------------- MODULE Load --------------------------------
(***************************************************************************)
(* telemetry-load (bench): encodes numbered records in batches and sends   *)
(* them over one connection, with a receiver that cuts the bytes into      *)
(* frames and decodes them as the server does.                             *)
(*                                                                         *)
(* A defective sender is covered too: up to MaxAltered bytes of a batch    *)
(* may be altered before they are sent.                                    *)
(***************************************************************************)
EXTENDS Codec, FiniteSets

CONSTANTS One,                  \* the bit pattern of 1.0
          MaxFrames, MaxBatch,  \* bounds: --frames and --batch-frames
          Chunks,               \* sizes of partial sends
          Wrong,                \* what an altered byte becomes
          MaxAltered            \* bound: bytes altered

ASSUME LoadAssumption ==
  /\ Fits(One, 8) /\ Fits(MaxFrames, 8)
  /\ MaxBatch \in Nat /\ Chunks \subseteq Nat \ {0} /\ Wrong \subseteq Byte

VARIABLES frames, batchFrames,  \* the options
          lpc,                  \* "connect", "fill", "send", "shutdown" or "exited"
          sent,                 \* frames sent
          buffer,               \* the encoded batch
          offset,               \* bytes of it sent
          exitCode,             \* "none", "success" or "failure"
          altered,              \* positions altered in the whole stream
          wire, finished        \* received bytes, end of stream

loadVars == <<frames, batchFrames, lpc, sent, buffer, offset, exitCode, altered, wire, finished>>

(* The n-th record.                                                        *)
Record(n) == [sensorId |-> 1, metricId |-> 2, timestampNs |-> n, value |-> One]

Least(a, b) == IF a <= b THEN a ELSE b

Init ==
  /\ frames \in 1..MaxFrames /\ batchFrames \in 1..MaxBatch
  /\ lpc = "connect" /\ sent = 0 /\ buffer = <<>> /\ offset = 0 /\ exitCode = "none"
  /\ altered = {} /\ wire = <<>> /\ finished = FALSE

Exit(code) ==
  /\ lpc' = "exited" /\ exitCode' = code
  /\ UNCHANGED <<frames, batchFrames, sent, buffer, offset, altered, wire>>

(* socket() and connect()                                                  *)
Connect ==
  /\ lpc = "connect" /\ lpc' = "fill"
  /\ UNCHANGED <<frames, batchFrames, sent, buffer, offset, exitCode, altered, wire, finished>>
ConnectFails == lpc = "connect" /\ Exit("failure") /\ UNCHANGED finished

BatchCount == Least(batchFrames, frames - sent)

(* The frame that a position belongs to, and the place in it.              *)
Frame(p) == ((p - 1) \div FrameSize) + 1
InFrame(p) == ((p - 1) % FrameSize) + 1

Fill ==
  /\ lpc = "fill" /\ sent < frames
  /\ buffer' = [p \in 1..(BatchCount * FrameSize) |->
                  Encode(Record(sent + Frame(p)))[InFrame(p)]]
  /\ offset' = 0
  /\ lpc' = "send"
  /\ UNCHANGED <<frames, batchFrames, sent, exitCode, altered, wire, finished>>

(* A sender that is not this one: another byte in the batch.               *)
Alter ==
  /\ lpc = "send" /\ offset = 0 /\ Cardinality(altered) < MaxAltered
  /\ \E i \in DOMAIN buffer :
       LET position == sent * FrameSize + i
       IN /\ \A p \in altered : p < position
          /\ altered' = altered \cup {position}
          /\ \E byte \in Wrong \ {buffer[i]} : buffer' = [buffer EXCEPT ![i] = byte]
  /\ UNCHANGED <<frames, batchFrames, lpc, sent, offset, exitCode, wire, finished>>

(* Faulty Advance: starts again at the batch's first byte.                 *)
AdvanceNot(n) == offset' = IF offset + n = Len(buffer) THEN offset + n ELSE offset

Advance(n) == offset' = offset + n

(* A turn of sendAll(): some of the bytes are taken, or all that are left. *)
SendSome ==
  /\ lpc = "send" /\ offset < Len(buffer)
  /\ \E n \in {k \in Chunks : k < Len(buffer) - offset} \cup {Len(buffer) - offset} :
       /\ Advance(n)
       /\ wire' = wire \o SubSeq(buffer, offset + 1, offset + n)
  /\ UNCHANGED <<frames, batchFrames, lpc, sent, buffer, exitCode, altered, finished>>
SendFails ==
  /\ lpc = "send" /\ offset < Len(buffer)
  /\ Exit("failure") /\ finished' = TRUE
BatchSent ==
  /\ lpc = "send" /\ offset = Len(buffer)
  /\ sent' = sent + Len(buffer) \div FrameSize
  /\ buffer' = <<>> /\ offset' = 0
  /\ lpc' = IF sent' < frames THEN "fill" ELSE "shutdown"
  /\ UNCHANGED <<frames, batchFrames, exitCode, altered, wire, finished>>

(* shutdown(SHUT_WR) and close(), or a failure of the first.               *)
Shutdown == lpc = "shutdown" /\ Exit("success") /\ finished' = TRUE
ShutdownFails == lpc = "shutdown" /\ Exit("failure") /\ finished' = TRUE

Exited == lpc = "exited" /\ UNCHANGED loadVars

Next ==
  \/ Connect \/ ConnectFails \/ Fill \/ Alter \/ SendSome \/ SendFails \/ BatchSent
  \/ Shutdown \/ ShutdownFails \/ Exited
Spec == Init /\ [][Next]_loadVars

-----------------------------------------------------------------------------
(* What the receiver finds in the bytes it has: complete frames, in order. *)
FrameAt(n) == SubSeq(wire, (n - 1) * FrameSize + 1, n * FrameSize)
Complete == Len(wire) \div FrameSize
AlteredIn(n) == {p \in 1..FrameSize : (n - 1) * FrameSize + p \in altered}
Intact(n, name) == AlteredIn(n) \cap Positions(name) = {}

(* However sends and batches split the stream, the n-th frame received is  *)
(* the n-th record, and the sender reports success only when all arrived   *)
(* and nothing else did.                                                   *)
RecordsArrive ==
  /\ \A n \in 1..Complete :
       AlteredIn(n) = {} => Decode(FrameAt(n)) = [record |-> Record(n), error |-> "None"]
  /\ exitCode = "success" => Len(wire) = frames * FrameSize

(* Every byte counts: one altered in the header is refused, with the error *)
(* of the first field concerned; one altered in the payload changes the    *)
(* field it belongs to and no other.                                       *)
EveryByteCounts ==
  \A n \in 1..Complete :
    LET result == Decode(FrameAt(n))
        sound == {name \in Header : Intact(n, name)}
    IN /\ "magic" \notin sound => result.error = "InvalidMagic"
       /\ "magic" \in sound /\ "version" \notin sound => result.error = "UnsupportedVersion"
       /\ sound = {"magic", "version"} => result.error = "InvalidDeclaredFrameSize"
       /\ sound = Header => /\ result.error = "None"
                            /\ \A name \in Payload :
                                 Intact(n, name) <=> result.record[name] = Record(n)[name]
=============================================================================
