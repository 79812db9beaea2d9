-------------------------------- MODULE Codec --------------------------------
(***************************************************************************)
(* TelemetryCodec (Protocol): a record as a frame of 32 bytes, big-endian. *)
(*                                                                         *)
(* A byte is a digit of base Radix, 256 in the code; any base large enough *)
(* for the constants of the header has the same carries, shifts and        *)
(* truncations.  A double is its bit pattern, which std::bit_cast keeps.   *)
(***************************************************************************)
EXTENDS Integers, Sequences

CONSTANTS Radix,         \* values of a byte
          Magic          \* kMagic

Version == 1
FrameSize == 32
Byte == 0..(Radix - 1)

(* A shift by one byte to the right and to the left, with a byte added.    *)
Shr(v) == v \div Radix
Shl(v, byte) == v * Radix + byte

(* value >> 0, value >> 8, ..., value >> 64                                *)
Shifted(v) ==
  LET s1 == Shr(v)  s2 == Shr(s1)  s3 == Shr(s2)  s4 == Shr(s3)
      s5 == Shr(s4) s6 == Shr(s5)  s7 == Shr(s6)  s8 == Shr(s7)
  IN <<v, s1, s2, s3, s4, s5, s6, s7, s8>>
Fits(v, width) == v \in Nat /\ Shifted(v)[width + 1] = 0

ASSUME CodecAssumption ==
  /\ Radix \in Nat /\ Radix > 2
  /\ Fits(Magic, 4) /\ Fits(FrameSize, 2)

(* Where each field starts in the frame, and how many bytes it has.        *)
Header == {"magic", "version", "declaredSize"}
Payload == {"sensorId", "metricId", "timestampNs", "value"}
Offset ==
  [name \in Header \cup Payload |->
     CASE name = "magic" -> 0 [] name = "version" -> 4 [] name = "declaredSize" -> 6
       [] name = "sensorId" -> 8 [] name = "metricId" -> 12
       [] name = "timestampNs" -> 16 [] name = "value" -> 24]
Width ==
  [name \in Header \cup Payload |->
     CASE name \in {"version", "declaredSize"} -> 2
       [] name \in {"magic", "sensorId", "metricId"} -> 4
       [] name \in {"timestampNs", "value"} -> 8]
Positions(name) == (Offset[name] + 1)..(Offset[name] + Width[name])

(* writeU16(), writeU32(), writeU64(): the highest byte first.             *)
WriteField(frame, name, v) ==
  [i \in DOMAIN frame |->
     IF i \in Positions(name)
       THEN Shifted(v)[Offset[name] + Width[name] - i + 1] % Radix
       ELSE frame[i]]

ReadU16(frame, o) == Shl(frame[o + 1], frame[o + 2])
ReadU32(frame, o) == Shl(Shl(ReadU16(frame, o), frame[o + 3]), frame[o + 4])
ReadU64(frame, o) ==
  Shl(Shl(Shl(Shl(ReadU32(frame, o), frame[o + 5]), frame[o + 6]), frame[o + 7]), frame[o + 8])
ReadField(frame, name) ==
  LET o == Offset[name]
  IN CASE Width[name] = 2 -> ReadU16(frame, o)
       [] Width[name] = 4 -> ReadU32(frame, o)
       [] Width[name] = 8 -> ReadU64(frame, o)

Encode(record) ==
  LET f0 == [i \in 1..FrameSize |-> 0]
      f1 == WriteField(f0, "magic", Magic)
      f2 == WriteField(f1, "version", Version)
      f3 == WriteField(f2, "declaredSize", FrameSize)
      f4 == WriteField(f3, "sensorId", record.sensorId)
      f5 == WriteField(f4, "metricId", record.metricId)
      f6 == WriteField(f5, "timestampNs", record.timestampNs)
  IN WriteField(f6, "value", record.value)

(* The record of a frame whose header is in order, and an empty one.       *)
Content(frame) ==
  [sensorId |-> ReadField(frame, "sensorId"), metricId |-> ReadField(frame, "metricId"),
   timestampNs |-> ReadField(frame, "timestampNs"), value |-> ReadField(frame, "value")]
NoRecord == [sensorId |-> 0, metricId |-> 0, timestampNs |-> 0, value |-> 0]
Refuse(error) == [record |-> NoRecord, error |-> error]

(* Faulty Decode: does not look at the declared size.                      *)
DecodeAnySize(frame) ==
  IF ReadField(frame, "magic") # Magic THEN Refuse("InvalidMagic")
  ELSE IF ReadField(frame, "version") # Version THEN Refuse("UnsupportedVersion")
  ELSE [record |-> Content(frame), error |-> "None"]

(* The checks are made in this order; the first that fails is reported.    *)
Decode(frame) ==
  IF Len(frame) # FrameSize THEN Refuse("InvalidSize")
  ELSE IF ReadField(frame, "magic") # Magic THEN Refuse("InvalidMagic")
  ELSE IF ReadField(frame, "version") # Version THEN Refuse("UnsupportedVersion")
  ELSE IF ReadField(frame, "declaredSize") # FrameSize THEN Refuse("InvalidDeclaredFrameSize")
  ELSE [record |-> Content(frame), error |-> "None"]
=============================================================================
