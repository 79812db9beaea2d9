----------------------------- MODULE LoadProofs -----------------------------
(***************************************************************************)
(* Proofs about Codec and Load: what is encoded is decoded, every byte of  *)
(* a field counts, and the bytes received are the bytes of the records, in *)
(* order, for every number of frames, batch size and splitting of sends.   *)
(***************************************************************************)
EXTENDS Load, SequenceTheorems, TLAPS

-----------------------------------------------------------------------------
(* A shift to the right loses the lowest byte.                             *)
LEMMA ShrIs ==
  ASSUME NEW v \in Nat
  PROVE  Shr(v) \in Nat /\ v % Radix \in Byte /\ Shl(Shr(v), v % Radix) = v
<1>1. Radix \in Nat /\ Radix > 0
  BY CodecAssumption
<1>2. v \div Radix \in Nat /\ v % Radix \in Nat /\ v % Radix < Radix
  BY <1>1
<1>3. v = (v \div Radix) * Radix + (v % Radix)
  BY <1>1
<1>. QED BY <1>1, <1>2, <1>3 DEF Shr, Shl, Byte

(* A number is its upper part and its lowest byte.                         *)
LEMMA ShlIs ==
  ASSUME NEW a \in Nat, NEW x \in Byte
  PROVE  /\ Shl(a, x) \in Nat
         /\ \A b \in Nat, y \in Byte : Shl(a, x) = Shl(b, y) <=> a = b /\ x = y
<1>0. Radix \in Nat /\ Radix > 2
  BY CodecAssumption
<1>1. Shl(a, x) \in Nat
  <2>1. a * Radix \in Nat /\ x \in Nat
    BY <1>0 DEF Byte
  <2>. QED BY <2>1 DEF Shl
<1>2. ASSUME NEW b \in Nat, NEW y \in Byte, Shl(a, x) = Shl(b, y)
      PROVE  a = b /\ x = y
  <2>0. x \in Nat /\ y \in Nat /\ x < Radix /\ y < Radix
    BY <1>0 DEF Byte
  <2>. DEFINE ar == a * Radix
              br == b * Radix
  <2>1. ar + x = br + y /\ ar \in Nat /\ br \in Nat
    BY <1>0, <1>2 DEF Shl
  <2>2. a < b => ar + Radix <= br
    <3>1. a < b => (a + 1) * Radix <= b * Radix
      BY <1>0
    <3>2. (a + 1) * Radix = a * Radix + Radix
      BY <1>0
    <3>. QED BY <3>1, <3>2
  <2>3. b < a => br + Radix <= ar
    <3>1. b < a => (b + 1) * Radix <= a * Radix
      BY <1>0
    <3>2. (b + 1) * Radix = b * Radix + Radix
      BY <1>0
    <3>. QED BY <3>1, <3>2
  <2>4. a = b => ar = br
    OBVIOUS
  <2>. HIDE DEF ar, br
  <2>. QED BY <1>0, <2>0, <2>1, <2>2, <2>3, <2>4
<1>. QED BY <1>1, <1>2

(* The same for two given numbers.                                         *)
LEMMA ShlPair ==
  ASSUME NEW a \in Nat, NEW b \in Nat, NEW x \in Byte, NEW y \in Byte
  PROVE  /\ Shl(a, x) \in Nat /\ Shl(b, y) \in Nat
         /\ Shl(a, x) = Shl(b, y) <=> a = b /\ x = y
<1>1. Shl(a, x) \in Nat /\ Shl(b, y) \in Nat
  BY ShlIs
<1>2. \A c \in Nat, z \in Byte : Shl(a, x) = Shl(c, z) <=> a = c /\ x = z
  BY ShlIs
<1>. QED BY <1>1, <1>2

(* The shifts by 0 to 8 bytes.                                             *)
LEMMA ShiftedIs ==
  ASSUME NEW v \in Nat
  PROVE  /\ Shifted(v)[1] = v
         /\ \A k \in 1..8 : Shifted(v)[k + 1] = Shr(Shifted(v)[k])
         /\ \A k \in 1..9 : Shifted(v)[k] \in Nat
<1>1. PICK s : s = Shifted(v)
  OBVIOUS
<1>2. /\ s[1] = v /\ s[2] = Shr(s[1]) /\ s[3] = Shr(s[2]) /\ s[4] = Shr(s[3]) /\ s[5] = Shr(s[4])
      /\ s[6] = Shr(s[5]) /\ s[7] = Shr(s[6]) /\ s[8] = Shr(s[7]) /\ s[9] = Shr(s[8])
  BY <1>1 DEF Shifted
<1>3. /\ s[1] \in Nat /\ s[2] \in Nat /\ s[3] \in Nat /\ s[4] \in Nat /\ s[5] \in Nat
      /\ s[6] \in Nat /\ s[7] \in Nat /\ s[8] \in Nat /\ s[9] \in Nat
  BY <1>2, ShrIs
<1>4. \A k \in 1..8 : s[k + 1] = Shr(s[k])
  <2>1. \A k \in 1..8 : k \in {1, 2, 3, 4, 5, 6, 7, 8}
    OBVIOUS
  <2>. QED BY <1>2, <2>1
<1>5. \A k \in 1..9 : s[k] \in Nat
  BY <1>3
<1>. QED BY <1>1, <1>2, <1>4, <1>5

(* Of a number that fits, the highest byte is all there is.                *)
LEMMA TopByte ==
  ASSUME NEW v \in Nat, Shr(v) = 0
  PROVE  v % Radix = v
<1>1. v % Radix \in Byte /\ Shl(0, v % Radix) = v
  BY ShrIs
<1>2. v % Radix \in Nat
  BY <1>1, CodecAssumption DEF Byte
<1>3. 0 * Radix = 0
  BY CodecAssumption
<1>. QED BY <1>1, <1>2, <1>3 DEF Shl

(* What is written byte by byte is read again.                             *)
Spells(f, o, w, v) == \A i \in 1..w : f[o + i] = Shifted(v)[w - i + 1] % Radix
(* readU16(), readU32() and readU64() of the bytes of v give v.            *)
LEMMA ReadsBack ==
  ASSUME NEW f, NEW o, NEW v, NEW w \in {2, 4, 8}, Fits(v, w), Spells(f, o, w, v)
  PROVE  /\ w = 2 => ReadU16(f, o) = v
         /\ w = 4 => ReadU32(f, o) = v
         /\ w = 8 => ReadU64(f, o) = v
<1>0. v \in Nat
  BY DEF Fits
<1>1. PICK s : s = Shifted(v)
  OBVIOUS
<1>2. s[1] = v /\ s[w + 1] = 0
  BY <1>0, <1>1, ShiftedIs DEF Fits
<1>3. \A k \in 1..8 : s[k + 1] = Shr(s[k]) /\ s[k] \in Nat
  BY <1>0, <1>1, ShiftedIs
<1>4. \A k \in 1..8 : Shl(s[k + 1], s[k] % Radix) = s[k]
  BY <1>3, ShrIs
<1>5. s[w] % Radix = s[w]
  <2>1. w \in 1..8
    OBVIOUS
  <2>2. s[w] \in Nat /\ Shr(s[w]) = 0
    BY <1>2, <1>3, <2>1
  <2>. QED BY <2>2, TopByte
<1>6. \A i \in 1..w : f[o + i] = s[w - i + 1] % Radix
  BY <1>1 DEF Spells
<1>7. CASE w = 2
  <2>1. f[o + 1] = s[2] /\ f[o + 2] = s[1] % Radix
    BY <1>5, <1>6, <1>7
  <2>2. Shl(s[2], s[1] % Radix) = s[1]
    BY <1>4
  <2>. QED BY <1>2, <1>7, <2>1, <2>2 DEF ReadU16
<1>8. CASE w = 4
  <2>1. f[o + 1] = s[4] /\ f[o + 2] = s[3] % Radix /\ f[o + 3] = s[2] % Radix /\ f[o + 4] = s[1] % Radix
    BY <1>5, <1>6, <1>8
  <2>2. /\ Shl(s[4], s[3] % Radix) = s[3] /\ Shl(s[3], s[2] % Radix) = s[2]
        /\ Shl(s[2], s[1] % Radix) = s[1]
    BY <1>4
  <2>. QED BY <1>2, <1>8, <2>1, <2>2 DEF ReadU16, ReadU32
<1>9. CASE w = 8
  <2>1. /\ f[o + 1] = s[8] /\ f[o + 2] = s[7] % Radix /\ f[o + 3] = s[6] % Radix
        /\ f[o + 4] = s[5] % Radix /\ f[o + 5] = s[4] % Radix /\ f[o + 6] = s[3] % Radix
        /\ f[o + 7] = s[2] % Radix /\ f[o + 8] = s[1] % Radix
    BY <1>5, <1>6, <1>9
  <2>2. /\ Shl(s[8], s[7] % Radix) = s[7] /\ Shl(s[7], s[6] % Radix) = s[6]
        /\ Shl(s[6], s[5] % Radix) = s[5] /\ Shl(s[5], s[4] % Radix) = s[4]
        /\ Shl(s[4], s[3] % Radix) = s[3] /\ Shl(s[3], s[2] % Radix) = s[2]
        /\ Shl(s[2], s[1] % Radix) = s[1]
    BY <1>4
  <2>. QED BY <1>2, <1>9, <2>1, <2>2 DEF ReadU16, ReadU32, ReadU64
<1>. QED BY <1>7, <1>8, <1>9

-----------------------------------------------------------------------------
FieldNames == Header \cup Payload

(* Offsets and widths, one by one.                                         *)
LEMMA Layout ==
  /\ Offset["magic"] = 0 /\ Offset["version"] = 4 /\ Offset["declaredSize"] = 6
  /\ Offset["sensorId"] = 8 /\ Offset["metricId"] = 12
  /\ Offset["timestampNs"] = 16 /\ Offset["value"] = 24
  /\ Width["magic"] = 4 /\ Width["version"] = 2 /\ Width["declaredSize"] = 2
  /\ Width["sensorId"] = 4 /\ Width["metricId"] = 4
  /\ Width["timestampNs"] = 8 /\ Width["value"] = 8
BY SMT DEF Offset, Width, Header, Payload

(* Every field has its own part of the frame.                              *)
LEMMA FieldsApart ==
  /\ \A name \in FieldNames :
       /\ Offset[name] \in 0..24 /\ Width[name] \in {2, 4, 8}
       /\ Offset[name] + Width[name] <= 32
  /\ \A m, n \in FieldNames :
       m = n \/ Offset[m] + Width[m] <= Offset[n] \/ Offset[n] + Width[n] <= Offset[m]
<1>1. \A name \in FieldNames :
        name \in {"magic", "version", "declaredSize", "sensorId", "metricId", "timestampNs", "value"}
  BY DEF FieldNames, Header, Payload
<1>2. \A name \in FieldNames :
       /\ Offset[name] \in 0..24 /\ Width[name] \in {2, 4, 8}
       /\ Offset[name] + Width[name] <= 32
  BY <1>1, Layout, SMT
<1>3. ASSUME NEW m \in FieldNames, NEW n \in FieldNames
      PROVE  m = n \/ Offset[m] + Width[m] <= Offset[n] \/ Offset[n] + Width[n] <= Offset[m]
  <2>1. /\ m \in {"magic", "version", "declaredSize", "sensorId", "metricId", "timestampNs", "value"}
        /\ n \in {"magic", "version", "declaredSize", "sensorId", "metricId", "timestampNs", "value"}
    BY <1>1
  <2>. QED BY <2>1, Layout, SMT
<1>. QED BY <1>2, <1>3

(* No byte belongs to two fields.                                          *)
LEMMA PositionsApart ==
  ASSUME NEW m \in FieldNames, NEW n \in FieldNames, m # n, NEW p \in Positions(m)
  PROVE  p \notin Positions(n)
<1>1. /\ Offset[m] \in Nat /\ Offset[n] \in Nat /\ Width[m] \in Nat /\ Width[n] \in Nat
      /\ Offset[m] + Width[m] <= Offset[n] \/ Offset[n] + Width[n] <= Offset[m]
  BY FieldsApart
<1>. QED BY <1>1 DEF Positions

(* The bytes of a whole frame.                                             *)
Bytes == [1..FrameSize -> Byte]

(* The byte of v at position p of a field.                                 *)
Digit(v, name, p) == Shifted(v)[Offset[name] + Width[name] - p + 1] % Radix

(* A write changes its own positions only.                                 *)
LEMMA WriteIs ==
  ASSUME NEW f \in Bytes, NEW name \in FieldNames, NEW v \in Nat
  PROVE  /\ WriteField(f, name, v) \in Bytes
         /\ \A p \in Positions(name) : WriteField(f, name, v)[p] = Digit(v, name, p)
         /\ \A p \in 1..FrameSize : p \notin Positions(name) => WriteField(f, name, v)[p] = f[p]
<1>1. /\ Offset[name] \in 0..24 /\ Width[name] \in {2, 4, 8} /\ Offset[name] + Width[name] <= 32
  BY FieldsApart
<1>2. Positions(name) \subseteq 1..FrameSize
  BY <1>1 DEF Positions, FrameSize
<1>3. ASSUME NEW p \in Positions(name) PROVE Digit(v, name, p) \in Byte
  <2>1. Offset[name] + Width[name] - p + 1 \in 1..9
    BY <1>1 DEF Positions
  <2>2. Shifted(v)[Offset[name] + Width[name] - p + 1] \in Nat
    BY <2>1, ShiftedIs
  <2>. QED BY <2>2, ShrIs DEF Digit
<1>4. DOMAIN f = 1..FrameSize /\ \A p \in 1..FrameSize : f[p] \in Byte
  BY DEF Bytes
<1>5. WriteField(f, name, v) =
        [p \in 1..FrameSize |-> IF p \in Positions(name) THEN Digit(v, name, p) ELSE f[p]]
  BY <1>4, Zenon DEF WriteField, Digit
<1>. QED BY <1>2, <1>3, <1>4, <1>5, Zenon DEF Bytes

(* What the code writes into each field.                                   *)
Value(r, name) ==
  CASE name = "magic" -> Magic [] name = "version" -> Version
    [] name = "declaredSize" -> FrameSize
    [] name = "sensorId" -> r.sensorId [] name = "metricId" -> r.metricId
    [] name = "timestampNs" -> r.timestampNs [] name = "value" -> r.value

(* A record whose values have the widths of TelemetryRecord's members.     *)
IsRecord(r) ==
  /\ Fits(r.sensorId, 4) /\ Fits(r.metricId, 4)
  /\ Fits(r.timestampNs, 8) /\ Fits(r.value, 8)

(* The constants of the header fit their fields.                           *)
LEMMA SmallFits ==
  ASSUME NEW v \in {0, 1, 2}, NEW w \in {2, 4, 8}
  PROVE  Fits(v, w)
<1>1. Shr(v) = 0 /\ Shr(0) = 0
  BY CodecAssumption DEF Shr
<1>2. v \in Nat /\ \A k \in 1..8 : Shifted(v)[k + 1] = Shr(Shifted(v)[k])
  BY ShiftedIs
<1>3. PICK s : s = Shifted(v)
  OBVIOUS
<1>4. s[1] = v /\ \A k \in 1..8 : s[k + 1] = Shr(s[k])
  BY <1>2, <1>3, ShiftedIs
<1>5. s[2] = 0
  BY <1>1, <1>4
<1>6. s[3] = 0
  BY <1>1, <1>4, <1>5
<1>7. s[4] = 0 /\ s[5] = 0
  BY <1>1, <1>4, <1>6
<1>8. s[6] = 0 /\ s[7] = 0
  BY <1>1, <1>4, <1>7
<1>9. s[8] = 0 /\ s[9] = 0
  BY <1>1, <1>4, <1>8
<1>. QED BY <1>2, <1>3, <1>6, <1>7, <1>9 DEF Fits

(* A field has the digits of a value.                                      *)
Has(f, name, v) == \A p \in Positions(name) : f[p] = Digit(v, name, p)

(* A write of Encode(), and the fields written before it.                  *)
LEMMA WriteHas ==
  ASSUME NEW f \in Bytes, NEW name \in FieldNames, NEW v \in Nat
  PROVE  /\ WriteField(f, name, v) \in Bytes
         /\ Has(WriteField(f, name, v), name, v)
         /\ \A m \in FieldNames : \A u :
              m # name /\ Has(f, m, u) => Has(WriteField(f, name, v), m, u)
<1>1. WriteField(f, name, v) \in Bytes /\ Has(WriteField(f, name, v), name, v)
  BY WriteIs DEF Has
<1>2. ASSUME NEW m \in FieldNames, NEW u, m # name, Has(f, m, u)
      PROVE  Has(WriteField(f, name, v), m, u)
  <2>1. SUFFICES ASSUME NEW p \in Positions(m) PROVE WriteField(f, name, v)[p] = Digit(u, m, p)
    BY DEF Has
  <2>2. p \notin Positions(name)
    BY <1>2, PositionsApart
  <2>3. p \in 1..FrameSize
    <3>1. /\ Offset[m] \in 0..24 /\ Width[m] \in {2, 4, 8} /\ Offset[m] + Width[m] <= 32
      BY FieldsApart
    <3>. QED BY <3>1 DEF Positions, FrameSize
  <2>4. WriteField(f, name, v)[p] = f[p]
    BY <2>2, <2>3, WriteIs
  <2>. QED BY <1>2, <2>4 DEF Has
<1>. QED BY <1>1, <1>2

(* The frame of a record: every field has the digits of its value.         *)
LEMMA EncodeIs ==
  ASSUME NEW r, IsRecord(r)
  PROVE  /\ Encode(r) \in Bytes
         /\ \A name \in FieldNames : Has(Encode(r), name, Value(r, name))
<1>. DEFINE f0 == [i \in 1..FrameSize |-> 0]
            f1 == WriteField(f0, "magic", Magic)
            f2 == WriteField(f1, "version", Version)
            f3 == WriteField(f2, "declaredSize", FrameSize)
            f4 == WriteField(f3, "sensorId", r.sensorId)
            f5 == WriteField(f4, "metricId", r.metricId)
            f6 == WriteField(f5, "timestampNs", r.timestampNs)
            f7 == WriteField(f6, "value", r.value)
<1>1. /\ Magic \in Nat /\ Version \in Nat /\ FrameSize \in Nat /\ r.sensorId \in Nat
      /\ r.metricId \in Nat /\ r.timestampNs \in Nat /\ r.value \in Nat
  <2>1. Version \in Nat /\ FrameSize \in Nat
    BY DEF Version, FrameSize
  <2>. QED BY <2>1, CodecAssumption DEF IsRecord, Fits
<1>2. /\ "magic" \in FieldNames /\ "version" \in FieldNames /\ "declaredSize" \in FieldNames
      /\ "sensorId" \in FieldNames /\ "metricId" \in FieldNames
      /\ "timestampNs" \in FieldNames /\ "value" \in FieldNames
  BY DEF FieldNames, Header, Payload
<1>3. f0 \in Bytes
  BY CodecAssumption DEF Bytes, Byte
<1>4. Encode(r) = f7
  BY Zenon DEF Encode
<1>. HIDE DEF f0
<1>5. f1 \in Bytes /\ Has(f1, "magic", Magic)
  BY <1>1, <1>2, <1>3, WriteHas, Zenon
<1>. HIDE DEF f1
<1>6. f2 \in Bytes /\ Has(f2, "version", Version) /\ Has(f2, "magic", Magic)
  BY <1>1, <1>2, <1>5, WriteHas
<1>. HIDE DEF f2
<1>7. /\ f3 \in Bytes /\ Has(f3, "declaredSize", FrameSize) /\ Has(f3, "version", Version)
      /\ Has(f3, "magic", Magic)
  BY <1>1, <1>2, <1>6, WriteHas
<1>. HIDE DEF f3
<1>8. /\ f4 \in Bytes /\ Has(f4, "sensorId", r.sensorId) /\ Has(f4, "declaredSize", FrameSize)
      /\ Has(f4, "version", Version) /\ Has(f4, "magic", Magic)
  BY <1>1, <1>2, <1>7, WriteHas
<1>. HIDE DEF f4
<1>9. /\ f5 \in Bytes /\ Has(f5, "metricId", r.metricId) /\ Has(f5, "sensorId", r.sensorId)
      /\ Has(f5, "declaredSize", FrameSize) /\ Has(f5, "version", Version)
      /\ Has(f5, "magic", Magic)
  BY <1>1, <1>2, <1>8, WriteHas
<1>. HIDE DEF f5
<1>10. /\ f6 \in Bytes /\ Has(f6, "timestampNs", r.timestampNs) /\ Has(f6, "metricId", r.metricId)
       /\ Has(f6, "sensorId", r.sensorId) /\ Has(f6, "declaredSize", FrameSize)
       /\ Has(f6, "version", Version) /\ Has(f6, "magic", Magic)
  BY <1>1, <1>2, <1>9, WriteHas
<1>. HIDE DEF f6
<1>11. /\ f7 \in Bytes /\ Has(f7, "value", r.value) /\ Has(f7, "timestampNs", r.timestampNs)
       /\ Has(f7, "metricId", r.metricId) /\ Has(f7, "sensorId", r.sensorId)
       /\ Has(f7, "declaredSize", FrameSize) /\ Has(f7, "version", Version)
       /\ Has(f7, "magic", Magic)
  BY <1>1, <1>2, <1>10, WriteHas
<1>. HIDE DEF f7
<1>12. ASSUME NEW name \in FieldNames PROVE Has(f7, name, Value(r, name))
  <2>1. name \in {"magic", "version", "declaredSize", "sensorId", "metricId", "timestampNs", "value"}
    BY DEF FieldNames, Header, Payload
  <2>2. CASE name = "magic"
    <3>1. Value(r, name) = Magic
      BY <2>2 DEF Value
    <3>. QED BY <1>11, <2>2, <3>1
  <2>3. CASE name = "version"
    <3>1. Value(r, name) = Version
      BY <2>3 DEF Value
    <3>. QED BY <1>11, <2>3, <3>1
  <2>4. CASE name = "declaredSize"
    <3>1. Value(r, name) = FrameSize
      BY <2>4 DEF Value
    <3>. QED BY <1>11, <2>4, <3>1
  <2>5. CASE name = "sensorId"
    <3>1. Value(r, name) = r.sensorId
      BY <2>5 DEF Value
    <3>. QED BY <1>11, <2>5, <3>1
  <2>6. CASE name = "metricId"
    <3>1. Value(r, name) = r.metricId
      BY <2>6 DEF Value
    <3>. QED BY <1>11, <2>6, <3>1
  <2>7. CASE name = "timestampNs"
    <3>1. Value(r, name) = r.timestampNs
      BY <2>7 DEF Value
    <3>. QED BY <1>11, <2>7, <3>1
  <2>8. CASE name = "value"
    <3>1. Value(r, name) = r.value
      BY <2>8 DEF Value
    <3>. QED BY <1>11, <2>8, <3>1
  <2>. QED BY <2>1, <2>2, <2>3, <2>4, <2>5, <2>6, <2>7, <2>8
<1>. QED BY <1>4, <1>11, <1>12

(* Every field of an encoded record is read as it was written.             *)
LEMMA EncodeReads ==
  ASSUME NEW r, IsRecord(r), NEW name \in FieldNames
  PROVE  ReadField(Encode(r), name) = Value(r, name)
<1>1. name \in {"magic", "version", "declaredSize", "sensorId", "metricId", "timestampNs", "value"}
  BY DEF FieldNames, Header, Payload
<1>2. Fits(Value(r, name), Width[name])
  <2>1. Fits(Version, 2)
    BY SmallFits DEF Version
  <2>. QED BY <1>1, <2>1, Layout, CodecAssumption DEF Value, IsRecord
<1>3. PICK f, v, w, o : f = Encode(r) /\ v = Value(r, name) /\ w = Width[name] /\ o = Offset[name]
  OBVIOUS
<1>4. w \in {2, 4, 8} /\ o \in Nat
  BY <1>3, FieldsApart
<1>5. Spells(f, o, w, v)
  <2>1. ASSUME NEW i \in 1..w PROVE f[o + i] = Shifted(v)[w - i + 1] % Radix
    <3>1. o + i \in Positions(name)
      BY <1>3, <1>4 DEF Positions
    <3>2. f[o + i] = Digit(v, name, o + i)
      BY <1>3, <3>1, EncodeIs DEF Has
    <3>3. o + w - (o + i) + 1 = w - i + 1
      BY <1>4
    <3>4. Digit(v, name, o + i) = Shifted(v)[o + w - (o + i) + 1] % Radix
      BY <1>3, Zenon DEF Digit
    <3>. QED BY <3>2, <3>3, <3>4
  <2>. QED BY <2>1 DEF Spells
<1>6. Fits(v, w)
  BY <1>2, <1>3
<1>7. /\ w = 2 => ReadU16(f, o) = v
      /\ w = 4 => ReadU32(f, o) = v
      /\ w = 8 => ReadU64(f, o) = v
  BY <1>4, <1>5, <1>6, ReadsBack, Zenon
<1>. QED BY <1>3, <1>4, <1>7 DEF ReadField

(* Two frames agree on a field if and only if they agree on its bytes.     *)
LEMMA FieldCounts ==
  ASSUME NEW f \in Bytes, NEW g \in Bytes, NEW name \in FieldNames
  PROVE  ReadField(f, name) = ReadField(g, name) <=> \A p \in Positions(name) : f[p] = g[p]
<1>1. PICK w, o : w = Width[name] /\ o = Offset[name]
  OBVIOUS
<1>2. w \in {2, 4, 8} /\ o \in 0..24 /\ o + w <= 32
  BY <1>1, FieldsApart
<1>3. \A i \in 1..w : f[o + i] \in Byte /\ g[o + i] \in Byte
  BY <1>2 DEF Bytes, FrameSize
<1>4. \A x \in Byte : x \in Nat
  BY CodecAssumption DEF Byte
<1>5. (\A p \in Positions(name) : f[p] = g[p]) <=> \A i \in 1..w : f[o + i] = g[o + i]
  <2>1. \A i \in 1..w : o + i \in Positions(name)
    BY <1>1, <1>2 DEF Positions
  <2>2. \A p \in Positions(name) : p - o \in 1..w /\ o + (p - o) = p
    BY <1>1, <1>2 DEF Positions
  <2>. QED BY <2>1, <2>2
<1>6. /\ ReadU16(f, o) \in Nat /\ ReadU16(g, o) \in Nat
      /\ ReadU16(f, o) = ReadU16(g, o) <=> f[o + 1] = g[o + 1] /\ f[o + 2] = g[o + 2]
  <2>1. f[o + 1] \in Byte /\ g[o + 1] \in Byte /\ f[o + 2] \in Byte /\ g[o + 2] \in Byte
    BY <1>2, <1>3
  <2>2. f[o + 1] \in Nat /\ g[o + 1] \in Nat
    BY <1>4, <2>1
  <2>3. f[o + 2] \in Byte /\ g[o + 2] \in Byte
    BY <2>1
  <2>. QED BY <2>2, <2>3, ShlPair DEF ReadU16
<1>7. ASSUME w # 2
      PROVE  /\ ReadU32(f, o) \in Nat /\ ReadU32(g, o) \in Nat
             /\ ReadU32(f, o) = ReadU32(g, o) <=>
                  ReadU16(f, o) = ReadU16(g, o) /\ f[o + 3] = g[o + 3] /\ f[o + 4] = g[o + 4]
  <2>1. f[o + 3] \in Byte /\ g[o + 3] \in Byte /\ f[o + 4] \in Byte /\ g[o + 4] \in Byte
    BY <1>2, <1>3, <1>7
  <2>2. /\ Shl(ReadU16(f, o), f[o + 3]) \in Nat /\ Shl(ReadU16(g, o), g[o + 3]) \in Nat
        /\ Shl(ReadU16(f, o), f[o + 3]) = Shl(ReadU16(g, o), g[o + 3]) <=>
             ReadU16(f, o) = ReadU16(g, o) /\ f[o + 3] = g[o + 3]
    <3>1. f[o + 3] \in Byte /\ g[o + 3] \in Byte
      BY <2>1
    <3>2. ReadU16(f, o) \in Nat /\ ReadU16(g, o) \in Nat
      BY <1>6
    <3>. QED BY <3>1, <3>2, ShlPair
  <2>. DEFINE f3 == Shl(ReadU16(f, o), f[o + 3])
              g3 == Shl(ReadU16(g, o), g[o + 3])
  <2>3. ReadU32(f, o) = Shl(f3, f[o + 4]) /\ ReadU32(g, o) = Shl(g3, g[o + 4])
    BY DEF ReadU32
  <2>4. f3 \in Nat /\ g3 \in Nat
    BY <2>2
  <2>5. f[o + 4] \in Byte /\ g[o + 4] \in Byte
    BY <2>1
  <2>6. f3 = g3 <=> ReadU16(f, o) = ReadU16(g, o) /\ f[o + 3] = g[o + 3]
    BY <2>2
  <2>. HIDE DEF f3, g3
  <2>7. /\ Shl(f3, f[o + 4]) \in Nat /\ Shl(g3, g[o + 4]) \in Nat
        /\ Shl(f3, f[o + 4]) = Shl(g3, g[o + 4]) <=> f3 = g3 /\ f[o + 4] = g[o + 4]
    BY <2>4, <2>5, ShlPair
  <2>. QED BY <2>3, <2>6, <2>7
<1>8. ASSUME w = 8
      PROVE  ReadU64(f, o) = ReadU64(g, o) <=>
               /\ ReadU32(f, o) = ReadU32(g, o) /\ f[o + 5] = g[o + 5] /\ f[o + 6] = g[o + 6]
               /\ f[o + 7] = g[o + 7] /\ f[o + 8] = g[o + 8]
  <2>1. \A i \in {5, 6, 7, 8} : f[o + i] \in Byte /\ g[o + i] \in Byte
    BY <1>2, <1>3, <1>8
  <2>. DEFINE f5 == Shl(ReadU32(f, o), f[o + 5])
              g5 == Shl(ReadU32(g, o), g[o + 5])
              f6 == Shl(f5, f[o + 6])
              g6 == Shl(g5, g[o + 6])
              f7 == Shl(f6, f[o + 7])
              g7 == Shl(g6, g[o + 7])
              f8 == Shl(f7, f[o + 8])
              g8 == Shl(g7, g[o + 8])
  <2>2. ReadU64(f, o) = f8 /\ ReadU64(g, o) = g8
    BY DEF ReadU64
  <2>3. /\ f5 \in Nat /\ g5 \in Nat
        /\ f5 = g5 <=> ReadU32(f, o) = ReadU32(g, o) /\ f[o + 5] = g[o + 5]
    <3>1. f[o + 5] \in Byte /\ g[o + 5] \in Byte
      BY <2>1
    <3>2. ReadU32(f, o) \in Nat /\ ReadU32(g, o) \in Nat
      BY <1>7, <1>8
    <3>. QED BY <3>1, <3>2, ShlPair
  <2>. HIDE DEF f5, g5
  <2>4. f6 \in Nat /\ g6 \in Nat /\ (f6 = g6 <=> f5 = g5 /\ f[o + 6] = g[o + 6])
    <3>1. f[o + 6] \in Byte /\ g[o + 6] \in Byte
      BY <2>1
    <3>2. f5 \in Nat /\ g5 \in Nat
      BY <2>3
    <3>. QED BY <3>1, <3>2, ShlPair
  <2>. HIDE DEF f6, g6
  <2>5. f7 \in Nat /\ g7 \in Nat /\ (f7 = g7 <=> f6 = g6 /\ f[o + 7] = g[o + 7])
    <3>1. f[o + 7] \in Byte /\ g[o + 7] \in Byte
      BY <2>1
    <3>2. f6 \in Nat /\ g6 \in Nat
      BY <2>4
    <3>. QED BY <3>1, <3>2, ShlPair
  <2>. HIDE DEF f7, g7
  <2>6. f8 = g8 <=> f7 = g7 /\ f[o + 8] = g[o + 8]
    <3>1. f[o + 8] \in Byte /\ g[o + 8] \in Byte
      BY <2>1
    <3>2. f7 \in Nat /\ g7 \in Nat
      BY <2>5
    <3>. QED BY <3>1, <3>2, ShlPair
  <2>. HIDE DEF f8, g8
  <2>. QED BY <2>2, <2>3, <2>4, <2>5, <2>6
<1>9. CASE w = 2
  <2>1. (\A i \in 1..w : f[o + i] = g[o + i]) <=> f[o + 1] = g[o + 1] /\ f[o + 2] = g[o + 2]
    BY <1>9
  <2>2. ReadField(f, name) = ReadU16(f, o) /\ ReadField(g, name) = ReadU16(g, o)
    BY <1>1, <1>9 DEF ReadField
  <2>. QED BY <1>5, <1>6, <2>1, <2>2
<1>10. CASE w = 4
  <2>1. (\A i \in 1..w : f[o + i] = g[o + i]) <=>
          f[o + 1] = g[o + 1] /\ f[o + 2] = g[o + 2] /\ f[o + 3] = g[o + 3] /\ f[o + 4] = g[o + 4]
    BY <1>10
  <2>2. ReadField(f, name) = ReadU32(f, o) /\ ReadField(g, name) = ReadU32(g, o)
    BY <1>1, <1>10 DEF ReadField
  <2>. QED BY <1>5, <1>6, <1>7, <1>10, <2>1, <2>2
<1>11. CASE w = 8
  <2>1. (\A i \in 1..w : f[o + i] = g[o + i]) <=>
          /\ f[o + 1] = g[o + 1] /\ f[o + 2] = g[o + 2] /\ f[o + 3] = g[o + 3] /\ f[o + 4] = g[o + 4]
          /\ f[o + 5] = g[o + 5] /\ f[o + 6] = g[o + 6] /\ f[o + 7] = g[o + 7] /\ f[o + 8] = g[o + 8]
    BY <1>11
  <2>2. ReadField(f, name) = ReadU64(f, o) /\ ReadField(g, name) = ReadU64(g, o)
    BY <1>1, <1>11 DEF ReadField
  <2>. QED BY <1>5, <1>6, <1>7, <1>8, <1>11, <2>1, <2>2
<1>. QED BY <1>2, <1>9, <1>10, <1>11

(* What decode() makes of a frame, by comparison with an encoded one.      *)
Agree(f, g, name) == \A p \in Positions(name) : f[p] = g[p]

(* The first field of the header that differs decides; else all are read.  *)
LEMMA DecodeIs ==
  ASSUME NEW r, IsRecord(r), NEW f \in Bytes, NEW g, g = Encode(r)
  PROVE  /\ ~Agree(f, g, "magic") => Decode(f) = Refuse("InvalidMagic")
         /\ Agree(f, g, "magic") /\ ~Agree(f, g, "version") =>
              Decode(f) = Refuse("UnsupportedVersion")
         /\ Agree(f, g, "magic") /\ Agree(f, g, "version") /\ ~Agree(f, g, "declaredSize") =>
              Decode(f) = Refuse("InvalidDeclaredFrameSize")
         /\ Agree(f, g, "magic") /\ Agree(f, g, "version") /\ Agree(f, g, "declaredSize") =>
              Decode(f) = [record |-> Content(f), error |-> "None"]
         /\ \A name \in FieldNames : ReadField(f, name) = Value(r, name) <=> Agree(f, g, name)
<1>1. ASSUME NEW name \in FieldNames
      PROVE  ReadField(f, name) = Value(r, name) <=> Agree(f, g, name)
  <2>1. g \in Bytes /\ ReadField(g, name) = Value(r, name)
    BY EncodeIs, EncodeReads
  <2>2. ReadField(f, name) = ReadField(g, name) <=> Agree(f, g, name)
    BY <2>1, FieldCounts DEF Agree
  <2>. QED BY <2>1, <2>2
<1>2. Len(f) = FrameSize
  BY DEF Bytes, FrameSize
<1>3. /\ Value(r, "magic") = Magic /\ Value(r, "version") = Version
      /\ Value(r, "declaredSize") = FrameSize
  BY DEF Value
<1>4. "magic" \in FieldNames /\ "version" \in FieldNames /\ "declaredSize" \in FieldNames
  BY DEF FieldNames, Header
<1>5. /\ ReadField(f, "magic") = Magic <=> Agree(f, g, "magic")
      /\ ReadField(f, "version") = Version <=> Agree(f, g, "version")
      /\ ReadField(f, "declaredSize") = FrameSize <=> Agree(f, g, "declaredSize")
  BY <1>1, <1>3, <1>4
<1>. QED BY <1>1, <1>2, <1>5, Zenon DEF Decode

(* What is encoded is decoded, for every record.                           *)
THEOREM DecodesEncoded ==
  ASSUME NEW r, IsRecord(r)
  PROVE  /\ Decode(Encode(r)).error = "None"
         /\ Decode(Encode(r)).record =
              [sensorId |-> r.sensorId, metricId |-> r.metricId,
               timestampNs |-> r.timestampNs, value |-> r.value]
<1>1. PICK g : g = Encode(r)
  OBVIOUS
<1>2. g \in Bytes /\ \A name : Agree(g, g, name)
  BY <1>1, EncodeIs DEF Agree
<1>3. Decode(g) = [record |-> Content(g), error |-> "None"]
  BY <1>1, <1>2, DecodeIs
<1>4. /\ ReadField(g, "sensorId") = r.sensorId /\ ReadField(g, "metricId") = r.metricId
      /\ ReadField(g, "timestampNs") = r.timestampNs /\ ReadField(g, "value") = r.value
  <2>1. /\ "sensorId" \in FieldNames /\ "metricId" \in FieldNames
        /\ "timestampNs" \in FieldNames /\ "value" \in FieldNames
    BY DEF FieldNames, Payload
  <2>2. /\ Value(r, "sensorId") = r.sensorId /\ Value(r, "metricId") = r.metricId
        /\ Value(r, "timestampNs") = r.timestampNs /\ Value(r, "value") = r.value
    BY DEF Value
  <2>. QED BY <1>1, <2>1, <2>2, EncodeReads
<1>5. Content(g) = [sensorId |-> r.sensorId, metricId |-> r.metricId,
                    timestampNs |-> r.timestampNs, value |-> r.value]
  BY <1>4, Zenon DEF Content
<1>. QED BY <1>1, <1>3, <1>5

-----------------------------------------------------------------------------
(* A smaller number has no more bytes.                                     *)
LEMMA ShrLess ==
  ASSUME NEW a \in Nat, NEW b \in Nat, a <= b
  PROVE  Shr(a) <= Shr(b)
<1>0. Radix \in Nat /\ Radix > 2
  BY CodecAssumption
<1>1. PICK p, q, x, y : p = Shr(a) /\ q = Shr(b) /\ x = a % Radix /\ y = b % Radix
  OBVIOUS
<1>2. p \in Nat /\ q \in Nat /\ x \in Byte /\ y \in Byte /\ Shl(p, x) = a /\ Shl(q, y) = b
  BY <1>1, ShrIs
<1>3. SUFFICES ASSUME q < p PROVE FALSE
  BY <1>1, <1>2
<1>. DEFINE pr == p * Radix
            qr == q * Radix
<1>4. (q + 1) * Radix <= p * Radix /\ (q + 1) * Radix = q * Radix + Radix
  BY <1>0, <1>2, <1>3
<1>5. qr + Radix <= pr /\ pr \in Nat /\ qr \in Nat
  BY <1>0, <1>2, <1>4
<1>6. a = pr + x /\ b = qr + y /\ x \in Nat /\ y \in Nat /\ x < Radix /\ y < Radix
  BY <1>0, <1>2 DEF Shl, Byte
<1>. HIDE DEF pr, qr
<1>. QED BY <1>0, <1>5, <1>6

(* A smaller number has no more bytes.                                     *)
LEMMA FitsLess ==
  ASSUME NEW n \in Nat, NEW m, n <= m, Fits(m, 8)
  PROVE  Fits(n, 8)
<1>0. m \in Nat /\ Shifted(m)[9] = 0
  BY DEF Fits
<1>1. PICK s, t : s = Shifted(n) /\ t = Shifted(m)
  OBVIOUS
<1>2. /\ s[1] = n /\ t[1] = m
      /\ \A k \in 1..8 : s[k + 1] = Shr(s[k]) /\ t[k + 1] = Shr(t[k])
      /\ \A k \in 1..9 : s[k] \in Nat /\ t[k] \in Nat
  BY <1>0, <1>1, ShiftedIs
<1>3. ASSUME NEW k \in 1..8, s[k] <= t[k] PROVE s[k + 1] <= t[k + 1]
  <2>1. s[k] \in Nat /\ t[k] \in Nat /\ s[k + 1] = Shr(s[k]) /\ t[k + 1] = Shr(t[k])
    BY <1>2
  <2>. QED BY <1>3, <2>1, ShrLess
<1>4. s[2] <= t[2]
  BY <1>2, <1>3
<1>5. s[3] <= t[3]
  BY <1>3, <1>4
<1>6. s[4] <= t[4]
  BY <1>3, <1>5
<1>7. s[5] <= t[5]
  BY <1>3, <1>6
<1>8. s[6] <= t[6]
  BY <1>3, <1>7
<1>9. s[7] <= t[7]
  BY <1>3, <1>8
<1>10. s[8] <= t[8]
  BY <1>3, <1>9
<1>11. s[9] <= t[9]
  BY <1>3, <1>10
<1>12. s[9] = 0
  BY <1>0, <1>1, <1>2, <1>11
<1>. QED BY <1>1, <1>12 DEF Fits

(* What the sender encodes has the widths of a record.                     *)
LEMMA RecordIs ==
  ASSUME NEW n \in Nat, n <= MaxFrames
  PROVE  IsRecord(Record(n)) /\ Encode(Record(n)) \in Bytes
<1>1. Fits(1, 4) /\ Fits(2, 4) /\ Fits(n, 8) /\ Fits(One, 8)
  BY SmallFits, FitsLess, LoadAssumption
<1>2. IsRecord(Record(n))
  BY <1>1 DEF IsRecord, Record
<1>. QED BY <1>2, EncodeIs

-----------------------------------------------------------------------------
(* The byte that belongs at a position of the stream.                      *)
Sound(i) == Encode(Record(Frame(i)))[InFrame(i)]

LoadTypes ==
  /\ frames \in Nat /\ frames <= MaxFrames /\ batchFrames \in Nat \ {0}
  /\ lpc \in {"connect", "fill", "send", "shutdown", "exited"}
  /\ sent \in Nat /\ wire \in Seq(Byte) /\ buffer \in Seq(Byte)
  /\ offset \in Nat /\ offset <= Len(buffer)

(* The stream has the batches sent and the part of this one; batches have  *)
(* whole frames, and end where the number of frames says.                  *)
Counted ==
  /\ Len(wire) = sent * FrameSize + offset
  /\ \E k \in Nat : Len(buffer) = k * FrameSize /\ sent + k <= frames
  /\ lpc \in {"connect", "fill", "shutdown"} => buffer = <<>>
  /\ lpc = "shutdown" => sent = frames
  /\ exitCode = "success" => lpc = "exited" /\ sent = frames /\ offset = 0

(* Every byte sent, and every byte to be sent, is the right one but for    *)
(* those altered.                                                          *)
Received ==
  /\ \A i \in 1..Len(wire) : wire[i] = Sound(i) <=> i \notin altered
  /\ \A i \in 1..Len(buffer) :
       buffer[i] = Sound(sent * FrameSize + i) <=> sent * FrameSize + i \notin altered
  /\ \A p \in altered : p \in Nat /\ p <= sent * FrameSize + Len(buffer)

(* The inductive invariant.                                                *)
LoadInv == LoadTypes /\ Counted /\ Received

(* The invariant holds at the start.                                       *)
LEMMA LoadInit == Init => LoadInv
<1>1. SUFFICES ASSUME Init PROVE LoadInv
  OBVIOUS
<1>2. LoadTypes
  BY <1>1, LoadAssumption DEF Init, LoadTypes, Fits
<1>3. Counted
  <2>1. 0 \in Nat /\ Len(buffer) = 0 * FrameSize /\ sent + 0 <= frames
    BY <1>1, LoadAssumption DEF Init, FrameSize, Fits
  <2>2. Len(wire) = sent * FrameSize + offset
    BY <1>1 DEF Init, FrameSize
  <2>. QED BY <1>1, <2>1, <2>2 DEF Init, Counted
<1>4. Received
  BY <1>1 DEF Init, Received
<1>. QED BY <1>2, <1>3, <1>4 DEF LoadInv

(* Positions in a batch and positions in the stream.                       *)
LEMMA FrameShift ==
  ASSUME NEW n \in Nat, NEW p \in Nat \ {0}
  PROVE  /\ Frame(n * FrameSize + p) = n + Frame(p)
         /\ InFrame(n * FrameSize + p) = InFrame(p)
         /\ Frame(p) \in Nat \ {0} /\ InFrame(p) \in 1..FrameSize
         /\ \A k \in Nat : p <= k * FrameSize => Frame(p) <= k
  BY SMT DEF Frame, InFrame, FrameSize

(* Filling the buffer.                                                     *)
LEMMA FillKeeps ==
  ASSUME LoadInv, Fill
  PROVE  LoadInv'
<1>0. LoadTypes /\ Counted /\ Received
  BY DEF LoadInv
<1>1. /\ lpc = "fill" /\ sent < frames /\ lpc' = "send" /\ offset' = 0
      /\ UNCHANGED <<frames, batchFrames, sent, exitCode, altered, wire, finished>>
      /\ sent \in Nat /\ frames \in Nat /\ frames <= MaxFrames /\ batchFrames \in Nat \ {0}
      /\ MaxFrames \in Nat
  BY <1>0, LoadAssumption DEF Fill, LoadTypes, Fits
<1>2. Len(buffer) = 0 /\ offset = 0 /\ Len(wire) = sent * FrameSize
  <2>1. buffer = <<>>
    BY <1>0, <1>1 DEF Counted
  <2>2. Len(buffer) = 0 /\ offset = 0
    BY <1>0, <2>1 DEF LoadTypes
  <2>. QED BY <1>0, <1>1, <2>2 DEF Counted, FrameSize
<1>3. PICK k \in Nat : k = BatchCount /\ sent + k <= frames
  <2>1. frames - sent \in Nat
    BY <1>1
  <2>2. BatchCount \in Nat /\ BatchCount <= frames - sent
    BY <1>1, <2>1 DEF BatchCount, Least
  <2>3. sent + BatchCount <= frames
    BY <1>1, <2>2
  <2>. QED BY <2>2, <2>3
<1>4. buffer' = [p \in 1..(k * FrameSize) |-> Encode(Record(sent + Frame(p)))[InFrame(p)]]
  BY <1>3 DEF Fill
<1>5. ASSUME NEW p \in 1..(k * FrameSize)
      PROVE  /\ Encode(Record(sent + Frame(p)))[InFrame(p)] \in Byte
             /\ Encode(Record(sent + Frame(p)))[InFrame(p)] = Sound(sent * FrameSize + p)
  <2>1. p \in Nat \ {0} /\ p <= k * FrameSize
    BY <1>3 DEF FrameSize
  <2>2. /\ Frame(p) \in Nat /\ InFrame(p) \in 1..FrameSize /\ Frame(p) <= k
        /\ Frame(sent * FrameSize + p) = sent + Frame(p)
        /\ InFrame(sent * FrameSize + p) = InFrame(p)
    BY <1>1, <1>3, <2>1, FrameShift
  <2>3. sent + Frame(p) \in Nat /\ sent + Frame(p) <= MaxFrames
    BY <1>1, <1>3, <2>2
  <2>4. Encode(Record(sent + Frame(p))) \in Bytes
    BY <2>3, RecordIs
  <2>. QED BY <2>2, <2>4 DEF Bytes, Sound
<1>6. k * FrameSize \in Nat
  BY <1>3 DEF FrameSize
<1>7. buffer' \in Seq(Byte) /\ Len(buffer') = k * FrameSize
  BY <1>4, <1>5, <1>6
<1>8. LoadTypes'
  BY <1>0, <1>1, <1>6, <1>7 DEF LoadTypes
<1>9. Counted'
  <2>1. Len(wire') = sent' * FrameSize + offset'
    BY <1>1, <1>2 DEF FrameSize
  <2>. QED BY <1>0, <1>1, <1>3, <1>7, <2>1 DEF Counted
<1>10. Received'
  <2>1. \A i \in 1..Len(wire') : wire'[i] = Sound(i) <=> i \notin altered'
    BY <1>0, <1>1 DEF Received
  <2>2. \A p \in altered : p \in Nat /\ p <= sent * FrameSize
    BY <1>0, <1>1, <1>2 DEF Received, FrameSize
  <2>3. ASSUME NEW i \in 1..Len(buffer')
        PROVE  /\ buffer'[i] = Sound(sent * FrameSize + i)
               /\ sent * FrameSize + i \notin altered
    <3>1. i \in 1..(k * FrameSize)
      BY <1>7
    <3>2. buffer'[i] = Encode(Record(sent + Frame(i)))[InFrame(i)]
      BY <1>4, <3>1
    <3>3. ~(sent * FrameSize + i <= sent * FrameSize)
      BY <1>1, <1>6, <3>1 DEF FrameSize
    <3>. QED BY <1>5, <2>2, <3>1, <3>2, <3>3
  <2>4. \A p \in altered' : p \in Nat /\ p <= sent' * FrameSize + Len(buffer')
    BY <1>1, <1>6, <1>7, <2>2 DEF FrameSize
  <2>. QED BY <1>1, <2>1, <2>3, <2>4 DEF Received
<1>. QED BY <1>8, <1>9, <1>10 DEF LoadInv

(* Another byte in the batch, behind all those altered before.             *)
LEMMA AlterKeeps ==
  ASSUME LoadInv, Alter
  PROVE  LoadInv'
<1>0. LoadTypes /\ Counted /\ Received
  BY DEF LoadInv
<1>1. PICK i, byte :
        /\ i \in DOMAIN buffer /\ byte \in Wrong /\ byte # buffer[i]
        /\ \A p \in altered : p < sent * FrameSize + i
        /\ altered' = altered \cup {sent * FrameSize + i}
        /\ buffer' = [buffer EXCEPT ![i] = byte]
  BY DEF Alter
<1>2. /\ lpc = "send" /\ offset = 0 /\ sent \in Nat /\ Len(buffer) \in Nat
      /\ UNCHANGED <<frames, batchFrames, lpc, sent, offset, exitCode, wire, finished>>
  BY <1>0 DEF Alter, LoadTypes
<1>3. byte \in Byte /\ i \in 1..Len(buffer) /\ buffer \in Seq(Byte)
  BY <1>0, <1>1, LoadAssumption DEF LoadTypes
<1>4. /\ buffer' \in Seq(Byte) /\ Len(buffer') = Len(buffer)
      /\ buffer'[i] = byte /\ \A j \in 1..Len(buffer) : j # i => buffer'[j] = buffer[j]
  BY <1>1, <1>3
<1>5. LoadTypes'
  BY <1>0, <1>2, <1>4 DEF LoadTypes
<1>6. Counted'
  BY <1>0, <1>2, <1>4 DEF Counted
<1>. DEFINE base == sent * FrameSize
<1>7. base \in Nat
  BY <1>2 DEF FrameSize
<1>8. Len(wire) = base
  BY <1>0, <1>2, <1>7 DEF Counted
<1>9. /\ \A j \in 1..Len(wire) : wire[j] = Sound(j) <=> j \notin altered
      /\ \A j \in 1..Len(buffer) : buffer[j] = Sound(base + j) <=> base + j \notin altered
      /\ \A p \in altered : p \in Nat /\ p <= base + Len(buffer)
      /\ \A p \in altered : p < base + i
      /\ altered' = altered \cup {base + i}
  BY <1>0, <1>1 DEF Received
<1>. HIDE DEF base
<1>10. \A j \in 1..Len(wire) : j \notin altered' <=> j \notin altered
  BY <1>3, <1>7, <1>8, <1>9
<1>11. ASSUME NEW j \in 1..Len(buffer)
       PROVE  buffer'[j] = Sound(base + j) <=> base + j \notin altered'
  <2>1. CASE j = i
    <3>1. base + i \notin altered
      BY <1>2, <1>3, <1>7, <1>9
    <3>2. buffer[i] = Sound(base + i)
      BY <1>3, <1>9, <3>1
    <3>3. buffer'[i] # Sound(base + i) /\ base + i \in altered'
      BY <1>1, <1>4, <1>9, <3>2
    <3>. QED BY <2>1, <3>3
  <2>2. CASE j # i
    <3>1. base + j # base + i
      BY <1>3, <1>7, <2>2
    <3>. QED BY <1>4, <1>9, <2>2, <3>1
  <2>. QED BY <2>1, <2>2
<1>12. \A p \in altered' : p \in Nat /\ p <= base + Len(buffer)
  BY <1>2, <1>3, <1>7, <1>9
<1>13. Received'
  BY <1>2, <1>4, <1>9, <1>10, <1>11, <1>12 DEF Received, base
<1>. QED BY <1>5, <1>6, <1>13 DEF LoadInv

(* A part of the batch goes out, from where the last one ended.            *)
LEMMA SendSomeKeeps ==
  ASSUME LoadInv, SendSome
  PROVE  LoadInv'
<1>0. LoadTypes /\ Counted /\ Received
  BY DEF LoadInv
<1>1. PICK n \in {k \in Chunks : k < Len(buffer) - offset} \cup {Len(buffer) - offset} :
        /\ offset' = offset + n
        /\ wire' = wire \o SubSeq(buffer, offset + 1, offset + n)
  BY DEF SendSome, Advance
<1>2. /\ lpc = "send" /\ offset < Len(buffer) /\ sent \in Nat /\ Len(buffer) \in Nat
      /\ offset \in Nat /\ buffer \in Seq(Byte) /\ wire \in Seq(Byte) /\ Len(wire) \in Nat
      /\ UNCHANGED <<frames, batchFrames, lpc, sent, buffer, exitCode, altered, finished>>
  BY <1>0 DEF SendSome, LoadTypes
<1>3. n \in Nat /\ offset + n <= Len(buffer)
  BY <1>1, <1>2, LoadAssumption
<1>. DEFINE part == SubSeq(buffer, offset + 1, offset + n)
            base == sent * FrameSize
<1>4. /\ part \in Seq(Byte) /\ Len(part) = n
      /\ \A j \in 1..n : part[j] = buffer[offset + j]
  <2>1. offset + 1 \in 1..(Len(buffer) + 1) /\ offset + n \in (offset + 1 - 1)..Len(buffer)
    BY <1>2, <1>3
  <2>. QED BY <1>2, <1>3, <2>1, SubSeqProperties
<1>5. wire' = wire \o part
  BY <1>1
<1>6. base \in Nat
  BY <1>2 DEF FrameSize
<1>7. /\ \A j \in 1..Len(wire) : wire[j] = Sound(j) <=> j \notin altered
      /\ \A j \in 1..Len(buffer) : buffer[j] = Sound(base + j) <=> base + j \notin altered
      /\ Len(wire) = base + offset
  BY <1>0 DEF Received, Counted
<1>. HIDE DEF part, base
<1>8. /\ wire' \in Seq(Byte) /\ Len(wire') = Len(wire) + n
      /\ \A j \in 1..Len(wire) : wire'[j] = wire[j]
      /\ \A j \in 1..n : wire'[Len(wire) + j] = part[j]
  <2>1. /\ wire \o part \in Seq(Byte) /\ Len(wire \o part) = Len(wire) + Len(part)
        /\ \A j \in 1..(Len(wire) + Len(part)) :
             (wire \o part)[j] = IF j <= Len(wire) THEN wire[j] ELSE part[j - Len(wire)]
    BY <1>2, <1>4, ConcatProperties
  <2>2. \A j \in 1..(Len(wire) + n) :
          wire'[j] = IF j <= Len(wire) THEN wire[j] ELSE part[j - Len(wire)]
    BY <1>4, <1>5, <2>1
  <2>3. \A j \in 1..Len(wire) : wire'[j] = wire[j]
    BY <1>2, <1>3, <2>2
  <2>4. ASSUME NEW j \in 1..n PROVE wire'[Len(wire) + j] = part[j]
    <3>1. Len(wire) + j \in 1..(Len(wire) + n) /\ ~(Len(wire) + j <= Len(wire))
          /\ (Len(wire) + j) - Len(wire) = j
      BY <1>2, <1>3
    <3>. QED BY <2>2, <3>1
  <2>. QED BY <1>4, <1>5, <2>1, <2>3, <2>4
<1>9. LoadTypes'
  BY <1>0, <1>1, <1>2, <1>3, <1>8 DEF LoadTypes
<1>10. Counted'
  <2>1. Len(wire') = base + offset'
    BY <1>1, <1>2, <1>3, <1>6, <1>7, <1>8
  <2>2. Len(wire') = sent' * FrameSize + offset'
    BY <1>2, <2>1 DEF base
  <2>3. exitCode # "success"
    BY <1>0, <1>2 DEF Counted
  <2>. QED BY <1>0, <1>2, <2>2, <2>3 DEF Counted
<1>11. ASSUME NEW j \in 1..Len(wire') PROVE wire'[j] = Sound(j) <=> j \notin altered
  <2>1. CASE j \in 1..Len(wire)
    BY <1>7, <1>8, <2>1
  <2>2. CASE j \notin 1..Len(wire)
    <3>1. PICK m \in 1..n : j = Len(wire) + m
      <4>1. j - Len(wire) \in 1..n /\ j = Len(wire) + (j - Len(wire))
        BY <1>2, <1>3, <1>8, <2>2
      <4>. QED BY <4>1
    <3>2. wire'[j] = buffer[offset + m]
      BY <1>4, <1>8, <3>1
    <3>3. offset + m \in 1..Len(buffer) /\ base + (offset + m) = j
      BY <1>2, <1>3, <1>6, <1>7, <3>1
    <3>. QED BY <1>7, <3>2, <3>3
  <2>. QED BY <2>1, <2>2
<1>12. Received'
  BY <1>0, <1>2, <1>11 DEF Received
<1>. QED BY <1>9, <1>10, <1>12 DEF LoadInv

(* The batch has gone out.                                                 *)
LEMMA BatchSentKeeps ==
  ASSUME LoadInv, BatchSent
  PROVE  LoadInv'
<1>0. LoadTypes /\ Counted /\ Received
  BY DEF LoadInv
<1>1. /\ lpc = "send" /\ offset = Len(buffer) /\ buffer' = <<>> /\ offset' = 0
      /\ sent' = sent + Len(buffer) \div FrameSize
      /\ lpc' = IF sent' < frames THEN "fill" ELSE "shutdown"
      /\ UNCHANGED <<frames, batchFrames, exitCode, altered, wire, finished>>
      /\ sent \in Nat /\ frames \in Nat /\ Len(buffer) \in Nat
  BY <1>0 DEF BatchSent, LoadTypes
<1>2. PICK k \in Nat : Len(buffer) = k * FrameSize /\ sent + k <= frames
  BY <1>0 DEF Counted
<1>3. sent' = sent + k /\ sent' \in Nat /\ sent' <= frames
  BY <1>1, <1>2 DEF FrameSize
<1>4. sent' * FrameSize = sent * FrameSize + Len(buffer)
  BY <1>1, <1>2, <1>3 DEF FrameSize
<1>5. Len(buffer') = 0 /\ buffer' \in Seq(Byte)
  BY <1>1
<1>6. LoadTypes'
  <2>1. lpc' \in {"connect", "fill", "send", "shutdown", "exited"}
    BY <1>1
  <2>. QED BY <1>0, <1>1, <1>3, <1>5, <2>1 DEF LoadTypes
<1>7. Counted'
  <2>1. Len(wire') = sent' * FrameSize + offset'
    BY <1>0, <1>1, <1>4 DEF Counted, FrameSize
  <2>2. 0 \in Nat /\ Len(buffer') = 0 * FrameSize /\ sent' + 0 <= frames'
    BY <1>1, <1>3, <1>5 DEF FrameSize
  <2>3. exitCode' # "success"
    BY <1>0, <1>1 DEF Counted
  <2>4. lpc' = "shutdown" => sent' = frames'
    BY <1>1, <1>3
  <2>. QED BY <1>1, <2>1, <2>2, <2>3, <2>4 DEF Counted
<1>8. Received'
  <2>1. \A p \in altered : p \in Nat /\ p <= sent' * FrameSize + Len(buffer')
    BY <1>0, <1>1, <1>3, <1>4, <1>5 DEF Received, FrameSize
  <2>. QED BY <1>0, <1>1, <1>5, <2>1 DEF Received
<1>. QED BY <1>6, <1>7, <1>8 DEF LoadInv

(* The steps that send nothing.                                            *)
LEMMA OthersKeep ==
  ASSUME LoadInv,
         \/ Connect \/ ConnectFails \/ SendFails \/ Shutdown \/ ShutdownFails
         \/ UNCHANGED loadVars
  PROVE  LoadInv'
<1>0. LoadTypes /\ Counted /\ Received
  BY DEF LoadInv
<1>1. UNCHANGED <<frames, batchFrames, sent, buffer, offset, altered, wire>>
  BY DEF Connect, ConnectFails, SendFails, Shutdown, ShutdownFails, Exit, loadVars
<1>2. /\ lpc' \in {"connect", "fill", "send", "shutdown", "exited"}
      /\ lpc' \in {"connect", "fill", "shutdown"} => buffer = <<>>
      /\ lpc' = "shutdown" => sent = frames
      /\ exitCode' = "success" => lpc' = "exited" /\ sent = frames /\ offset = 0
  <2>1. CASE Connect
    BY <1>0, <2>1 DEF Connect, LoadTypes, Counted
  <2>2. CASE ConnectFails \/ SendFails \/ ShutdownFails
    BY <2>2 DEF ConnectFails, SendFails, ShutdownFails, Exit
  <2>3. CASE Shutdown
    <3>1. lpc = "shutdown" /\ lpc' = "exited" /\ exitCode' = "success"
      BY <2>3 DEF Shutdown, Exit
    <3>2. sent = frames /\ buffer = <<>>
      BY <1>0, <3>1 DEF Counted
    <3>3. offset = 0
      BY <1>0, <3>2 DEF LoadTypes
    <3>. QED BY <3>1, <3>2, <3>3
  <2>4. CASE UNCHANGED loadVars
    BY <1>0, <2>4 DEF loadVars, LoadTypes, Counted
  <2>. QED BY <2>1, <2>2, <2>3, <2>4
<1>3. LoadTypes'
  BY <1>0, <1>1, <1>2 DEF LoadTypes
<1>4. Counted'
  BY <1>0, <1>1, <1>2 DEF Counted
<1>5. Received'
  BY <1>0, <1>1 DEF Received
<1>. QED BY <1>3, <1>4, <1>5 DEF LoadInv

(* However batches and sends are split, every byte has its place in the    *)
(* stream of records (main() and sendAll() of telemetry_load.cpp).         *)
THEOREM LoadInvariant == Spec => []LoadInv
<1>1. LoadInv /\ [Next]_loadVars => LoadInv'
  BY FillKeeps, AlterKeeps, SendSomeKeeps, BatchSentKeeps, OthersKeep DEF Next, Exited
<1>. QED BY LoadInit, <1>1, PTL DEF Spec

-----------------------------------------------------------------------------
(* The n-th frame received, compared with the n-th record's.               *)
LEMMA FramesReceived ==
  ASSUME LoadInv, NEW n \in 1..Complete
  PROVE  /\ n \in Nat /\ n <= MaxFrames /\ FrameAt(n) \in Bytes
         /\ \A p \in 1..FrameSize :
              FrameAt(n)[p] = Encode(Record(n))[p] <=> p \notin AlteredIn(n)
<1>0. /\ wire \in Seq(Byte) /\ Len(wire) \in Nat /\ frames \in Nat /\ frames <= MaxFrames
      /\ sent \in Nat /\ offset \in Nat /\ Len(buffer) \in Nat /\ offset <= Len(buffer)
      /\ MaxFrames \in Nat
  BY LoadAssumption DEF LoadInv, LoadTypes, Fits
<1>1. Len(wire) <= frames * FrameSize
  <2>1. PICK k \in Nat : Len(buffer) = k * FrameSize /\ sent + k <= frames
    BY DEF LoadInv, Counted
  <2>2. Len(wire) = sent * FrameSize + offset
    BY DEF LoadInv, Counted
  <2>. QED BY <1>0, <2>1, <2>2 DEF FrameSize
<1>2. n \in Nat \ {0} /\ n * FrameSize <= Len(wire) /\ n <= frames
  BY <1>0, <1>1 DEF Complete, FrameSize
<1>. DEFINE base == (n - 1) * FrameSize
<1>3. base \in Nat /\ base + FrameSize = n * FrameSize /\ base + FrameSize <= Len(wire)
  BY <1>0, <1>2 DEF FrameSize
<1>4. FrameAt(n) = SubSeq(wire, base + 1, base + FrameSize)
  BY <1>3 DEF FrameAt
<1>. HIDE DEF base
<1>5. /\ FrameAt(n) \in Seq(Byte) /\ Len(FrameAt(n)) = FrameSize
      /\ \A p \in 1..FrameSize : FrameAt(n)[p] = wire[base + p]
  <2>1. /\ base + 1 \in 1..(Len(wire) + 1) /\ base + FrameSize \in (base + 1 - 1)..Len(wire)
        /\ (base + FrameSize) - (base + 1) + 1 = FrameSize
    BY <1>0, <1>3 DEF FrameSize
  <2>. QED BY <1>0, <1>3, <1>4, <2>1, SubSeqProperties DEF FrameSize
<1>6. FrameAt(n) \in Bytes
  <2>1. FrameAt(n) \in [1..Len(FrameAt(n)) -> Byte]
    BY <1>5, LenProperties
  <2>. QED BY <1>5, <2>1, Zenon DEF Bytes
<1>7. ASSUME NEW p \in 1..FrameSize
      PROVE  FrameAt(n)[p] = Encode(Record(n))[p] <=> p \notin AlteredIn(n)
  <2>1. base + p \in 1..Len(wire) /\ p \in 1..32
    BY <1>0, <1>3 DEF FrameSize
  <2>2. Frame(base + p) = n /\ InFrame(base + p) = p
    BY <1>2, <2>1, SMT DEF Frame, InFrame, FrameSize, base
  <2>3. Sound(base + p) = Encode(Record(n))[p]
    BY <2>2 DEF Sound
  <2>4. wire[base + p] = Sound(base + p) <=> base + p \notin altered
    BY <2>1 DEF LoadInv, Received
  <2>5. p \notin AlteredIn(n) <=> base + p \notin altered
    BY DEF AlteredIn, base
  <2>. QED BY <1>5, <2>3, <2>4, <2>5
<1>. QED BY <1>0, <1>2, <1>6, <1>7

(* A field agrees with the record's exactly if no byte of it was altered.  *)
LEMMA IntactAgree ==
  ASSUME LoadInv, NEW n \in 1..Complete, NEW name \in FieldNames
  PROVE  Intact(n, name) <=> Agree(FrameAt(n), Encode(Record(n)), name)
<1>1. Positions(name) \subseteq 1..FrameSize
  <2>1. Offset[name] \in 0..24 /\ Width[name] \in {2, 4, 8} /\ Offset[name] + Width[name] <= 32
    BY FieldsApart
  <2>. QED BY <2>1 DEF Positions, FrameSize
<1>2. \A p \in 1..FrameSize :
        FrameAt(n)[p] = Encode(Record(n))[p] <=> p \notin AlteredIn(n)
  BY FramesReceived
<1>. QED BY <1>1, <1>2, Zenon DEF Intact, Agree

(* The n-th frame that arrives, however it was sent, is the n-th record,   *)
(* and success is reported only when all of them have been sent and        *)
(* nothing else (main() and sendAll() of telemetry_load.cpp).              *)
THEOREM RecordsArriveHolds == Spec => []RecordsArrive
<1>1. ASSUME LoadInv PROVE RecordsArrive
  <2>1. ASSUME NEW n \in 1..Complete, AlteredIn(n) = {}
        PROVE  Decode(FrameAt(n)) = [record |-> Record(n), error |-> "None"]
    <3>1. n \in Nat /\ n <= MaxFrames /\ FrameAt(n) \in Bytes
      BY <1>1, FramesReceived
    <3>2. IsRecord(Record(n))
      BY <3>1, RecordIs
    <3>3. \A name \in FieldNames : Agree(FrameAt(n), Encode(Record(n)), name)
      BY <1>1, <2>1, IntactAgree DEF Intact
    <3>4. /\ "magic" \in FieldNames /\ "version" \in FieldNames /\ "declaredSize" \in FieldNames
          /\ "sensorId" \in FieldNames /\ "metricId" \in FieldNames
          /\ "timestampNs" \in FieldNames /\ "value" \in FieldNames
      BY DEF FieldNames, Header, Payload
    <3>5. PICK f, g, r : f = FrameAt(n) /\ g = Encode(Record(n)) /\ r = Record(n)
      OBVIOUS
    <3>6. Decode(f) = [record |-> Content(f), error |-> "None"]
      BY <3>1, <3>2, <3>3, <3>4, <3>5, DecodeIs
    <3>7. \A name \in FieldNames : ReadField(f, name) = Value(r, name)
      BY <3>1, <3>2, <3>3, <3>5, DecodeIs
    <3>8. Content(f) = Record(n)
      <4>1. /\ ReadField(f, "sensorId") = r.sensorId /\ ReadField(f, "metricId") = r.metricId
            /\ ReadField(f, "timestampNs") = r.timestampNs /\ ReadField(f, "value") = r.value
        <5>1. /\ Value(r, "sensorId") = r.sensorId /\ Value(r, "metricId") = r.metricId
              /\ Value(r, "timestampNs") = r.timestampNs /\ Value(r, "value") = r.value
          BY DEF Value
        <5>. QED BY <3>4, <3>7, <5>1
      <4>2. r.sensorId = 1 /\ r.metricId = 2 /\ r.timestampNs = n /\ r.value = One
        BY <3>5 DEF Record
      <4>. QED BY <4>1, <4>2, Zenon DEF Content, Record
    <3>. QED BY <3>5, <3>6, <3>8
  <2>2. exitCode = "success" => Len(wire) = frames * FrameSize
    BY <1>1 DEF LoadInv, Counted, LoadTypes, FrameSize
  <2>. QED BY <2>1, <2>2 DEF RecordsArrive
<1>. QED BY <1>1, LoadInvariant, PTL

(* An altered byte is refused, or changes its own field and no other       *)
(* (decode() of TelemetryCodec.cpp, for every frame with altered bytes).   *)
THEOREM EveryByteCountsHolds == Spec => []EveryByteCounts
<1>1. ASSUME LoadInv PROVE EveryByteCounts
  <2>1. SUFFICES ASSUME NEW n \in 1..Complete
        PROVE  LET result == Decode(FrameAt(n))
                   sound == {name \in Header : Intact(n, name)}
               IN /\ "magic" \notin sound => result.error = "InvalidMagic"
                  /\ "magic" \in sound /\ "version" \notin sound =>
                       result.error = "UnsupportedVersion"
                  /\ sound = {"magic", "version"} => result.error = "InvalidDeclaredFrameSize"
                  /\ sound = Header =>
                       /\ result.error = "None"
                       /\ \A name \in Payload :
                            Intact(n, name) <=> result.record[name] = Record(n)[name]
    BY DEF EveryByteCounts
  <2>. DEFINE sound == {name \in Header : Intact(n, name)}
  <2>2. PICK f, g, r : f = FrameAt(n) /\ g = Encode(Record(n)) /\ r = Record(n)
    OBVIOUS
  <2>3. n \in Nat /\ n <= MaxFrames /\ f \in Bytes /\ IsRecord(r) /\ g = Encode(r)
    BY <1>1, <2>2, FramesReceived, RecordIs
  <2>4. \A name \in FieldNames : Intact(n, name) <=> Agree(f, g, name)
    BY <1>1, <2>2, IntactAgree
  <2>5. /\ "magic" \in FieldNames /\ "version" \in FieldNames /\ "declaredSize" \in FieldNames
        /\ "sensorId" \in FieldNames /\ "metricId" \in FieldNames
        /\ "timestampNs" \in FieldNames /\ "value" \in FieldNames
    BY DEF FieldNames, Header, Payload
  <2>6. /\ "magic" \in sound <=> Agree(f, g, "magic")
        /\ "version" \in sound <=> Agree(f, g, "version")
        /\ "declaredSize" \in sound <=> Agree(f, g, "declaredSize")
    BY <2>4, <2>5 DEF Header
  <2>. HIDE DEF sound
  <2>7. "magic" \notin sound => Decode(f).error = "InvalidMagic"
    <3>1. "magic" \notin sound => Decode(f) = Refuse("InvalidMagic")
      BY <2>3, <2>6, DecodeIs
    <3>. QED BY <3>1 DEF Refuse
  <2>8. "magic" \in sound /\ "version" \notin sound => Decode(f).error = "UnsupportedVersion"
    <3>1. "magic" \in sound /\ "version" \notin sound => Decode(f) = Refuse("UnsupportedVersion")
      BY <2>3, <2>6, DecodeIs
    <3>. QED BY <3>1 DEF Refuse
  <2>9. sound = {"magic", "version"} => Decode(f).error = "InvalidDeclaredFrameSize"
    <3>1. sound = {"magic", "version"} =>
            "magic" \in sound /\ "version" \in sound /\ "declaredSize" \notin sound
      OBVIOUS
    <3>2. sound = {"magic", "version"} => Decode(f) = Refuse("InvalidDeclaredFrameSize")
      BY <2>3, <2>6, <3>1, DecodeIs
    <3>. QED BY <3>2 DEF Refuse
  <2>10. ASSUME sound = Header
         PROVE  /\ Decode(f).error = "None"
                /\ \A name \in Payload : Intact(n, name) <=> Decode(f).record[name] = r[name]
    <3>1. Decode(f) = [record |-> Content(f), error |-> "None"]
      <4>1. "magic" \in sound /\ "version" \in sound /\ "declaredSize" \in sound
        BY <2>10 DEF Header
      <4>. QED BY <2>3, <2>6, <4>1, DecodeIs
    <3>2. ASSUME NEW name \in Payload
          PROVE  Intact(n, name) <=> Content(f)[name] = r[name]
      <4>0. name \in FieldNames
        BY DEF FieldNames
      <4>1. ReadField(f, name) = Value(r, name) <=> Agree(f, g, name)
        BY <2>3, <4>0, DecodeIs
      <4>2. Intact(n, name) <=> ReadField(f, name) = Value(r, name)
        BY <2>4, <4>0, <4>1
      <4>3. Content(f)[name] = ReadField(f, name)
        <5>1. /\ Content(f)["sensorId"] = ReadField(f, "sensorId")
              /\ Content(f)["metricId"] = ReadField(f, "metricId")
              /\ Content(f)["timestampNs"] = ReadField(f, "timestampNs")
              /\ Content(f)["value"] = ReadField(f, "value")
          BY DEF Content
        <5>. QED BY <5>1, Zenon DEF Payload
      <4>4. r[name] = Value(r, name)
        <5>1. /\ r["sensorId"] = Value(r, "sensorId") /\ r["metricId"] = Value(r, "metricId")
              /\ r["timestampNs"] = Value(r, "timestampNs") /\ r["value"] = Value(r, "value")
          BY DEF Value
        <5>. QED BY <5>1, Zenon DEF Payload
      <4>. QED BY <4>2, <4>3, <4>4
    <3>3. Decode(f).error = "None" /\ Decode(f).record = Content(f)
      BY <3>1
    <3>. QED BY <3>2, <3>3
  <2>. QED BY <2>2, <2>7, <2>8, <2>9, <2>10 DEF sound
<1>. QED BY <1>1, LoadInvariant, PTL
=============================================================================
