---------------------------- MODULE ReaderProofs ----------------------------
(***************************************************************************)
(* Proofs about System, part 2: the reader and the end of the program.     *)
(*                                                                         *)
(* Between the ring and the file nothing is lost, duplicated or reordered; *)
(* success means that everything is stored; and the two processes, with    *)
(* their cached positions and their notifications, implement the abstract  *)
(* channel.                                                                *)
(***************************************************************************)
EXTENDS ServerProofs

(* Sequence s is the part of w that starts behind position o.              *)
LiesAt(s, w, o) ==
  /\ s \in Seq(Frame) /\ w \in Seq(Frame) /\ o \in Nat
  /\ o + Len(s) <= Len(w)
  /\ \A i \in 1..Len(s) : s[i] = w[o + i]

(* The empty sequence lies everywhere.                                     *)
LEMMA LiesEmpty ==
  ASSUME NEW w \in Seq(Frame), NEW o \in 0..Len(w)
  PROVE  LiesAt(<<>>, w, o)
  BY DEF LiesAt

(* The types and lengths of the parts.                                     *)
LEMMA LiesTypes ==
  ASSUME NEW s, NEW w, NEW o, LiesAt(s, w, o)
  PROVE  /\ s \in Seq(Frame) /\ w \in Seq(Frame) /\ o \in Nat
         /\ Len(s) \in Nat /\ Len(w) \in Nat /\ o + Len(s) <= Len(w)
  BY LenProperties DEF LiesAt

(* Adjacent parts make one part.                                           *)
LEMMA LiesConcat ==
  ASSUME NEW s, NEW u, NEW w, NEW o, LiesAt(s, w, o), LiesAt(u, w, o + Len(s))
  PROVE  LiesAt(s \o u, w, o) /\ Len(s \o u) = Len(s) + Len(u)
<1>. DEFINE y == s \o u
<1>1. /\ s \in Seq(Frame) /\ u \in Seq(Frame) /\ w \in Seq(Frame) /\ o \in Nat
      /\ Len(s) \in Nat /\ Len(u) \in Nat /\ Len(w) \in Nat
      /\ o + Len(s) + Len(u) <= Len(w)
  BY LiesTypes
<1>2. /\ y \in Seq(Frame) /\ Len(y) = Len(s) + Len(u)
      /\ \A i \in 1..Len(y) : y[i] = IF i <= Len(s) THEN s[i] ELSE u[i - Len(s)]
  BY <1>1, ConcatProperties
<1>. HIDE DEF y
<1>3. ASSUME NEW i \in 1..Len(y) PROVE y[i] = w[o + i]
  <2>1. CASE i <= Len(s)
    <3>1. i \in 1..Len(s) /\ y[i] = s[i]
      BY <1>1, <1>2, <2>1
    <3>. QED BY <3>1 DEF LiesAt
  <2>2. CASE ~(i <= Len(s))
    <3>1. i - Len(s) \in 1..Len(u) /\ y[i] = u[i - Len(s)] /\ o + Len(s) + (i - Len(s)) = o + i
      BY <1>1, <1>2, <2>2
    <3>2. u[i - Len(s)] = w[o + Len(s) + (i - Len(s))]
      BY <3>1 DEF LiesAt
    <3>. QED BY <3>1, <3>2
  <2>. QED BY <2>1, <2>2
<1>4. o + Len(y) <= Len(w)
  BY <1>1, <1>2
<1>5. LiesAt(y, w, o)
  BY <1>1, <1>2, <1>3, <1>4 DEF LiesAt
<1>. QED BY <1>2, <1>5 DEF y

(* A first part of a part lies where it does.                              *)
LEMMA LiesCut ==
  ASSUME NEW s, NEW w, NEW o, LiesAt(s, w, o), NEW k \in 0..Len(s)
  PROVE  LiesAt(SubSeq(s, 1, k), w, o) /\ Len(SubSeq(s, 1, k)) = k
<1>1. /\ s \in Seq(Frame) /\ w \in Seq(Frame) /\ o \in Nat
      /\ Len(s) \in Nat /\ Len(w) \in Nat /\ o + Len(s) <= Len(w)
  BY LiesTypes
<1>. DEFINE y == SubSeq(s, 1, k)
<1>2. y \in Seq(Frame) /\ Len(y) = k /\ \A i \in 1..k : y[i] = s[i]
  BY <1>1
<1>. HIDE DEF y
<1>3. \A i \in 1..k : y[i] = w[o + i]
  <2>. SUFFICES ASSUME NEW i \in 1..k PROVE y[i] = w[o + i]
    OBVIOUS
  <2>1. i \in 1..Len(s)
    BY <1>1
  <2>. QED BY <1>2, <2>1 DEF LiesAt
<1>4. o + Len(y) <= Len(w)
  BY <1>1, <1>2
<1>. QED BY <1>1, <1>2, <1>3, <1>4 DEF LiesAt, y

(* A part stays in its place when more is appended behind.                 *)
LEMMA LiesGrown ==
  ASSUME NEW s, NEW w, NEW o, LiesAt(s, w, o), NEW u \in Seq(Frame)
  PROVE  LiesAt(s, w \o u, o)
<1>1. /\ s \in Seq(Frame) /\ w \in Seq(Frame) /\ o \in Nat
      /\ Len(s) \in Nat /\ Len(w) \in Nat /\ Len(u) \in Nat /\ o + Len(s) <= Len(w)
  BY LiesTypes, LenProperties
<1>. DEFINE y == w \o u
<1>2. /\ y \in Seq(Frame) /\ Len(y) = Len(w) + Len(u)
      /\ \A i \in 1..Len(y) : y[i] = IF i <= Len(w) THEN w[i] ELSE u[i - Len(w)]
  BY <1>1, ConcatProperties
<1>. HIDE DEF y
<1>3. \A i \in 1..Len(s) : s[i] = y[o + i]
  <2>. SUFFICES ASSUME NEW i \in 1..Len(s) PROVE s[i] = y[o + i]
    OBVIOUS
  <2>1. o + i \in 1..Len(y) /\ o + i <= Len(w)
    BY <1>1, <1>2
  <2>2. y[o + i] = w[o + i]
    BY <1>2, <2>1
  <2>. QED BY <2>2 DEF LiesAt
<1>4. o + Len(s) <= Len(y)
  BY <1>1, <1>2
<1>. QED BY <1>1, <1>2, <1>3, <1>4 DEF LiesAt, y

(* The first element of a part, and the rest.                              *)
LEMMA LiesHead ==
  ASSUME NEW s, NEW w, NEW o, LiesAt(s, w, o), s # <<>>
  PROVE  /\ LiesAt(<<Head(s)>>, w, o) /\ Len(<<Head(s)>>) = 1
         /\ LiesAt(Tail(s), w, o + 1) /\ Len(Tail(s)) = Len(s) - 1
         /\ Head(s) \in Frame /\ Head(s) = w[o + 1]
<1>1. /\ s \in Seq(Frame) /\ w \in Seq(Frame) /\ o \in Nat
      /\ Len(s) \in Nat /\ Len(w) \in Nat /\ o + Len(s) <= Len(w)
  BY LiesTypes
<1>2. /\ Len(s) >= 1 /\ Head(s) = s[1] /\ Head(s) \in Frame
      /\ Tail(s) \in Seq(Frame) /\ Len(Tail(s)) = Len(s) - 1
      /\ \A i \in 1..(Len(s) - 1) : Tail(s)[i] = s[i + 1]
  BY <1>1, HeadTailProperties
<1>3. LiesAt(<<Head(s)>>, w, o) /\ Len(<<Head(s)>>) = 1
  <2>. DEFINE y == <<Head(s)>>
  <2>1. y \in Seq(Frame) /\ Len(y) = 1 /\ y[1] = s[1]
    BY <1>2
  <2>2. s[1] = w[o + 1]
    BY <1>1, <1>2 DEF LiesAt
  <2>. HIDE DEF y
  <2>3. \A i \in 1..1 : y[i] = w[o + i]
    BY <2>1, <2>2
  <2>4. o + 1 <= Len(w)
    BY <1>1, <1>2
  <2>. QED BY <1>1, <2>1, <2>3, <2>4 DEF LiesAt, y
<1>4. LiesAt(Tail(s), w, o + 1)
  <2>1. \A i \in 1..(Len(s) - 1) : Tail(s)[i] = w[o + 1 + i]
    <3>. SUFFICES ASSUME NEW i \in 1..(Len(s) - 1) PROVE Tail(s)[i] = w[o + 1 + i]
      OBVIOUS
    <3>1. i + 1 \in 1..Len(s) /\ o + (i + 1) = o + 1 + i
      BY <1>1
    <3>2. s[i + 1] = w[o + (i + 1)]
      BY <3>1 DEF LiesAt
    <3>. QED BY <1>2, <3>1, <3>2
  <2>2. o + 1 + (Len(s) - 1) <= Len(w) /\ o + 1 \in Nat
    BY <1>1
  <2>. QED BY <1>1, <1>2, <2>1, <2>2 DEF LiesAt
<1>5. s[1] = w[o + 1]
  BY <1>1, <1>2 DEF LiesAt
<1>. QED BY <1>2, <1>3, <1>4, <1>5

(* SubSeq cuts a part.                                                     *)
LEMMA LiesWindow ==
  ASSUME NEW w \in Seq(Frame), NEW o \in Nat, NEW n \in Nat, o + n <= Len(w)
  PROVE  LiesAt(SubSeq(w, o + 1, o + n), w, o) /\ Len(SubSeq(w, o + 1, o + n)) = n
<1>. DEFINE y == SubSeq(w, o + 1, o + n)
<1>1. y \in Seq(Frame) /\ Len(y) = n /\ \A i \in 1..n : y[i] = w[o + i]
  OBVIOUS
<1>. HIDE DEF y
<1>. QED BY <1>1 DEF LiesAt, y

(* A part that starts at the beginning is a prefix, and the whole sequence *)
(* if it is as long.                                                       *)
LEMMA LiesFirst ==
  ASSUME NEW s, NEW w, LiesAt(s, w, 0)
  PROVE  /\ s = SubSeq(w, 1, Len(s)) /\ IsPrefix(s, w)
         /\ Len(s) = Len(w) => s = w
<1>1. /\ s \in Seq(Frame) /\ w \in Seq(Frame) /\ Len(s) \in Nat /\ Len(w) \in Nat /\ Len(s) <= Len(w)
  BY LiesTypes
<1>2. \A i \in 1..Len(s) : s[i] = w[i]
  BY <1>1 DEF LiesAt
<1>. DEFINE y == SubSeq(w, 1, Len(s))
<1>3. y \in Seq(Frame) /\ Len(y) = Len(s) /\ \A i \in 1..Len(s) : y[i] = w[i]
  BY <1>1
<1>. HIDE DEF y
<1>4. s = y
  BY <1>1, <1>2, <1>3, SeqEqual
<1>5. SubSeq(s, 1, Len(s)) = s
  BY <1>1
<1>6. Len(s) = Len(w) => s = w
  BY <1>1, <1>2, SeqEqual
<1>. QED BY <1>1, <1>4, <1>5, <1>6 DEF IsPrefix, y

-----------------------------------------------------------------------------
(* The values of the reader's and of main's variables.                     *)
ReaderTypes ==
  /\ file \in Seq(Frame) /\ batch \in Seq(Frame) /\ ipcBatch \in Seq(Frame)
  /\ Len(batch) < StoreBatch /\ Len(ipcBatch) <= IpcBatch
  /\ synced \in BOOLEAN
  /\ rpc \in {"open", "pop", "process", "flush", "notify", "closed", "sync", "block", "exited"}
  /\ rstatus \in {"none", "running", "stopped", "killed", "exit0", "exit1"}
  /\ mpc \in {"parse", "setup", "server", "notify", "wait", "exited", "killed"}
  /\ exitCode \in {"none", "success", "failure"} /\ faulted \in BOOLEAN

(* Where every frame is: the file, the staged batch and the popped batch   *)
(* lie in the published stream one behind the other and end at the tail.   *)
(* When the reader is lost, what it had in memory is lost, and the file    *)
(* still holds a prefix.  The reader blocks, closes and syncs with nothing *)
(* staged, and syncs only when the ring is closed and empty.               *)
Staged ==
  /\ LiesAt(file, stream, 0)
  /\ ~Lost => /\ LiesAt(batch, stream, Len(file))
              /\ LiesAt(ipcBatch, stream, Len(file) + Len(batch))
              /\ Len(file) + Len(batch) + Len(ipcBatch) = tail
              /\ rpc # "process" => ipcBatch = <<>>
              /\ rpc \in {"open", "notify", "closed", "block", "sync"} => batch = <<>>
              /\ rpc = "sync" => producerClosed /\ tail = head

(* How the processes end.  The ring is closed only after the server has    *)
(* stopped, so that nothing is published behind the reader's back; a       *)
(* reader that ended well stored and synced everything; and main reports   *)
(* success only for such a reader after a requested shutdown, or when it   *)
(* forked none.                                                            *)
Endings ==
  /\ producerClosed => spc = "stopped"
  /\ rstatus = "none" => mpc \notin {"server", "notify", "wait"} /\ stream = <<>>
  /\ mpc \in {"parse", "setup"} => rstatus = "none"
  /\ rstatus = "exit0" => producerClosed /\ file = stream /\ synced
  /\ result = "success" => state = "Draining"
  /\ exitCode # "none" => mpc = "exited"
  /\ exitCode = "success" => rstatus = "none" \/ (rstatus = "exit0" /\ state = "Draining")

(* The inductive invariant of the reader and of the end of the program.    *)
ReaderInv == ReaderTypes /\ Staged /\ Endings

(* Moving one element from one part to the next leaves the sum.            *)
LEMMA Moved ==
  ASSUME NEW x \in Nat, NEW y \in Nat, NEW z \in Nat
  PROVE  x + y + 1 + (z - 1) = x + y + z
  OBVIOUS

(* A sequence of length 0 is empty.                                        *)
LEMMA NoSpace == ASSUME NEW s \in Seq(Frame), Len(s) = 0 PROVE s = <<>>
  OBVIOUS

(* Lengths as numbers, and the file no longer than the stream.             *)
LEMMA StagedFacts ==
  ASSUME ReaderInv
  PROVE  /\ Len(file) \in Nat /\ Len(batch) \in Nat /\ Len(ipcBatch) \in Nat
         /\ stream \in Seq(Frame) /\ Len(file) <= head
  BY LenProperties, LiesTypes DEF ReaderInv, ReaderTypes, Staged, head

(* The reader's own steps.                                                 *)
(* What Staged says of a running reader.                                   *)
LEMMA StagedRunning ==
  ASSUME ReaderInv, rstatus = "running"
  PROVE  /\ LiesAt(file, stream, 0) /\ LiesAt(batch, stream, Len(file))
         /\ LiesAt(ipcBatch, stream, Len(file) + Len(batch))
         /\ Len(file) + Len(batch) + Len(ipcBatch) = tail
         /\ rpc # "process" => ipcBatch = <<>>
         /\ rpc \in {"open", "notify", "closed", "block", "sync"} => batch = <<>>
         /\ rpc = "sync" => producerClosed /\ tail = head
  BY DEF ReaderInv, Staged, Lost

(* A running reader that goes on, or fails, does not change how the others *)
(* end.                                                                    *)
LEMMA EndingsRunning ==
  ASSUME ReaderInv, rstatus = "running", rstatus' \in {"running", "exit1"},
         UNCHANGED <<stream, producerClosed, spc, result, state, mpc, exitCode>>
  PROVE  Endings'
  BY DEF ReaderInv, Endings

(* The file with the staged batch appended is a prefix of the stream.      *)
LEMMA FlushedStaged ==
  ASSUME ReaderInv, rstatus = "running"
  PROVE  /\ LiesAt(file \o batch, stream, 0)
         /\ Len(file \o batch) = Len(file) + Len(batch)
<1>1. LiesAt(file, stream, 0) /\ LiesAt(batch, stream, 0 + Len(file))
  BY StagedRunning, StagedFacts
<1>. QED BY <1>1, LiesConcat

(* popBatch() takes the next frames of the ring, and no others.            *)
LEMMA ReaderPop ==
  ASSUME ReaderInv, Ring, Pop, UNCHANGED <<spc, result, state, mpc, exitCode, faulted>>
  PROVE  ReaderInv'
<1>1. PICK h \in headSeen..head :
        /\ tail' = tail + PopCount(IpcBatch, h)
        /\ ipcBatch' = SubSeq(stream, tail + 1, tail')
  BY DEF Pop, TryPopBatch
<1>2. /\ rpc = "pop" /\ rstatus = "running" /\ UNCHANGED <<stream, producerClosed, rstatus, batch, file, synced>>
      /\ rpc' = IF tail' = tail THEN "flush" ELSE "process"
  BY DEF Pop, At
<1>3. /\ head \in Nat /\ tail \in Nat /\ headSeen \in Nat /\ tail <= headSeen /\ headSeen <= head
  BY RingFacts
<1>. DEFINE n == PopCount(IpcBatch, h)
<1>4. n \in Nat /\ n <= IpcBatch /\ tail + n <= head
  BY <1>3, ReaderAssumption DEF PopCount, Smaller
<1>. HIDE DEF n
<1>5. stream \in Seq(Frame) /\ head = Len(stream)
  BY DEF Ring, head
<1>6. LiesAt(ipcBatch', stream, tail) /\ Len(ipcBatch') = n /\ tail' = tail + n
  BY <1>1, <1>3, <1>4, <1>5, LiesWindow DEF n
<1>7. /\ LiesAt(file, stream, 0) /\ LiesAt(batch, stream, Len(file)) /\ ipcBatch = <<>>
      /\ Len(file) + Len(batch) + Len(ipcBatch) = tail
  BY <1>2, StagedRunning
<1>8. Len(file) + Len(batch) = tail
  BY <1>7, StagedFacts
<1>9. ipcBatch' \in Seq(Frame)
  BY <1>6, LiesTypes
<1>10. rpc' # "process" => ipcBatch' = <<>>
  <2>1. rpc' # "process" => n = 0
    BY <1>2, <1>3, <1>4, <1>6
  <2>. QED BY <1>6, <1>9, <2>1, NoSpace
<1>11. Staged'
  BY <1>2, <1>6, <1>7, <1>8, <1>10 DEF Staged
<1>12. ReaderTypes'
  BY <1>2, <1>4, <1>6, <1>9 DEF ReaderInv, ReaderTypes
<1>. QED BY <1>2, <1>11, <1>12, EndingsRunning DEF ReaderInv

(* Decoding a frame moves it from the popped to the staged batch, and a    *)
(* full batch to the file.                                                 *)
LEMMA ReaderProcess ==
  ASSUME ReaderInv, ProcessFrame, UNCHANGED <<spc, result, state, mpc, exitCode, faulted>>
  PROVE  ReaderInv'
<1>. DEFINE frame == Head(ipcBatch)
            staged == batch \o <<frame>>
<1>0. /\ rpc = "process" /\ rstatus = "running" /\ ipcBatch # <<>>
      /\ UNCHANGED <<stream, tail, producerClosed>>
  BY DEF ProcessFrame, At, ipcVars
<1>1. /\ LiesAt(file, stream, 0) /\ LiesAt(batch, stream, Len(file))
      /\ LiesAt(ipcBatch, stream, Len(file) + Len(batch))
      /\ Len(file) + Len(batch) + Len(ipcBatch) = tail
      /\ Len(file) \in Nat /\ Len(batch) \in Nat /\ Len(ipcBatch) \in Nat
  BY <1>0, StagedRunning, StagedFacts
<1>2. /\ LiesAt(<<frame>>, stream, Len(file) + Len(batch)) /\ Len(<<frame>>) = 1
      /\ LiesAt(Tail(ipcBatch), stream, Len(file) + Len(batch) + 1)
      /\ Len(Tail(ipcBatch)) = Len(ipcBatch) - 1
  BY <1>0, <1>1, LiesHead
<1>3. LiesAt(staged, stream, Len(file)) /\ Len(staged) = Len(batch) + 1
  BY <1>1, <1>2, LiesConcat
<1>4. LiesAt(file \o batch, stream, 0) /\ Len(file \o batch) = Len(file) + Len(batch)
  BY <1>0, FlushedStaged
<1>5. LiesAt(file \o staged, stream, 0) /\ Len(file \o staged) = Len(file) + Len(batch) + 1
  <2>1. LiesAt(staged, stream, 0 + Len(file))
    BY <1>1, <1>3
  <2>2. LiesAt(file \o staged, stream, 0) /\ Len(file \o staged) = Len(file) + Len(staged)
    BY <1>1, <2>1, LiesConcat
  <2>. QED BY <1>1, <1>3, <2>2
<1>6. /\ file \o batch \in Seq(Frame) /\ file \o staged \in Seq(Frame)
      /\ staged \in Seq(Frame) /\ Tail(ipcBatch) \in Seq(Frame)
  BY <1>2, <1>3, <1>4, <1>5, LiesTypes
<1>7. Len(ipcBatch) >= 1
  BY <1>2, <1>6, LenProperties, <1>1
<1>8. CASE ~Decodes(frame)
  <2>1. /\ file' = file \o batch /\ synced' \in IF batch = <<>> THEN {synced} ELSE BOOLEAN
        /\ rpc' = "exited" /\ rstatus' = "exit1" /\ UNCHANGED <<ipcBatch, batch>>
    BY <1>8 DEF ProcessFrame, StoreAppend, ExitReader
  <2>2. ReaderTypes'
    BY <1>6, <2>1 DEF ReaderInv, ReaderTypes
  <2>3. Staged'
    BY <1>0, <1>4, <2>1 DEF Staged, Lost
  <2>. QED BY <1>0, <2>1, <2>2, <2>3, EndingsRunning DEF ReaderInv
<1>9. CASE Decodes(frame) /\ Len(staged) = StoreBatch
  <2>1. /\ file' = file \o staged /\ synced' \in IF staged = <<>> THEN {synced} ELSE BOOLEAN
        /\ batch' = <<>> /\ ipcBatch' = Tail(ipcBatch) /\ UNCHANGED <<rpc, rstatus>>
    BY <1>9 DEF ProcessFrame, StoreAppend
  <2>. HIDE DEF staged
  <2>2. ReaderTypes'
    BY <1>1, <1>2, <1>6, <2>1, ReaderAssumption DEF ReaderInv, ReaderTypes
  <2>3. /\ LiesAt(batch', stream, Len(file')) /\ LiesAt(ipcBatch', stream, Len(file') + Len(batch'))
        /\ Len(file') + Len(batch') + Len(ipcBatch') = tail
    <3>0. stream \in Seq(Frame) /\ Len(stream) \in Nat /\ Len(file') \in 0..Len(stream)
      <4>1. LiesAt(file', stream, 0)
        BY <1>5, <2>1
      <4>2. /\ stream \in Seq(Frame) /\ Len(stream) \in Nat /\ Len(file') \in Nat
            /\ 0 + Len(file') <= Len(stream)
        BY <4>1, LiesTypes
      <4>. QED BY <4>2
    <3>1. LiesAt(batch', stream, Len(file'))
      BY <2>1, <3>0, LiesEmpty
    <3>2. Len(batch') = 0 /\ Len(file') = Len(file) + Len(batch) + 1
      BY <1>5, <2>1
    <3>3. Len(file') + Len(batch') = Len(file) + Len(batch) + 1
      BY <1>1, <3>2
    <3>4. Len(file') + Len(batch') + Len(ipcBatch') = tail
      <4>1. Len(ipcBatch') = Len(ipcBatch) - 1
        BY <1>2, <2>1
      <4>. QED BY <1>1, <3>3, <4>1, Moved
    <3>. QED BY <1>2, <2>1, <3>1, <3>3, <3>4
  <2>4. Staged'
    BY <1>0, <1>5, <2>1, <2>3 DEF Staged, Lost
  <2>. QED BY <1>0, <2>1, <2>2, <2>4, EndingsRunning DEF ReaderInv
<1>10. CASE Decodes(frame) /\ Len(staged) # StoreBatch
  <2>1. /\ batch' = staged /\ ipcBatch' = Tail(ipcBatch) /\ UNCHANGED <<file, synced, rpc, rstatus>>
    BY <1>10 DEF ProcessFrame
  <2>. HIDE DEF staged
  <2>2. ReaderTypes'
    <3>1. Len(batch) < StoreBatch /\ Len(ipcBatch) <= IpcBatch
      BY DEF ReaderInv, ReaderTypes
    <3>2. Len(batch') < StoreBatch /\ Len(ipcBatch') <= IpcBatch
      BY <1>1, <1>2, <1>3, <1>10, <2>1, <3>1, ReaderAssumption
    <3>. QED BY <1>6, <2>1, <3>2 DEF ReaderInv, ReaderTypes
  <2>3. Len(file) + Len(batch') = Len(file) + Len(batch) + 1
    BY <1>1, <1>3, <2>1
  <2>4. Len(file) + Len(batch') + Len(ipcBatch') = tail
    <3>1. Len(ipcBatch') = Len(ipcBatch) - 1
      BY <1>2, <2>1
    <3>. QED BY <1>1, <2>3, <3>1, Moved
  <2>5. Staged'
    BY <1>0, <1>1, <1>2, <1>3, <2>1, <2>3, <2>4 DEF Staged, Lost
  <2>. QED BY <1>0, <2>1, <2>2, <2>5, EndingsRunning DEF ReaderInv
<1>. QED BY <1>8, <1>9, <1>10

(* Flushing the rest of a batch before the reader goes on.                 *)
LEMMA ReaderFlush ==
  ASSUME ReaderInv, Flush, UNCHANGED <<spc, result, state, mpc, exitCode, faulted>>
  PROVE  ReaderInv'
<1>0. /\ rpc = "flush" /\ rstatus = "running" /\ rpc' = "notify" /\ batch' = <<>>
      /\ file' = file \o batch /\ synced' \in IF batch = <<>> THEN {synced} ELSE BOOLEAN
      /\ UNCHANGED <<stream, tail, producerClosed, rstatus, ipcBatch>>
  BY DEF Flush, At, StoreAppend, ipcVars
<1>1. /\ LiesAt(file', stream, 0) /\ Len(file') = Len(file) + Len(batch)
  BY <1>0, FlushedStaged
<1>2. ipcBatch = <<>> /\ Len(file) + Len(batch) + Len(ipcBatch) = tail
  BY <1>0, StagedRunning
<1>3. /\ stream \in Seq(Frame) /\ Len(stream) \in Nat /\ Len(file') \in Nat /\ file' \in Seq(Frame)
      /\ 0 + Len(file') <= Len(stream)
  BY <1>1, LiesTypes
<1>4. Len(file') \in 0..Len(stream) /\ Len(file') = tail /\ Len(batch') = 0 /\ Len(ipcBatch') = 0
      /\ Len(file') + Len(batch') = Len(file')
  <2>1. Len(batch') = 0 /\ Len(ipcBatch') = 0 /\ Len(ipcBatch) = 0
    BY <1>0, <1>2
  <2>2. Len(file) + Len(batch) = tail
    BY <1>2, <2>1, StagedFacts
  <2>. QED BY <1>1, <1>3, <2>1, <2>2
<1>5. LiesAt(batch', stream, Len(file')) /\ LiesAt(ipcBatch', stream, Len(file') + Len(batch'))
  BY <1>0, <1>2, <1>3, <1>4, LiesEmpty
<1>6. Len(file') + Len(batch') + Len(ipcBatch') = tail
  BY <1>3, <1>4
<1>7. Staged'
  BY <1>0, <1>1, <1>2, <1>5, <1>6 DEF Staged, Lost
<1>8. ReaderTypes'
  BY <1>0, <1>3, <1>4, ReaderAssumption DEF ReaderInv, ReaderTypes
<1>. QED BY <1>0, <1>7, <1>8, EndingsRunning DEF ReaderInv

(* The steps of the reader that move no frame: opening the file, reporting *)
(* space, seeing the ring closed, the final sync, and waiting.             *)
LEMMA ReaderMoves ==
  ASSUME ReaderInv,
         OpenFile \/ ProcessDone \/ ReportSpace \/ CheckClosed \/ FinalSync \/ AwaitData,
         UNCHANGED <<spc, result, state, mpc, exitCode, faulted>>
  PROVE  ReaderInv'
<1>0. rstatus = "running" /\ UNCHANGED <<stream, tail, producerClosed, ipcBatch, batch, file>>
  BY DEF OpenFile, ProcessDone, ReportSpace, CheckClosed, FinalSync, AwaitData, At, ipcVars
<1>1. /\ LiesAt(file, stream, 0) /\ LiesAt(batch, stream, Len(file))
      /\ LiesAt(ipcBatch, stream, Len(file) + Len(batch))
      /\ Len(file) + Len(batch) + Len(ipcBatch) = tail
      /\ rpc # "process" => ipcBatch = <<>>
      /\ rpc \in {"open", "notify", "closed", "block", "sync"} => batch = <<>>
      /\ rpc = "sync" => producerClosed /\ tail = head
  BY <1>0, StagedRunning
<1>2. CASE FinalSync
  <2>1. rpc = "sync" /\ synced' = TRUE /\ rpc' = "exited" /\ rstatus' = "exit0"
    BY <1>2 DEF FinalSync, At, ExitReader
  <2>2. Len(file) = Len(stream)
    BY <1>1, <2>1, StagedFacts DEF head
  <2>3. file = stream
    BY <1>1, <2>2, LiesFirst
  <2>4. ReaderTypes'
    BY <1>0, <2>1 DEF ReaderInv, ReaderTypes
  <2>5. Staged'
    BY <1>0, <1>1, <2>1 DEF Staged, Lost
  <2>6. Endings'
    BY <1>0, <1>1, <2>1, <2>3 DEF ReaderInv, Endings
  <2>. QED BY <2>4, <2>5, <2>6 DEF ReaderInv
<1>3. CASE ~FinalSync
  <2>1. /\ UNCHANGED <<synced, rstatus>>
        /\ rpc' \in {"pop", "closed", "block", "sync"}
        /\ rpc' # "pop" => rpc \in {"notify", "closed"}
        /\ rpc' = "sync" => producerClosed /\ tail = head
        /\ rpc = "process" => ipcBatch = <<>>
    BY <1>3 DEF OpenFile, ProcessDone, ReportSpace, CheckClosed, AwaitData, At
  <2>2. ReaderTypes'
    BY <1>0, <2>1 DEF ReaderInv, ReaderTypes
  <2>3. Staged'
    BY <1>0, <1>1, <2>1 DEF Staged, Lost, head
  <2>. QED BY <1>0, <2>1, <2>2, <2>3, EndingsRunning DEF ReaderInv
<1>. QED BY <1>2, <1>3

(* Every step of the reader keeps the invariant.                           *)
LEMMA ReaderActsInv ==
  ASSUME ReaderInv, Ring, ReaderStep, UNCHANGED <<spc, result, state, mpc, exitCode, faulted>>
  PROVE  ReaderInv'
  BY ReaderPop, ReaderProcess, ReaderFlush, ReaderMoves DEF ReaderStep

(* An append that fails part way leaves a prefix of the stream in the      *)
(* file, and the file not synced.                                          *)
LEMMA CutAppend ==
  ASSUME ReaderInv, rstatus = "running", NEW s, LiesAt(s, stream, Len(file)), AppendFails(s)
  PROVE  LiesAt(file', stream, 0) /\ synced' = FALSE
<1>1. PICK k \in 0..Len(s) : file' = file \o SubSeq(s, 1, k)
  BY DEF AppendFails
<1>2. LiesAt(SubSeq(s, 1, k), stream, Len(file))
  BY LiesCut
<1>3. LiesAt(file, stream, 0) /\ 0 + Len(file) = Len(file)
  BY StagedRunning, StagedFacts
<1>4. LiesAt(file \o SubSeq(s, 1, k), stream, 0)
  BY <1>2, <1>3, LiesConcat
<1>. QED BY <1>1, <1>4 DEF AppendFails

(* Every failure in the reader keeps the invariant.                        *)
LEMMA ReaderFailsInv ==
  ASSUME ReaderInv, ReaderFault, faulted' = TRUE, UNCHANGED <<spc, result, state, mpc, exitCode>>
  PROVE  ReaderInv'
<1>0. /\ rstatus = "running" /\ rpc' = "exited" /\ rstatus' = "exit1"
      /\ UNCHANGED <<ipcVars, ipcBatch, batch>>
  BY DEF ReaderFault, OpenFails, ProcessFails, FlushFails, ReportSpaceFails, FinalSyncFails,
         AwaitDataFails, At, ExitReader
<1>1. LiesAt(file', stream, 0) /\ synced' \in BOOLEAN
  <2>1. CASE UNCHANGED <<file, synced>>
    BY <2>1 DEF ReaderInv, Staged, ReaderTypes
  <2>2. CASE FlushFails
    BY <1>0, <2>2, StagedRunning, CutAppend DEF FlushFails
  <2>3. CASE ProcessFails
    <3>. DEFINE frame == Head(ipcBatch)
                staged == batch \o <<frame>>
    <3>1. ipcBatch # <<>> /\ AppendFails(IF Decodes(frame) THEN staged ELSE batch)
      BY <2>3 DEF ProcessFails
    <3>2. /\ LiesAt(batch, stream, Len(file))
          /\ LiesAt(ipcBatch, stream, Len(file) + Len(batch))
      BY <1>0, StagedRunning
    <3>3. LiesAt(<<frame>>, stream, Len(file) + Len(batch))
      BY <3>1, <3>2, LiesHead
    <3>4. LiesAt(staged, stream, Len(file))
      BY <3>2, <3>3, LiesConcat
    <3>. HIDE DEF staged
    <3>5. CASE Decodes(frame)
      BY <1>0, <3>1, <3>4, <3>5, CutAppend
    <3>6. CASE ~Decodes(frame)
      BY <1>0, <3>1, <3>2, <3>6, CutAppend
    <3>. QED BY <3>5, <3>6
  <2>. QED BY <2>1, <2>2, <2>3 DEF ReaderFault, OpenFails, ReportSpaceFails, FinalSyncFails,
                                   AwaitDataFails
<1>2. ReaderTypes'
  BY <1>0, <1>1, LiesTypes DEF ReaderInv, ReaderTypes
<1>3. Staged'
  BY <1>0, <1>1 DEF Staged, Lost, ipcVars
<1>. QED BY <1>0, <1>2, <1>3, EndingsRunning DEF ReaderInv, ipcVars

-----------------------------------------------------------------------------
(* The steps of the others.                                                *)
(* A server that has stopped takes no more steps.                          *)
LEMMA StoppedIsOver == spc = "stopped" => ~ServerStep /\ ~ServerFault
  BY DEF ServerStep, StartServer, LoopTop, EpollWait, BatchDone, SignalEvent, ListenEvent,
         AcceptClient, AcceptDone, SpaceEvent, ResumeCheck, ClientEvent, ReceiveData, PauseCheck,
         NotifyReader, RingFull, ReceiveEnd, ReceiveAgain, ServerFault, StartFails,
         EpollWaitFails, AcceptFails, AcceptUnwatched, EventFails, ListenFails, NotifyReaderFails, IngressFails

(* The server reports success only when it was draining, never stops       *)
(* draining, and neither closes the ring nor pops from it.                 *)
LEMMA ServerKeepsResult ==
  ASSUME ServerStep \/ ServerFault, ControlInv
  PROVE  /\ (result' = "success" => result = "success" \/ state = "Draining")
         /\ (state = "Draining" => state' = "Draining")
         /\ producerClosed' = producerClosed /\ tail' = tail
<1>1. CASE StartServer \/ EpollWait \/ BatchDone \/ ListenEvent \/ AcceptClient \/ AcceptDone
             \/ ClientEvent \/ SpaceEvent \/ AcceptUnwatched \/ PauseCheck \/ ReceiveEnd \/ ReceiveAgain
             \/ ReceiveData
  BY <1>1 DEF StartServer, EpollWait, BatchDone, ListenEvent, AcceptClient, AcceptDone, ClientEvent,
     SpaceEvent, AcceptUnwatched, PauseCheck, ReceiveEnd, ReceiveAgain, ReceiveData, ipcVars
<1>2. CASE LoopTop
  BY <1>2 DEF LoopTop, Stop
<1>3. CASE SignalEvent
  <2>1. CASE ReaderTerminated
    BY <1>3, <2>1 DEF SignalEvent, Stop, ipcVars
  <2>2. CASE ~ReaderTerminated
    BY <1>3, <2>2 DEF SignalEvent, ipcVars
  <2>. QED BY <2>1, <2>2
<1>4. CASE ResumeCheck \/ NotifyReader \/ RingFull \/ IngressFails
  BY <1>4 DEF ResumeCheck, ResumeIngress, NotifyReader, PauseIngress, RingFull, IngressFails, Stop
<1>5. CASE Stop("failure") /\ UNCHANGED ipcVars
  BY <1>5 DEF Stop, ipcVars
<1>. QED BY <1>1, <1>2, <1>3, <1>4, <1>5 DEF ServerStep, ServerFault, StartFails, EpollWaitFails,
                         AcceptFails, EventFails, ListenFails, NotifyReaderFails

(* The server changes the stream only by appending frames.                 *)
LEMMA StreamGrows ==
  ASSUME ControlInv, InputInv, ServerStep \/ ServerFault
  PROVE  \E s \in Seq(Frame) : stream' = stream \o s
<1>. USE DEF InputInv
<1>1. CASE stream' = stream
  <2>1. <<>> \in Seq(Frame) /\ stream' = stream \o <<>>
    BY <1>1 DEF Ring
  <2>. QED BY <2>1
<1>2. CASE ServerFault
  BY <1>1, <1>2, ServerFaultIpc DEF ServerIpc
<1>3. CASE ServerStep /\ ~ReceiveData
  BY <1>1, <1>3, ServerStepIpc DEF ServerIpc
<1>4. CASE ReceiveData
  <2>1. /\ spc = "recv"
        /\ \/ UNCHANGED <<stream, tailSeen>>
           \/ \E t \in tailSeen..tail, m \in 0..ValidFrames(Refill) : Publish(t, m)
    BY <1>4, ReceiveCases
  <2>2. ASSUME NEW t \in tailSeen..tail, NEW m \in 0..ValidFrames(Refill), Publish(t, m)
        PROVE  \E s \in Seq(Frame) : stream' = stream \o s
    <3>1. /\ Source \in Conns /\ received[Source] \in Nat /\ ReadCount \in 0..RecvUnits
          /\ Refill \in Buffer /\ Holds(Refill, Source, received[Source] + ReadCount)
          /\ ValidFrames(Refill) \in 0..AvailableFrames(Refill) /\ AvailableFrames(Refill) \in Nat
      BY <2>1, RefillIs
    <3>2. m \in 0..AvailableFrames(Refill) /\ received[Source] + ReadCount \in Nat
      BY <3>1, ServerAssumption
    <3>3. FirstFrames(Refill, m) \in Seq(Frame)
      BY <3>1, <3>2, FirstFramesAre
    <3>. QED BY <2>2, <3>3 DEF Publish
  <2>. QED BY <1>1, <2>1, <2>2
<1>. QED BY <1>2, <1>3, <1>4

(* Every step of the server, and every failure in it, keeps the invariant. *)
LEMMA ReaderServer ==
  ASSUME ControlInv, InputInv, ReaderInv, mpc = "server", ServerStep \/ ServerFault,
         faulted' \in BOOLEAN, UNCHANGED <<readerVars, mpc, exitCode>>
  PROVE  ReaderInv'
<1>0. UNCHANGED <<rpc, rstatus, ipcBatch, batch, file, synced>>
  BY DEF readerVars
<1>1. PICK s \in Seq(Frame) : stream' = stream \o s
  BY StreamGrows
<1>2. /\ (result' = "success" => result = "success" \/ state = "Draining")
      /\ (state = "Draining" => state' = "Draining")
      /\ producerClosed' = producerClosed /\ tail' = tail
  BY ServerKeepsResult
<1>3. ~producerClosed /\ rstatus # "none" /\ exitCode = "none"
  BY StoppedIsOver DEF ReaderInv, Endings
<1>4. ReaderTypes'
  BY <1>0 DEF ReaderInv, ReaderTypes
<1>5. Staged'
  <2>1. LiesAt(file, stream', 0)
    BY <1>1, LiesGrown DEF ReaderInv, Staged
  <2>2. ~Lost => LiesAt(batch, stream', Len(file)) /\ LiesAt(ipcBatch, stream', Len(file) + Len(batch))
    BY <1>1, LiesGrown DEF ReaderInv, Staged
  <2>3. Lost' = Lost
    BY <1>0 DEF Lost
  <2>. QED BY <1>0, <1>2, <1>3, <2>1, <2>2, <2>3 DEF ReaderInv, Staged
<1>6. Endings'
  BY <1>0, <1>2, <1>3 DEF ReaderInv, Endings
<1>. QED BY <1>4, <1>5, <1>6 DEF ReaderInv

(* A step that moves no frame keeps them in their places.                  *)
LEMMA StagedSame ==
  ASSUME Staged, UNCHANGED <<stream, tail, producerClosed, rpc, ipcBatch, batch, file>>, Lost => Lost'
  PROVE  Staged'
<1>1. CASE Lost'
  BY <1>1 DEF Staged
<1>2. CASE ~Lost'
  BY <1>2 DEF Staged, head
<1>. QED BY <1>1, <1>2

(* Every step of main keeps the invariant: fork(), closing the ring after  *)
(* the server has stopped, waitpid() and its verdict.                      *)
LEMMA ReaderMain ==
  ASSUME ControlInv, ReaderInv, MainStep
  PROVE  ReaderInv'
<1>1. CASE ParseArguments
  <2>1. /\ UNCHANGED <<stream, tail, producerClosed, rpc, rstatus, ipcBatch, batch, file, synced, spc, state, result>>
        /\ mpc = "parse" /\ mpc' \in {"setup", "exited"} /\ faulted' \in BOOLEAN
        /\ \/ mpc' = "setup" /\ exitCode' = exitCode
           \/ mpc' = "exited" /\ exitCode' \in {"success", "failure"}
    BY <1>1 DEF ParseArguments, ExitMain, ipcVars, serverVars, readerVars, ReaderInv, ReaderTypes
  <2>2. ReaderTypes'
    BY <2>1 DEF ReaderInv, ReaderTypes
  <2>3. Staged'
    BY <2>1, StagedSame DEF ReaderInv, Lost
  <2>4. Endings'
    BY <2>1 DEF ReaderInv, Endings
  <2>. QED BY <2>2, <2>3, <2>4 DEF ReaderInv
<1>2. CASE Fork
  <2>1. /\ mpc = "setup" /\ mpc' = "server" /\ rstatus' = "running"
        /\ UNCHANGED <<stream, tail, producerClosed, rpc, ipcBatch, batch, file, synced, spc, state, result, exitCode, faulted>>
    BY <1>2 DEF Fork, ipcVars, serverVars
  <2>2. ReaderTypes'
    BY <2>1 DEF ReaderInv, ReaderTypes
  <2>3. rstatus = "none"
    BY <2>1 DEF ReaderInv, Endings
  <2>4. Staged'
    BY <2>1, <2>3, StagedSame DEF ReaderInv, Lost
  <2>5. Endings'
    BY <2>1, <2>3 DEF ReaderInv, Endings
  <2>. QED BY <2>2, <2>4, <2>5 DEF ReaderInv
<1>3. CASE CloseRing
  <2>1. /\ mpc = "server" /\ mpc' = "notify" /\ spc = "stopped" /\ producerClosed' = TRUE
        /\ UNCHANGED <<stream, tail, rpc, rstatus, ipcBatch, batch, file, synced, spc, state, result, exitCode, faulted>>
    BY <1>3 DEF CloseRing, CloseProducer, serverVars, readerVars
  <2>2. ReaderTypes'
    BY <2>1 DEF ReaderInv, ReaderTypes
  <2>3. Staged'
    BY <2>1 DEF ReaderInv, Staged, Lost, head
  <2>4. Endings'
    BY <2>1 DEF ReaderInv, Endings
  <2>. QED BY <2>2, <2>3, <2>4 DEF ReaderInv
<1>4. CASE WakeReader \/ WaitReader
  <2>1. /\ UNCHANGED <<stream, tail, producerClosed, rpc, rstatus, ipcBatch, batch, file, synced, spc, state, result, faulted>>
        /\ \/ mpc = "notify" /\ mpc' = "wait" /\ exitCode' = exitCode
           \/ mpc = "wait" /\ mpc' = "exited" /\ exitCode' = IF rstatus = "exit0" THEN result ELSE "failure"
    BY <1>4 DEF WakeReader, WaitReader, ExitMain, ipcVars, serverVars, readerVars
  <2>2. ReaderTypes'
    BY <2>1 DEF ReaderInv, ReaderTypes, ControlInv, ControlTypes
  <2>3. Staged'
    BY <2>1, StagedSame DEF ReaderInv, Lost
  <2>4. Endings'
    BY <2>1 DEF ReaderInv, Endings
  <2>. QED BY <2>2, <2>3, <2>4 DEF ReaderInv
<1>. QED BY <1>1, <1>2, <1>3, <1>4 DEF MainStep

(* Stopping, continuing or killing the reader keeps it.                    *)
LEMMA ReaderKilled ==
  ASSUME ReaderInv, rstatus \in {"running", "stopped"},
         rstatus' \in {"running", "stopped", "killed"}, faulted' \in BOOLEAN,
         UNCHANGED <<stream, tail, producerClosed, spc, state, rpc, ipcBatch, batch, file, synced,
                     exitCode>>,
         result' = result \/ result' = "failure",
         mpc' = mpc \/ (mpc = "notify" /\ mpc' = "wait")
  PROVE  ReaderInv'
<1>1. ReaderTypes'
  BY DEF ReaderInv, ReaderTypes
<1>2. Staged'
  BY StagedSame DEF ReaderInv, Lost
<1>3. Endings'
  BY DEF ReaderInv, Endings
<1>. QED BY <1>1, <1>2, <1>3 DEF ReaderInv

(* The end of the main process by a signal keeps it, and a signalfd() that *)
(* fails before the server runs.                                           *)
LEMMA ReaderStopped ==
  ASSUME ReaderInv, Stop("failure"), faulted' = TRUE,
         UNCHANGED <<ipcVars, readerVars, exitCode>>,
         \/ mpc = "server" /\ mpc' = mpc
         \/ ~Ended /\ mpc' = "killed"
  PROVE  ReaderInv'
<1>0. /\ UNCHANGED <<stream, tail, producerClosed, rpc, rstatus, ipcBatch, batch, file, synced, state, exitCode>>
      /\ spc' = "stopped" /\ result' = "failure"
  BY DEF Stop, ipcVars, readerVars
<1>1. ReaderTypes'
  BY <1>0 DEF ReaderInv, ReaderTypes
<1>2. Staged'
  BY <1>0, StagedSame DEF ReaderInv, Lost
<1>3. exitCode = "none"
  BY DEF ReaderInv, Endings, ReaderTypes, Ended
<1>4. Endings'
  BY <1>0, <1>3 DEF ReaderInv, Endings
<1>. QED BY <1>1, <1>2, <1>4 DEF ReaderInv

(* A step that concerns neither the frames nor the ends keeps it.          *)
LEMMA ReaderSame ==
  ASSUME ReaderInv,
         UNCHANGED <<stream, tail, producerClosed, spc, state, result, readerVars, mainVars>>
  PROVE  ReaderInv'
<1>. USE DEF readerVars, mainVars
<1>1. ReaderTypes'
  BY DEF ReaderInv, ReaderTypes
<1>2. Staged'
  BY StagedSame DEF ReaderInv, Lost
<1>3. Endings'
  BY DEF ReaderInv, Endings
<1>. QED BY <1>1, <1>2, <1>3 DEF ReaderInv

(* The failures in main keep it.                                           *)
LEMMA ReaderFaultMain ==
  ASSUME ReaderInv, MainFault
  PROVE  ReaderInv'
<1>1. CASE SignalfdFails
  BY <1>1, ReaderStopped DEF SignalfdFails
<1>2. CASE SetupFails \/ WaitReaderFails
  <2>1. /\ mpc \in {"setup", "wait"} /\ mpc' = "exited" /\ exitCode' = "failure" /\ faulted' = TRUE
        /\ UNCHANGED <<stream, tail, producerClosed, spc, state, result, rpc, rstatus, ipcBatch,
                       batch, file, synced>>
    BY <1>2 DEF SetupFails, WaitReaderFails, ExitMain, ipcVars, serverVars, readerVars
  <2>2. ReaderTypes'
    BY <2>1 DEF ReaderInv, ReaderTypes
  <2>3. Staged'
    BY <2>1, StagedSame DEF ReaderInv, Lost
  <2>4. Endings'
    BY <2>1 DEF ReaderInv, Endings
  <2>. QED BY <2>2, <2>3, <2>4 DEF ReaderInv
<1>3. CASE WakeReaderFails
  <2>1. /\ mpc = "notify" /\ mpc' = "wait" /\ result' = "failure" /\ faulted' = TRUE
        /\ \/ rstatus \in {"running", "stopped"} /\ rstatus' = "killed"
           \/ UNCHANGED rstatus
        /\ UNCHANGED <<stream, tail, producerClosed, spc, state, rpc, ipcBatch, batch, file, synced,
                       exitCode>>
    BY <1>3 DEF WakeReaderFails, Alive, ipcVars
  <2>2. CASE rstatus \in {"running", "stopped"} /\ rstatus' = "killed"
    BY <2>1, <2>2, ReaderKilled
  <2>3. CASE UNCHANGED rstatus
    <3>1. ReaderTypes'
      BY <2>1, <2>3 DEF ReaderInv, ReaderTypes
    <3>2. Staged'
      BY <2>1, <2>3, StagedSame DEF ReaderInv, Lost
    <3>3. Endings'
      BY <2>1, <2>3 DEF ReaderInv, Endings
    <3>. QED BY <3>1, <3>2, <3>3 DEF ReaderInv
  <2>. QED BY <2>1, <2>2, <2>3
<1>. QED BY <1>1, <1>2, <1>3 DEF MainFault

(* So does counting positions from zero again.                             *)
LEMMA ReaderRebase ==
  ASSUME ReaderInv, Rebase
  PROVE  ReaderInv'
<1>1. /\ stream' = <<>> /\ file' = <<>> /\ tail' = 0 /\ file = stream /\ tail = head
      /\ UNCHANGED <<producerClosed, spc, state, result, rpc, rstatus, ipcBatch, batch, synced,
                     mpc, exitCode, faulted>>
  BY DEF Rebase, mainVars
<1>2. ReaderTypes'
  BY <1>1 DEF ReaderInv, ReaderTypes
<1>3. LiesAt(<<>>, <<>>, 0)
  BY DEF LiesAt
<1>4. ~Lost => batch = <<>> /\ ipcBatch = <<>>
  <2>. SUFFICES ASSUME ~Lost PROVE batch = <<>> /\ ipcBatch = <<>>
    OBVIOUS
  <2>1. Len(file) + Len(batch) + Len(ipcBatch) = tail /\ tail = Len(file)
    BY <1>1 DEF ReaderInv, Staged, head
  <2>2. Len(batch) = 0 /\ Len(ipcBatch) = 0
    BY <2>1, StagedFacts
  <2>. QED BY <2>2, NoSpace DEF ReaderInv, ReaderTypes
<1>5. head' = 0 /\ Lost' = Lost
  BY <1>1 DEF head, Lost
<1>6. Staged'
  <2>1. LiesAt(file', stream', 0)
    BY <1>1, <1>3
  <2>2. CASE Lost
    BY <1>5, <2>1, <2>2 DEF Staged
  <2>3. CASE ~Lost
    <3>1. batch' = <<>> /\ ipcBatch' = <<>> /\ Len(file') = 0 /\ Len(batch') = 0 /\ Len(ipcBatch') = 0
      BY <1>1, <1>4, <2>3
    <3>2. /\ LiesAt(batch', stream', Len(file')) /\ LiesAt(ipcBatch', stream', Len(file') + Len(batch'))
          /\ Len(file') + Len(batch') + Len(ipcBatch') = tail'
      BY <1>1, <1>3, <3>1
    <3>3. rpc' = "sync" => producerClosed' /\ tail' = head'
      BY <1>1, <1>5, <2>3 DEF ReaderInv, Staged
    <3>. QED BY <2>1, <3>1, <3>2, <3>3 DEF Staged
  <2>. QED BY <2>2, <2>3
<1>7. Endings'
  BY <1>1 DEF ReaderInv, Endings
<1>. QED BY <1>2, <1>6, <1>7 DEF ReaderInv

(* The invariant of the reader and of the end of the program holds of      *)
(* every behaviour, whatever fails and whichever process is stopped or     *)
(* killed.                                                                 *)
THEOREM ReaderInvariant == Spec => []ReaderInv
<1>1. Init => ReaderInv
  <2>. SUFFICES ASSUME Init PROVE ReaderInv
    OBVIOUS
  <2>1. ReaderTypes
    <3>1. /\ file = <<>> /\ batch = <<>> /\ ipcBatch = <<>> /\ synced = TRUE /\ rpc = "open"
          /\ rstatus = "none" /\ mpc = "parse" /\ exitCode = "none" /\ faulted = FALSE
      BY DEF Init, ReaderInit
    <3>2. <<>> \in Seq(Frame) /\ Len(<<>>) < StoreBatch /\ Len(<<>>) <= IpcBatch
      BY ReaderAssumption
    <3>. QED BY <3>1, <3>2 DEF ReaderTypes
  <2>2. LiesAt(<<>>, <<>>, 0)
    BY DEF LiesAt
  <2>3. Staged
    BY <2>2 DEF Init, IpcInit, ReaderInit, Staged
  <2>4. Endings
    BY DEF Init, IpcInit, ServerInit, ReaderInit, Endings
  <2>. QED BY <2>1, <2>3, <2>4 DEF ReaderInv
<1>2. ControlInv /\ InputInv /\ ReaderInv /\ [Next]_vars => ReaderInv'
  <2>. SUFFICES ASSUME ControlInv, InputInv, ReaderInv, [Next]_vars PROVE ReaderInv'
    OBVIOUS
  <2>0. faulted \in BOOLEAN
    BY DEF ReaderInv, ReaderTypes
  <2>1. CASE ServerActs \/ ServerFails
    BY <2>0, <2>1, ReaderServer DEF ServerActs, ServerFails
  <2>2. CASE ReaderActs
    BY <2>2, ReaderActsInv DEF ReaderActs, InputInv, serverButChild, mainVars
  <2>3. CASE ReaderFails
    BY <2>3, ReaderFailsInv DEF ReaderFails, serverButChild
  <2>4. CASE MainStep
    BY <2>4, ReaderMain
  <2>5. CASE MainFault
    BY <2>5, ReaderFaultMain
  <2>6. CASE KillMain
    BY <2>6, ReaderStopped DEF KillMain
  <2>7. CASE Peer \/ Terminate
    BY <2>7, ReaderSame DEF Peer, Terminate, ipcVars
  <2>8. CASE KillReader \/ StopReader \/ ContinueReader
    BY <2>0, <2>8, ReaderKilled
       DEF KillReader, StopReader, ContinueReader, SignalReader, serverButChild, ipcVars
  <2>9. CASE Rebase
    BY <2>9, ReaderRebase
  <2>10. CASE UNCHANGED vars
    BY <2>10, ReaderSame DEF vars, ipcVars, serverVars
  <2>. QED BY <2>1, <2>2, <2>3, <2>4, <2>5, <2>6, <2>7, <2>8, <2>9, <2>10 DEF Next, Idle
<1>. QED BY <1>1, <1>2, ControlInvariant, InputInvariant, PTL DEF Spec

(* Every variable of the system keeps its type, and the batches of the     *)
(* reader their limits.                                                    *)
THEOREM TypesHold == Spec => []TypeOK
<1>1. ControlInv /\ InputInv /\ ReaderInv => TypeOK
  <2>. SUFFICES ASSUME ControlInv, InputInv, ReaderInv PROVE TypeOK
    OBVIOUS
  <2>1. headSeen \in 0..head
    BY RingFacts DEF InputInv
  <2>2. \A c \in Conns : sent[c] \in 0..MaxUnits[c] /\ received[c] \in 0..sent[c]
    BY SystemAssumption DEF InputInv, Traffic
  <2>. QED BY <2>1, <2>2 DEF TypeOK, ControlInv, ControlTypes, InputInv, Ring, ReaderInv, ReaderTypes
<1>. QED BY <1>1, ControlInvariant, InputInvariant, ReaderInvariant, PTL

(* Between the ring and the file nothing is lost, duplicated or reordered, *)
(* for every batch size and every interleaving of the two processes; after *)
(* a crash of the reader or an append that failed part way the file holds  *)
(* a prefix of what was published.                                         *)
THEOREM ConservedHolds == Spec => []Conserved
<1>1. ReaderInv => Conserved
  <2>. SUFFICES ASSUME ReaderInv PROVE Conserved
    OBVIOUS
  <2>1. IsPrefix(file, stream)
    BY LiesFirst DEF ReaderInv, Staged
  <2>2. ASSUME ~Lost PROVE file \o batch \o ipcBatch = SubSeq(stream, 1, tail)
    <3>1. /\ LiesAt(file, stream, 0) /\ LiesAt(batch, stream, 0 + Len(file))
          /\ LiesAt(ipcBatch, stream, 0 + (Len(file) + Len(batch)))
          /\ Len(file) + Len(batch) + Len(ipcBatch) = tail
      BY <2>2, StagedFacts DEF ReaderInv, Staged
    <3>2. /\ LiesAt(file \o batch, stream, 0) /\ Len(file \o batch) = Len(file) + Len(batch)
      BY <3>1, LiesConcat
    <3>3. /\ LiesAt((file \o batch) \o ipcBatch, stream, 0)
          /\ Len((file \o batch) \o ipcBatch) = Len(file \o batch) + Len(ipcBatch)
      BY <3>1, <3>2, LiesConcat
    <3>4. Len((file \o batch) \o ipcBatch) = tail
      BY <3>1, <3>2, <3>3
    <3>. QED BY <3>3, <3>4, LiesFirst
  <2>. QED BY <2>1, <2>2 DEF Conserved
<1>. QED BY <1>1, ReaderInvariant, PTL

(* A reader that exits normally has every published frame in the file,     *)
(* synced, and the program reports success only after such an exit and a   *)
(* requested shutdown: no kill, failed call or lost signal on the way      *)
(* turns into exit code 0.                                                 *)
THEOREM SuccessMeansStoredHolds == Spec => []SuccessMeansStored
<1>1. ReaderInv => SuccessMeansStored
  BY DEF ReaderInv, Endings, SuccessMeansStored
<1>. QED BY <1>1, ReaderInvariant, PTL

-----------------------------------------------------------------------------
(* The refinement of the channel.                                          *)
(* What the reader has taken, in the channel's terms: positions.           *)
Delivered == [i \in 1..tail |-> i - 1]

(* The reader ended, in the channel's terms.                               *)
ReaderEnded == rstatus = "exit0"

(* A step that neither publishes, pops, closes nor ends the reader is a    *)
(* stutter of the channel.                                                 *)
LEMMA ChannelStutters ==
  ASSUME UNCHANGED <<stream, tail, producerClosed>>, ReaderEnded' = ReaderEnded
  PROVE  UNCHANGED Channel!channelVars
  BY DEF Channel!channelVars, head, ReaderEnded

(* A step of the server publishes within the channel's capacity, or        *)
(* stutters: its view of the tail is old, which errs on the safe side.     *)
LEMMA ChannelServer ==
  ASSUME ControlInv, InputInv, ReaderInv, ServerStep \/ ServerFault, UNCHANGED readerVars
  PROVE  [Channel!Next]_(Channel!channelVars)
<1>. USE DEF InputInv
<1>0. UNCHANGED <<tail, producerClosed, rstatus>>
  BY ServerKeepsResult DEF readerVars
<1>1. CASE UNCHANGED stream
  BY <1>0, <1>1, ChannelStutters DEF ReaderEnded
<1>2. CASE ServerFault
  BY <1>1, <1>2, ServerFaultIpc DEF ServerIpc
<1>3. CASE ServerStep /\ ~ReceiveData
  BY <1>1, <1>3, ServerStepIpc DEF ServerIpc
<1>4. CASE ReceiveData
  <2>1. /\ spc = "recv" /\ UNCHANGED <<tail, headSeen, dataReady, spaceReady>>
        /\ \/ UNCHANGED <<stream, tailSeen>>
           \/ \E t \in tailSeen..tail, m \in 0..ValidFrames(Refill) : Publish(t, m)
    BY <1>4, ReceiveCases
  <2>2. ASSUME NEW t \in tailSeen..tail, NEW m \in 0..ValidFrames(Refill), Publish(t, m)
        PROVE  [Channel!Next]_(Channel!channelVars)
    <3>1. head' = head + m /\ head \in Nat /\ m \in Nat
      BY <2>1, <2>2, RingReceived
    <3>2. CASE m = 0
      <4>1. UNCHANGED stream
        BY <2>2, <3>2 DEF Publish, FirstFrames, Ring
      <4>. QED BY <1>1, <4>1
    <3>3. CASE m > 0
      <4>1. head + m - t <= Capacity /\ ~producerClosed
        BY <2>2, <3>3 DEF Publish
      <4>2. tail \in Nat /\ tailSeen \in Nat /\ tail <= head /\ t \in Nat /\ t <= tail
        BY RingFacts
      <4>3. head + m - tail <= Capacity /\ m \in 1..Capacity
        BY <3>1, <3>3, <4>1, <4>2, IpcAssumption
      <4>4. Len(Delivered) = tail /\ Delivered' = Delivered
        BY <1>0, <4>2 DEF Delivered
      <4>5. Channel!Accept(m)
        BY <1>0, <3>1, <4>1, <4>3, <4>4 DEF Channel!Accept, Delivered
      <4>. QED BY <4>3, <4>5 DEF Channel!Next
    <3>. QED BY <3>1, <3>2, <3>3
  <2>. QED BY <1>1, <2>1, <2>2
<1>. QED BY <1>2, <1>3, <1>4

(* The distance between two ordered numbers.                               *)
LEMMA Gap ==
  ASSUME NEW x \in Nat, NEW y \in Nat, NEW z \in Nat, x <= y, y <= z, x # y
  PROVE  \E n \in Nat : y = x + n /\ n >= 1 /\ n <= z - x
<1>1. y - x \in Nat /\ y = x + (y - x) /\ y - x >= 1 /\ y - x <= z - x
  OBVIOUS
<1>. QED BY <1>1

(* popBatch() delivers the oldest frames of the channel, or stutters: the  *)
(* reader's view of the head is old, which errs on the safe side too.      *)
LEMMA ChannelPop ==
  ASSUME InputInv, Pop
  PROVE  [Channel!Next]_(Channel!channelVars)
<1>0. UNCHANGED <<stream, producerClosed, rstatus>>
  BY DEF Pop
<1>1. /\ tail' \in tail..head /\ head \in Nat /\ tail \in Nat /\ tail <= head
      /\ head - tailSeen <= Capacity /\ tailSeen \in Nat /\ tailSeen <= tail
  BY ReaderAnyIpc, RingFacts DEF ReaderStep, InputInv, ReaderIpc
<1>2. CASE tail' = tail
  BY <1>0, <1>2, ChannelStutters DEF ReaderEnded
<1>3. CASE tail' # tail
  <2>0. tail' \in Nat /\ tail <= tail' /\ tail' <= head /\ tail # tail'
    BY <1>1, <1>3
  <2>1. PICK n \in Nat : tail' = tail + n /\ n >= 1 /\ n <= head - tail
    BY <1>1, <2>0, Gap
  <2>. DEFINE more == [i \in 1..n |-> Len(Delivered) + i - 1]
  <2>2. n \in 1..Capacity
    <3>1. n <= Capacity
      BY <1>1, <2>1, IpcAssumption
    <3>. QED BY <2>1, <3>1
  <2>3. /\ Delivered \in Seq(Nat) /\ Len(Delivered) = tail
        /\ \A i \in 1..tail : Delivered[i] = i - 1
    <3>1. Delivered \in [1..tail -> Nat]
      BY <1>1 DEF Delivered
    <3>. QED BY <1>1, <3>1 DEF Delivered
  <2>4. more \in Seq(Nat) /\ Len(more) = n /\ \A i \in 1..n : more[i] = tail + i - 1
    <3>1. more \in [1..n -> Nat]
      BY <1>1, <2>1, <2>3
    <3>. QED BY <1>1, <2>1, <2>3, <3>1
  <2>. HIDE DEF more
  <2>5. /\ Delivered \o more \in Seq(Nat) /\ Len(Delivered \o more) = tail + n
        /\ \A i \in 1..(tail + n) : (Delivered \o more)[i] = i - 1
    <3>. DEFINE y == Delivered \o more
    <3>1. /\ y \in Seq(Nat) /\ Len(y) = tail + n
          /\ \A i \in 1..Len(y) : y[i] = IF i <= tail THEN Delivered[i] ELSE more[i - tail]
      <4>1. /\ y \in Seq(Nat) /\ Len(y) = Len(Delivered) + Len(more)
            /\ \A i \in 1..(Len(Delivered) + Len(more)) :
                 y[i] = IF i <= Len(Delivered) THEN Delivered[i]
                                           ELSE more[i - Len(Delivered)]
        BY <2>3, <2>4, ConcatProperties, Zenon
      <4>. QED BY <2>3, <2>4, <4>1, Zenon
    <3>. HIDE DEF y
    <3>2. ASSUME NEW i \in 1..(tail + n) PROVE y[i] = i - 1
      <4>1. CASE i <= tail
        <5>1. i \in 1..tail /\ y[i] = Delivered[i]
          BY <1>1, <2>1, <3>1, <4>1
        <5>. QED BY <2>3, <5>1
      <4>2. CASE i > tail
        <5>1. i - tail \in 1..n /\ y[i] = more[i - tail] /\ tail + (i - tail) - 1 = i - 1
          BY <1>1, <2>1, <3>1, <4>2
        <5>. QED BY <2>4, <5>1
      <4>. QED BY <1>1, <2>1, <4>1, <4>2
    <3>. QED BY <3>1, <3>2 DEF y
  <2>6. [i \in 1..(tail + n) |-> i - 1] = Delivered \o more
    <3>. DEFINE y == Delivered \o more
    <3>1. /\ y \in Seq(Nat) /\ Len(y) = tail + n /\ \A i \in 1..(tail + n) : y[i] = i - 1
      BY <2>5
    <3>. HIDE DEF y
    <3>2. y = [i \in 1..(tail + n) |-> i - 1]
      BY <3>1, <1>1, <2>1
    <3>. QED BY <3>2 DEF y
  <2>7. Delivered' = Delivered \o more
    BY <2>1, <2>6, Zenon DEF Delivered
  <2>8. n <= head - Len(Delivered)
    BY <2>1, <2>3
  <2>9. head' = head /\ producerClosed' = producerClosed /\ (rstatus = "exit0")' = (rstatus = "exit0")
    BY <1>0 DEF head
  <2>10. Channel!Deliver(n)
    <3>1. Delivered' = Delivered \o [i \in 1..n |-> Len(Delivered) + i - 1]
      BY <2>7 DEF more
    <3>. QED BY <2>8, <2>9, <3>1, Zenon DEF Channel!Deliver, Delivered
  <2>. QED BY <2>2, <2>10 DEF Channel!Next
<1>. QED BY <1>2, <1>3

(* A step of the reader delivers, ends after everything was delivered, or  *)
(* stutters.                                                               *)
LEMMA ChannelReader ==
  ASSUME InputInv, ReaderInv, ReaderStep \/ ReaderFault
  PROVE  [Channel!Next]_(Channel!channelVars)
<1>1. CASE Pop
  BY <1>1, ChannelPop
<1>2. CASE FinalSync
  <2>1. /\ rpc = "sync" /\ rstatus = "running" /\ rstatus' = "exit0"
        /\ UNCHANGED <<stream, tail, producerClosed>>
    BY <1>2 DEF FinalSync, At, ExitReader, ipcVars
  <2>2. producerClosed /\ tail = head /\ tail \in Nat
    BY <2>1, StagedRunning, RingFacts DEF InputInv
  <2>3. Len(Delivered) = head
    BY <2>2 DEF Delivered
  <2>4. Channel!End
    BY <2>1, <2>2, <2>3 DEF Channel!End, Delivered, head
  <2>. QED BY <2>4 DEF Channel!Next
<1>3. CASE ~Pop /\ ~FinalSync
  <2>1. /\ UNCHANGED <<stream, tail, producerClosed>>
        /\ rstatus = "running" /\ rstatus' \in {"running", "exit1"}
    BY <1>3 DEF ReaderStep, ReaderFault, OpenFile, ProcessFrame, ProcessDone, Flush, ReportSpace,
         CheckClosed, AwaitData, OpenFails, ProcessFails, FlushFails, ReportSpaceFails,
         FinalSyncFails, AwaitDataFails, At, ExitReader, ipcVars
  <2>. QED BY <2>1, ChannelStutters DEF ReaderEnded
<1>. QED BY <1>1, <1>2, <1>3

(* The server and the reader use the ring as the bounded channel that      *)
(* FrameChannel specifies: frames are delivered once and in order, never   *)
(* more than the capacity are in it, nothing is accepted after it was      *)
(* closed, and the reader ends only when it is closed and empty.  Counting *)
(* positions from zero again (Rebase) is no step of the program, and is    *)
(* excluded by Endless = {}.                                               *)
THEOREM ChannelImplemented ==
  ASSUME Endless = {}
  PROVE  Spec => ImplementsChannel
<1>1. Init => Channel!Init
  <2>. SUFFICES ASSUME Init PROVE Channel!Init
    OBVIOUS
  <2>1. stream = <<>> /\ tail = 0 /\ producerClosed = FALSE /\ rstatus = "none"
    BY DEF Init, IpcInit, ReaderInit
  <2>2. [i \in 1..tail |-> i - 1] = <<>>
    BY <2>1
  <2>. QED BY <2>1, <2>2 DEF Channel!Init, head
<1>2. ControlInv /\ InputInv /\ ReaderInv /\ [Next]_vars => [Channel!Next]_(Channel!channelVars)
  <2>. SUFFICES ASSUME ControlInv, InputInv, ReaderInv, [Next]_vars
                PROVE  [Channel!Next]_(Channel!channelVars)
    OBVIOUS
  <2>1. CASE ServerActs \/ ServerFails
    BY <2>1, ChannelServer DEF ServerActs, ServerFails
  <2>2. CASE ReaderActs \/ ReaderFails
    BY <2>2, ChannelReader DEF ReaderActs, ReaderFails
  <2>3. CASE CloseRing
    <3>1. producerClosed' = TRUE /\ UNCHANGED <<stream, tail, rstatus>>
      BY <2>3 DEF CloseRing, CloseProducer, readerVars
    <3>2. Channel!Close
      BY <3>1 DEF Channel!Close, head
    <3>. QED BY <3>2 DEF Channel!Next
  <2>4. CASE MainStep /\ ~CloseRing
    <3>1. /\ UNCHANGED <<stream, tail, producerClosed>>
          /\ \/ UNCHANGED rstatus
             \/ mpc = "setup" /\ rstatus' = "running"
      BY <2>4 DEF MainStep, ParseArguments, Fork, WakeReader, WaitReader, ipcVars, readerVars
    <3>2. mpc = "setup" => rstatus = "none"
      BY DEF ReaderInv, Endings
    <3>. QED BY <3>1, <3>2, ChannelStutters DEF ReaderEnded
  <2>5. CASE MainFault \/ KillMain \/ Peer \/ Terminate
    <3>1. /\ UNCHANGED <<stream, tail, producerClosed>>
          /\ \/ UNCHANGED rstatus
             \/ rstatus \in {"running", "stopped"} /\ rstatus' = "killed"
      BY <2>5 DEF MainFault, SetupFails, SignalfdFails, WakeReaderFails, WaitReaderFails, Alive,
         KillMain, Peer, Terminate, ipcVars, readerVars
    <3>. QED BY <3>1, ChannelStutters DEF ReaderEnded
  <2>6. CASE KillReader \/ StopReader \/ ContinueReader
    <3>1. /\ UNCHANGED <<stream, tail, producerClosed>>
          /\ rstatus \in {"running", "stopped"} /\ rstatus' \in {"running", "stopped", "killed"}
      BY <2>6 DEF KillReader, StopReader, ContinueReader, SignalReader, ipcVars
    <3>. QED BY <3>1, ChannelStutters DEF ReaderEnded
  <2>7. CASE UNCHANGED vars
    BY <2>7, ChannelStutters DEF vars, ipcVars, readerVars, ReaderEnded
  <2>. QED BY <2>1, <2>2, <2>3, <2>4, <2>5, <2>6, <2>7 DEF Next, Idle, Rebase
<1>. QED BY <1>1, <1>2, ControlInvariant, InputInvariant, ReaderInvariant, PTL
         DEF Spec, ImplementsChannel, Channel!Spec
=============================================================================
