----------------------------- MODULE FileStore -----------------------------
(***************************************************************************)
(* FileStore (Storage): appends frames to the active file, rotates it into *)
(* archived segments, syncs after a number of bytes, and recovers on open; *)
(* with the file system it works on, the end of its process at any point,  *)
(* and losses of power.                                                    *)
(*                                                                         *)
(* A byte is represented by a unit, its position in the stream of bytes    *)
(* ever offered; frame n is units n * FrameUnits and up.  Each system call *)
(* is a step of its own.  A call that fails ends the process, since the    *)
(* reader exits: see Die.                                                  *)
(***************************************************************************)
EXTENDS StoreConfig, Sequences

CONSTANTS MaxSegment,    \* maxSegmentBytes
          SyncIntervals, \* values syncEveryBytes may be configured to
          InitialSizes,  \* sizes of the active file found at first, 0 if none
          MaxBatch,      \* bound: frames of one appendFrames()
          MaxOffered,    \* bound: frames ever offered
          MaxStarts      \* bound: times the process is started

ASSUME FileStoreAssumption ==
  /\ FrameUnits \in Nat \ {0} /\ MaxSegment \in Nat /\ SyncIntervals \subseteq Nat
  /\ InitialSizes \subseteq Nat
  /\ MaxBatch \in Nat /\ MaxOffered \in Nat /\ MaxStarts \in Nat

VARIABLES
  \* file system
  files,              \* each inode: its data, and the part of it on the disk
  dir, durableDir,    \* the directory, and the one on the disk
  clock,              \* CLOCK_REALTIME
  \* FileStore
  fpc,                \* where the process is
  syncEvery,          \* m_config.syncEveryBytes
  currentSize,        \* m_currentSize
  unsyncedBytes,      \* m_unsyncedBytes
  rotationSequence,   \* m_rotationSequence
  batchStart, batchEnd, offset,   \* the units of appendFrames(), and its offset
  chunkBytes, writtenBytes,       \* its locals
  inherited,          \* observation: units found unsynced when the file was opened
  entryAtRisk         \* observation: the file was found with an unsynced directory entry

started == <<clock, syncEvery>>    \* change only when a process starts
fsVars == <<files, dir, durableDir, started>>
memberVars == <<currentSize, unsyncedBytes, rotationSequence, inherited, entryAtRisk>>
callVars == <<batchStart, batchEnd, offset, chunkBytes, writtenBytes>>
vars == <<fsVars, memberVars, callVars, fpc>>

Active == <<0, 0>>      \* the active file; archives are <<clock, sequence>>, clock >= 1
FileUnits(from, n) == [i \in 1..n |-> from + i - 1]
Min2(a, b) == IF a <= b THEN a ELSE b

Init ==
  /\ \E s \in InitialSizes :
       /\ files = IF s = 0 THEN <<>>
                  ELSE <<[data |-> FileUnits(0, s), durable |-> FileUnits(0, s)]>>
       /\ dir = [n \in IF s = 0 THEN {} ELSE {Active} |-> 1]
       /\ offset = ((s + FrameUnits - 1) \div FrameUnits) * FrameUnits
  /\ durableDir = dir
  /\ batchStart = offset /\ batchEnd = offset
  /\ clock = 0 /\ fpc = "down" /\ syncEvery = 0
  /\ currentSize = 0 /\ unsyncedBytes = 0 /\ rotationSequence = 0
  /\ inherited = 0 /\ entryAtRisk = FALSE
  /\ chunkBytes = 0 /\ writtenBytes = 0

ActiveData == files[dir[Active]].data

(* fdatasync() of the active file, and what sync() does with its result.   *)
SyncFile ==
  /\ files' = [files EXCEPT ![dir[Active]] = [data |-> ActiveData, durable |-> ActiveData]]
  /\ unsyncedBytes' = 0 /\ inherited' = 0

-----------------------------------------------------------------------------
(* A new process calls openFile(), with a configuration of its own; one    *)
(* that is not valid is refused.                                           *)
OpenFile ==
  /\ fpc = "down" /\ clock < MaxStarts
  /\ syncEvery' \in {s \in SyncIntervals : ValidConfig(MaxSegment, s)}
  /\ clock' = clock + 1
  /\ fpc' = "open"
  /\ currentSize' = 0 /\ unsyncedBytes' = 0 /\ rotationSequence' = 0
  /\ UNCHANGED <<files, dir, durableDir, callVars, inherited, entryAtRisk>>

(* openActiveFile(): create the file, or open the one that exists.         *)
OpenActiveFile ==
  /\ fpc = "open"
  /\ IF Active \in DOMAIN dir
       THEN fpc' = "recover" /\ UNCHANGED <<files, dir>>
       ELSE /\ files' = files \o <<[data |-> <<>>, durable |-> <<>>]>>
            /\ dir' = [n \in DOMAIN dir \cup {Active} |->
                         IF n = Active THEN Len(files) + 1 ELSE dir[n]]
            /\ fpc' = "created"
  /\ entryAtRisk' = (Active \in DOMAIN dir
                      /\ (Active \in DOMAIN durableDir => durableDir[Active] # dir[Active]))
  /\ UNCHANGED <<durableDir, started, currentSize, unsyncedBytes, rotationSequence, inherited,
                 callVars>>

(* syncDirectory()                                                         *)
SyncDirectory == durableDir' = dir

(* Faulty SyncCreated: the new directory entry is not synced.              *)
SyncCreatedSkipped ==
  /\ fpc = "created"
  /\ fpc' = "recover"
  /\ UNCHANGED <<fsVars, memberVars, callVars>>

(* The new entry is synced after the creation.                             *)
SyncCreated ==
  /\ fpc = "created"
  /\ SyncDirectory
  /\ fpc' = "recover"
  /\ UNCHANGED <<files, dir, started, memberVars, callVars>>

(* recoverPartialFrame(): a partial frame at the end is cut off.           *)
RecoverPartialFrame ==
  /\ fpc = "recover"
  /\ LET size == Len(ActiveData)
         validSize == size - (size % FrameUnits)
         onDisk == Len(files[dir[Active]].durable)
     IN /\ currentSize' = validSize
        /\ files' = [files EXCEPT ![dir[Active]] =
                       [data |-> SubSeq(ActiveData, 1, validSize), durable |-> @.durable]]
        /\ fpc' = IF validSize # size THEN "recoverSync" ELSE "loop"
        /\ inherited' = IF onDisk < validSize THEN validSize - onDisk ELSE 0
  /\ UNCHANGED <<dir, durableDir, started, unsyncedBytes, rotationSequence, entryAtRisk,
                 callVars>>
RecoverSync ==
  /\ fpc = "recoverSync"
  /\ SyncFile
  /\ fpc' = "loop"
  /\ UNCHANGED <<dir, durableDir, started, currentSize, rotationSequence, entryAtRisk, callVars>>

-----------------------------------------------------------------------------
(* appendFrames() with the next n frames.                                  *)
AppendFrames(n) ==
  /\ fpc = "idle"
  /\ batchEnd + n * FrameUnits <= MaxOffered * FrameUnits
  /\ batchStart' = batchEnd /\ offset' = batchEnd
  /\ batchEnd' = batchEnd + n * FrameUnits
  /\ fpc' = "loop"
  /\ UNCHANGED <<fsVars, memberVars, chunkBytes, writtenBytes>>

(* The loop ends; also the end of openFile().                              *)
AppendDone ==
  /\ fpc = "loop" /\ offset = batchEnd
  /\ fpc' = "idle"
  /\ UNCHANGED <<fsVars, memberVars, callVars>>

(* The active file is full: rotate() first.                                *)
StartRotation ==
  /\ fpc = "loop" /\ offset < batchEnd
  /\ currentSize >= MaxSegment
  /\ fpc' = "rotate"
  /\ UNCHANGED <<fsVars, memberVars, callVars>>

(* Faulty Chunk: rounds the distance to the next sync down.                *)
ChunkRoundedDown(unsynced) ==
  LET fits == Min2(batchEnd - offset, MaxSegment - currentSize)
      untilSync == syncEvery - unsynced
  IN IF syncEvery # 0 /\ untilSync < fits
       THEN (untilSync \div FrameUnits) * FrameUnits
       ELSE fits

(* Faulty Chunk: does not look at the room in the segment.                 *)
ChunkUnlimited(unsynced) == batchEnd - offset

(* Faulty Chunk: does not look at the distance to the next sync.           *)
ChunkUnsynced(unsynced) == Min2(batchEnd - offset, MaxSegment - currentSize)

(* Faulty Chunk: always goes on to the next sync.                          *)
ChunkToSync(unsynced) == (1 + (syncEvery - unsynced - 1) \div FrameUnits) * FrameUnits

(* Units to write next: up to the end of the batch, of the segment, or the *)
(* frame that reaches the sync interval.                                   *)
Chunk(unsynced) ==
  LET fits == Min2(batchEnd - offset, MaxSegment - currentSize)
      untilSync == syncEvery - unsynced
  IN IF syncEvery # 0 /\ untilSync < fits
       THEN (1 + (untilSync - 1) \div FrameUnits) * FrameUnits
       ELSE fits

NextChunk ==
  /\ fpc = "loop" /\ offset < batchEnd
  /\ currentSize < MaxSegment
  /\ IF syncEvery # 0 /\ unsyncedBytes >= syncEvery
       THEN SyncFile ELSE UNCHANGED <<files, unsyncedBytes, inherited>>
  /\ chunkBytes' = Chunk(unsyncedBytes')
  /\ writtenBytes' = 0
  /\ fpc' = "write"
  /\ UNCHANGED <<dir, durableDir, started, currentSize, rotationSequence, entryAtRisk,
                 batchStart, batchEnd, offset>>

(* Faulty Write: a partial write is retried from the start of the chunk.   *)
WriteFromStart ==
  /\ fpc = "write" /\ writtenBytes < chunkBytes
  /\ \E n \in 1..(chunkBytes - writtenBytes) :
       /\ files' = [files EXCEPT ![dir[Active]] =
                      [data |-> ActiveData \o FileUnits(offset, n), durable |-> @.durable]]
       /\ writtenBytes' = writtenBytes + n
  /\ UNCHANGED <<dir, durableDir, started, memberVars, fpc, batchStart, batchEnd, offset,
                 chunkBytes>>

(* write(), which may write less than it was asked to.                     *)
Write ==
  /\ fpc = "write" /\ writtenBytes < chunkBytes
  /\ \E n \in 1..(chunkBytes - writtenBytes) :
       /\ files' = [files EXCEPT ![dir[Active]] =
                      [data |-> ActiveData \o FileUnits(offset + writtenBytes, n),
                       durable |-> @.durable]]
       /\ writtenBytes' = writtenBytes + n
  /\ UNCHANGED <<dir, durableDir, started, memberVars, fpc, batchStart, batchEnd, offset,
                 chunkBytes>>

ChunkWritten ==
  /\ fpc = "write" /\ writtenBytes = chunkBytes
  /\ offset' = offset + chunkBytes
  /\ currentSize' = currentSize + chunkBytes
  /\ unsyncedBytes' = unsyncedBytes + chunkBytes
  /\ chunkBytes' = 0 /\ writtenBytes' = 0
  /\ fpc' = IF syncEvery # 0 /\ unsyncedBytes' >= syncEvery THEN "sync" ELSE "loop"
  /\ UNCHANGED <<fsVars, rotationSequence, inherited, entryAtRisk, batchStart, batchEnd>>

SyncChunk ==
  /\ fpc = "sync"
  /\ SyncFile
  /\ fpc' = "loop"
  /\ UNCHANGED <<dir, durableDir, started, currentSize, rotationSequence, entryAtRisk, callVars>>

(* sync(), which the reader calls before its normal end.                   *)
Sync ==
  /\ fpc = "idle"
  /\ SyncFile
  /\ fpc' = "synced"
  /\ UNCHANGED <<dir, durableDir, started, currentSize, rotationSequence, entryAtRisk, callVars>>

-----------------------------------------------------------------------------
(* Faulty RotateSync: the full segment is not synced.                      *)
RotateSyncSkipped ==
  /\ fpc = "rotate"
  /\ fpc' = "rename"
  /\ UNCHANGED <<fsVars, memberVars, callVars>>

(* rotate(): sync the file; close and rename it; sync the directory; then  *)
(* openActiveFile() creates a new one.                                     *)
RotateSync ==
  /\ fpc = "rotate"
  /\ SyncFile
  /\ fpc' = "rename"
  /\ UNCHANGED <<dir, durableDir, started, currentSize, rotationSequence, entryAtRisk, callVars>>

(* makeArchiveName(): within one process the sequence makes it unique, and *)
(* a later process has a later clock.                                      *)
ArchiveName == <<clock, rotationSequence>>

(* renameat() replaces a file of that name silently.                       *)
RotateRename ==
  /\ fpc = "rename"
  /\ dir' = [n \in (DOMAIN dir \ {Active}) \cup {ArchiveName} |->
               IF n = ArchiveName THEN dir[Active] ELSE dir[n]]
  /\ rotationSequence' = rotationSequence + 1
  /\ fpc' = "renamed"
  /\ UNCHANGED <<files, durableDir, started, currentSize, unsyncedBytes, inherited, entryAtRisk,
                 callVars>>
RotateSyncDirectory ==
  /\ fpc = "renamed"
  /\ SyncDirectory
  /\ currentSize' = 0 /\ unsyncedBytes' = 0
  /\ fpc' = "open"
  /\ UNCHANGED <<files, dir, started, rotationSequence, inherited, entryAtRisk, callVars>>

-----------------------------------------------------------------------------
(* What is left of a batch is lost with its process.                       *)
Abandon ==
  /\ fpc' = "down"
  /\ batchStart' = batchEnd /\ offset' = batchEnd
  /\ chunkBytes' = 0 /\ writtenBytes' = 0

(* The process ends: normally, killed, or because a system call failed.    *)
Die ==
  /\ fpc # "down"
  /\ Abandon
  /\ UNCHANGED <<fsVars, memberVars, batchEnd>>

(* The machine stops: of each file at least the synced part survives, and  *)
(* any further part of what was written (or was not cut off yet); of the   *)
(* directory, the synced one or the current one.                           *)
Dirty == {i \in DOMAIN files : files[i].data # files[i].durable}
Survivors(f) ==
  LET longer == IF Len(f.data) >= Len(f.durable) THEN f.data ELSE f.durable
      shorter == Min2(Len(f.data), Len(f.durable))
  IN {SubSeq(longer, 1, n) : n \in shorter..Len(longer)}
PowerLoss ==
  /\ \E d \in {dir, durableDir} : dir' = d /\ durableDir' = d
  /\ \E left \in [Dirty -> UNION {Survivors(files[i]) : i \in Dirty}] :
       /\ \A i \in Dirty : left[i] \in Survivors(files[i])
       /\ files' = [i \in DOMAIN files |->
                      IF i \in Dirty THEN [data |-> left[i], durable |-> left[i]]
                                     ELSE files[i]]
  /\ Abandon
  /\ UNCHANGED <<started, memberVars, batchEnd>>

Step ==
  \/ OpenActiveFile \/ SyncCreated \/ RecoverPartialFrame \/ RecoverSync
  \/ AppendDone \/ StartRotation \/ NextChunk \/ Write \/ ChunkWritten \/ SyncChunk
  \/ RotateSync \/ RotateRename \/ RotateSyncDirectory

Next ==
  \/ Step
  \/ OpenFile \/ Sync \/ (\E n \in 1..MaxBatch : AppendFrames(n))
  \/ Die \/ PowerLoss

Spec == Init /\ [][Next]_vars

(* A process that runs gets on with its call.                              *)
FairSpec == Spec /\ WF_vars(Step)

-----------------------------------------------------------------------------
TypeOK ==
  /\ \A i \in DOMAIN files : files[i].data \in Seq(Nat) /\ files[i].durable \in Seq(Nat)
  /\ \A n \in DOMAIN dir : n \in Nat \X Nat /\ dir[n] \in DOMAIN files
  /\ DOMAIN durableDir \subseteq Nat \X Nat
  /\ fpc \in {"down", "open", "created", "recover", "recoverSync", "idle", "loop", "write",
              "sync", "rotate", "rename", "renamed", "synced"}
  /\ clock \in 0..MaxStarts
  /\ currentSize \in Nat /\ unsyncedBytes \in Nat /\ rotationSequence \in Nat
  /\ batchStart <= offset /\ offset + writtenBytes <= batchEnd
  /\ chunkBytes \in 0..(batchEnd - offset) /\ writtenBytes \in 0..chunkBytes

(* The i-th frame of a file; one that is not whole is -1.                  *)
FrameAt(data, i) ==
  LET before == (i - 1) * FrameUnits
      n == data[before + 1] \div FrameUnits
  IN IF \A k \in 1..FrameUnits : data[before + k] = n * FrameUnits + k - 1 THEN n ELSE -1
FramesOf(data) == {FrameAt(data, i) : i \in 1..(Len(data) \div FrameUnits)}

Visible == UNION {FramesOf(files[dir[n]].data) : n \in DOMAIN dir}
OnDisk == UNION {FramesOf(files[durableDir[n]].durable) : n \in DOMAIN durableDir}

(* Archives and active file together are a log of whole frames that grows  *)
(* only by later ones; rotation and recovery leave it as it is, and what a *)
(* successful sync has covered survives a loss of power at any point.      *)
Log == INSTANCE DurableLog WITH log <- Visible, durable <- OnDisk
ImplementsLog == Log!Spec

(* When sync() has returned, every frame in the files survives a loss of   *)
(* power, archives included.  Not so if the active file was found existing *)
(* but its creator ended before it synced the directory: openActiveFile()  *)
(* syncs the directory only after creating the file itself.                *)
SyncSurvives == fpc = "synced" => OnDisk = Visible

(* The same, apart from that case: nothing this process has written, in    *)
(* the active file or in an archive, and no file it has created, is known  *)
(* to the page cache only.                                                 *)
SyncCovers == entryAtRisk \/ SyncSurvives

(* Older archives come before newer ones, and the active file comes last.  *)
Older(m, n) ==
  /\ m # Active
  /\ n = Active \/ m[1] < n[1] \/ (m[1] = n[1] /\ m[2] < n[2])

(* The files, from the oldest archive to the active file, hold the units   *)
(* in the order they were offered in, none of them twice.                  *)
FilesInOrder ==
  \A m, n \in DOMAIN dir :
    \A p \in DOMAIN files[dir[m]].data, q \in DOMAIN files[dir[n]].data :
      Older(m, n) \/ (m = n /\ p < q) => files[dir[m]].data[p] < files[dir[n]].data[q]

(* They hold every unit of the batch that counts as written, and none      *)
(* beyond it.                                                              *)
EndExact ==
  LET units == UNION {{files[dir[n]].data[p] : p \in DOMAIN files[dir[n]].data} :
                        n \in DOMAIN dir}
      end == offset + writtenBytes
  IN batchStart..(end - 1) \subseteq units /\ \A u \in units : u < end

(* Read from the oldest archive to the active file, the files hold what    *)
(* appendFrames() was given in the order it was given, whatever was lost   *)
(* with a process or with the power in between, and they end with exactly  *)
(* what was appended, across chunks and rotations.                         *)
AppendExact == FilesInOrder /\ EndExact

(* A segment is archived only when it is full, and no file grows beyond    *)
(* the limit.  One that was larger when it was found does not grow either, *)
(* and loses no more than the partial frame at its end.                    *)
SegmentLimit ==
  \A n \in DOMAIN dir :
    LET size == Len(files[dir[n]].data)
    IN /\ n # Active => size >= MaxSegment
       /\ \/ size <= MaxSegment
          \/ \E found \in InitialSizes : size \in (found - (found % FrameUnits))..found

(* Between calls, less than one interval of what this process appended is  *)
(* not on the disk, and within a call at most the interval rounded up to a *)
(* frame; what an earlier process left unsynced comes on top until the     *)
(* first sync.                                                             *)
SyncCadence ==
  syncEvery # 0 /\ fpc \in {"idle", "loop", "write", "sync"} =>
    LET notSynced == Len(ActiveData) - Len(files[dir[Active]].durable) - inherited
    IN /\ notSynced < syncEvery + FrameUnits
       /\ fpc = "idle" => notSynced < syncEvery

(* openFile() and appendFrames() come to an end, however writes are split. *)
CallsEnd == (fpc \in {"open", "loop"}) ~> (fpc \in {"idle", "down"})
=============================================================================
