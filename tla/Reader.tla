------------------------------- MODULE Reader -------------------------------
(***************************************************************************)
(* Reader::run (Reader): pops frames from the ring, stages them, appends   *)
(* the staged batch to the store, reports space, and sleeps on dataReady   *)
(* until the producer has closed and nothing is left.                      *)
(*                                                                         *)
(* The store is seen through its calls: appended frames, and whether all   *)
(* of them have been synced.  Its own bookkeeping decides when an append   *)
(* also syncs; here it may or may not.                                     *)
(***************************************************************************)
EXTENDS Ipc, Frames

CONSTANTS IpcBatch,        \* frames popped at a time, 128 in the code
          StoreBatch       \* frames staged for one append, 2048 in the code

ASSUME ReaderAssumption == IpcBatch \in Nat \ {0} /\ StoreBatch \in Nat \ {0}

VARIABLES
  rpc,              \* where the reader is in run()
  rstatus,          \* "none" before fork(), "running", "stopped", "killed", "exit0" or "exit1"
  ipcBatch,         \* popped frames not yet processed
  batch,            \* staged frames not yet appended
  consumedAny,
  file,             \* frames appended to the store
  synced            \* every appended frame has been synced

readerVars == <<rpc, rstatus, ipcBatch, batch, consumedAny, file, synced>>

ReaderInit ==
  /\ rpc = "open" /\ rstatus = "none"
  /\ ipcBatch = <<>> /\ batch = <<>> /\ consumedAny = FALSE
  /\ file = <<>> /\ synced = TRUE

At(pc) == rpc = pc /\ rstatus = "running"

(* return code; _exit(code)                                                *)
ExitReader(status) ==
  /\ rpc' = "exited"
  /\ rstatus' = status

-----------------------------------------------------------------------------
(* store.openFile()                                                        *)
OpenFile ==
  /\ At("open")
  /\ rpc' = "pop"
  /\ UNCHANGED <<ipcVars, rstatus, ipcBatch, batch, consumedAny, file, synced>>
OpenFails ==
  /\ At("open") /\ "store" \in Faults
  /\ ExitReader("exit1")
  /\ UNCHANGED <<ipcVars, ipcBatch, batch, consumedAny, file, synced>>

Pop ==
  /\ At("pop")
  /\ \E h \in headSeen..head :
       /\ TryPopBatch(IpcBatch, h)
       /\ ipcBatch' = SubSeq(stream, tail + 1, tail')
  /\ IF tail' = tail
       THEN rpc' = "flush" /\ UNCHANGED consumedAny
       ELSE rpc' = "process" /\ consumedAny' = TRUE
  /\ UNCHANGED <<stream, tailSeen, producerClosed, dataReady, spaceReady,
                 rstatus, batch, file, synced>>

(* appendFrames(frames): all of them, or a prefix and a failure.           *)
StoreAppend(frames) ==
  /\ file' = file \o frames
  /\ synced' \in IF frames = <<>> THEN {synced} ELSE BOOLEAN
AppendFails(frames) ==
  /\ "store" \in Faults /\ frames # <<>>
  /\ \E k \in 0..Len(frames) : file' = file \o SubSeq(frames, 1, k)
  /\ synced' = FALSE

(* Faulty ProcessFrame: stages and neither decodes nor flushes.            *)
ProcessFrameNoFlush ==
  /\ At("process") /\ ipcBatch # <<>>
  /\ ipcBatch' = Tail(ipcBatch)
  /\ batch' = batch \o <<Head(ipcBatch)>>
  /\ UNCHANGED <<ipcVars, consumedAny, file, synced, rpc, rstatus>>

(* processFrame(): stage a valid frame, flush a full batch.  An invalid    *)
(* frame ends the reader once the valid frames before it are flushed.      *)
ProcessFrame ==
  /\ At("process") /\ ipcBatch # <<>>
  /\ LET frame == Head(ipcBatch)
         staged == batch \o <<frame>>
     IN IF ~Decodes(frame)
          THEN /\ StoreAppend(batch)
               /\ ExitReader("exit1")
               /\ UNCHANGED <<ipcBatch, batch>>
          ELSE /\ ipcBatch' = Tail(ipcBatch)
               /\ IF Len(staged) = StoreBatch
                    THEN batch' = <<>> /\ StoreAppend(staged)
                    ELSE batch' = staged /\ UNCHANGED <<file, synced>>
               /\ UNCHANGED <<rpc, rstatus>>
  /\ UNCHANGED <<ipcVars, consumedAny>>
ProcessFails ==
  /\ At("process") /\ ipcBatch # <<>>
  /\ LET frame == Head(ipcBatch)
         staged == batch \o <<frame>>
     IN /\ Decodes(frame) => Len(staged) = StoreBatch
        /\ AppendFails(IF Decodes(frame) THEN staged ELSE batch)
  /\ ExitReader("exit1")
  /\ UNCHANGED <<ipcVars, ipcBatch, batch, consumedAny>>
ProcessDone ==
  /\ At("process") /\ ipcBatch = <<>>
  /\ rpc' = "pop"
  /\ UNCHANGED <<ipcVars, rstatus, ipcBatch, batch, consumedAny, file, synced>>

(* Faulty Flush: only a full batch is flushed.                             *)
FlushSkipped ==
  /\ At("flush")
  /\ rpc' = "notify"
  /\ UNCHANGED <<ipcVars, rstatus, ipcBatch, batch, consumedAny, file, synced>>

(* Faulty Flush: does not reset the staged batch.                          *)
FlushKeepsBatch ==
  /\ At("flush")
  /\ StoreAppend(batch)
  /\ rpc' = "notify"
  /\ UNCHANGED <<ipcVars, rstatus, ipcBatch, batch, consumedAny>>

(* flushBatch() before reporting space or sleeping.                        *)
Flush ==
  /\ At("flush")
  /\ StoreAppend(batch)
  /\ batch' = <<>>
  /\ rpc' = "notify"
  /\ UNCHANGED <<ipcVars, rstatus, ipcBatch, consumedAny>>
FlushFails ==
  /\ At("flush")
  /\ AppendFails(batch)
  /\ ExitReader("exit1")
  /\ UNCHANGED <<ipcVars, ipcBatch, batch, consumedAny>>

(* notifyEvent(spaceReadyFd) when anything was consumed.                   *)
ReportSpace ==
  /\ At("notify")
  /\ IF consumedAny THEN NotifySpace ELSE UNCHANGED spaceReady
  /\ rpc' = "closed"
  /\ UNCHANGED <<stream, tail, tailSeen, headSeen, producerClosed, dataReady,
                 rstatus, ipcBatch, batch, consumedAny, file, synced>>
ReportSpaceFails ==
  /\ At("notify") /\ consumedAny /\ "eventfd" \in Faults
  /\ ExitReader("exit1")
  /\ UNCHANGED <<ipcVars, ipcBatch, batch, consumedAny, file, synced>>

(* Faulty CheckClosed: does not look at the ring.                          *)
CheckClosedIgnoresRing ==
  /\ At("closed")
  /\ rpc' = IF producerClosed THEN "sync" ELSE "block"
  /\ UNCHANGED <<ipcVars, rstatus, ipcBatch, batch, consumedAny, file, synced>>

(* producerClosed() && empty(): a flag seen set shows the final head.      *)
CheckClosed ==
  /\ At("closed")
  /\ rpc' = IF producerClosed /\ head = tail THEN "sync" ELSE "block"
  /\ headSeen' = IF producerClosed THEN head ELSE headSeen
  /\ UNCHANGED <<stream, tail, tailSeen, producerClosed, dataReady, spaceReady,
                 rstatus, ipcBatch, batch, consumedAny, file, synced>>

(* store.sync() and the normal end.                                        *)
FinalSync ==
  /\ At("sync")
  /\ synced' = TRUE
  /\ ExitReader("exit0")
  /\ UNCHANGED <<ipcVars, ipcBatch, batch, consumedAny, file>>
FinalSyncFails ==
  /\ At("sync") /\ "store" \in Faults
  /\ ExitReader("exit1")
  /\ UNCHANGED <<ipcVars, ipcBatch, batch, consumedAny, file, synced>>

(* consumeEvent(dataReadyFd): sleep until the server notifies.             *)
AwaitData ==
  /\ At("block")
  /\ ConsumeData
  /\ consumedAny' = FALSE
  /\ rpc' = "pop"
  /\ UNCHANGED <<stream, tail, tailSeen, producerClosed, spaceReady,
                 rstatus, ipcBatch, batch, file, synced>>

AwaitDataFails ==
  /\ At("block") /\ "eventfd" \in Faults
  /\ ExitReader("exit1")
  /\ UNCHANGED <<ipcVars, ipcBatch, batch, consumedAny, file, synced>>

ReaderStep ==
  \/ OpenFile \/ Pop \/ ProcessFrame \/ ProcessDone \/ Flush
  \/ ReportSpace \/ CheckClosed \/ FinalSync \/ AwaitData

ReaderFault ==
  \/ OpenFails \/ ProcessFails \/ FlushFails \/ ReportSpaceFails
  \/ FinalSyncFails \/ AwaitDataFails
=============================================================================
