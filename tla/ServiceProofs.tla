--------------------------- MODULE ServiceProofs ---------------------------
(***************************************************************************)
(* Proofs about System, part 3: the service as its clients and its         *)
(* operator see it.                                                        *)
(*                                                                         *)
(* The program fails only for a reason; the frames of a connection are     *)
(* published in order, cut at the right places, and all of them before the *)
(* connection is closed; and the whole system implements TelemetryService. *)
(***************************************************************************)
EXTENDS ReaderProofs, FiniteSetTheorems

(* The ring holds only frames that decode() accepts, so that the reader,   *)
(* which decodes them again, never fails on one.                           *)
Decodable == \A i \in 1..head : Decodes(stream[i])

(* A failure has a reason.  Without one the reader is neither killed nor   *)
(* does it fail, the state that SIGCHLD reports is true, and the server    *)
(* stops only with success: an exit that SIGCHLD reports is a clean one,   *)
(* which follows the server's own end, so that the server never sees it.   *)
Honest ==
  /\ exitCode = "failure" => faulted
  /\ exitCode # "none" => ~Alive
  /\ rstatus = "none" => synced
  /\ mpc \in {"notify", "wait"} => spc = "stopped"
  /\ ~faulted => /\ rstatus \notin {"killed", "exit1"} /\ childPending # "killed"
                 /\ childPending = "exited" => rstatus = "exit0"
                 /\ spc = "stopped" => result = "success"

-----------------------------------------------------------------------------
(* A concatenation and its elements.                                       *)
LEMMA Appended ==
  ASSUME NEW s \in Seq(Frame), NEW u \in Seq(Frame)
  PROVE  /\ s \o u \in Seq(Frame) /\ Len(s) \in Nat /\ Len(u) \in Nat
         /\ Len(s \o u) = Len(s) + Len(u)
         /\ \A i \in 1..Len(s) : (s \o u)[i] = s[i]
         /\ \A i \in 1..Len(u) : (s \o u)[Len(s) + i] = u[i]
         /\ \A i \in 1..Len(s \o u) : i \in 1..Len(s) \/ \E k \in 1..Len(u) : i = Len(s) + k
<1>1. Len(s) \in Nat /\ Len(u) \in Nat
  BY LenProperties
<1>. DEFINE y == s \o u
<1>2. /\ y \in Seq(Frame) /\ Len(y) = Len(s) + Len(u)
      /\ \A i \in 1..(Len(s) + Len(u)) : y[i] = IF i <= Len(s) THEN s[i] ELSE u[i - Len(s)]
  BY ConcatProperties, Zenon
<1>. HIDE DEF y
<1>3. \A i \in 1..Len(s) : y[i] = s[i]
  BY <1>1, <1>2
<1>4. ASSUME NEW i \in 1..Len(u) PROVE y[Len(s) + i] = u[i]
  <2>1. Len(s) + i \in 1..(Len(s) + Len(u)) /\ ~(Len(s) + i <= Len(s)) /\ (Len(s) + i) - Len(s) = i
    BY <1>1
  <2>. QED BY <1>2, <2>1
<1>5. ASSUME NEW i \in 1..Len(y) PROVE i \in 1..Len(s) \/ \E k \in 1..Len(u) : i = Len(s) + k
  <2>1. CASE i <= Len(s)
    BY <1>1, <1>2, <2>1
  <2>2. CASE i > Len(s)
    <3>1. i - Len(s) \in 1..Len(u) /\ i = Len(s) + (i - Len(s))
      BY <1>1, <1>2, <2>2
    <3>. QED BY <3>1
  <2>. QED BY <1>1, <1>2, <2>1, <2>2
<1>. QED BY <1>1, <1>2, <1>3, <1>4, <1>5 DEF y

(* The frames published are frames that decode() accepts.                  *)
LEMMA PublishedFrames ==
  ASSUME ControlInv, InputInv, spc = "recv", NEW m \in 0..ValidFrames(Refill)
  PROVE  /\ m \in 0..AvailableFrames(Refill) /\ m \in Nat
         /\ FirstFrames(Refill, m) \in Seq(Frame) /\ Len(FirstFrames(Refill, m)) = m
         /\ \A i \in 1..m : /\ FirstFrames(Refill, m)[i] = FrameIn(Refill, i - 1)
                            /\ Decodes(FirstFrames(Refill, m)[i])
<1>1. /\ Refill \in Buffer /\ Source \in Conns /\ AvailableFrames(Refill) \in Nat
      /\ Holds(Refill, Source, received[Source] + ReadCount)
      /\ received[Source] + ReadCount \in Nat
      /\ ValidFrames(Refill) \in 0..AvailableFrames(Refill)
  <2>1. received[Source] \in Nat /\ ReadCount \in 0..RecvUnits
    BY RefillIs DEF InputInv
  <2>2. received[Source] + ReadCount \in Nat
    BY <2>1, ServerAssumption
  <2>. QED BY <2>2, RefillIs DEF InputInv
<1>2. m \in 0..AvailableFrames(Refill) /\ m \in Nat
  BY <1>1
<1>3. FirstFrames(Refill, m) \in Seq(Frame) /\ Len(FirstFrames(Refill, m)) = m
  BY <1>1, <1>2, FirstFramesAre
<1>4. ASSUME NEW i \in 1..m
      PROVE  FirstFrames(Refill, m)[i] = FrameIn(Refill, i - 1) /\ Decodes(FirstFrames(Refill, m)[i])
  <2>1. i - 1 \in 0..(ValidFrames(Refill) - 1)
    BY <1>1
  <2>2. FirstFrames(Refill, m)[i] = FrameIn(Refill, i - 1)
    BY DEF FirstFrames
  <2>. QED BY <1>1, <2>1, <2>2, ValidAre
<1>. QED BY <1>2, <1>3, <1>4

(* Every step of the server, and every failure in it, keeps the ring       *)
(* decodable.                                                              *)
LEMMA DecodableServer ==
  ASSUME ControlInv, InputInv, Decodable, ServerStep \/ ServerFault
  PROVE  Decodable'
<1>1. CASE ReceiveData
  <2>1. spc = "recv"
    BY <1>1 DEF ReceiveData
  <2>2. CASE UNCHANGED stream
    BY <2>2 DEF Decodable, head
  <2>3. CASE \E t \in tailSeen..tail, m \in 0..ValidFrames(Refill) : Publish(t, m)
    <3>1. PICK t \in tailSeen..tail, m \in 0..ValidFrames(Refill) : Publish(t, m)
      BY <2>3
    <3>. DEFINE u == FirstFrames(Refill, m)
    <3>2. u \in Seq(Frame) /\ Len(u) = m /\ \A i \in 1..m : Decodes(u[i])
      BY <2>1, PublishedFrames
    <3>3. stream' = stream \o u /\ stream \in Seq(Frame)
      BY <3>1 DEF Publish, InputInv, Ring
    <3>. HIDE DEF u
    <3>4. ASSUME NEW i \in 1..Len(stream') PROVE Decodes(stream'[i])
      <4>1. i \in 1..Len(stream) \/ \E k \in 1..Len(u) : i = Len(stream) + k
        BY <3>2, <3>3, Appended
      <4>2. CASE i \in 1..Len(stream)
        BY <3>2, <3>3, <4>2, Appended DEF Decodable, head
      <4>3. CASE \E k \in 1..Len(u) : i = Len(stream) + k
        BY <3>2, <3>3, <4>3, Appended
      <4>. QED BY <4>1, <4>2, <4>3
    <3>. QED BY <3>4 DEF Decodable, head, Decodes
  <2>. QED BY <1>1, <2>2, <2>3, ReceiveCases DEF InputInv
<1>2. CASE ~ReceiveData
  <2>1. UNCHANGED stream
    BY <1>2, ServerStepIpc, ServerFaultIpc DEF InputInv, ServerIpc
  <2>. QED BY <2>1 DEF Decodable, head
<1>. QED BY <1>1, <1>2

-----------------------------------------------------------------------------
(* The server stops for one of three reasons: it has drained, the ring is  *)
(* full, or SIGCHLD reported the end of the reader.                        *)
LEMMA WhyStopped ==
  ASSUME ControlInv, ServerStep, spc' = "stopped"
  PROVE  \/ result' = "success" \/ spc = "full"
         \/ spc = "dispatch" /\ childPending \in {"exited", "killed"}
<1>1. spc # "stopped"
  BY StoppedIsOver
<1>2. CASE LoopTop
  BY <1>2 DEF LoopTop, Stop
<1>3. CASE SignalEvent
  BY <1>1, <1>3 DEF SignalEvent, ReaderTerminated
<1>4. CASE ResumeCheck
  <2>1. \E t \in tailSeen..tail : Drained(t)
    BY <1>4 DEF ResumeCheck, NextEvent
  <2>2. paused /\ watched = {}
    BY <1>1, <2>1 DEF Drained, ControlInv, EpollInSync
  <2>. QED BY <1>4, <2>2 DEF ResumeCheck, ResumeIngress, NextEvent
<1>5. CASE NotifyReader
  <2>1. spc = "notify" /\ ~paused /\ watched = ClientFds
    BY <1>5 DEF NotifyReader, ControlInv, Phases, Reading, EpollInSync
  <2>. QED BY <1>5, <2>1 DEF NotifyReader, PauseIngress, NextEvent
<1>6. CASE RingFull
  BY <1>6 DEF RingFull
<1>7. CASE ReceiveData
  BY <1>7 DEF ReceiveData, NextEvent
<1>. QED BY <1>1, <1>2, <1>3, <1>4, <1>5, <1>6, <1>7
     DEF ServerStep, StartServer, EpollWait, BatchDone, ListenEvent, AcceptClient, AcceptDone,
         SpaceEvent, ClientEvent, PauseCheck, ReceiveEnd, ReceiveAgain, NextEvent

(* The server only consumes SIGCHLD.                                       *)
LEMMA ServerKeepsChild ==
  ASSUME ServerStep \/ ServerFault
  PROVE  childPending' \in {childPending, "none"}
BY DEF ServerStep, StartServer, LoopTop, EpollWait, BatchDone, SignalEvent, ListenEvent,
       AcceptClient, AcceptDone, SpaceEvent, ResumeCheck, ClientEvent, ReceiveData, PauseCheck,
       NotifyReader, RingFull, ReceiveEnd, ReceiveAgain, ServerFault, StartFails,
       EpollWaitFails, AcceptFails, AcceptUnwatched, EventFails, ListenFails, NotifyReaderFails, IngressFails,
       signalVars, serverVars

(* Every step of the server keeps the invariant.                           *)
LEMMA HonestServerActs ==
  ASSUME ControlInv, ReaderInv, Honest, ServerActs
  PROVE  Honest'
<1>1. /\ mpc = "server" /\ ServerStep /\ faulted' = (faulted \/ spc = "full")
      /\ UNCHANGED <<rstatus, synced, mpc, exitCode>>
  BY DEF ServerActs, readerVars
<1>2. childPending' \in {childPending, "none"} /\ spc # "stopped"
  BY <1>1, ServerKeepsChild, StoppedIsOver
<1>3. ASSUME ~faulted', spc' = "stopped" PROVE result' = "success"
  <2>1. ~faulted /\ spc # "full"
    BY <1>1, <1>3
  <2>2. SUFFICES ASSUME spc = "dispatch", childPending \in {"exited", "killed"} PROVE FALSE
    BY <1>1, <1>3, <2>1, WhyStopped
  <2>3. rstatus = "exit0"
    BY <2>1, <2>2 DEF Honest
  <2>. QED BY <2>2, <2>3 DEF ReaderInv, Endings
<1>4. ~faulted' => ~faulted
  BY <1>1
<1>. QED BY <1>1, <1>2, <1>3, <1>4 DEF Honest, Alive

(* A reader's step that is no failure leaves it running, or ends it well.  *)
LEMMA ReaderExits ==
  ASSUME Decodable, ReaderInv, ReaderStep
  PROVE  /\ rstatus = "running"
         /\ \/ rpc' # "exited" /\ rstatus' = "running"
            \/ rpc' = "exited" /\ rstatus' = "exit0"
<1>1. CASE ProcessFrame
  <2>1. rstatus = "running" /\ rpc = "process" /\ ipcBatch # <<>>
    BY <1>1 DEF ProcessFrame, At
  <2>2. LiesAt(ipcBatch, stream, Len(file) + Len(batch))
    BY <2>1, StagedRunning
  <2>3. Head(ipcBatch) = stream[Len(file) + Len(batch) + 1]
    <3>. DEFINE o == Len(file) + Len(batch)
    <3>1. LiesAt(ipcBatch, stream, o)
      BY <2>2
    <3>. HIDE DEF o
    <3>2. Head(ipcBatch) = stream[o + 1]
      BY <2>1, <3>1, LiesHead
    <3>. QED BY <3>2 DEF o
  <2>4. Len(file) + Len(batch) + 1 \in 1..head
    <3>1. LiesAt(<<Head(ipcBatch)>>, stream, Len(file) + Len(batch)) /\ Len(<<Head(ipcBatch)>>) = 1
      BY <2>1, <2>2, LiesHead
    <3>2. Len(file) + Len(batch) + 1 <= head
      BY <3>1, LiesTypes DEF head
    <3>3. Len(file) \in Nat /\ Len(batch) \in Nat /\ head \in Nat
      BY StagedFacts, LenProperties DEF head
    <3>. HIDE DEF head
    <3>. QED BY <3>2, <3>3
  <2>5. Decodes(Head(ipcBatch))
    BY <2>3, <2>4 DEF Decodable
  <2>. QED BY <1>1, <2>1, <2>5 DEF ProcessFrame
<1>. QED BY <1>1 DEF ReaderStep, OpenFile, Pop, ProcessDone, Flush, ReportSpace, CheckClosed,
                     FinalSync, AwaitData, At, ExitReader

(* Every step of the reader keeps the invariant.                           *)
LEMMA HonestReader ==
  ASSUME Decodable, ReaderInv, Honest, ReaderActs
  PROVE  Honest'
<1>1. /\ ReaderStep /\ UNCHANGED <<spc, result, mpc, exitCode, faulted>>
      /\ IF rpc' = "exited" THEN ChildChanges("exited") ELSE UNCHANGED childPending
  BY DEF ReaderActs, serverButChild, mainVars
<1>2. /\ rstatus = "running"
      /\ \/ rpc' # "exited" /\ rstatus' = "running"
         \/ rpc' = "exited" /\ rstatus' = "exit0"
  BY <1>1, ReaderExits
<1>. QED BY <1>1, <1>2 DEF Honest, Alive, ChildChanges

(* A step that changes nothing the invariant speaks of keeps it.           *)
LEMMA HonestSame ==
  ASSUME Honest,
         UNCHANGED <<spc, result, childPending, rstatus, synced, mpc, exitCode, faulted>>
  PROVE  Honest'
BY DEF Honest, Alive

(* Only valid frames are published, and every failure has a reason, in     *)
(* every behaviour of the system.                                          *)
THEOREM HonestInvariant == Spec => [](Decodable /\ Honest)
<1>1. Init => Decodable /\ Honest
  BY DEF Init, IpcInit, ServerInit, ReaderInit, Decodable, head, Honest, Alive
<1>2. ControlInv /\ InputInv /\ ReaderInv /\ Decodable /\ [Next]_vars => Decodable'
  <2>. SUFFICES ASSUME ControlInv, InputInv, ReaderInv, Decodable, [Next]_vars PROVE Decodable'
    OBVIOUS
  <2>1. CASE ServerActs \/ ServerFails
    BY <2>1, DecodableServer DEF ServerActs, ServerFails
  <2>2. CASE Rebase
    BY <2>2 DEF Rebase, Decodable, head
  <2>3. CASE UNCHANGED stream
    BY <2>3 DEF Decodable, head
  <2>4. CASE ReaderActs \/ ReaderFails
    BY <2>3, <2>4, ReaderAnyIpc DEF ReaderActs, ReaderFails, InputInv, ReaderIpc
  <2>. QED BY <2>1, <2>2, <2>3, <2>4
       DEF Next, MainStep, MainFault, ParseArguments, Fork, CloseRing, WakeReader, WaitReader,
           SetupFails, SignalfdFails, WakeReaderFails, WaitReaderFails, Peer, Terminate,
           KillReader, StopReader, ContinueReader, SignalReader, KillMain, Idle, vars, ipcVars
<1>3. ControlInv /\ InputInv /\ ReaderInv /\ Decodable /\ Honest /\ [Next]_vars => Honest'
  <2>. SUFFICES ASSUME ControlInv, InputInv, ReaderInv, Decodable, Honest, [Next]_vars
                PROVE  Honest'
    OBVIOUS
  <2>1. CASE ServerActs
    BY <2>1, HonestServerActs
  <2>2. CASE ServerFails
    BY <2>2, StoppedIsOver DEF ServerFails, Honest, Alive, readerVars
  <2>3. CASE ReaderActs
    BY <2>3, HonestReader
  <2>4. CASE ReaderFails
    <3>1. /\ rstatus = "running" /\ rstatus' = "exit1" /\ faulted' = TRUE
          /\ UNCHANGED <<spc, mpc, exitCode>>
      BY <2>4 DEF ReaderFails, serverButChild, ReaderFault, OpenFails, ProcessFails, FlushFails,
                  ReportSpaceFails, FinalSyncFails, AwaitDataFails, At, ExitReader
    <3>. QED BY <3>1 DEF Honest, Alive
  <2>5. CASE ParseArguments \/ SetupFails
    <3>1. /\ mpc \in {"parse", "setup"} /\ mpc' \in {"setup", "exited"}
          /\ UNCHANGED <<spc, result, childPending, rstatus, synced>>
          /\ \/ exitCode' = exitCode /\ faulted' = faulted
             \/ exitCode' = "success" /\ faulted' = faulted
             \/ exitCode' = "failure" /\ faulted' = TRUE
      BY <2>5 DEF ParseArguments, SetupFails, ExitMain, serverVars, signalVars, readerVars
    <3>2. rstatus = "none"
      BY <3>1 DEF ReaderInv, Endings
    <3>. QED BY <3>1, <3>2 DEF Honest, Alive
  <2>6. CASE Fork
    <3>1. /\ mpc = "setup" /\ mpc' = "server" /\ rstatus' = "running"
          /\ UNCHANGED <<spc, result, childPending, synced, exitCode, faulted>>
      BY <2>6 DEF Fork, serverVars, signalVars
    <3>2. rstatus = "none" /\ exitCode = "none"
      BY <3>1 DEF ReaderInv, Endings
    <3>. QED BY <3>1, <3>2 DEF Honest, Alive
  <2>7. CASE CloseRing \/ WakeReader
    BY <2>7 DEF CloseRing, WakeReader, serverVars, signalVars, readerVars, Honest, Alive
  <2>8. CASE WaitReader
    <3>1. /\ mpc = "wait" /\ mpc' = "exited" /\ ~Alive
          /\ exitCode' = (IF rstatus = "exit0" THEN result ELSE "failure")
          /\ UNCHANGED <<spc, result, childPending, rstatus, synced, faulted>>
      BY <2>8 DEF WaitReader, ExitMain, serverVars, signalVars, readerVars
    <3>2. ~faulted => rstatus = "exit0" /\ result = "success"
      BY <3>1 DEF ReaderInv, ReaderTypes, Endings, Honest, Alive
    <3>. QED BY <3>1, <3>2 DEF Honest, Alive
  <2>9. CASE SignalfdFails \/ KillMain
    BY <2>9 DEF SignalfdFails, KillMain, Stop, readerVars, Honest, Alive, ReaderInv, Endings
  <2>10. CASE WakeReaderFails \/ WaitReaderFails
    BY <2>10 DEF WakeReaderFails, WaitReaderFails, ExitMain, serverVars, signalVars, readerVars, Honest, Alive, ReaderInv, Endings
  <2>11. CASE KillReader \/ StopReader \/ ContinueReader
    <3>1. /\ rstatus \in {"running", "stopped"} /\ rstatus' \in {"running", "stopped", "killed"}
          /\ rstatus' = "killed" => faulted'
          /\ childPending' \in {childPending, "killed", "stopped", "continued"}
          /\ childPending' = "killed" => childPending = "killed" \/ faulted'
          /\ ~faulted' => ~faulted
          /\ faulted => faulted'
          /\ UNCHANGED <<spc, result, synced, mpc, exitCode>>
      BY <2>11 DEF KillReader, StopReader, ContinueReader, SignalReader, ChildChanges,
                   serverButChild
    <3>. QED BY <3>1 DEF Honest, Alive
  <2>12. CASE Peer \/ Terminate \/ Rebase \/ UNCHANGED vars
    BY <2>12, HonestSame DEF Peer, Terminate, Rebase, vars, serverVars, signalVars, readerVars,
                             mainVars
  <2>. QED BY <2>1, <2>2, <2>3, <2>4, <2>5, <2>6, <2>7, <2>8, <2>9, <2>10, <2>11, <2>12
       DEF Next, MainStep, MainFault, Idle
<1>. QED BY <1>1, <1>2, <1>3, ControlInvariant, InputInvariant, ReaderInvariant, PTL DEF Spec

(* The program reports a failure only if something has failed: no order of *)
(* pauses, resumes, shutdown requests, hang-ups and stops of the reader    *)
(* makes main return EXIT_FAILURE.                                         *)
THEOREM NoSpuriousFailureHolds == Spec => []NoSpuriousFailure
<1>1. Honest => NoSpuriousFailure
  BY DEF Honest, NoSpuriousFailure
<1>. QED BY <1>1, HonestInvariant, PTL

-----------------------------------------------------------------------------
(* The positions in w of the frames of connection c.                       *)
OfConn(w, c) == {i \in 1..Len(w) : w[i][1][1] = c}

(* Those of them before position i.                                        *)
Before(w, c, i) == {j \in OfConn(w, c) : j < i}

(* Adding k new positions adds k to their number.                          *)
LEMMA CountGrows ==
  ASSUME NEW h \in Nat, NEW S \in SUBSET (1..h), NEW k \in Nat
  PROVE  /\ IsFiniteSet(S) /\ Cardinality(S) \in Nat
         /\ Cardinality(S \cup ((h + 1)..(h + k))) = Cardinality(S) + k
<1>1. IsFiniteSet(1..h) /\ IsFiniteSet((h + 1)..(h + k))
  BY FS_Interval
<1>2. Cardinality((h + 1)..(h + k)) = k
  <2>1. Cardinality((h + 1)..(h + k)) = IF h + 1 > h + k THEN 0 ELSE (h + k) - (h + 1) + 1
    BY FS_Interval
  <2>. QED BY <2>1
<1>3. IsFiniteSet(S)
  BY <1>1, FS_Subset
<1>4. Cardinality(S) \in Nat
  BY <1>3, FS_CardinalityType
<1>5. S \cap ((h + 1)..(h + k)) = {}
  OBVIOUS
<1>6. Cardinality(S \cap ((h + 1)..(h + k))) = 0
  BY <1>5, FS_EmptySet
<1>7. Cardinality(S \cup ((h + 1)..(h + k)))
        = Cardinality(S) + Cardinality((h + 1)..(h + k)) - Cardinality(S \cap ((h + 1)..(h + k)))
  BY <1>1, <1>3, FS_Union
<1>8. Cardinality(S \cup ((h + 1)..(h + k))) = Cardinality(S) + k - 0
  BY <1>2, <1>6, <1>7
<1>. QED BY <1>3, <1>4, <1>8

(* x is w with n frames of connection s appended, by what that does to the *)
(* positions of each connection.                                           *)
Grown(x, w, n, s) ==
  /\ Cardinality(OfConn(x, s)) = Cardinality(OfConn(w, s)) + n
  /\ \A c : c # s => OfConn(x, c) = OfConn(w, c)
  /\ \A i \in 1..Len(w) : \A c : Before(x, c, i) = Before(w, c, i)
  /\ \A k \in 1..n : Cardinality(Before(x, s, Len(w) + k)) = Cardinality(OfConn(w, s)) + (k - 1)

(* Appending frames of one connection does that.                           *)
LEMMA Extended ==
  ASSUME NEW w \in Seq(Frame), NEW u \in Seq(Frame), NEW s,
         \A k \in 1..Len(u) : u[k][1][1] = s
  PROVE  Grown(w \o u, w, Len(u), s)
<1>. DEFINE y == w \o u
            h == Len(w)
            n == Len(u)
<1>1. h \in Nat /\ n \in Nat /\ Len(y) = h + n
  BY Appended
<1>2. \A i \in 1..h : y[i] = w[i]
  BY Appended
<1>3. \A k \in 1..n : y[h + k][1][1] = s
  BY Appended
<1>4. \A i \in 1..(h + n) : i \in 1..h \/ \E k \in 1..n : i = h + k
  BY <1>1, Appended
<1>5. ASSUME NEW c PROVE /\ OfConn(w, c) = {i \in 1..h : w[i][1][1] = c}
                         /\ OfConn(y, c) = {i \in 1..(h + n) : y[i][1][1] = c}
  BY <1>1 DEF OfConn
<1>. HIDE DEF y, h, n
<1>6. \A c : OfConn(w, c) \subseteq 1..h
  BY <1>5
<1>7. OfConn(y, s) = OfConn(w, s) \cup ((h + 1)..(h + n))
  <2>1. ASSUME NEW i \in OfConn(y, s) PROVE i \in OfConn(w, s) \cup ((h + 1)..(h + n))
    BY <1>1, <1>2, <1>5, <2>1
  <2>2. ASSUME NEW i \in OfConn(w, s) PROVE i \in OfConn(y, s)
    BY <1>1, <1>2, <1>5, <2>2
  <2>3. ASSUME NEW i \in (h + 1)..(h + n) PROVE i \in OfConn(y, s)
    <3>1. i - h \in 1..n /\ i = h + (i - h) /\ i \in 1..(h + n)
      BY <1>1
    <3>2. y[i][1][1] = s
      BY <1>3, <3>1
    <3>. QED BY <1>5, <3>1, <3>2
  <2>. QED BY <2>1, <2>2, <2>3
<1>8. ASSUME NEW c, c # s PROVE OfConn(y, c) = OfConn(w, c)
  <2>1. ASSUME NEW i \in OfConn(y, c) PROVE i \in OfConn(w, c)
    <3>1. i \in 1..(h + n) /\ y[i][1][1] = c
      BY <1>5
    <3>2. i \in 1..h
      BY <1>3, <1>4, <1>8, <3>1
    <3>. QED BY <1>2, <1>5, <3>1, <3>2
  <2>2. ASSUME NEW i \in OfConn(w, c) PROVE i \in OfConn(y, c)
    BY <1>1, <1>2, <1>5, <2>2
  <2>. QED BY <2>1, <2>2
<1>9. ASSUME NEW i \in 1..h, NEW c
      PROVE  Before(y, c, i) = Before(w, c, i)
  <2>1. CASE c = s
    BY <1>1, <1>6, <1>7, <2>1 DEF Before
  <2>2. CASE c # s
    BY <1>8, <2>2 DEF Before
  <2>. QED BY <2>1, <2>2
<1>10. OfConn(w, s) \in SUBSET (1..h)
  BY <1>6
<1>11. Cardinality(OfConn(y, s)) = Cardinality(OfConn(w, s)) + n
  <2>1. Cardinality(OfConn(w, s) \cup ((h + 1)..(h + n))) = Cardinality(OfConn(w, s)) + n
    BY <1>1, <1>10, CountGrows
  <2>. QED BY <1>7, <2>1, Zenon
<1>12. ASSUME NEW k \in 1..n
       PROVE  Cardinality(Before(y, s, h + k)) = Cardinality(OfConn(w, s)) + (k - 1)
  <2>1. Before(y, s, h + k) = OfConn(w, s) \cup ((h + 1)..(h + (k - 1)))
    <3>1. ASSUME NEW j \in 1..h PROVE j < h + k
      BY <1>1
    <3>2. \A j \in (h + 1)..(h + (k - 1)) : j \in (h + 1)..(h + n) /\ j < h + k
      BY <1>1
    <3>3. \A j \in (h + 1)..(h + n) : j < h + k => j \in (h + 1)..(h + (k - 1))
      BY <1>1
    <3>. QED BY <1>7, <1>10, <3>1, <3>2, <3>3 DEF Before
  <2>2. k - 1 \in Nat
    BY <1>1
  <2>. QED BY <1>1, <1>10, <2>1, <2>2, CountGrows
<1>. QED BY <1>8, <1>9, <1>11, <1>12 DEF Grown, y, h, n

-----------------------------------------------------------------------------
(* The quotient is the only number of whole parts that fits.               *)
LEMMA Whole ==
  ASSUME NEW n \in Nat, NEW u \in Nat \ {0}, NEW y \in Nat, n * u <= y, y < n * u + u
  PROVE  y \div u = n
<1>1. n <= y \div u /\ y \div u \in Nat
  BY Quotient
<1>. DEFINE d == y \div u
<1>2. d * u <= y /\ d * u \in Nat
  <2>1. y = u * d + (y % u) /\ y % u \in 0..(u - 1) /\ d \in Int
    BY SMT
  <2>2. d * u = u * d /\ d * u \in Int
    BY <2>1, SMT
  <2>3. d * u \in Nat
    BY <1>1, SMT
  <2>. HIDE DEF d
  <2>. QED BY <2>1, <2>2, <2>3
<1>3. ASSUME n < d PROVE FALSE
  <2>. DEFINE nu == n * u
              nu1 == (n + 1) * u
              du == d * u
  <2>1. nu \in Nat /\ nu1 = nu + u /\ nu1 <= du /\ du \in Nat
    BY <1>1, <1>3, Multiples
  <2>2. y < nu + u /\ du <= y
    BY <1>2
  <2>. HIDE DEF nu, nu1, du
  <2>. QED BY <2>1, <2>2
<1>. QED BY <1>1, <1>3

(* Multiples of sums.                                                      *)
LEMMA Distribute ==
  ASSUME NEW i \in Nat, NEW k \in Nat, NEW u \in Nat
  PROVE  /\ (i + k) * u = i * u + k * u /\ (i + k + 1) * u = i * u + k * u + u
         /\ i * u \in Nat /\ k * u \in Nat
<1>1. i * u \in Nat /\ k * u \in Nat
  BY SMT
<1>2. (i + k) * u = i * u + k * u /\ (i + k + 1) * u = i * u + k * u + u
  BY SMT
<1>. QED BY <1>1, <1>2

(* A frame that a peer sent begins with a unit of its connection, and      *)
(* decode() refuses just the one that the peer got wrong.                  *)
LEMMA SentFrameIs ==
  ASSUME NEW c \in Conns, NEW n \in Nat
  PROVE  /\ SentFrame(c, n)[1][1] = c
         /\ Decodes(SentFrame(c, n)) <=> n # BadFrame[c]
<1>. DEFINE nu == n * FrameUnits
<1>1. FrameUnits \in Nat \ {0}
  BY FramesAssumption
<1>2. nu \in Nat /\ (n + 1) * FrameUnits = nu + FrameUnits
  BY <1>1, SMT
<1>3. SentFrame(c, n) = Units(c, nu, nu + FrameUnits)
  BY <1>2 DEF SentFrame
<1>. HIDE DEF nu
<1>4. /\ SentFrame(c, n) \in Seq(Conns \X Nat) /\ Len(SentFrame(c, n)) = FrameUnits
      /\ \A i \in 1..FrameUnits : SentFrame(c, n)[i] = <<c, nu + i - 1>>
  <2>1. FrameUnits \in Nat
    BY <1>1
  <2>2. /\ Units(c, nu, nu + FrameUnits) \in Seq(Conns \X Nat)
        /\ Len(Units(c, nu, nu + FrameUnits)) = FrameUnits
        /\ \A i \in 1..FrameUnits : Units(c, nu, nu + FrameUnits)[i] = <<c, nu + i - 1>>
    BY <1>2, <2>1, UnitsAre
  <2>. QED BY <1>3, <2>2, Zenon
<1>5. DOMAIN SentFrame(c, n) = 1..FrameUnits
  BY <1>4
<1>6. ASSUME NEW i \in 1..FrameUnits PROVE (nu + i - 1) \div FrameUnits = n
  <2>1. nu + i - 1 \in Nat /\ nu <= nu + i - 1 /\ nu + i - 1 < nu + FrameUnits
    BY <1>1, <1>2
  <2>. DEFINE y == nu + i - 1
  <2>. HIDE DEF y
  <2>2. y \in Nat /\ n * FrameUnits <= y /\ y < n * FrameUnits + FrameUnits
    BY <2>1 DEF y, nu
  <2>3. y \div FrameUnits = n
    BY <1>1, <2>2, Whole
  <2>. QED BY <2>3 DEF y
<1>7. \A i \in 1..FrameUnits : SentFrame(c, n)[i][1] = c /\ SentFrame(c, n)[i][2] = nu + i - 1
  BY <1>4
<1>8. 1 \in 1..FrameUnits
  BY <1>1
<1>9. Decodes(SentFrame(c, n)) <=> \A i \in 1..FrameUnits : n # BadFrame[c]
  BY <1>5, <1>6, <1>7 DEF Decodes
<1>. QED BY <1>7, <1>8, <1>9

-----------------------------------------------------------------------------
(* How many frames of connection c were published.                         *)
Count(c) == Cardinality(FramesOf(c))

(* The frames published for each connection are the frames it sent, in     *)
(* order.                                                                  *)
InPlace ==
  \A i \in 1..head : \E c \in Conns :
    stream[i] = SentFrame(c, Cardinality({j \in FramesOf(c) : j < i}))

(* A connection that was not accepted yet has nothing published.           *)
Untouched(c) == conn[c] \in {"none", "backlog"} => received[c] = 0 /\ FramesOf(c) = {}

(* The units read from a client are the frames published and what is       *)
(* pending in its buffer: the next frame is cut where the last one ended.  *)
Aligned(f) == received[clients[f]] = Count(clients[f]) * FrameUnits + PendingUnits(input[f])

(* Nothing is published from an invalid frame on.                          *)
BeforeBad(c) == BadFrame[c] = Never \/ Count(c) <= BadFrame[c]

(* After readClient() found an invalid frame, all frames before it are     *)
(* published and that one waits in the buffer.                             *)
AtBad ==
  spc \in {"check", "notify"} /\ invalid =>
    Count(Source) = BadFrame[Source] /\ FrameUnits <= PendingUnits(input[event.fd])

(* The inductive invariant of the frames of each connection.               *)
(* StreamsIntact alone is not inductive: it does not say where in the      *)
(* stream of its connection the buffer stands.                             *)
Framing ==
  /\ InPlace /\ AtBad
  /\ \A c \in Conns : Untouched(c) /\ BeforeBad(c)
  /\ \A f \in ClientFds : Aligned(f)

(* The number of frames of a connection, from the stream as a sequence.    *)
LEMMA Counts ==
  ASSUME stream \in Seq(Frame)
  PROVE  /\ head \in Nat /\ DOMAIN stream = 1..head
         /\ \A c : /\ FramesOf(c) = OfConn(stream, c) /\ FramesOf(c) \subseteq 1..head
                   /\ Count(c) \in Nat
                   /\ \A i \in 1..head : Cardinality({j \in FramesOf(c) : j < i}) \in Nat
<1>1. head \in Nat /\ DOMAIN stream = 1..head
  BY LenProperties DEF head
<1>2. ASSUME NEW c PROVE FramesOf(c) = OfConn(stream, c) /\ FramesOf(c) \subseteq 1..head
  BY <1>1 DEF FramesOf, OfConn, head
<1>. HIDE DEF head
<1>3. ASSUME NEW S \in SUBSET (1..head) PROVE Cardinality(S) \in Nat
  BY <1>1, CountGrows
<1>4. ASSUME NEW c PROVE Count(c) \in Nat
  BY <1>2, <1>3 DEF Count
<1>5. ASSUME NEW c, NEW i \in 1..head PROVE Cardinality({j \in FramesOf(c) : j < i}) \in Nat
  <2>1. {j \in FramesOf(c) : j < i} \in SUBSET (1..head)
    BY <1>2
  <2>. QED BY <1>3, <2>1
<1>. QED BY <1>1, <1>2, <1>4, <1>5

(* Frames stay in their places while nothing is published.                 *)
LEMMA InPlaceKept ==
  ASSUME InPlace, UNCHANGED stream
  PROVE  InPlace'
<1>1. head' = head
  BY DEF head
<1>2. ASSUME NEW i \in 1..head
      PROVE  \E c \in Conns :
               stream'[i] = SentFrame(c, Cardinality({j \in FramesOf(c)' : j < i}))
  <2>1. PICK c \in Conns : stream[i] = SentFrame(c, Cardinality({j \in FramesOf(c) : j < i}))
    BY DEF InPlace
  <2>2. FramesOf(c)' = FramesOf(c)
    BY DEF FramesOf
  <2>3. stream'[i] = SentFrame(c, Cardinality({j \in FramesOf(c)' : j < i}))
    BY <2>1, <2>2, Zenon
  <2>. QED BY <2>3
<1>3. InPlace' <=> \A i \in 1..head' : \E c \in Conns :
                     stream'[i] = SentFrame(c, Cardinality({j \in FramesOf(c)' : j < i}))
  BY Zenon DEF InPlace
<1>. QED BY <1>1, <1>2, <1>3, Zenon

(* A step that publishes nothing, keeps what is pending of the remaining   *)
(* clients, and accepts no connection keeps the invariant.                 *)
LEMMA FramingKept ==
  ASSUME Framing, UNCHANGED stream,
         \A c \in Conns : /\ conn'[c] \in {"none", "backlog"} => conn[c] \in {"none", "backlog"}
                          /\ \/ received'[c] = received[c]
                             \/ /\ conn'[c] \notin {"none", "backlog"}
                                /\ \A f \in ClientFds' : clients'[f] # c,
         ClientFds' \subseteq ClientFds,
         \A f \in ClientFds' : /\ clients'[f] = clients[f] /\ clients[f] \in Conns
                               /\ PendingUnits(input'[f]) = PendingUnits(input[f]),
         spc' \in {"check", "notify"} /\ invalid' =>
           spc \in {"check", "notify"} /\ invalid /\ UNCHANGED <<event, clients, input>>
  PROVE  Framing'
<1>1. ASSUME NEW c PROVE FramesOf(c)' = FramesOf(c) /\ Count(c)' = Count(c)
  BY DEF FramesOf, Count
<1>2. InPlace'
  BY InPlaceKept DEF Framing
<1>3. AtBad'
  BY <1>1 DEF Framing, AtBad, Source
<1>4. ASSUME NEW c \in Conns PROVE Untouched(c)' /\ BeforeBad(c)'
  BY <1>1 DEF Framing, Untouched, BeforeBad
<1>5. ASSUME NEW f \in ClientFds' PROVE Aligned(f)'
  <2>1. /\ clients'[f] = clients[f] /\ received'[clients[f]] = received[clients[f]]
        /\ PendingUnits(input'[f]) = PendingUnits(input[f]) /\ f \in ClientFds
    OBVIOUS
  <2>2. PendingUnits(input[f])' = PendingUnits(input[f])
    BY <2>1 DEF PendingUnits
  <2>3. Count(clients[f])' = Count(clients[f])
    BY <1>1, <2>1 DEF Count, FramesOf
  <2>4. Aligned(f)
    BY <2>1 DEF Framing
  <2>. QED BY <2>1, <2>2, <2>3, <2>4, Zenon DEF Aligned
<1>. QED BY <1>2, <1>3, <1>4, <1>5 DEF Framing

(* Leaving run() keeps it.                                                 *)
LEMMA FramingStop ==
  ASSUME ControlInv, Framing, NEW r, Stop(r), UNCHANGED stream
  PROVE  Framing'
<1>1. ClientFds' = {} /\ spc' = "stopped" /\ received' = received
  BY DEF Stop, ClientFds
<1>2. \A c \in Conns : conn'[c] \in {"none", "backlog"} => conn[c] \in {"none", "backlog"}
  BY DEF Stop, Closed
<1>. QED BY <1>1, <1>2, FramingKept

(* removeClient() of the client being read keeps it.                       *)
LEMMA FramingRemoved ==
  ASSUME ControlInv, Framing, spc \in Reading, RemoveClients({event.fd}), NextEvent,
         UNCHANGED stream,
         \A c \in Conns \ {Source} : received'[c] = received[c]
  PROVE  Framing'
<1>1. event.fd \in ClientFds /\ event.fd \in Fds /\ Source \in Conns
  BY DEF ControlInv, Phases, Reading, ControlTypes, Source, ClientFds
<1>2. /\ ClientFds' = ClientFds \ {event.fd} /\ spc' = "dispatch"
      /\ \A f \in ClientFds \ {event.fd} : clients'[f] = clients[f] /\ input'[f] = input[f]
  BY <1>1 DEF RemoveClients, NextEvent, ClientFds
<1>3. conn'[Source] = "closed"
  BY <1>1 DEF RemoveClients, Closed, Source
<1>4. \A c \in Conns : conn'[c] \in {"none", "backlog"} => conn[c] \in {"none", "backlog"}
  BY DEF RemoveClients, Closed
<1>5. \A f \in ClientFds \ {event.fd} : clients[f] # Source /\ clients[f] \in Conns
  BY <1>1 DEF ControlInv, ClientsOpen, ControlTypes, Source, ClientFds
<1>. QED BY <1>2, <1>3, <1>4, <1>5, FramingKept

(* A new client starts at the beginning of its stream, with an empty       *)
(* buffer.                                                                 *)
LEMMA FramingAccepted ==
  ASSUME ControlInv, InputInv, Framing, AcceptClient
  PROVE  Framing'
<1>1. PICK c \in Backlog, f \in Fds \ ClientFds :
        /\ conn' = [conn EXCEPT ![c] = "open"]
        /\ clients' = [clients EXCEPT ![f] = c]
  BY DEF AcceptClient
<1>2. UNCHANGED <<stream, received, input, event, spc, invalid>> /\ spc = "accept"
  BY DEF AcceptClient, ipcVars, localVars
<1>3. c \in Conns /\ conn[c] = "backlog" /\ clients \in [Fds -> Conns \cup {NoConn}]
      /\ conn \in [Conns -> {"none", "backlog", "open", "closed"}]
  BY DEF Backlog, ControlInv, ControlTypes
<1>4. ASSUME NEW d PROVE FramesOf(d)' = FramesOf(d) /\ Count(d)' = Count(d)
  BY <1>2 DEF FramesOf, Count
<1>5. InPlace' /\ AtBad'
  BY <1>2, <1>4 DEF Framing, InPlace, AtBad, head
<1>6. ASSUME NEW d \in Conns PROVE Untouched(d)' /\ BeforeBad(d)'
  BY <1>1, <1>2, <1>3, <1>4 DEF Framing, Untouched, BeforeBad
<1>7. ASSUME NEW g \in ClientFds' PROVE Aligned(g)'
  <2>1. PendingUnits(input[g])' = PendingUnits(input[g]) /\ received' = received
    BY <1>2 DEF PendingUnits
  <2>2. CASE g = f
    <3>1. clients'[g] = c /\ received[c] = 0 /\ FramesOf(c) = {}
      BY <1>1, <1>3, <2>2 DEF Framing, Untouched
    <3>2. Count(c) = 0
      BY <3>1, FS_EmptySet DEF Count
    <3>3. PendingUnits(input[g]) = 0
      BY <2>2, EmptyBufferHolds DEF InputInv, Buffers
    <3>4. received'[clients'[g]] = 0 /\ Count(clients[g])' = 0
      BY <1>2, <2>1, <3>1, <3>2 DEF Count, FramesOf
    <3>5. 0 = 0 * FrameUnits + 0
      BY FramesAssumption
    <3>. QED BY <2>1, <3>3, <3>4, <3>5, Zenon DEF Aligned
  <2>3. CASE g # f
    <3>1. clients'[g] = clients[g] /\ g \in ClientFds
      BY <1>1, <1>3, <2>3 DEF ClientFds
    <3>2. Count(clients[g])' = Count(clients[g])
      BY <1>2, <3>1 DEF Count, FramesOf
    <3>3. Aligned(g)
      BY <3>1 DEF Framing
    <3>. QED BY <2>1, <3>1, <3>2, <3>3, Zenon DEF Aligned
  <2>. QED BY <2>2, <2>3
<1>. QED BY <1>5, <1>6, <1>7 DEF Framing

(* The complete frames of the buffer after a recv() are the next frames    *)
(* that its connection sent.                                               *)
LEMMA NextFrames ==
  ASSUME ControlInv, InputInv, Framing, spc = "recv"
  PROVE  /\ Source \in Conns /\ Count(Source) \in Nat
         /\ received[Source] = Count(Source) * FrameUnits + PendingUnits(input[event.fd])
         /\ Count(Source) * FrameUnits \in Nat
         /\ \A i \in 0..(AvailableFrames(Refill) - 1) :
              FrameIn(Refill, i) = SentFrame(Source, Count(Source) + i)
<1>1. /\ event.fd \in ClientFds /\ Source \in Conns /\ event.fd \in Fds
      /\ received[Source] \in Nat /\ ReadCount \in 0..RecvUnits
      /\ Refill \in Buffer /\ Holds(Refill, Source, received[Source] + ReadCount)
      /\ PendingUnits(Refill) = PendingUnits(input[event.fd]) + ReadCount
      /\ AvailableFrames(Refill) \in Nat
  BY RefillIs DEF InputInv
<1>2. Count(Source) \in Nat
  BY Counts DEF InputInv, Ring
<1>3. received[Source] = Count(Source) * FrameUnits + PendingUnits(input[event.fd])
  BY <1>1 DEF Framing, Aligned, Source
<1>4. FrameUnits \in Nat /\ RecvUnits \in Nat
  BY FramesAssumption, ServerAssumption
<1>5. PendingUnits(input[event.fd]) \in Nat
  BY <1>1, BufferParts DEF InputInv, Buffers
<1>. DEFINE k == Count(Source)
            ku == k * FrameUnits
<1>6. ku \in Nat
  BY <1>2, <1>4, Distribute
<1>7. ReadCount \in Nat
  BY <1>1, <1>4
<1>8. ASSUME NEW i \in 0..(AvailableFrames(Refill) - 1)
      PROVE  FrameIn(Refill, i) = SentFrame(Source, k + i)
  <2>. DEFINE iu == i * FrameUnits
              r == received[Source] + ReadCount
  <2>1. i \in Nat
    BY <1>1
  <2>2. (k + i) * FrameUnits = ku + iu /\ (k + i + 1) * FrameUnits = ku + iu + FrameUnits /\ iu \in Nat
    BY <1>2, <1>4, <2>1, Distribute
  <2>3. r \in Nat
    BY <1>1, <1>7
  <2>4. FrameIn(Refill, i) = Units(Source, r - PendingUnits(Refill) + iu,
                                           r - PendingUnits(Refill) + iu + FrameUnits)
    BY <1>1, <2>3, FrameCut
  <2>5. received[Source] = ku + PendingUnits(input[event.fd])
    BY <1>3
  <2>6. r - PendingUnits(Refill) = ku
    <3>. HIDE DEF ku
    <3>. QED BY <1>1, <1>5, <1>6, <1>7, <2>5
  <2>. HIDE DEF r, ku, iu, k
  <2>7. FrameIn(Refill, i) = Units(Source, ku + iu, ku + iu + FrameUnits)
    BY <2>4, <2>6
  <2>8. SentFrame(Source, k + i) = Units(Source, (k + i) * FrameUnits, (k + i + 1) * FrameUnits)
    BY DEF SentFrame
  <2>. QED BY <2>2, <2>7, <2>8, Zenon
<1>. QED BY <1>1, <1>2, <1>3, <1>6, <1>8

(* Counting up by ones does not pass a number it does not meet.            *)
LEMMA NotPassed ==
  ASSUME NEW k \in Nat, NEW m \in Nat, NEW d \in Int, k <= d,
         \A i \in 1..m : k + (i - 1) # d
  PROVE  k + m <= d
<1>. SUFFICES ASSUME d < k + m PROVE FALSE
  OBVIOUS
<1>1. d - k + 1 \in 1..m /\ k + ((d - k + 1) - 1) = d
  OBVIOUS
<1>. QED BY <1>1

(* Both sides of an equation grow alike.                                   *)
LEMMA Shifted ==
  ASSUME NEW x \in Int, NEW y \in Int, NEW p \in Int, NEW n \in Int, NEW q \in Int, NEW z \in Int,
         x = y + p, z = (p + n) - q
  PROVE  x + n = (y + q) + z
OBVIOUS

(* ReceiveData publishes the next frames of its connection, up to an       *)
(* invalid one, and keeps the invariant.                                   *)
LEMMA FramingReceived ==
  ASSUME ControlInv, InputInv, Framing, spc = "recv",
         received' = [received EXCEPT ![Source] = @ + ReadCount],
         NEW t \in tailSeen..tail, NEW m \in 0..ValidFrames(Refill), Publish(t, m)
  PROVE  Framing'
<1>. DEFINE u == FirstFrames(Refill, m)
            s == Source
            k == Count(s)
            f == event.fd
<1>1. /\ m \in 0..AvailableFrames(Refill) /\ m \in Nat /\ u \in Seq(Frame) /\ Len(u) = m
      /\ \A i \in 1..m : u[i] = FrameIn(Refill, i - 1) /\ Decodes(u[i])
  BY PublishedFrames
<1>2. s \in Conns /\ k \in Nat /\ stream \in Seq(Frame)
  BY NextFrames DEF InputInv, Ring
<1>3. /\ Refill \in Buffer /\ f \in ClientFds /\ f \in Fds /\ AvailableFrames(Refill) \in Nat
      /\ PendingUnits(Refill) = PendingUnits(input[f]) + ReadCount
      /\ received[s] \in Nat /\ ReadCount \in Nat
      /\ Holds(Refill, s, received[s] + ReadCount) /\ received[s] + ReadCount \in Nat
      /\ ValidFrames(Refill) \in 0..AvailableFrames(Refill)
  <2>1. received[s] \in Nat /\ ReadCount \in 0..RecvUnits
    BY RefillIs DEF InputInv
  <2>2. ReadCount \in Nat /\ received[s] + ReadCount \in Nat
    BY <2>1, ServerAssumption
  <2>. QED BY <2>1, <2>2, RefillIs DEF InputInv
<1>4. ASSUME NEW i \in 1..m
      PROVE  /\ u[i] = SentFrame(s, k + (i - 1)) /\ u[i][1][1] = s
             /\ k + (i - 1) \in Nat /\ k + (i - 1) # BadFrame[s]
  <2>1. i - 1 \in 0..(AvailableFrames(Refill) - 1) /\ k + (i - 1) \in Nat
    BY <1>1, <1>2, <1>3
  <2>2. u[i] = SentFrame(s, k + (i - 1)) /\ Decodes(u[i])
    BY <1>1, <2>1, NextFrames
  <2>3. SentFrame(s, k + (i - 1))[1][1] = s
        /\ (Decodes(SentFrame(s, k + (i - 1))) <=> k + (i - 1) # BadFrame[s])
    BY <1>2, <2>1, SentFrameIs
  <2>. QED BY <2>1, <2>2, <2>3, Zenon
<1>5. /\ stream' = stream \o u /\ invalid' = (ValidFrames(Refill) # AvailableFrames(Refill))
      /\ input' = [input EXCEPT ![f] = [data |-> Refill.data, offset |-> Refill.offset + m * FrameUnits]]
      /\ spc' \in {"check", "notify"} => m = ValidFrames(Refill)
      /\ UNCHANGED <<conn, clients, event>>
  BY DEF Publish
<1>6. stream' \in Seq(Frame)
  BY <1>1, <1>2, <1>5, Appended
<1>. HIDE DEF u
<1>7. \A c : FramesOf(c) = OfConn(stream, c) /\ FramesOf(c)' = OfConn(stream', c)
  <2>1. ASSUME NEW c PROVE FramesOf(c)' = OfConn(stream', c)
    BY <1>6, LenProperties DEF FramesOf, OfConn
  <2>. QED BY <1>2, <2>1, Counts
<1>8. Grown(stream', stream, m, s)
  <2>1. \A i \in 1..Len(u) : u[i][1][1] = s
    BY <1>1, <1>4
  <2>2. stream \in Seq(Frame) /\ u \in Seq(Frame)
    BY <1>1, <1>2
  <2>. HIDE DEF s
  <2>3. Grown(stream \o u, stream, Len(u), s)
    BY <2>1, <2>2, Extended
  <2>. QED BY <1>1, <1>5, <2>3
<1>9. Cardinality(OfConn(stream', s)) = k + m /\ Cardinality(OfConn(stream, s)) = k
  BY <1>7, <1>8 DEF Count, Grown
<1>10. \A c : c # s => FramesOf(c)' = FramesOf(c)
  BY <1>7, <1>8 DEF Grown
<1>11. InPlace'
  <2>1. ASSUME NEW i \in 1..Len(stream')
        PROVE  \E c \in Conns :
                 stream'[i] = SentFrame(c, Cardinality(Before(stream', c, i)))
    <3>1. i \in 1..Len(stream) \/ \E n \in 1..Len(u) : i = Len(stream) + n
      BY <1>1, <1>2, <1>5, Appended
    <3>2. CASE i \in 1..Len(stream)
      <4>1. PICK c \in Conns : stream[i] = SentFrame(c, Cardinality({j \in FramesOf(c) : j < i}))
        BY <3>2 DEF Framing, InPlace, head
      <4>2. stream'[i] = stream[i]
        BY <1>1, <1>2, <1>5, <3>2, Appended
      <4>3. Before(stream', c, i) = {j \in FramesOf(c) : j < i}
        BY <1>7, <1>8, <3>2 DEF Before, Grown
      <4>. QED BY <4>1, <4>2, <4>3
    <3>3. CASE \E n \in 1..Len(u) : i = Len(stream) + n
      <4>1. PICK n \in 1..m : i = Len(stream) + n
        BY <1>1, <3>3
      <4>2. stream'[i] = u[n]
        BY <1>1, <1>2, <1>5, <4>1, Appended
      <4>3. Cardinality(Before(stream', s, i)) = k + (n - 1)
        BY <1>8, <1>9, <4>1 DEF Grown
      <4>. QED BY <1>2, <1>4, <4>2, <4>3
    <3>. QED BY <3>1, <3>2, <3>3
  <2>2. DOMAIN stream' = 1..Len(stream')
    BY <1>6
  <2>. QED BY <2>1, <2>2 DEF InPlace, head, FramesOf, OfConn, Before
<1>12. Count(s)' = k + m /\ Count(Source)' = k + m /\ Source' = s
  BY <1>5, <1>7, <1>9 DEF Count, Source, FramesOf
<1>13. ASSUME NEW c \in Conns PROVE Untouched(c)'
  <2>1. CASE c = s
    <3>1. conn'[c] = "open"
      BY <1>3, <1>5, <2>1 DEF ControlInv, ClientsOpen, Source
    <3>. QED BY <3>1 DEF Untouched
  <2>2. CASE c # s
    <3>1. FramesOf(c)' = FramesOf(c) /\ received'[c] = received[c] /\ conn' = conn
      BY <1>5, <1>10, <2>2 DEF InputInv, Traffic
    <3>2. Untouched(c)
      BY DEF Framing
    <3>. QED BY <3>1, <3>2 DEF Untouched
  <2>. QED BY <2>1, <2>2
<1>14. ASSUME NEW c \in Conns PROVE BeforeBad(c)'
  <2>1. BeforeBad(c)
    BY DEF Framing
  <2>2. CASE c = s /\ BadFrame[s] # Never
    <3>1. BadFrame[s] \in Int /\ k <= BadFrame[s]
      BY <1>2, <2>1, <2>2, FramesAssumption DEF BeforeBad
    <3>. HIDE DEF k
    <3>2. k + m <= BadFrame[s]
      BY <1>1, <1>2, <1>4, <3>1, NotPassed
    <3>. QED BY <1>12, <2>2, <3>2 DEF BeforeBad, Count
  <2>3. CASE BadFrame[c] = Never
    BY <2>3 DEF BeforeBad
  <2>4. CASE c # s
    BY <1>10, <2>1, <2>4 DEF BeforeBad, Count
  <2>. QED BY <2>2, <2>3, <2>4
<1>. DEFINE d == [data |-> Refill.data, offset |-> Refill.offset + m * FrameUnits]
            mu == m * FrameUnits
<1>15. mu \in Nat /\ PendingUnits(d) = PendingUnits(Refill) - mu /\ d \in Buffer
  BY <1>1, <1>3, PublishedBuffer
<1>16. input' = [input EXCEPT ![f] = d] /\ input'[f] = d
  BY <1>3, <1>5 DEF InputInv, Buffers
<1>17. PendingUnits(input[event.fd])' = PendingUnits(d)
  BY <1>5, <1>16 DEF PendingUnits
<1>. HIDE DEF d
<1>18. AtBad'
  <2>. SUFFICES ASSUME spc' \in {"check", "notify"}, invalid'
                PROVE  k + m = BadFrame[s] /\ FrameUnits <= PendingUnits(d)
    BY <1>12, <1>17, Zenon DEF AtBad
  <2>1. m = ValidFrames(Refill) /\ m # AvailableFrames(Refill) /\ m < AvailableFrames(Refill)
    <3>1. m = ValidFrames(Refill)
      BY <1>5
    <3>2. ValidFrames(Refill) # AvailableFrames(Refill)
      BY <1>5, Zenon
    <3>. QED BY <1>1, <1>3, <3>1, <3>2
  <2>2. ~Decodes(FrameIn(Refill, m))
    BY <1>3, <2>1, ValidAre
  <2>3. m \in 0..(AvailableFrames(Refill) - 1) /\ k + m \in Nat
    BY <1>1, <1>2, <1>3, <2>1
  <2>4. k + m = BadFrame[s]
    BY <1>2, <2>2, <2>3, NextFrames, SentFrameIs
  <2>5. FrameUnits <= PendingUnits(d)
    <3>. DEFINE au == AvailableFrames(Refill) * FrameUnits
                mu1 == (m + 1) * FrameUnits
    <3>1. au <= PendingUnits(Refill) /\ PendingUnits(Refill) \in Nat
      BY <1>3, Available, BufferParts
    <3>2. mu1 = mu + FrameUnits /\ mu1 <= au /\ au \in Nat
      BY <1>1, <1>3, <2>1, FramesAssumption, Multiples
    <3>3. FrameUnits \in Nat
      BY FramesAssumption
    <3>. HIDE DEF au, mu1, mu
    <3>. QED BY <1>15, <3>1, <3>2, <3>3
  <2>. QED BY <2>4, <2>5
<1>19. ASSUME NEW g \in ClientFds' PROVE Aligned(g)'
  <2>1. g \in ClientFds /\ g \in Fds /\ clients' = clients
    BY <1>5 DEF ClientFds
  <2>2. Aligned(g)
    BY <2>1 DEF Framing
  <2>3. CASE g = f
    <3>. DEFINE ku == k * FrameUnits
    <3>1. received'[s] = received[s] + ReadCount
      BY <1>2 DEF InputInv, Traffic
    <3>2. received[s] = ku + PendingUnits(input[f]) /\ ku \in Nat
      BY NextFrames
    <3>3. (k + m) * FrameUnits = ku + mu
      BY <1>1, <1>2, FramesAssumption, Distribute
    <3>4. PendingUnits(d) = (PendingUnits(input[f]) + ReadCount) - mu
      BY <1>3, <1>15
    <3>5. PendingUnits(input[f]) \in Nat /\ PendingUnits(d) \in Nat
      BY <1>3, <1>15, BufferParts DEF InputInv, Buffers
    <3>6. received[s] + ReadCount = (ku + mu) + PendingUnits(d)
      <4>. HIDE DEF ku, mu
      <4>. QED BY <1>3, <1>15, <3>2, <3>4, <3>5, Shifted
    <3>7. received'[s] = (k + m) * FrameUnits + PendingUnits(d)
      BY <3>1, <3>3, <3>6, Zenon
    <3>8. received'[clients'[g]] = received'[s] /\ Count(clients[g])' = k + m
      BY <1>5, <1>7, <1>9, <2>1, <2>3 DEF Source, Count, FramesOf
    <3>9. PendingUnits(input[g])' = PendingUnits(d)
      BY <1>16, <2>3 DEF PendingUnits
    <3>. QED BY <3>7, <3>8, <3>9, Zenon DEF Aligned
  <2>4. CASE g # f
    <3>1. clients[g] # s /\ clients[g] \in Conns
      BY <1>3, <2>1, <2>4 DEF ControlInv, ClientsOpen, ControlTypes, ClientFds, Source
    <3>2. received'[clients[g]] = received[clients[g]]
      BY <3>1 DEF InputInv, Traffic
    <3>3. Count(clients[g])' = Count(clients[g])
      BY <1>10, <2>1, <3>1 DEF Count, FramesOf
    <3>4. PendingUnits(input[g])' = PendingUnits(input[g])
      BY <1>16, <2>1, <2>4 DEF PendingUnits, InputInv, Buffers
    <3>. QED BY <2>1, <2>2, <3>2, <3>3, <3>4, Zenon DEF Aligned
  <2>. QED BY <2>3, <2>4
<1>. QED BY <1>11, <1>13, <1>14, <1>18, <1>19 DEF Framing

(* compact() keeps what is pending.                                        *)
LEMMA CompactPending ==
  ASSUME ControlInv, InputInv, NEW f \in ClientFds
  PROVE  /\ clients[f] \in Conns /\ f \in Fds
         /\ PendingUnits(Compact(input[f])) = PendingUnits(input[f])
<1>1. clients[f] \in Conns /\ f \in Fds
  BY DEF ControlInv, ControlTypes, ClientFds
<1>2. /\ input[f] \in Buffer /\ received[clients[f]] \in Nat
      /\ Holds(input[f], clients[f], received[clients[f]])
  BY <1>1 DEF InputInv, Buffers, Traffic
<1>. QED BY <1>1, <1>2, CompactHolds

(* The pause keeps the invariant: the connections stay aligned while they  *)
(* are not read.                                                           *)
LEMMA FramingPaused ==
  ASSUME ControlInv, InputInv, Framing, spc = "notify", UNCHANGED stream,
         PauseIngress(IF invalid THEN {event.fd} ELSE {})
  PROVE  Framing'
<1>. DEFINE gone == IF invalid THEN {event.fd} ELSE {}
<1>1. CASE ClientFds \ gone \subseteq watched
  <2>. HIDE DEF gone
  <2>1. /\ clients' = [f \in Fds |-> IF f \in gone THEN NoConn ELSE clients[f]]
        /\ input' = [f \in Fds |-> IF f \in gone THEN EmptyBuffer
                                   ELSE IF f = event.fd THEN Compact(input[f])
                                   ELSE input[f]]
        /\ conn' = Closed(gone, FALSE) /\ spc' = "dispatch" /\ received' = received
    BY <1>1 DEF PauseIngress, NextEvent, gone
  <2>2. ClientFds' = ClientFds \ gone
    BY <2>1 DEF ClientFds
  <2>3. \A c \in Conns : conn'[c] \in {"none", "backlog"} => conn[c] \in {"none", "backlog"}
    BY <2>1 DEF Closed
  <2>4. ASSUME NEW f \in ClientFds \ gone
        PROVE  /\ clients'[f] = clients[f] /\ clients[f] \in Conns
               /\ PendingUnits(input'[f]) = PendingUnits(input[f])
    BY <2>1, CompactPending
  <2>. QED BY <2>1, <2>2, <2>3, <2>4, FramingKept
<1>2. CASE ~(ClientFds \ gone \subseteq watched)
  <2>1. Stop("failure")
    BY <1>2 DEF PauseIngress
  <2>. QED BY <2>1, FramingStop
<1>. QED BY <1>1, <1>2

(* So does a step that neither reads, publishes nor changes the clients.   *)
LEMMA FramingQuiet ==
  ASSUME ControlInv, Framing, UNCHANGED <<stream, received, clients, input>>,
         \A c \in Conns : conn'[c] \in {"none", "backlog"} => conn[c] \in {"none", "backlog"},
         spc' \in {"check", "notify"} /\ invalid' =>
           spc \in {"check", "notify"} /\ invalid /\ UNCHANGED event
  PROVE  Framing'
<1>1. ClientFds' = ClientFds
  BY DEF ClientFds
<1>2. \A f \in ClientFds : clients[f] \in Conns
  BY DEF ControlInv, ControlTypes, ClientFds
<1>. QED BY <1>1, <1>2, FramingKept

(* Every step of the server keeps the invariant, one case per action.      *)
LEMMA FramingServerStep ==
  ASSUME ControlInv, InputInv, Framing, ServerStep
  PROVE  Framing'
<1>0. conn \in [Conns -> {"none", "backlog", "open", "closed"}]
  BY DEF ControlInv, ControlTypes
<1>1. CASE ReceiveData
  <2>1. /\ spc = "recv" /\ received' = [received EXCEPT ![Source] = @ + ReadCount]
        /\ \/ RemoveClients({event.fd}) /\ NextEvent /\ UNCHANGED stream
           \/ \E t \in tailSeen..tail, m \in 0..ValidFrames(Refill) : Publish(t, m)
    BY <1>1, ReceiveCases DEF InputInv
  <2>2. \A c \in Conns \ {Source} : received'[c] = received[c]
    BY <2>1 DEF InputInv, Traffic
  <2>3. CASE RemoveClients({event.fd}) /\ NextEvent /\ UNCHANGED stream
    BY <2>1, <2>2, <2>3, FramingRemoved DEF Reading
  <2>4. CASE \E t \in tailSeen..tail, m \in 0..ValidFrames(Refill) : Publish(t, m)
    BY <2>1, <2>4, FramingReceived
  <2>. QED BY <2>1, <2>3, <2>4
<1>2. CASE AcceptClient
  BY <1>2, FramingAccepted
<1>3. CASE LoopTop
  <2>1. UNCHANGED stream
    BY <1>3 DEF LoopTop
  <2>2. CASE Stop("success")
    BY <2>1, <2>2, FramingStop
  <2>3. CASE ~Stop("success")
    BY <1>3, <2>1, <2>3, FramingQuiet DEF LoopTop, socketVars, clientVars
  <2>. QED BY <2>2, <2>3
<1>4. CASE SignalEvent
  <2>1. UNCHANGED stream
    BY <1>4 DEF SignalEvent, ipcVars
  <2>2. CASE Stop("failure")
    BY <2>1, <2>2, FramingStop
  <2>3. CASE ShutdownRequested /\ ~Stop("failure")
    <3>1. /\ clients' = [f \in Fds |-> NoConn] /\ conn' = Closed(ClientFds, TRUE)
          /\ UNCHANGED <<received, spc>> /\ spc = "dispatch"
      BY <1>4, <2>3 DEF SignalEvent
    <3>2. ClientFds' = {}
      BY <3>1 DEF ClientFds
    <3>3. \A c \in Conns : conn'[c] \in {"none", "backlog"} => conn[c] \in {"none", "backlog"}
      BY <3>1 DEF Closed
    <3>. QED BY <2>1, <3>1, <3>2, <3>3, FramingKept
  <2>4. CASE ~ShutdownRequested /\ ~Stop("failure")
    BY <1>4, <2>1, <2>4, FramingQuiet DEF SignalEvent, socketVars, clientVars
  <2>. QED BY <2>2, <2>3, <2>4
<1>5. CASE ResumeCheck
  <2>1. UNCHANGED stream
    BY <1>5 DEF ResumeCheck
  <2>2. CASE Stop("failure")
    BY <2>1, <2>2, FramingStop
  <2>3. CASE ~Stop("failure")
    <3>1. NextEvent /\ UNCHANGED <<conn, received, clients, input>>
      BY <1>5, <2>3 DEF ResumeCheck, ResumeIngress, socketVars, clientVars
    <3>. QED BY <2>1, <3>1, FramingQuiet DEF NextEvent
  <2>. QED BY <2>2, <2>3
<1>6. CASE NotifyReader
  <2>1. UNCHANGED stream /\ spc = "notify" /\ spc \in Reading
    BY <1>6 DEF NotifyReader, Reading
  <2>2. CASE PauseIngress(IF invalid THEN {event.fd} ELSE {})
    BY <2>1, <2>2, FramingPaused
  <2>3. CASE RemoveClients({event.fd}) /\ NextEvent /\ UNCHANGED received
    BY <2>1, <2>3, FramingRemoved
  <2>4. CASE /\ input' = [input EXCEPT ![event.fd] = Compact(@)]
             /\ spc' = "recv" /\ UNCHANGED <<conn, received, clients>>
    <3>1. ClientFds' = ClientFds
      BY <2>4 DEF ClientFds
    <3>2. ASSUME NEW f \in ClientFds
          PROVE  clients[f] \in Conns /\ PendingUnits(input'[f]) = PendingUnits(input[f])
      BY <2>4, CompactPending DEF InputInv, Buffers
    <3>. QED BY <2>1, <2>4, <3>1, <3>2, FramingKept
  <2>. QED BY <1>6, <2>2, <2>3, <2>4 DEF NotifyReader, socketVars
<1>7. CASE RingFull
  BY <1>7, FramingStop DEF RingFull
<1>8. CASE ReceiveEnd \/ (ReceiveAgain /\ event.hup)
  BY <1>8, FramingRemoved DEF ReceiveEnd, ReceiveAgain, Reading, ipcVars
<1>9. CASE ReceiveAgain /\ ~event.hup
  BY <1>9, FramingQuiet DEF ReceiveAgain, NextEvent, ipcVars, clientVars
<1>10. CASE PauseCheck
  BY <1>10, FramingQuiet DEF PauseCheck, socketVars, clientVars
<1>11. CASE StartServer \/ EpollWait \/ BatchDone \/ ListenEvent \/ AcceptDone \/ SpaceEvent
            \/ ClientEvent
  <2>1. /\ UNCHANGED <<stream, received, clients, input, conn>>
        /\ spc' \notin {"check", "notify"}
    BY <1>11 DEF StartServer, EpollWait, BatchDone, ListenEvent, AcceptDone, SpaceEvent, ClientEvent,
                 socketVars, clientVars, ipcVars
  <2>. QED BY <2>1, FramingQuiet
<1>. QED BY <1>1, <1>2, <1>3, <1>4, <1>5, <1>6, <1>7, <1>8, <1>9, <1>10, <1>11 DEF ServerStep

(* So does every failure in the server.                                    *)
LEMMA FramingServerFault ==
  ASSUME ControlInv, Framing, ServerFault
  PROVE  Framing'
<1>1. CASE AcceptUnwatched
  <2>1. /\ UNCHANGED <<stream, received, clients, input, spc>> /\ spc = "accept"
        /\ \E c \in Backlog : conn' = [conn EXCEPT ![c] = "closed"]
    BY <1>1 DEF AcceptUnwatched, ipcVars, clientVars
  <2>2. conn \in [Conns -> {"none", "backlog", "open", "closed"}]
    BY DEF ControlInv, ControlTypes
  <2>3. \A c \in Conns : conn'[c] \in {"none", "backlog"} => conn[c] \in {"none", "backlog"}
    BY <2>1, <2>2 DEF Backlog
  <2>. QED BY <2>1, <2>3, FramingQuiet
<1>2. CASE ~AcceptUnwatched
  <2>1. Stop("failure") /\ UNCHANGED stream
    BY <1>2 DEF ServerFault, StartFails, EpollWaitFails, AcceptFails, EventFails, ListenFails,
                NotifyReaderFails, IngressFails, ipcVars
  <2>. QED BY <2>1, FramingStop
<1>. QED BY <1>1, <1>2

(* So do the peers.                                                        *)
LEMMA FramingPeer ==
  ASSUME ControlInv, Framing, Peer
  PROVE  Framing'
<1>1. /\ UNCHANGED <<stream, received, clients, input, spc, invalid, event>>
      /\ \A c \in Conns : conn'[c] \in {"none", "backlog"} => conn[c] \in {"none", "backlog"}
  BY DEF Peer, Connect, Send, HangUp, Reset, ipcVars, clientVars, localVars, ControlInv,
         ControlTypes
<1>. QED BY <1>1, FramingQuiet

(* The invariant of the frames of each connection holds of every           *)
(* behaviour.  Rebase, no step of the program, forgets frames and is       *)
(* excluded.                                                               *)
THEOREM FramingInvariant ==
  ASSUME Endless = {}
  PROVE  Spec => []Framing
<1>1. Init => Framing
  <2>. SUFFICES ASSUME Init PROVE Framing
    OBVIOUS
  <2>1. /\ stream = <<>> /\ spc = "start" /\ received = [c \in Conns |-> 0]
        /\ clients = [f \in Fds |-> NoConn]
    BY DEF Init, IpcInit, ServerInit
  <2>2. ClientFds = {} /\ head = 0 /\ \A c : FramesOf(c) = {}
    BY <2>1 DEF ClientFds, head, FramesOf
  <2>3. \A c : Count(c) = 0
    BY <2>2, FS_EmptySet DEF Count
  <2>4. \A c \in Conns : Untouched(c) /\ BeforeBad(c)
    BY <2>1, <2>2, <2>3, FramesAssumption DEF Untouched, BeforeBad
  <2>. QED BY <2>1, <2>2, <2>4 DEF Framing, InPlace, AtBad
<1>2. ControlInv /\ InputInv /\ Framing /\ [Next]_vars => Framing'
  <2>. SUFFICES ASSUME ControlInv, InputInv, Framing, [Next]_vars PROVE Framing'
    OBVIOUS
  <2>1. CASE ServerActs
    BY <2>1, FramingServerStep DEF ServerActs
  <2>2. CASE ServerFails
    BY <2>2, FramingServerFault DEF ServerFails
  <2>3. CASE ReaderActs \/ ReaderFails
    <3>1. UNCHANGED stream
      BY <2>3, ReaderAnyIpc DEF ReaderActs, ReaderFails, InputInv, ReaderIpc
    <3>. QED BY <2>3, <3>1, FramingQuiet
         DEF ReaderActs, ReaderFails, serverButChild, socketVars, clientVars, localVars
  <2>4. CASE Peer
    BY <2>4, FramingPeer
  <2>5. CASE SignalfdFails \/ KillMain
    BY <2>5, FramingStop DEF SignalfdFails, KillMain, ipcVars
  <2>6. CASE UNCHANGED <<stream, socketVars, clientVars, localVars, spc, event>>
    BY <2>6, FramingQuiet DEF socketVars, clientVars, localVars
  <2>. QED BY <2>1, <2>2, <2>3, <2>4, <2>5, <2>6
       DEF Next, MainStep, MainFault, ParseArguments, Fork, CloseRing, WakeReader, WaitReader,
           SetupFails, WakeReaderFails, WaitReaderFails, Terminate, KillReader, StopReader,
           ContinueReader, SignalReader, serverButChild, Idle, Rebase, vars, ipcVars, serverVars
<1>. QED BY <1>1, <1>2, ControlInvariant, InputInvariant, PTL DEF Spec

(* However recv() splits the bytes of a connection, however connections    *)
(* are interleaved and descriptors reused, readClient() publishes for each *)
(* connection the frames it sent, in order and cut at the right places,    *)
(* and none that decode() refuses.                                         *)
THEOREM StreamsStayIntact ==
  ASSUME Endless = {}
  PROVE  Spec => []StreamsIntact
<1>1. InputInv /\ Decodable /\ Framing => StreamsIntact
  <2>. SUFFICES ASSUME InputInv, Decodable, Framing, NEW i \in DOMAIN stream
                PROVE  /\ stream[i] = SentFrame(stream[i][1][1],
                                        Cardinality({j \in FramesOf(stream[i][1][1]) : j < i}))
                       /\ Decodes(stream[i])
    BY DEF StreamsIntact
  <2>1. /\ i \in 1..head
        /\ \A c : Cardinality({j \in FramesOf(c) : j < i}) \in Nat
    BY Counts DEF InputInv, Ring
  <2>2. PICK c \in Conns : stream[i] = SentFrame(c, Cardinality({j \in FramesOf(c) : j < i}))
    BY <2>1 DEF Framing, InPlace
  <2>3. stream[i][1][1] = c
    BY <2>1, <2>2, SentFrameIs
  <2>. QED BY <2>1, <2>2, <2>3 DEF Decodable
<1>. QED BY <1>1, InputInvariant, HonestInvariant, FramingInvariant, PTL

-----------------------------------------------------------------------------
(* A frame less a unit and a whole read are within the limit of the input  *)
(* buffer.  In the code, 31 + 4096 are not more than 65536.                *)
Roomy == FrameUnits + RecvUnits <= MaxInput + 1

(* A client whose bytes are all read, or who is at its invalid frame, has  *)
(* everything published that can be.                                       *)
LEMMA AllPublished ==
  ASSUME ControlInv, InputInv, Framing, NEW f \in ClientFds, NEW c, c = clients[f],
         \/ received[c] = sent[c] /\ PendingUnits(input[f]) < FrameUnits
         \/ Count(c) = BadFrame[c] /\ FrameUnits <= PendingUnits(input[f])
  PROVE  Count(c) = Complete(c)
<1>1. c \in Conns /\ f \in Fds
  BY DEF ControlInv, ControlTypes, ClientFds
<1>2. received[c] \in Nat /\ sent[c] \in Nat /\ received[c] <= sent[c] /\ Count(c) \in Nat
  BY <1>1, Counts DEF InputInv, Traffic, Ring
<1>3. PendingUnits(input[f]) \in Nat
  BY <1>1, BufferParts DEF InputInv, Buffers
<1>4. FrameUnits \in Nat \ {0}
  BY FramesAssumption
<1>. DEFINE ku == Count(c) * FrameUnits
<1>5. received[c] = ku + PendingUnits(input[f])
  BY DEF Framing, Aligned
<1>6. ku \in Nat
  BY <1>2, <1>4, Distribute
<1>7. CASE received[c] = sent[c] /\ PendingUnits(input[f]) < FrameUnits
  <2>1. ku <= sent[c] /\ sent[c] < ku + FrameUnits
    <3>. HIDE DEF ku
    <3>. QED BY <1>2, <1>3, <1>4, <1>5, <1>6, <1>7
  <2>2. sent[c] \div FrameUnits = Count(c)
    BY <1>2, <1>4, <2>1, Whole
  <2>3. BeforeBad(c)
    BY <1>1 DEF Framing
  <2>. QED BY <2>2, <2>3 DEF Complete, Smaller, BeforeBad
<1>8. CASE Count(c) = BadFrame[c] /\ FrameUnits <= PendingUnits(input[f])
  <2>1. ku <= sent[c]
    <3>. HIDE DEF ku
    <3>. QED BY <1>2, <1>3, <1>5, <1>6
  <2>2. Count(c) <= sent[c] \div FrameUnits
    BY <1>2, <1>4, <2>1, Quotient
  <2>3. sent[c] \div FrameUnits \in Nat
    BY <1>2, <1>4, <2>1, Quotient
  <2>4. BadFrame[c] # Never
    BY <1>2, <1>8 DEF Never
  <2>. DEFINE n == sent[c] \div FrameUnits
  <2>5. Complete(c) = Smaller(n, BadFrame[c])
    BY <2>4 DEF Complete
  <2>. HIDE DEF n
  <2>6. n \in Nat /\ Count(c) <= n
    BY <2>2, <2>3 DEF n
  <2>. QED BY <1>2, <1>8, <2>5, <2>6 DEF Smaller
<1>. QED BY <1>7, <1>8

(* No step of the server closes a connection that was not reset before its *)
(* complete frames are published.                                          *)
LEMMA ClosingServerStep ==
  ASSUME Roomy, ControlInv, InputInv, Framing, ServerStep, NEW c \in Conns, ClosedUnread(c)
  PROVE  FALSE
<1>. USE DEF ClosedUnread
<1>1. /\ conn[c] = "open" /\ conn'[c] = "closed" /\ state' = "Running" /\ spc' # "stopped"
      /\ hangup[c] # "rst" /\ Count(c) # Complete(c)
  BY DEF Count
<1>2. ASSUME spc \in Reading, conn' = Closed({event.fd}, FALSE)
      PROVE  event.fd \in ClientFds /\ c = clients[event.fd]
  BY <1>1, <1>2 DEF Closed, ControlInv, Phases
<1>3. CASE ReceiveData
  <2>1. /\ spc = "recv"
        /\ \/ PendingUnits(Refill) > MaxInput
           \/ UNCHANGED conn
    BY <1>3, ReceiveCases DEF InputInv, Publish
  <2>2. PendingUnits(Refill) < FrameUnits + RecvUnits /\ PendingUnits(Refill) \in Nat
    BY <2>1, RefillIs, BufferParts DEF InputInv
  <2>3. FrameUnits \in Nat /\ RecvUnits \in Nat /\ MaxInput \in Nat
    BY FramesAssumption, ServerAssumption
  <2>4. ~(PendingUnits(Refill) > MaxInput)
    BY <2>2, <2>3 DEF Roomy
  <2>. QED BY <1>1, <2>1, <2>4
<1>4. CASE ReceiveEnd \/ ReceiveAgain
  <2>1. /\ spc = "recv"
        /\ conn' = Closed({event.fd}, FALSE) \/ UNCHANGED conn
    BY <1>4 DEF ReceiveEnd, ReceiveAgain, RemoveClients
  <2>2. event.fd \in ClientFds /\ c = clients[event.fd] /\ event.fd \in Fds
    BY <1>1, <1>2, <2>1 DEF Reading, ClientFds
  <2>3. ~(received[c] < sent[c])
    BY <1>1, <1>4, <2>2 DEF ReceiveEnd, ReceiveAgain, Readable, InputInv, Traffic
  <2>4. received[c] = sent[c]
    BY <2>3 DEF InputInv, Traffic
  <2>5. PendingUnits(input[event.fd]) < FrameUnits
    BY <2>1, <2>2 DEF InputInv, Buffers, Bounded, Busy
  <2>. QED BY <1>1, <2>2, <2>4, <2>5, AllPublished
<1>5. CASE NotifyReader
  <2>1. spc = "notify" /\ event.fd \in ClientFds
    BY <1>5 DEF NotifyReader, ControlInv, Phases, Reading
  <2>2. CASE ~invalid
    <3>1. conn' = Closed({}, FALSE) \/ UNCHANGED conn
      BY <1>1, <1>5, <2>2 DEF NotifyReader, PauseIngress, Stop, socketVars
    <3>. QED BY <1>1, <3>1 DEF Closed
  <2>3. CASE invalid
    <3>1. conn' = Closed({event.fd}, FALSE)
      BY <1>1, <1>5, <2>3 DEF NotifyReader, PauseIngress, Stop, RemoveClients
    <3>2. c = clients[event.fd]
      BY <1>2, <2>1, <3>1 DEF Reading
    <3>3. Count(c) = BadFrame[c] /\ FrameUnits <= PendingUnits(input[event.fd])
      BY <2>1, <2>3, <3>2 DEF Framing, AtBad, Source
    <3>. QED BY <1>1, <2>1, <3>2, <3>3, AllPublished
  <2>. QED BY <2>2, <2>3
<1>6. CASE AcceptClient
  BY <1>1, <1>6 DEF AcceptClient, ControlInv, ControlTypes
<1>7. CASE SignalEvent
  BY <1>1, <1>7 DEF SignalEvent, Stop, socketVars
<1>. QED BY <1>1, <1>3, <1>4, <1>5, <1>6, <1>7
     DEF ServerStep, StartServer, LoopTop, EpollWait, BatchDone, ListenEvent, AcceptDone,
         SpaceEvent, ResumeCheck, ResumeIngress, ClientEvent, PauseCheck, RingFull, Stop, socketVars

(* A running server closes a connection that its peer did not reset only   *)
(* when all its complete frames, up to an invalid one, are published: a    *)
(* hang-up reported together with data, a pause in between, or an invalid  *)
(* frame behind valid ones loses nothing.                                  *)
THEOREM NoFramesAreDropped ==
  ASSUME Endless = {}, Roomy
  PROVE  Spec => NoFramesDropped
<1>1. ControlInv /\ InputInv /\ Framing /\ [Next]_vars => [\A c \in Conns : ~ClosedUnread(c)]_vars
  <2>. SUFFICES ASSUME ControlInv, InputInv, Framing, Next, NEW c \in Conns, ClosedUnread(c)
                PROVE  FALSE
    OBVIOUS
  <2>0. conn[c] = "open" /\ conn'[c] = "closed" /\ spc' # "stopped"
    BY DEF ClosedUnread
  <2>1. CASE ServerActs
    BY <2>1, ClosingServerStep DEF ServerActs
  <2>2. CASE ServerFails
    BY <2>0, <2>2 DEF ServerFails, ServerFault, StartFails, EpollWaitFails, AcceptFails,
         AcceptUnwatched, EventFails, ListenFails, NotifyReaderFails, IngressFails, Stop, Backlog, ControlInv,
         ControlTypes
  <2>3. CASE Peer
    BY <2>0, <2>3 DEF Peer, Connect, Send, HangUp, Reset, ControlInv, ControlTypes
  <2>4. CASE SignalfdFails \/ KillMain
    BY <2>0, <2>4 DEF SignalfdFails, KillMain, Stop
  <2>. QED BY <2>0, <2>1, <2>2, <2>3, <2>4
       DEF Next, ReaderActs, ReaderFails, MainStep, MainFault, ParseArguments, Fork, CloseRing,
           WakeReader, WaitReader, SetupFails, WakeReaderFails, WaitReaderFails, Terminate,
           KillReader, StopReader, ContinueReader, SignalReader, serverButChild, Idle, Rebase, vars, serverVars, socketVars
<1>. QED BY <1>1, ControlInvariant, InputInvariant, FramingInvariant, PTL DEF Spec, NoFramesDropped

-----------------------------------------------------------------------------
(* The reader changes the file only by appending, also when it fails.      *)
LEMMA FileGrows ==
  ASSUME ReaderInv, ReaderStep \/ ReaderFault
  PROVE  /\ rstatus = "running"
         /\ \E s \in Seq(Frame) : file' = file \o s
<1>1. rstatus = "running"
  BY DEF ReaderStep, ReaderFault, OpenFile, Pop, ProcessFrame, ProcessDone, Flush, ReportSpace,
         CheckClosed, FinalSync, AwaitData, OpenFails, ProcessFails, FlushFails, ReportSpaceFails,
         FinalSyncFails, AwaitDataFails, At
<1>2. /\ file \in Seq(Frame) /\ batch \in Seq(Frame) /\ file = file \o <<>>
      /\ <<>> \in Seq(Frame)
      /\ (ipcBatch # <<>> => batch \o <<Head(ipcBatch)>> \in Seq(Frame))
  BY <1>1, StagedRunning, LiesHead DEF ReaderInv, ReaderTypes
<1>3. \A s \in Seq(Frame) : \A k \in 0..Len(s) : SubSeq(s, 1, k) \in Seq(Frame)
  OBVIOUS
<1>4. CASE UNCHANGED file
  <2>1. file' = file \o <<>>
    BY <1>2, <1>4
  <2>. QED BY <1>1, <1>2, <2>1
<1>5. CASE ProcessFrame
  <2>1. ipcBatch # <<>> /\ file' \in {file, file \o batch, file \o (batch \o <<Head(ipcBatch)>>)}
    BY <1>5 DEF ProcessFrame, StoreAppend
  <2>. QED BY <1>1, <1>2, <1>4, <2>1
<1>6. CASE Flush
  BY <1>1, <1>2, <1>6 DEF Flush, StoreAppend
<1>7. CASE ProcessFails \/ FlushFails
  BY <1>1, <1>2, <1>3, <1>7 DEF ProcessFails, FlushFails, AppendFails
<1>. QED BY <1>4, <1>5, <1>6, <1>7
     DEF ReaderStep, ReaderFault, OpenFile, Pop, ProcessDone, ReportSpace,
         CheckClosed, FinalSync, AwaitData, OpenFails, ReportSpaceFails, FinalSyncFails,
         AwaitDataFails

(* A step that changes neither the stream, the file, its durability nor    *)
(* the exit code is a stutter of the service.                              *)
LEMMA ServiceStutters ==
  ASSUME UNCHANGED <<stream, file, synced, exitCode>>
  PROVE  UNCHANGED Service!serviceVars
BY DEF Service!serviceVars

(* Publishing a batch is an acceptance of frames by the service.           *)
LEMMA ServicePublish ==
  ASSUME ControlInv, InputInv, Framing, spc = "recv", exitCode = "none",
         UNCHANGED <<file, synced, exitCode>>,
         NEW t \in tailSeen..tail, NEW m \in 0..ValidFrames(Refill), Publish(t, m)
  PROVE  [Service!Next]_(Service!serviceVars)
<1>. DEFINE u == FirstFrames(Refill, m)
            k == Count(Source)
<1>1. /\ m \in 0..AvailableFrames(Refill) /\ m \in Nat /\ u \in Seq(Frame) /\ Len(u) = m
      /\ \A i \in 1..m : u[i] = FrameIn(Refill, i - 1) /\ Decodes(u[i])
  BY PublishedFrames
<1>2. stream' = stream \o u /\ stream \in Seq(Frame)
  BY DEF Publish, InputInv, Ring
<1>3. Source \in Conns /\ k \in Nat
  BY NextFrames
<1>4. AvailableFrames(Refill) \in Nat
  BY RefillIs DEF InputInv
<1>. DEFINE next == [i \in 1..m |-> SentFrame(Source, k + i - 1)]
<1>5. ASSUME NEW i \in 1..m PROVE u[i] = SentFrame(Source, k + i - 1)
  <2>1. i - 1 \in 0..(AvailableFrames(Refill) - 1) /\ k + (i - 1) = k + i - 1
    BY <1>1, <1>3, <1>4
  <2>2. FrameIn(Refill, i - 1) = SentFrame(Source, k + (i - 1))
    BY <2>1, NextFrames
  <2>. QED BY <1>1, <2>1, <2>2
<1>. HIDE DEF u
<1>6. u = next
  <2>1. u = [i \in 1..m |-> u[i]]
    BY <1>1
  <2>. HIDE DEF k
  <2>. QED BY <1>5, <2>1
<1>7. Len(stream') = Len(stream) + m /\ Len(stream) \in Nat
  BY <1>1, <1>2, Appended
<1>8. CASE m = 0
  <2>1. u = <<>>
    BY <1>1, <1>8
  <2>2. stream' = stream
    BY <1>2, <2>1
  <2>. QED BY <2>2, ServiceStutters
<1>9. CASE m # 0
  <2>1. m \in 1..Len(stream')
    BY <1>1, <1>7, <1>9
  <2>2. \A i \in 1..m : Decodes(next[i])
    BY <1>1, <1>6
  <2>3. Service!AcceptedOf(Source) = k
    BY Zenon DEF Service!AcceptedOf, Service!Cardinality, Cardinality, Count, FramesOf
  <2>4. \A c, n : Service!SentFrame(c, n) = SentFrame(c, n)
    BY DEF Service!SentFrame, SentFrame, Service!Units, Units
  <2>5. \A f : Service!Decodes(f) = Decodes(f)
    BY DEF Service!Decodes, Decodes
  <2>6. Service!Accept(Source)
    <3>1. stream' = stream \o next
      BY <1>2, <1>6
    <3>. HIDE DEF k
    <3>. QED BY <2>1, <2>2, <2>3, <2>4, <2>5, <3>1 DEF Service!Accept
  <2>. QED BY <1>3, <2>6 DEF Service!Next
<1>. QED BY <1>8, <1>9

(* Every step of the server, and every failure in it, is a step of the     *)
(* service or a stutter.                                                   *)
LEMMA ServiceServer ==
  ASSUME ControlInv, InputInv, ReaderInv, Framing, mpc = "server", ServerStep \/ ServerFault,
         UNCHANGED <<readerVars, mpc, exitCode>>
  PROVE  [Service!Next]_(Service!serviceVars)
<1>1. exitCode = "none" /\ UNCHANGED <<file, synced, exitCode>>
  BY DEF ReaderInv, Endings, readerVars
<1>2. CASE ReceiveData
  <2>1. /\ spc = "recv"
        /\ \/ UNCHANGED stream
           \/ \E t \in tailSeen..tail, m \in 0..ValidFrames(Refill) : Publish(t, m)
    BY <1>2, ReceiveCases DEF InputInv
  <2>. QED BY <1>1, <2>1, ServiceStutters, ServicePublish
<1>3. CASE ~ReceiveData
  <2>1. UNCHANGED stream
    BY <1>3, ServerStepIpc, ServerFaultIpc DEF InputInv, ServerIpc
  <2>. QED BY <1>1, <2>1, ServiceStutters
<1>. QED BY <1>2, <1>3

(* Every step of the reader, and every failure in it, stores what was      *)
(* accepted, syncs it, or stutters.                                        *)
LEMMA ServiceReader ==
  ASSUME InputInv, ReaderInv, Honest, ReaderInv', ReaderStep \/ ReaderFault, UNCHANGED exitCode
  PROVE  [Service!Next]_(Service!serviceVars)
<1>1. UNCHANGED stream
  BY ReaderAnyIpc DEF InputInv, ReaderIpc
<1>2. PICK s \in Seq(Frame) : file' = file \o s
  BY FileGrows
<1>3. exitCode = "none"
  BY FileGrows DEF Honest, Alive
<1>4. Len(file') = Len(file) + Len(s) /\ Len(file) \in Nat /\ Len(s) \in Nat
  BY <1>2, Appended DEF ReaderInv, ReaderTypes
<1>5. LiesAt(file', stream, 0)
  BY <1>1 DEF ReaderInv, Staged, LiesAt
<1>6. file' = SubSeq(stream, 1, Len(file')) /\ Len(file') <= Len(stream) /\ Len(stream) \in Nat
  BY <1>5, LiesFirst, LiesTypes
<1>7. synced' \in BOOLEAN
  BY DEF ReaderInv, ReaderTypes
<1>8. Service!Store(Len(s))
  BY <1>1, <1>3, <1>4, <1>6, <1>7 DEF Service!Store
<1>9. Len(s) \in 0..Len(stream)
  BY <1>4, <1>6
<1>. QED BY <1>8, <1>9 DEF Service!Next

(* The program ends as the service may.                                    *)
LEMMA ServiceEnds ==
  ASSUME ControlInv, ReaderInv, Honest, ParseArguments \/ SetupFails \/ WaitReader \/ WaitReaderFails
  PROVE  [Service!Next]_(Service!serviceVars)
<1>1. /\ UNCHANGED <<stream, file, synced>>
      /\ mpc \in {"parse", "setup", "wait"}
      /\ \/ exitCode' = exitCode
         \/ exitCode' = "failure"
         \/ exitCode' = "success" /\ mpc = "parse"
         \/ exitCode' = result /\ rstatus = "exit0"
  BY DEF ParseArguments, SetupFails, WaitReader, WaitReaderFails, ExitMain, ipcVars, readerVars
<1>2. exitCode = "none"
  BY <1>1 DEF ReaderInv, Endings
<1>3. CASE exitCode' = exitCode
  BY <1>1, <1>3, ServiceStutters
<1>4. CASE exitCode' = "failure"
  <2>1. Service!Finish("failure")
    BY <1>1, <1>2, <1>4 DEF Service!Finish
  <2>. QED BY <2>1 DEF Service!Next
<1>5. CASE exitCode' = "success"
  <2>1. file = stream /\ synced
    <3>1. CASE rstatus = "exit0"
      BY <3>1 DEF ReaderInv, Endings
    <3>2. CASE mpc = "parse"
      <4>1. rstatus = "none" /\ stream = <<>> /\ synced
        BY <3>2 DEF ReaderInv, Endings, Honest
      <4>2. LiesAt(file, stream, 0)
        BY DEF ReaderInv, Staged
      <4>3. Len(file) \in Nat /\ Len(file) <= Len(stream) /\ Len(stream) = 0
        BY <4>1, <4>2, LiesTypes
      <4>4. Len(file) = Len(stream)
        BY <4>3
      <4>. QED BY <4>1, <4>2, <4>4, LiesFirst
    <3>. QED BY <1>1, <1>2, <1>5, <3>1, <3>2
  <2>2. Service!Finish("success")
    BY <1>1, <1>2, <1>5, <2>1 DEF Service!Finish
  <2>. QED BY <2>2 DEF Service!Next
<1>6. result \in {"success", "failure"}
  BY DEF ControlInv, ControlTypes
<1>. QED BY <1>1, <1>3, <1>4, <1>5, <1>6

(* The whole program, with its two processes, its faults and its signals,  *)
(* implements TelemetryService: what it accepts it stores in order, and    *)
(* success is reported only when everything accepted is stored and         *)
(* durable.                                                                *)
THEOREM ServiceImplemented ==
  ASSUME Endless = {}
  PROVE  Spec => ImplementsService
<1>1. Init => Service!Init
  BY DEF Init, IpcInit, ReaderInit, Service!Init
<1>2. ControlInv /\ InputInv /\ ReaderInv /\ ReaderInv' /\ Honest /\ Framing /\ [Next]_vars
        => [Service!Next]_(Service!serviceVars)
  <2>. SUFFICES ASSUME ControlInv, InputInv, ReaderInv, ReaderInv', Honest, Framing, [Next]_vars
                PROVE  [Service!Next]_(Service!serviceVars)
    OBVIOUS
  <2>1. CASE ServerActs \/ ServerFails
    BY <2>1, ServiceServer DEF ServerActs, ServerFails
  <2>2. CASE ReaderActs \/ ReaderFails
    BY <2>2, ServiceReader DEF ReaderActs, ReaderFails, mainVars
  <2>3. CASE ParseArguments \/ SetupFails \/ WaitReader \/ WaitReaderFails
    BY <2>3, ServiceEnds
  <2>4. CASE UNCHANGED <<stream, file, synced, exitCode>>
    BY <2>4, ServiceStutters
  <2>. QED BY <2>1, <2>2, <2>3, <2>4
       DEF Next, MainStep, MainFault, Fork, CloseRing, WakeReader, SignalfdFails, WakeReaderFails,
           KillMain, Peer, Terminate, KillReader, StopReader, ContinueReader, SignalReader,
           Idle, Rebase, vars, ipcVars, readerVars, mainVars
<1>. QED BY <1>1, <1>2, ControlInvariant, InputInvariant, ReaderInvariant, HonestInvariant,
            FramingInvariant, PTL DEF Spec, ImplementsService, Service!Spec
=============================================================================
