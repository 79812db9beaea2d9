------------------------------- MODULE System -------------------------------
(***************************************************************************)
(* main (src/main.cpp): the server process, the reader process forked from *)
(* it, and the peers and signals they face.                                *)
(***************************************************************************)
EXTENDS Server, Reader, SequencesExt

CONSTANTS MaxUnits,      \* units each connection may send
          Endless,       \* connections that may send for ever, MaxUnits ahead
          Signals        \* which of "term", "kill", "stop", "kill main" may be sent

ASSUME SystemAssumption ==
  /\ MaxUnits \in [Conns -> Nat]
  /\ \A c \in Endless : c \in Conns /\ BadFrame[c] = Never

VARIABLES mpc,           \* main: "parse", "setup", "server", "notify", "wait",
                         \* "exited" or "killed"
          exitCode,      \* of the main process: "none", "success" or "failure"
          faulted        \* history: something has failed

mainVars == <<mpc, exitCode, faulted>>
vars == <<ipcVars, serverVars, readerVars, mainVars>>

Init ==
  /\ IpcInit /\ ServerInit /\ ReaderInit
  /\ mpc = "parse" /\ exitCode = "none" /\ faulted = FALSE

-----------------------------------------------------------------------------
(* The reader ends or stops: SIGCHLD for its parent, unless one is already *)
(* pending, which a second one of the same number does not replace.        *)
ChildChanges(how) ==
  childPending' = IF childPending = "none" THEN how ELSE childPending

serverButChild ==
  <<socketVars, termPending, epollVars, clientVars, localVars,
    spc, state, paused, events, event, result>>

Alive == rstatus \in {"running", "stopped"}
Lost == rstatus \in {"killed", "exit0", "exit1"}
Ended == mpc \in {"exited", "killed"}

ExitMain(code) == mpc' = "exited" /\ exitCode' = code

(* parseArguments(), then signals are blocked; or help, or an error.       *)
ParseArguments ==
  /\ mpc = "parse"
  /\ \/ mpc' = "setup" /\ UNCHANGED <<exitCode, faulted>>
     \/ ExitMain("success") /\ UNCHANGED faulted
     \/ ExitMain("failure") /\ faulted' = TRUE
  /\ UNCHANGED <<ipcVars, serverVars, readerVars>>

(* The ring, the eventfds and fork(); a failure leaves no child.           *)
Fork ==
  /\ mpc = "setup"
  /\ mpc' = "server"
  /\ rstatus' = "running"
  /\ UNCHANGED <<ipcVars, serverVars, rpc, ipcBatch, batch, consumedAny, file, synced,
                 exitCode, faulted>>
SetupFails ==
  /\ mpc = "setup" /\ "start" \in Faults
  /\ ExitMain("failure") /\ faulted' = TRUE
  /\ UNCHANGED <<ipcVars, serverVars, readerVars>>

(* signalfd() fails after fork(): no server is run.                        *)
SignalfdFails ==
  /\ mpc = "server" /\ spc = "start" /\ "start" \in Faults
  /\ Stop("failure") /\ faulted' = TRUE
  /\ UNCHANGED <<ipcVars, signalVars, readerVars, mpc, exitCode>>

(* The server has returned: closeProducer(), then wake the reader.         *)
CloseRing ==
  /\ mpc = "server" /\ spc = "stopped"
  /\ CloseProducer
  /\ mpc' = "notify"
  /\ UNCHANGED <<stream, tail, tailSeen, headSeen, dataReady, spaceReady,
                 serverVars, readerVars, exitCode, faulted>>
WakeReader ==
  /\ mpc = "notify"
  /\ NotifyData
  /\ mpc' = "wait"
  /\ UNCHANGED <<stream, tail, tailSeen, headSeen, producerClosed, spaceReady,
                 serverVars, readerVars, exitCode, faulted>>

(* The wake-up fails: the reader is killed and the run is a failure.       *)
WakeReaderFails ==
  /\ mpc = "notify" /\ "eventfd" \in Faults
  /\ mpc' = "wait"
  /\ result' = "failure" /\ faulted' = TRUE
  /\ IF Alive THEN rstatus' = "killed" /\ ChildChanges("killed")
              ELSE UNCHANGED <<rstatus, childPending>>
  /\ UNCHANGED <<ipcVars, socketVars, termPending, epollVars, clientVars, localVars,
                 spc, state, paused, events, event,
                 rpc, ipcBatch, batch, consumedAny, file, synced, exitCode>>

(* waitpid() and the exit code of the program.                             *)
WaitReader ==
  /\ mpc = "wait"
  /\ ~Alive
  /\ ExitMain(IF rstatus = "exit0" THEN result ELSE "failure")
  /\ UNCHANGED <<ipcVars, serverVars, readerVars, faulted>>

(* waitpid() fails when the child is gone and its status was discarded, as *)
(* happens if the process was started with SIGCHLD ignored.                *)
WaitReaderFails ==
  /\ mpc = "wait" /\ ~Alive /\ "waitpid" \in Faults
  /\ ExitMain("failure") /\ faulted' = TRUE
  /\ UNCHANGED <<ipcVars, serverVars, readerVars>>

MainStep == ParseArguments \/ Fork \/ CloseRing \/ WakeReader \/ WaitReader
MainFault == SetupFails \/ SignalfdFails \/ WakeReaderFails \/ WaitReaderFails

-----------------------------------------------------------------------------
(* The steps of the two processes.                                         *)
ServerActs ==
  /\ mpc = "server"
  /\ ServerStep
  /\ faulted' = (faulted \/ spc = "full")
  /\ UNCHANGED <<readerVars, mpc, exitCode>>
ServerFails ==
  /\ mpc = "server"
  /\ ServerFault
  /\ faulted' = TRUE
  /\ UNCHANGED <<readerVars, mpc, exitCode>>

ReaderActs ==
  /\ ReaderStep
  /\ IF rpc' = "exited" THEN ChildChanges("exited") ELSE UNCHANGED childPending
  /\ UNCHANGED <<serverButChild, mainVars>>
ReaderFails ==
  /\ ReaderFault
  /\ ChildChanges("exited")
  /\ faulted' = TRUE
  /\ UNCHANGED <<serverButChild, mpc, exitCode>>

-----------------------------------------------------------------------------
(* The environment.                                                        *)
Connect(c) ==
  /\ listening /\ conn[c] = "none"
  /\ conn' = [conn EXCEPT ![c] = "backlog"]
  /\ UNCHANGED <<sent, received, hangup>>

PeerOpen(c) == conn[c] \in {"backlog", "open"} /\ hangup[c] = "no"

Send(c) ==
  /\ PeerOpen(c) /\ sent[c] < MaxUnits[c]
  /\ sent' = [sent EXCEPT ![c] = @ + 1]
  /\ UNCHANGED <<conn, received, hangup>>

HangUp(c) ==
  /\ PeerOpen(c) /\ c \notin Endless
  /\ hangup' = [hangup EXCEPT ![c] = "fin"]
  /\ UNCHANGED <<conn, sent, received>>

Reset(c) ==
  /\ PeerOpen(c) /\ "reset" \in Faults
  /\ hangup' = [hangup EXCEPT ![c] = "rst"]
  /\ UNCHANGED <<conn, sent, received>>

Peer ==
  /\ \E c \in Conns : Connect(c) \/ Send(c) \/ HangUp(c) \/ Reset(c)
  /\ UNCHANGED <<ipcVars, signalVars, epollVars, clientVars, localVars, spc, state, paused,
                 events, event, result, readerVars, mainVars>>

(* SIGINT or SIGTERM for the main process, which has blocked it; the       *)
(* reader has it blocked for good.                                         *)
Terminate ==
  /\ "term" \in Signals /\ mpc \notin {"parse", "exited", "killed"}
  /\ ~termPending /\ state = "Running"
  /\ termPending' = TRUE
  /\ UNCHANGED <<ipcVars, socketVars, childPending, epollVars, clientVars, localVars,
                 spc, state, paused, events, event, result, readerVars, mainVars>>

(* The main process is killed, or gets SIGTERM before it has blocked it:   *)
(* its sockets are closed, and the reader, if there is one, goes on alone. *)
KillMain ==
  /\ ~Ended
  /\ "kill main" \in Signals \/ (mpc = "parse" /\ "term" \in Signals)
  /\ mpc' = "killed" /\ faulted' = TRUE
  /\ Stop("failure")
  /\ UNCHANGED <<ipcVars, signalVars, readerVars, exitCode>>

SignalReader(from, to, how) ==
  /\ rstatus \in from
  /\ rstatus' = to
  /\ faulted' = (faulted \/ to = "killed")
  /\ ChildChanges(how)
  /\ UNCHANGED <<ipcVars, serverButChild, rpc, ipcBatch, batch, consumedAny, file, synced,
                 mpc, exitCode>>

KillReader == "kill" \in Signals /\ SignalReader({"running", "stopped"}, "killed", "killed")
StopReader == "stop" \in Signals /\ SignalReader({"running"}, "stopped", "stopped")
ContinueReader == "stop" \in Signals /\ SignalReader({"stopped"}, "running", "continued")

(* Nothing is left to do: the program has ended, or both processes sleep,  *)
(* with everything stored and ingress open.                                *)
Quiet ==
  /\ spc = "wait" /\ Ready = {} /\ state = "Running" /\ ~paused
  /\ At("block") /\ dataReady = NotSet /\ file = stream
Idle == (Ended \/ Quiet) /\ UNCHANGED vars

(* Not a step of the system: when everything published is stored and both  *)
(* sides know it, positions are counted from zero again, so that an        *)
(* endless connection has finitely many states.  Nothing but the           *)
(* differences of positions matters to the code.                           *)
Rebase ==
  /\ Endless # {} /\ stream # <<>> /\ file = stream
  /\ tail = head /\ tailSeen = head /\ headSeen = head
  /\ \A f \in Fds : input[f] = EmptyBuffer
  /\ stream' = <<>> /\ file' = <<>>
  /\ tail' = 0 /\ tailSeen' = 0 /\ headSeen' = 0
  /\ dataReady' = Smaller(dataReady, 0) /\ spaceReady' = Smaller(spaceReady, 0)
  /\ sent' = [c \in Conns |-> IF c \in Endless THEN sent[c] - received[c] ELSE sent[c]]
  /\ received' = [c \in Conns |-> IF c \in Endless THEN 0 ELSE received[c]]
  /\ UNCHANGED <<producerClosed, conn, hangup, signalVars, epollVars, clientVars, localVars,
                 spc, state, paused, events, event, result,
                 rpc, rstatus, ipcBatch, batch, consumedAny, synced, mainVars>>

Next ==
  \/ ServerActs \/ ServerFails \/ ReaderActs \/ ReaderFails \/ MainStep \/ MainFault
  \/ Peer \/ Terminate \/ KillReader \/ StopReader \/ ContinueReader \/ KillMain
  \/ Idle \/ Rebase

Spec == Init /\ [][Next]_vars

(* Each process is scheduled; nothing is promised of peers and signals.    *)
Fairness == WF_vars(ServerActs) /\ WF_vars(ReaderActs) /\ WF_vars(MainStep)
FairSpec == Spec /\ Fairness

-----------------------------------------------------------------------------
Frame == [1..FrameUnits -> Conns \X Nat]
Event == [kind : {"none", "signal", "space", "listen", "client"}, fd : Fds \cup {NoFd},
          conn : Conns \cup {NoConn}, hup : BOOLEAN]

TypeOK ==
  /\ stream \in Seq(Frame) /\ file \in Seq(Frame)
  /\ batch \in Seq(Frame) /\ Len(batch) < StoreBatch
  /\ ipcBatch \in Seq(Frame) /\ Len(ipcBatch) <= IpcBatch
  /\ tail \in 0..head /\ tailSeen \in 0..tail /\ headSeen \in 0..head
  /\ dataReady \in {NotSet} \cup 0..head /\ spaceReady \in {NotSet} \cup 0..tail
  /\ conn \in [Conns -> {"none", "backlog", "open", "closed"}]
  /\ \A c \in Conns : sent[c] \in 0..MaxUnits[c] /\ received[c] \in 0..sent[c]
  /\ hangup \in [Conns -> {"no", "fin", "rst"}]
  /\ childPending \in {"none", "exited", "killed", "stopped", "continued"}
  /\ spc \in {"start", "loop", "wait", "dispatch", "accept", "space",
              "recv", "check", "notify", "full", "stopped"}
  /\ state \in {"Running", "Draining"} /\ result \in {"success", "failure"}
  /\ watched \subseteq Fds /\ clients \in [Fds -> Conns \cup {NoConn}]
  /\ events \subseteq Event /\ event \in Event
  /\ rpc \in {"open", "pop", "process", "flush", "notify", "closed", "sync", "block", "exited"}
  /\ rstatus \in {"none", "running", "stopped", "killed", "exit0", "exit1"}
  /\ mpc \in {"parse", "setup", "server", "notify", "wait", "exited", "killed"}
  /\ exitCode \in {"none", "success", "failure"} /\ faulted \in BOOLEAN

(* Between the ring and the file nothing is lost, duplicated or reordered: *)
(* what the reader has appended, staged and popped is what was published,  *)
(* and also after a crash or a failed append the file holds a prefix of it.*)
Conserved ==
  /\ IsPrefix(file, stream)
  /\ ~Lost => file \o batch \o ipcBatch = SubSeq(stream, 1, tail)

(* A normal end of the reader means that every published frame is in the   *)
(* file and synced; the program reports success only then, and only after  *)
(* a shutdown was requested, or when it was asked for help and forked      *)
(* nothing.                                                                *)
SuccessMeansStored ==
  /\ rstatus = "exit0" => producerClosed /\ file = stream /\ synced
  /\ exitCode = "success" => rstatus = "none" \/ (rstatus = "exit0" /\ state = "Draining")

(* The program fails only for a reason: no sequence of pauses, resumes,    *)
(* shutdown requests, and stops and continues of the reader, which the     *)
(* server is told of by SIGCHLD as well, makes it report a failure.        *)
NoSpuriousFailure == exitCode = "failure" => faulted

(* The frames published for a connection are the first frames it sent, in  *)
(* order, cut at the right places, and none is invalid: however its bytes  *)
(* were split by recv(), and although descriptors are reused.              *)
FramesOf(c) == {i \in DOMAIN stream : stream[i][1][1] = c}
StreamsIntact ==
  \A i \in DOMAIN stream :
    LET c == stream[i][1][1]
    IN /\ stream[i] = SentFrame(c, Cardinality({j \in FramesOf(c) : j < i}))
       /\ Decodes(stream[i])

(* With the headroom of the pause threshold, a batch always fits: the      *)
(* fatal branch for a full ring is never taken.                            *)
NeverFull == spc # "full"

(* Were the ring too small for the thresholds, a batch that does not fit   *)
(* would end the program, never with success; and unless something else    *)
(* fails too, the frames the ring did take are stored: never silent loss.  *)
FullRingIsFatal ==
  (spc = "full") ~> /\ Ended /\ exitCode # "success"
                    /\ rstatus = "exit0" => file = stream /\ synced

(* epoll watches every client, or none while ingress is paused, so that no *)
(* EPOLL_CTL_ADD or DEL of a pause or a resume can fail.                   *)
EpollInSync ==
  spc # "stopped" =>
    /\ watched = IF paused THEN {} ELSE ClientFds
    /\ acceptInterest = (listening /\ ~paused)

(* An event still to be handled concerns the connection it was reported    *)
(* for, or a client that is gone: never one that reuses its descriptor.    *)
(* And handling spaceReady cannot block on an empty eventfd.               *)
EventsFresh ==
  \A e \in events \cup {event} :
    /\ e.kind = "client" /\ e.fd \in ClientFds => clients[e.fd] = e.conn
    /\ e.kind = "space" => spaceReady # NotSet

(* The input buffer stays small: the limit of 64 KiB is out of reach, and  *)
(* consumed bytes are not kept for ever.                                   *)
InputBounded ==
  \A f \in Fds : /\ PendingUnits(input[f]) < FrameUnits + RecvUnits
                 /\ Len(input[f].data) < CompactAt + FrameUnits + RecvUnits

(* A running server closes a connection whose peer did not reset it only   *)
(* when all its complete frames, up to an invalid one, are published.      *)
Complete(c) ==
  LET n == sent[c] \div FrameUnits
  IN IF BadFrame[c] = Never THEN n ELSE Smaller(n, BadFrame[c])
ClosedUnread(c) ==
  /\ conn[c] = "open" /\ conn'[c] = "closed" /\ hangup[c] # "rst"
  /\ state' = "Running" /\ spc' # "stopped"
  /\ Cardinality(FramesOf(c)) # Complete(c)
NoFramesDropped == [][\A c \in Conns : ~ClosedUnread(c)]_vars

(* The two processes use the ring as a channel: the reader ends only after *)
(* everything was delivered.                                               *)
Channel == INSTANCE FrameChannel
             WITH accepted <- head, delivered <- [i \in 1..tail |-> i - 1],
                  closed <- producerClosed, ended <- rstatus = "exit0"
ImplementsChannel == Channel!Spec

(* A pause ends: ingress resumes, or the server stops.                     *)
PauseEnds == paused ~> (~paused \/ spc = "stopped")

(* A shutdown request ends the program, also when the reader is lost or a  *)
(* call fails on the way.                                                  *)
ShutdownEnds == termPending ~> Ended

(* The server reads one client until recv() finds nothing: a peer that     *)
(* keeps its socket full can hold it there for ever.                       *)
StaysWithClient == <>[](spc \in {"recv", "check", "notify", "full"})

(* A connection its peer has finished is read to the end and closed, while *)
(* another one never stops sending.  Besides an endless client that is     *)
(* never caught up with, only pauses without end can starve it: each drops *)
(* the events behind it in the batch, and the same client may come first   *)
(* after every resume.                                                     *)
HangupsServed ==
  \/ StaysWithClient \/ []<>paused
  \/ \A c \in Conns \ Endless : (hangup[c] # "no") ~> (conn[c] = "closed")

(* The loss of the reader ends the program.                                *)
ReaderLossEnds == Lost ~> Ended

(* A published frame reaches the file unless the reader is lost.           *)
EventuallyStored ==
  \A n \in 1..Capacity : (head >= n) ~> (Len(file) >= n \/ ~Alive)

(* A frame announced to the reader reaches the file, also when the main    *)
(* process dies right after the announcement.                              *)
AnnouncedStored ==
  \A n \in 1..Capacity : (dataReady >= n) ~> (Len(file) >= n \/ Lost)

(* The program as a whole, with its failures and signals, is the service.  *)
Service == INSTANCE TelemetryService
             WITH accepted <- stream, stored <- file, durable <- synced, outcome <- exitCode
ImplementsService == Service!Spec
=============================================================================
