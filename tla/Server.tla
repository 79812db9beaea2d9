------------------------------- MODULE Server -------------------------------
(***************************************************************************)
(* Server::run (Server): one thread that accepts connections, cuts their   *)
(* bytes into frames, publishes valid frames to the ring, pauses ingress   *)
(* when the ring fills, and drains on a shutdown signal; with the parts of *)
(* the kernel it talks to (sockets, epoll, signalfd).                      *)
(*                                                                         *)
(* epoll_wait() returns a snapshot: the events of a batch are handled      *)
(* later, in any order, when the state they report may be old.             *)
(***************************************************************************)
EXTENDS Ipc, Frames, FiniteSets

CONSTANTS MaxClients,     \* descriptors available for client sockets
          RecvUnits,      \* kReadBufferSize
          MaxInput,       \* kMaxClientBuffer
          CompactAt,      \* threshold of Buffer::compact()
          PauseFrames,    \* kPauseIngressBytes, in frames
          ResumeFrames,   \* kResumeIngressBytes, in frames
          MaxEvents,      \* kMaxEvents
          NoConn          \* an unused descriptor

ASSUME ServerAssumption ==
  /\ MaxClients \in Nat \ {0}
  /\ RecvUnits \in Nat \ {0} /\ CompactAt \in Nat /\ MaxInput \in Nat
  /\ PauseFrames \in Nat \ {0} /\ ResumeFrames \in Nat /\ MaxEvents \in Nat \ {0}
  /\ NoConn \notin Conns

Fds == 1..MaxClients
NoFd == 0

VARIABLES
  \* kernel
  conn,             \* each connection: "none", "backlog", "open" or "closed"
  sent, received,   \* units sent by the peer / read by the server
  hangup,           \* how the peer ended: "no", "fin" or "rst"
  termPending,      \* SIGINT or SIGTERM is pending
  childPending,     \* the child state of the pending SIGCHLD, or "none"
  listening,        \* the listening socket is open (listenFd != -1)
  acceptInterest,   \* the listening socket is registered for EPOLLIN
  watched,          \* client descriptors registered with epoll
  \* server
  spc,              \* where the server is in run()
  state,            \* "Running" or "Draining"
  paused,           \* ingressPaused
  clients,          \* m_clients: the connection behind each descriptor
  input,            \* inputBuffer of each client
  events,           \* events of the last epoll_wait() still to be handled
  event,            \* the event being handled
  pauseRequested, publishedAny, invalid,   \* locals of readClient()
  result            \* "success" or "failure"

socketVars == <<conn, sent, received, hangup>>
signalVars == <<termPending, childPending>>
epollVars == <<listening, acceptInterest, watched>>
clientVars == <<clients, input>>
localVars == <<pauseRequested, publishedAny, invalid>>
serverVars == <<socketVars, signalVars, epollVars, clientVars, localVars,
                spc, state, paused, events, event, result>>

EmptyBuffer == [data |-> <<>>, offset |-> 0]
NoEvent == [kind |-> "none", fd |-> NoFd, conn |-> NoConn, hup |-> FALSE]

ServerInit ==
  /\ conn = [c \in Conns |-> "none"]
  /\ sent = [c \in Conns |-> 0] /\ received = [c \in Conns |-> 0]
  /\ hangup = [c \in Conns |-> "no"]
  /\ termPending = FALSE /\ childPending = "none"
  /\ listening = FALSE /\ acceptInterest = FALSE /\ watched = {}
  /\ spc = "start" /\ state = "Running" /\ paused = FALSE
  /\ clients = [f \in Fds |-> NoConn] /\ input = [f \in Fds |-> EmptyBuffer]
  /\ events = {} /\ event = NoEvent
  /\ pauseRequested = FALSE /\ publishedAny = FALSE /\ invalid = FALSE
  /\ result = "failure"

-----------------------------------------------------------------------------
(* Buffer                                                                  *)

PendingUnits(b) == IF b.offset >= Len(b.data) THEN 0 ELSE Len(b.data) - b.offset

(* Faulty Compact: drops consumed bytes only when all are consumed.        *)
CompactNever(b) == IF PendingUnits(b) = 0 THEN EmptyBuffer ELSE b

Compact(b) ==
  IF b.offset = 0 THEN b
  ELSE IF PendingUnits(b) = 0 THEN EmptyBuffer
  ELSE IF b.offset < CompactAt THEN b
  ELSE [data |-> SubSeq(b.data, b.offset + 1, Len(b.data)), offset |-> 0]

(* The i-th complete frame waiting in a buffer, counted from 0.            *)
FrameIn(b, i) ==
  SubSeq(b.data, b.offset + i * FrameUnits + 1, b.offset + (i + 1) * FrameUnits)

AvailableFrames(b) == PendingUnits(b) \div FrameUnits

(* How many frames precede the first one that decode() refuses.            *)
ValidFrames(b) ==
  LET refused == {i \in 0..(AvailableFrames(b) - 1) : ~Decodes(FrameIn(b, i))}
  IN IF refused = {} THEN AvailableFrames(b)
     ELSE CHOOSE i \in refused : \A j \in refused : i <= j

-----------------------------------------------------------------------------
ClientFds == {f \in Fds : clients[f] # NoConn}
Backlog == {c \in Conns : conn[c] = "backlog"}
Readable(c) == received[c] < sent[c] \/ hangup[c] # "no"

(* close() of the client sockets fs; of the listening socket too, which    *)
(* also drops the connections not accepted yet.                            *)
Closed(fs, listener) ==
  [c \in Conns |-> IF (\E f \in fs : clients[f] = c) \/ (listener /\ c \in Backlog)
                     THEN "closed" ELSE conn[c]]

(* Faulty RemoveClients: the descriptor keeps its input.                   *)
RemoveClientsKeepInput(fs) ==
  /\ watched' = watched \ fs
  /\ clients' = [f \in Fds |-> IF f \in fs THEN NoConn ELSE clients[f]]
  /\ conn' = Closed(fs, FALSE)
  /\ UNCHANGED <<input, listening, acceptInterest>>

(* removeClient() for each of fs.                                          *)
RemoveClients(fs) ==
  /\ watched' = watched \ fs
  /\ clients' = [f \in Fds |-> IF f \in fs THEN NoConn ELSE clients[f]]
  /\ input' = [f \in Fds |-> IF f \in fs THEN EmptyBuffer ELSE input[f]]
  /\ conn' = Closed(fs, FALSE)
  /\ UNCHANGED <<listening, acceptInterest>>

(* Leaving the loop: removeAllClients(), close the sockets, return r.      *)
Stop(r) ==
  /\ spc' = "stopped" /\ result' = r
  /\ events' = {} /\ event' = NoEvent
  /\ listening' = FALSE /\ acceptInterest' = FALSE /\ watched' = {}
  /\ clients' = [f \in Fds |-> NoConn] /\ input' = [f \in Fds |-> EmptyBuffer]
  /\ conn' = Closed(ClientFds, TRUE)
  /\ pauseRequested' = FALSE /\ publishedAny' = FALSE /\ invalid' = FALSE
  /\ UNCHANGED <<sent, received, hangup, state, paused>>

(* Back to the next event of the batch.                                    *)
NextEvent ==
  /\ spc' = "dispatch" /\ event' = NoEvent
  /\ pauseRequested' = FALSE /\ publishedAny' = FALSE /\ invalid' = FALSE

-----------------------------------------------------------------------------
(* Creating, binding and registering the listening socket, then the loop.  *)
StartServer ==
  /\ spc = "start"
  /\ spc' = "loop"
  /\ listening' = TRUE /\ acceptInterest' = TRUE
  /\ UNCHANGED <<ipcVars, socketVars, signalVars, watched, clientVars, localVars,
                 state, paused, events, event, result>>
StartFails ==
  /\ spc = "start" /\ "start" \in Faults
  /\ Stop("failure")
  /\ UNCHANGED <<ipcVars, signalVars>>

(* Top of the loop: draining ends when the ring is seen empty.             *)
LoopTop ==
  /\ spc = "loop"
  /\ IF state = "Draining"
       THEN \E t \in tailSeen..tail :
              /\ tailSeen' = t
              /\ IF PendingFrames(t) = 0
                   THEN Stop("success")
                   ELSE /\ spc' = "wait"
                        /\ UNCHANGED <<socketVars, epollVars, clientVars, localVars,
                                       state, paused, events, event, result>>
       ELSE /\ spc' = "wait"
            /\ UNCHANGED <<tailSeen, socketVars, epollVars, clientVars, localVars,
                           state, paused, events, event, result>>
  /\ UNCHANGED <<stream, tail, headSeen, producerClosed, dataReady, spaceReady, signalVars>>

(* What level-triggered epoll would report now.                            *)
Ready ==
  {[NoEvent EXCEPT !.kind = k] : k \in
      (IF termPending \/ childPending # "none" THEN {"signal"} ELSE {})
        \cup (IF spaceReady # NotSet THEN {"space"} ELSE {})
        \cup (IF acceptInterest /\ Backlog # {} THEN {"listen"} ELSE {})}
  \cup {[kind |-> "client", fd |-> f, conn |-> clients[f], hup |-> hangup[clients[f]] # "no"] :
           f \in {g \in watched : Readable(clients[g])}}

EpollWait ==
  /\ spc = "wait"
  /\ Ready # {}
  /\ events' \in {b \in SUBSET Ready : Cardinality(b) = Smaller(Cardinality(Ready), MaxEvents)}
  /\ spc' = "dispatch"
  /\ UNCHANGED <<ipcVars, socketVars, signalVars, epollVars, clientVars, localVars,
                 state, paused, event, result>>
EpollWaitFails ==
  /\ spc = "wait" /\ "epoll" \in Faults
  /\ Stop("failure")
  /\ UNCHANGED <<ipcVars, signalVars>>

BatchDone ==
  /\ spc = "dispatch" /\ events = {}
  /\ spc' = "loop"
  /\ UNCHANGED <<ipcVars, socketVars, signalVars, epollVars, clientVars, localVars,
                 state, paused, events, event, result>>

-----------------------------------------------------------------------------
(* Faulty ReaderTerminated: an exit is not a termination.                  *)
ReaderTerminatedIfKilled == childPending = "killed"

(* Faulty ReaderTerminated: every change of the child is a termination.    *)
ReaderTerminatedAnyChange == childPending # "none"

(* The child state delivered with SIGCHLD says that the reader has ended.  *)
ReaderTerminated == childPending \in {"exited", "killed"}

(* Faulty ShutdownRequested: ignored while ingress is paused.              *)
ShutdownRequestedUnlessPaused == termPending /\ state = "Running" /\ ~paused

(* The first SIGINT or SIGTERM starts draining.                            *)
ShutdownRequested == termPending /\ state = "Running"

(* handleSignalEvent(): all pending signals are read; a dead reader comes  *)
(* before a shutdown request.  The first SIGCHLD hides the later ones.     *)
SignalEvent ==
  /\ spc = "dispatch"
  /\ \E e \in events :
       /\ e.kind = "signal"
       /\ IF ReaderTerminated
            THEN Stop("failure")
            ELSE /\ events' = events \ {e}
                 /\ IF ShutdownRequested
                      THEN \* beginDraining()
                           /\ state' = "Draining"
                           /\ listening' = FALSE /\ acceptInterest' = FALSE
                           /\ watched' = watched \ ClientFds
                           /\ clients' = [f \in Fds |-> NoConn]
                           /\ input' = [f \in Fds |-> EmptyBuffer]
                           /\ conn' = Closed(ClientFds, TRUE)
                           /\ UNCHANGED <<sent, received, hangup>>
                      ELSE UNCHANGED <<state, socketVars, epollVars, clientVars>>
                 /\ UNCHANGED <<localVars, spc, paused, event, result>>
  /\ termPending' = FALSE /\ childPending' = "none"
  /\ UNCHANGED ipcVars

(* Faulty ListenEvent: accepts also while ingress is paused.               *)
ListenEventUnpaused ==
  /\ spc = "dispatch"
  /\ \E e \in events :
       /\ e.kind = "listen"
       /\ events' = events \ {e}
       /\ spc' = IF listening THEN "accept" ELSE "dispatch"
  /\ UNCHANGED <<ipcVars, socketVars, signalVars, epollVars, clientVars, localVars,
                 state, paused, event, result>>

(* An event of the listening socket; after draining began its descriptor   *)
(* is no client of the map and nothing happens.                            *)
ListenEvent ==
  /\ spc = "dispatch"
  /\ \E e \in events :
       /\ e.kind = "listen"
       /\ events' = events \ {e}
       /\ spc' = IF listening /\ ~paused THEN "accept" ELSE "dispatch"
  /\ UNCHANGED <<ipcVars, socketVars, signalVars, epollVars, clientVars, localVars,
                 state, paused, event, result>>

(* acceptClients(): an iteration that gets a connection and the lowest     *)
(* free descriptor, the one that finds none, and an accept4() that fails.  *)
(* accept4() reserves its descriptor first, so that it fails without one   *)
(* even if nobody waits.                                                   *)
AcceptClient ==
  /\ spc = "accept"
  /\ \E c \in Backlog, f \in Fds \ ClientFds :
       /\ \A g \in Fds \ ClientFds : f <= g
       /\ conn' = [conn EXCEPT ![c] = "open"]
       /\ clients' = [clients EXCEPT ![f] = c]
       /\ watched' = watched \cup {f}
  /\ UNCHANGED <<ipcVars, sent, received, hangup, signalVars, listening, acceptInterest,
                 input, localVars, spc, state, paused, events, event, result>>
AcceptDone ==
  /\ spc = "accept"
  /\ Backlog = {} /\ ClientFds # Fds
  /\ spc' = "dispatch"
  /\ UNCHANGED <<ipcVars, socketVars, signalVars, epollVars, clientVars, localVars,
                 state, paused, events, event, result>>
AcceptFails ==
  /\ spc = "accept"
  /\ ClientFds = Fds \/ "accept" \in Faults
  /\ Stop("failure")
  /\ UNCHANGED <<ipcVars, signalVars>>

(* A connection that epoll refuses is closed at once.                      *)
AcceptUnwatched ==
  /\ spc = "accept" /\ "epoll" \in Faults
  /\ ClientFds # Fds
  /\ \E c \in Backlog : conn' = [conn EXCEPT ![c] = "closed"]
  /\ UNCHANGED <<ipcVars, sent, received, hangup, signalVars, epollVars, clientVars,
                 localVars, spc, state, paused, events, event, result>>

(* spaceReady: consume the notification, then look at the ring.            *)
SpaceEvent ==
  /\ spc = "dispatch"
  /\ \E e \in events :
       /\ e.kind = "space"
       /\ events' = events \ {e}
  /\ ConsumeSpace
  /\ spc' = "space"
  /\ UNCHANGED <<stream, tail, headSeen, producerClosed, dataReady, socketVars, signalVars,
                 epollVars, clientVars, localVars, state, paused, event, result>>

(* read() of the signalfd or of the eventfd fails.                         *)
EventFails ==
  /\ spc = "dispatch" /\ "eventfd" \in Faults
  /\ \E e \in events : e.kind \in {"signal", "space"}
  /\ Stop("failure")
  /\ UNCHANGED <<ipcVars, signalVars>>

(* EPOLLERR or EPOLLHUP on the listening socket, alone or in a batch that  *)
(* was reported before ingress was paused.                                 *)
ListenFails ==
  /\ spc \in {"wait", "dispatch"} /\ "accept" \in Faults
  /\ listening /\ (acceptInterest \/ \E e \in events : e.kind = "listen")
  /\ Stop("failure")
  /\ UNCHANGED <<ipcVars, signalVars>>

(* Faulty ResumeIngress: forgets the clients.                              *)
ResumeIngressListenerOnly ==
  /\ paused' = FALSE
  /\ acceptInterest' = TRUE
  /\ NextEvent
  /\ UNCHANGED <<socketVars, watched, listening, clientVars, state, events, result>>

(* updateIngressInterest(true): EPOLL_CTL_MOD of the listener and          *)
(* EPOLL_CTL_ADD of every client, which fails for a registered one.        *)
ResumeIngress ==
  IF watched \cap ClientFds = {}
    THEN /\ paused' = FALSE
         /\ acceptInterest' = TRUE
         /\ watched' = watched \cup ClientFds
         /\ NextEvent
         /\ UNCHANGED <<socketVars, listening, clientVars, state, events, result>>
    ELSE Stop("failure")

(* Faulty Drained: strictly below the threshold.                           *)
DrainedBelow(t) == state = "Running" /\ paused /\ PendingFrames(t) < ResumeFrames

(* With the tail loaded as t, enough of the ring was drained to resume.    *)
Drained(t) == state = "Running" /\ paused /\ PendingFrames(t) <= ResumeFrames

(* After the notification.                                                 *)
ResumeCheck ==
  /\ spc = "space"
  /\ \E t \in tailSeen..tail :
       /\ tailSeen' = t
       /\ IF Drained(t)
            THEN ResumeIngress
            ELSE /\ NextEvent
                 /\ UNCHANGED <<socketVars, epollVars, clientVars, state, paused, events, result>>
  /\ UNCHANGED <<stream, tail, headSeen, producerClosed, dataReady, spaceReady, signalVars>>

-----------------------------------------------------------------------------
(* Faulty ClientEvent: honours a hang-up while ingress is paused.          *)
ClientEventClosesPaused ==
  /\ spc = "dispatch"
  /\ \E e \in events :
       /\ e.kind = "client"
       /\ events' = events \ {e}
       /\ IF paused \/ clients[e.fd] = NoConn
            THEN /\ spc' = "dispatch" /\ UNCHANGED event
                 /\ RemoveClients(IF e.hup THEN {e.fd} ELSE {})
            ELSE /\ spc' = "recv" /\ event' = e
                 /\ UNCHANGED <<conn, epollVars, clientVars>>
  /\ UNCHANGED <<ipcVars, sent, received, hangup, signalVars, localVars, state, paused, result>>

(* An event of a client: while ingress is paused it is only dropped, and   *)
(* it finds nobody when its client is gone.                                *)
ClientEvent ==
  /\ spc = "dispatch"
  /\ \E e \in events :
       /\ e.kind = "client"
       /\ events' = events \ {e}
       /\ IF paused \/ clients[e.fd] = NoConn
            THEN spc' = "dispatch" /\ UNCHANGED event
            ELSE spc' = "recv" /\ event' = e
  /\ UNCHANGED <<ipcVars, socketVars, signalVars, epollVars, clientVars, localVars,
                 state, paused, result>>

(* updateIngressInterest(false): EPOLL_CTL_MOD of the listener and         *)
(* EPOLL_CTL_DEL of every client, except those removed just before (gone). *)
PauseIngress(gone) ==
  IF ClientFds \ gone \subseteq watched
    THEN /\ paused' = TRUE
         /\ acceptInterest' = FALSE
         /\ watched' = watched \ ClientFds
         /\ clients' = [f \in Fds |-> IF f \in gone THEN NoConn ELSE clients[f]]
         /\ input' = [f \in Fds |-> IF f \in gone THEN EmptyBuffer
                                   ELSE IF f = event.fd THEN Compact(input[f])
                                   ELSE input[f]]
         /\ conn' = Closed(gone, FALSE)
         /\ NextEvent
         /\ UNCHANGED <<listening, state, events, result, sent, received, hangup>>
    ELSE Stop("failure")

(* updateIngressInterest() fails for another reason.                       *)
IngressFails ==
  /\ "epoll" \in Faults
  /\ \/ /\ spc = "space" /\ \E t \in tailSeen..tail : Drained(t) /\ tailSeen' = t
        /\ UNCHANGED dataReady
     \/ /\ spc = "notify" /\ pauseRequested
        /\ NotifyData /\ UNCHANGED tailSeen
  /\ Stop("failure")
  /\ UNCHANGED <<stream, tail, headSeen, producerClosed, spaceReady, signalVars>>

(* recv() got bytes: insert them, validate the complete frames and publish *)
(* the valid ones, all in one batch.                                       *)
ReceiveData ==
  /\ spc = "recv"
  /\ LET f == event.fd
         c == clients[f]
         n == Smaller(sent[c] - received[c], RecvUnits)
         b == [data |-> input[f].data \o Units(c, received[c], received[c] + n),
               offset |-> input[f].offset]
         valid == ValidFrames(b)
         frames == [i \in 1..valid |-> FrameIn(b, i - 1)]
     IN /\ n > 0
        /\ received' = [received EXCEPT ![c] = @ + n]
        /\ IF PendingUnits(b) > MaxInput
             THEN /\ RemoveClients({f})
                  /\ NextEvent
                  /\ UNCHANGED <<stream, tailSeen>>
             ELSE /\ invalid' = (valid # AvailableFrames(b))
                  /\ \E t \in tailSeen..tail :
                       IF valid = 0
                         THEN /\ t = tailSeen
                              /\ spc' = "notify" /\ publishedAny' = FALSE
                              /\ input' = [input EXCEPT ![f] = b]
                              /\ UNCHANGED <<stream, tailSeen>>
                         ELSE LET pushed == PushCount(frames, t) IN
                              /\ TryPushBatch(frames, t)
                              /\ spc' = IF pushed # valid THEN "full" ELSE "check"
                              /\ publishedAny' = (pushed # 0)
                              /\ input' = [input EXCEPT ![f] =
                                   [b EXCEPT !.offset = @ + pushed * FrameUnits]]
                  /\ UNCHANGED <<conn, epollVars, clients, event, pauseRequested>>
  /\ UNCHANGED <<tail, headSeen, producerClosed, dataReady, spaceReady, sent, hangup,
                 signalVars, state, paused, events, result>>

(* Faulty PauseCheck: strictly above the threshold.                        *)
PauseCheckAbove ==
  /\ spc = "check"
  /\ \E t \in tailSeen..tail :
       /\ tailSeen' = t
       /\ pauseRequested' = (PendingFrames(t) > PauseFrames)
  /\ spc' = "notify"
  /\ UNCHANGED <<stream, tail, headSeen, producerClosed, dataReady, spaceReady, socketVars,
                 signalVars, epollVars, clientVars, publishedAny, invalid,
                 state, paused, events, event, result>>

(* Faulty PauseCheck: also clears the notification.                        *)
PauseCheckClearsSpace ==
  /\ spc = "check"
  /\ pauseRequested' = (PendingFrames(tail) >= PauseFrames)
  /\ tailSeen' = tail /\ spaceReady' = NotSet
  /\ spc' = "notify"
  /\ UNCHANGED <<stream, tail, headSeen, producerClosed, dataReady, socketVars,
                 signalVars, epollVars, clientVars, publishedAny, invalid,
                 state, paused, events, event, result>>

(* The pause threshold.                                                    *)
PauseCheck ==
  /\ spc = "check"
  /\ \E t \in tailSeen..tail :
       /\ tailSeen' = t
       /\ pauseRequested' = (PendingFrames(t) >= PauseFrames)
  /\ spc' = "notify"
  /\ UNCHANGED <<stream, tail, headSeen, producerClosed, dataReady, spaceReady, socketVars,
                 signalVars, epollVars, clientVars, publishedAny, invalid,
                 state, paused, events, event, result>>

(* notifyPublished(), then the rest of the iteration: remove the client of *)
(* an invalid frame, or compact() its buffer; pause, or recv() again.      *)
NotifyReader ==
  /\ spc = "notify"
  /\ IF publishedAny THEN NotifyData ELSE UNCHANGED dataReady
  /\ LET f == event.fd
         gone == IF invalid THEN {f} ELSE {}
     IN \/ /\ pauseRequested
           /\ PauseIngress(gone)
        \/ /\ ~pauseRequested /\ invalid
           /\ RemoveClients({f})
           /\ NextEvent
           /\ UNCHANGED <<sent, received, hangup, state, paused, events, result>>
        \/ /\ ~pauseRequested /\ ~invalid
           /\ input' = [input EXCEPT ![f] = Compact(@)]
           /\ spc' = "recv" /\ publishedAny' = FALSE
           /\ UNCHANGED <<socketVars, epollVars, clients, pauseRequested, invalid,
                          state, paused, events, event, result>>
  /\ UNCHANGED <<stream, tail, tailSeen, headSeen, producerClosed, spaceReady, signalVars>>
NotifyReaderFails ==
  /\ spc \in {"notify", "full"} /\ publishedAny /\ "eventfd" \in Faults
  /\ Stop("failure")
  /\ UNCHANGED <<ipcVars, signalVars>>

(* Faulty RingFull: drops what did not fit.                                *)
RingFullIgnored ==
  /\ spc = "full"
  /\ spc' = "check"
  /\ UNCHANGED <<ipcVars, socketVars, signalVars, epollVars, clientVars, localVars,
                 state, paused, events, event, result>>

(* The ring did not take every frame: wake the reader and give up.         *)
RingFull ==
  /\ spc = "full"
  /\ IF publishedAny THEN NotifyData ELSE UNCHANGED dataReady
  /\ Stop("failure")
  /\ UNCHANGED <<stream, tail, tailSeen, headSeen, producerClosed, spaceReady, signalVars>>

(* recv() returned 0 or an error other than EAGAIN.                        *)
ReceiveEnd ==
  /\ spc = "recv"
  /\ LET c == clients[event.fd]
     IN \/ hangup[c] = "fin" /\ received[c] = sent[c]
        \/ hangup[c] = "rst"
  /\ RemoveClients({event.fd})
  /\ NextEvent
  /\ UNCHANGED <<ipcVars, sent, received, hangup, signalVars, state, paused, events, result>>

(* EAGAIN; an event that reported a hangup now closes the client.          *)
ReceiveAgain ==
  /\ spc = "recv"
  /\ ~Readable(clients[event.fd])
  /\ IF event.hup THEN RemoveClients({event.fd})
                  ELSE UNCHANGED <<conn, epollVars, clientVars>>
  /\ NextEvent
  /\ UNCHANGED <<ipcVars, sent, received, hangup, signalVars, state, paused, events, result>>

ServerStep ==
  \/ StartServer \/ LoopTop \/ EpollWait \/ BatchDone
  \/ SignalEvent \/ ListenEvent \/ AcceptClient \/ AcceptDone
  \/ SpaceEvent \/ ResumeCheck
  \/ ClientEvent \/ ReceiveData \/ PauseCheck \/ NotifyReader \/ RingFull
  \/ ReceiveEnd \/ ReceiveAgain

ServerFault ==
  \/ StartFails \/ EpollWaitFails \/ AcceptFails \/ AcceptUnwatched \/ EventFails
  \/ ListenFails \/ NotifyReaderFails \/ IngressFails
=============================================================================
