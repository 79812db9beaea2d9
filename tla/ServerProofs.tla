---------------------------- MODULE ServerProofs ----------------------------
(***************************************************************************)
(* Proofs about System, part 1: the server, its input buffers and the      *)
(* ring.                                                                   *)
(*                                                                         *)
(* ControlInv says, for every place the server can be in, what its         *)
(* clients, the epoll interest list, and the events of the last            *)
(* epoll_wait() may be.  It is proved for every number of connections,     *)
(* descriptors and events per batch, with all faults and signals; every    *)
(* later proof about System rests on it.                                   *)
(*                                                                         *)
(* The second half is about what is in an input buffer, and how much; the  *)
(* positions of the ring as each process knows them; and, under the        *)
(* headroom of the pause threshold, that publishing a batch never finds    *)
(* the ring full.                                                          *)
(***************************************************************************)
EXTENDS System, TLAPS, SequenceTheorems, WellFoundedInduction

(* readClient() is at work, on the client of the current event.            *)
Reading == {"recv", "check", "notify", "full"}

(* The values of the variables the server decides by.                      *)
ControlTypes ==
  /\ conn \in [Conns -> {"none", "backlog", "open", "closed"}]
  /\ hangup \in [Conns -> {"no", "fin", "rst"}]
  /\ termPending \in BOOLEAN
  /\ childPending \in {"none", "exited", "killed", "stopped", "continued"}
  /\ listening \in BOOLEAN /\ acceptInterest \in BOOLEAN /\ watched \subseteq Fds
  /\ spc \in {"start", "loop", "wait", "dispatch", "accept", "space",
              "recv", "check", "notify", "full", "stopped"}
  /\ state \in {"Running", "Draining"} /\ paused \in BOOLEAN
  /\ clients \in [Fds -> Conns \cup {NoConn}]
  /\ events \subseteq Event /\ event \in Event
  /\ pauseRequested \in BOOLEAN /\ publishedAny \in BOOLEAN /\ invalid \in BOOLEAN
  /\ result \in {"success", "failure"}

(* What each place in run() goes with.  The events of a batch are gone     *)
(* when the loop starts over; while draining there are no clients;         *)
(* accept() and recv() are called only while ingress is open; and          *)
(* readClient() works on a client of the map, the one its event was        *)
(* reported for.                                                           *)
Phases ==
  /\ spc \in {"start", "loop", "wait", "stopped"} => events = {}
  /\ spc = "start" => ~listening /\ ~paused /\ ClientFds = {} /\ state = "Running"
  /\ spc \notin {"start", "stopped"} => (listening <=> state = "Running")
  /\ state = "Draining" => ClientFds = {}
  /\ spc = "accept" => listening /\ ~paused
  /\ spc \in Reading => /\ ~paused /\ state = "Running"
                        /\ event.kind = "client" /\ event.fd \in ClientFds
                        /\ event.conn = clients[event.fd]
  /\ spc \notin Reading => event = NoEvent

(* An event still to be handled was reported for the connection that has   *)
(* the descriptor now, or, once draining has begun, for nobody: within a   *)
(* batch no descriptor is reused, since it is only freed by the handling   *)
(* of its own event or by a step that frees all.  Each descriptor has at   *)
(* most one event.                                                         *)
Snapshot ==
  /\ \A e \in events : e.kind = "client" =>
       /\ e.fd \in Fds /\ e.conn \in Conns
       /\ clients[e.fd] = IF state = "Running" THEN e.conn ELSE NoConn
       /\ spc \in Reading => e.fd # event.fd
  /\ \A e \in events : e.kind # "client" => e = [NoEvent EXCEPT !.kind = e.kind]
  /\ \A d, e \in events : d.kind = "client" /\ e.kind = "client" /\ d.fd = e.fd => d = e

(* The connections of the client map are open, each behind one descriptor. *)
ClientsOpen ==
  /\ \A f \in ClientFds : conn[clients[f]] = "open"
  /\ \A f, g \in ClientFds : clients[f] = clients[g] => f = g

(* The inductive invariant of the server's control state.  EpollInSync is  *)
(* a part of it, and needs the others: only Phases says that a client      *)
(* removed by readClient() was watched, and that no client is left when    *)
(* draining begins.                                                        *)
ControlInv == ControlTypes /\ Phases /\ Snapshot /\ ClientsOpen /\ EpollInSync

-----------------------------------------------------------------------------
(* Leaving run() keeps the invariant.                                      *)
LEMMA StopControl ==
  ASSUME ControlInv, NEW r \in {"success", "failure"}, Stop(r),
         termPending' \in BOOLEAN,
         childPending' \in {"none", "exited", "killed", "stopped", "continued"}
  PROVE  ControlInv'
<1>. USE DEF ControlInv, Stop
<1>1. ControlTypes'
  BY DEF ControlTypes, Closed, Event, NoEvent
<1>2. Phases'
  BY <1>1 DEF Phases, Reading, ClientFds, ControlTypes
<1>3. Snapshot'
  BY DEF Snapshot
<1>4. ClientsOpen'
  BY <1>1 DEF ClientsOpen, ClientFds, ControlTypes
<1>5. EpollInSync'
  BY DEF EpollInSync
<1>. QED BY <1>1, <1>2, <1>3, <1>4, <1>5


(* So does removeClient() of the client being read.                        *)
LEMMA RemoveControl ==
  ASSUME ControlInv, spc \in Reading, RemoveClients({event.fd}), NextEvent,
         UNCHANGED <<hangup, signalVars, state, paused, events, result>>
  PROVE  ControlInv'
<1>. USE DEF ControlInv, RemoveClients, NextEvent
<1>0. event.fd \in ClientFds /\ event.fd \in Fds
  BY DEF Phases, ClientFds
<1>1. ControlTypes'
  BY DEF ControlTypes, Closed, Event, NoEvent, signalVars
<1>2. ClientFds' = ClientFds \ {event.fd}
  BY <1>0 DEF ClientFds, ControlTypes
<1>3. Phases'
  BY <1>1, <1>2 DEF Phases, Reading, ControlTypes
<1>4. Snapshot'
  BY <1>0, <1>1 DEF Snapshot, Reading, ControlTypes
<1>5. ClientsOpen'
  BY <1>0, <1>1, <1>2 DEF ClientsOpen, Closed, ControlTypes, ClientFds
<1>6. EpollInSync'
  BY <1>0, <1>1, <1>2 DEF EpollInSync, Phases, Reading, ControlTypes
<1>. QED BY <1>1, <1>3, <1>4, <1>5, <1>6

(* So does a step of readClient() that stays with its client.              *)
LEMMA ReadOnControl ==
  ASSUME ControlInv, spc \in Reading, spc' \in Reading,
         pauseRequested' \in BOOLEAN, publishedAny' \in BOOLEAN, invalid' \in BOOLEAN,
         UNCHANGED <<conn, hangup, signalVars, epollVars, clients, state, paused, events,
                     event, result>>
  PROVE  ControlInv'
<1>. USE DEF ControlInv, signalVars, epollVars
<1>1. ControlTypes'
  BY DEF ControlTypes, Reading
<1>2. ClientFds' = ClientFds
  BY DEF ClientFds
<1>3. Phases'
  BY <1>2 DEF Phases, Reading
<1>4. Snapshot'
  BY DEF Snapshot, Reading
<1>5. ClientsOpen'
  BY <1>2 DEF ClientsOpen
<1>6. EpollInSync'
  BY <1>2 DEF EpollInSync, Reading
<1>. QED BY <1>1, <1>3, <1>4, <1>5, <1>6

(* So does the return to the next event of the batch.                      *)
LEMMA BackControl ==
  ASSUME ControlInv, spc \in Reading \cup {"space"}, NextEvent,
         UNCHANGED <<conn, hangup, signalVars, epollVars, clients, state, paused, events, result>>
  PROVE  ControlInv'
<1>. USE DEF ControlInv, signalVars, epollVars, NextEvent
<1>1. ControlTypes'
  BY DEF ControlTypes, Event, NoEvent
<1>2. ClientFds' = ClientFds
  BY DEF ClientFds
<1>3. Phases'
  BY <1>2 DEF Phases, Reading
<1>4. Snapshot'
  BY DEF Snapshot, Reading
<1>5. ClientsOpen'
  BY <1>2 DEF ClientsOpen
<1>6. EpollInSync'
  BY <1>2 DEF EpollInSync, Reading
<1>. QED BY <1>1, <1>3, <1>4, <1>5, <1>6

(* updateIngressInterest(false) finds every client registered, so that no  *)
(* EPOLL_CTL_DEL fails: the pause succeeds and keeps the invariant.        *)
LEMMA PauseControl ==
  ASSUME ControlInv, spc = "notify", NEW gone \in SUBSET {event.fd}, PauseIngress(gone),
         UNCHANGED signalVars
  PROVE  ControlInv' /\ spc' = "dispatch"
<1>. USE DEF ControlInv
<1>0. event.fd \in ClientFds /\ event.fd \in Fds /\ ClientFds \subseteq Fds
  BY DEF Phases, ClientFds, Reading
<1>1. ClientFds \ gone \subseteq watched /\ watched = ClientFds
  BY DEF EpollInSync, Phases, Reading
<1>e. /\ paused' = TRUE /\ acceptInterest' = FALSE /\ watched' = watched \ ClientFds
      /\ clients' = [f \in Fds |-> IF f \in gone THEN NoConn ELSE clients[f]]
      /\ conn' = Closed(gone, FALSE)
      /\ spc' = "dispatch" /\ event' = NoEvent
      /\ pauseRequested' = FALSE /\ publishedAny' = FALSE /\ invalid' = FALSE
      /\ UNCHANGED <<listening, state, events, result, hangup, termPending, childPending>>
  BY <1>1 DEF PauseIngress, NextEvent, signalVars
<1>. USE <1>e
<1>2. ControlTypes'
  BY DEF ControlTypes, Closed, Event, NoEvent
<1>3. ClientFds' = ClientFds \ gone
  BY <1>0 DEF ClientFds, ControlTypes
<1>4. Phases'
  BY <1>0, <1>2, <1>3 DEF Phases, Reading, ControlTypes
<1>5. Snapshot'
  BY <1>0, <1>2 DEF Snapshot, Reading, ControlTypes
<1>6. ClientsOpen'
  BY <1>0, <1>2, <1>3 DEF ClientsOpen, Closed, ControlTypes, ClientFds
<1>7. EpollInSync'
  BY <1>0, <1>2, <1>3 DEF EpollInSync, Phases, Reading, ControlTypes
<1>. QED BY <1>2, <1>4, <1>5, <1>6, <1>7

(* updateIngressInterest(true) finds no client registered, so that no      *)
(* EPOLL_CTL_ADD fails: the resume succeeds and keeps the invariant.       *)
LEMMA ResumeControl ==
  ASSUME ControlInv, spc = "space", state = "Running", paused, ResumeIngress,
         UNCHANGED signalVars
  PROVE  ControlInv' /\ spc' = "dispatch"
<1>. USE DEF ControlInv
<1>1. watched \cap ClientFds = {}
  BY DEF EpollInSync
<1>e. /\ paused' = FALSE /\ acceptInterest' = TRUE /\ watched' = watched \cup ClientFds
      /\ spc' = "dispatch" /\ event' = NoEvent
      /\ pauseRequested' = FALSE /\ publishedAny' = FALSE /\ invalid' = FALSE
      /\ UNCHANGED <<listening, state, events, result, conn, clients, hangup,
                     termPending, childPending>>
  BY <1>1 DEF ResumeIngress, NextEvent, signalVars, socketVars, clientVars
<1>. USE <1>e
<1>2. ControlTypes'
  BY DEF ControlTypes, Event, NoEvent, ClientFds
<1>3. ClientFds' = ClientFds
  BY DEF ClientFds
<1>4. Phases'
  BY <1>3 DEF Phases, Reading
<1>5. Snapshot'
  BY DEF Snapshot, Reading
<1>6. ClientsOpen'
  BY <1>3 DEF ClientsOpen
<1>7. EpollInSync'
  BY <1>3 DEF EpollInSync, Phases
<1>. QED BY <1>2, <1>4, <1>5, <1>6, <1>7

(* Every step of the server keeps the invariant, one case per action.      *)
LEMMA ControlServerStep ==
  ASSUME ControlInv, ServerStep
  PROVE  ControlInv'
<1>. USE DEF ControlInv
<1>1. CASE StartServer
  <2>1. ControlTypes'
    BY <1>1 DEF StartServer, ControlTypes, socketVars, signalVars, epollVars, clientVars, localVars
  <2>2. ClientFds' = ClientFds
    BY <1>1 DEF StartServer, ClientFds, socketVars, signalVars, epollVars, clientVars, localVars
  <2>3. Phases' /\ Snapshot'
    BY <1>1, <2>2 DEF StartServer, Phases, Snapshot, Reading, socketVars, signalVars, epollVars, clientVars, localVars
  <2>4. ClientsOpen' /\ EpollInSync'
    BY <1>1, <2>2 DEF StartServer, ClientsOpen, EpollInSync, Phases, socketVars, signalVars, epollVars, clientVars, localVars
  <2>. QED BY <2>1, <2>3, <2>4
<1>2. CASE LoopTop
  <2>1. CASE \E t \in tailSeen..tail : PendingFrames(t) = 0 /\ Stop("success")
    BY <1>2, <2>1, StopControl DEF LoopTop, signalVars, ControlTypes
  <2>2. CASE /\ spc' = "wait"
             /\ UNCHANGED <<socketVars, epollVars, clientVars, localVars,
                            state, paused, events, event, result>>
    <3>1. ControlTypes'
      BY <1>2, <2>2 DEF LoopTop, ControlTypes, socketVars, signalVars, epollVars, clientVars, localVars
    <3>2. ClientFds' = ClientFds
      BY <2>2 DEF ClientFds, socketVars, signalVars, epollVars, clientVars, localVars
    <3>3. Phases' /\ Snapshot'
      BY <1>2, <2>2, <3>2 DEF LoopTop, Phases, Snapshot, Reading, socketVars, signalVars, epollVars, clientVars, localVars
    <3>4. ClientsOpen' /\ EpollInSync'
      BY <1>2, <2>2, <3>2 DEF LoopTop, ClientsOpen, EpollInSync, socketVars, signalVars, epollVars, clientVars, localVars
    <3>. QED BY <3>1, <3>3, <3>4
  <2>. QED BY <1>2, <2>1, <2>2 DEF LoopTop
<1>3. CASE EpollWait
  <2>1. events' \subseteq Ready /\ spc' = "dispatch" /\ spc = "wait"
    BY <1>3 DEF EpollWait
  <2>2. \A e \in Ready : e.kind = "client" =>
          e.fd \in ClientFds /\ e.conn = clients[e.fd]
    BY <2>1 DEF Ready, NoEvent, ControlTypes, EpollInSync
  <2>3. \A e \in Ready : e.kind # "client" => e = [NoEvent EXCEPT !.kind = e.kind]
    <3>. SUFFICES ASSUME NEW e \in Ready, e.kind # "client"
                  PROVE  e = [NoEvent EXCEPT !.kind = e.kind]
      OBVIOUS
    <3>1. PICK k \in {"signal", "space", "listen"} : e = [NoEvent EXCEPT !.kind = k]
      BY DEF Ready
    <3>2. e.kind = k
      BY <3>1 DEF NoEvent
    <3>. QED BY <3>1, <3>2
  <2>4. \A e \in Ready : e \in Event
    <3>. SUFFICES ASSUME NEW e \in Ready PROVE e \in Event
      OBVIOUS
    <3>1. CASE \E k \in {"signal", "space", "listen"} : e = [NoEvent EXCEPT !.kind = k]
      BY <3>1 DEF NoEvent, Event
    <3>2. CASE \E f \in watched : e = [kind |-> "client", fd |-> f, conn |-> clients[f],
                                      hup |-> hangup[clients[f]] # "no"]
      BY <3>2 DEF Event, ControlTypes
    <3>. QED BY <3>1, <3>2 DEF Ready
  <2>5. ControlTypes'
    BY <1>3, <2>4 DEF EpollWait, ControlTypes, socketVars, signalVars, epollVars, clientVars, localVars
  <2>6. ClientFds' = ClientFds
    BY <1>3 DEF EpollWait, ClientFds, socketVars, signalVars, epollVars, clientVars, localVars
  <2>7. Phases'
    BY <1>3, <2>6 DEF EpollWait, Phases, Reading, socketVars, signalVars, epollVars, clientVars, localVars
  <2>8. \A d, e \in Ready : d.kind = "client" /\ e.kind = "client" /\ d.fd = e.fd => d = e
    BY DEF Ready, NoEvent
  <2>9. Snapshot'
    BY <1>3, <2>1, <2>2, <2>3, <2>8 DEF EpollWait, Snapshot, Reading, Phases, ClientFds, ControlTypes, socketVars, signalVars, epollVars, clientVars, localVars
  <2>10. ClientsOpen' /\ EpollInSync'
    BY <1>3, <2>6 DEF EpollWait, ClientsOpen, EpollInSync, socketVars, signalVars, epollVars, clientVars, localVars
  <2>. QED BY <2>5, <2>7, <2>9, <2>10
<1>4. CASE BatchDone
  <2>1. ControlTypes'
    BY <1>4 DEF BatchDone, ControlTypes, socketVars, signalVars, epollVars, clientVars, localVars
  <2>2. ClientFds' = ClientFds
    BY <1>4 DEF BatchDone, ClientFds, socketVars, signalVars, epollVars, clientVars, localVars
  <2>3. Phases' /\ Snapshot'
    BY <1>4, <2>2 DEF BatchDone, Phases, Snapshot, Reading, socketVars, signalVars, epollVars, clientVars, localVars
  <2>4. ClientsOpen' /\ EpollInSync'
    BY <1>4, <2>2 DEF BatchDone, ClientsOpen, EpollInSync, Phases, socketVars, signalVars, epollVars, clientVars, localVars
  <2>. QED BY <2>1, <2>3, <2>4
<1>5. CASE SignalEvent
  <2>1. CASE ReaderTerminated
    BY <1>5, <2>1, StopControl DEF SignalEvent
  <2>2. CASE ~ReaderTerminated /\ ShutdownRequested
    <3>1. /\ spc = "dispatch" /\ state' = "Draining"
          /\ listening' = FALSE /\ acceptInterest' = FALSE
          /\ watched' = watched \ ClientFds
          /\ clients' = [f \in Fds |-> NoConn] /\ conn' = Closed(ClientFds, TRUE)
          /\ termPending' = FALSE /\ childPending' = "none"
          /\ events' \subseteq events
          /\ UNCHANGED <<hangup, localVars, spc, paused, event, result>>
      BY <1>5, <2>2 DEF SignalEvent
    <3>. HIDE <1>5
    <3>2. ControlTypes'
      BY <3>1 DEF ControlTypes, Closed, localVars
    <3>3. ClientFds' = {}
      BY <3>1 DEF ClientFds
    <3>4. Phases'
      BY <3>1, <3>3 DEF Phases, Reading
    <3>5. Snapshot'
      BY <3>1 DEF Snapshot, Reading
    <3>6. ClientsOpen' /\ EpollInSync'
      BY <3>1, <3>3 DEF ClientsOpen, EpollInSync
    <3>. QED BY <3>2, <3>4, <3>5, <3>6
  <2>3. CASE ~ReaderTerminated /\ ~ShutdownRequested
    <3>1. /\ spc = "dispatch"
          /\ termPending' = FALSE /\ childPending' = "none"
          /\ events' \subseteq events
          /\ UNCHANGED <<state, conn, hangup, epollVars, clients, localVars, spc, paused,
                         event, result>>
      BY <1>5, <2>3 DEF SignalEvent, socketVars, clientVars
    <3>. HIDE <1>5
    <3>2. ControlTypes'
      BY <3>1 DEF ControlTypes, localVars, epollVars
    <3>3. ClientFds' = ClientFds
      BY <3>1 DEF ClientFds
    <3>4. Phases' /\ Snapshot'
      BY <3>1, <3>3 DEF Phases, Snapshot, Reading, epollVars
    <3>5. ClientsOpen' /\ EpollInSync'
      BY <3>1, <3>3 DEF ClientsOpen, EpollInSync, epollVars
    <3>. QED BY <3>2, <3>4, <3>5
  <2>. QED BY <2>1, <2>2, <2>3
<1>6. CASE ListenEvent
  <2>1. ControlTypes'
    BY <1>6 DEF ListenEvent, ControlTypes, socketVars, signalVars, epollVars, clientVars, localVars
  <2>2. ClientFds' = ClientFds
    BY <1>6 DEF ListenEvent, ClientFds, socketVars, signalVars, epollVars, clientVars, localVars
  <2>3. Phases' /\ Snapshot'
    BY <1>6, <2>2 DEF ListenEvent, Phases, Snapshot, Reading, socketVars, signalVars, epollVars, clientVars, localVars
  <2>4. ClientsOpen' /\ EpollInSync'
    BY <1>6, <2>2 DEF ListenEvent, ClientsOpen, EpollInSync, Phases, socketVars, signalVars, epollVars, clientVars, localVars
  <2>. QED BY <2>1, <2>3, <2>4
<1>7. CASE AcceptClient
  <2>1. PICK c \in Backlog, f \in Fds \ ClientFds :
          /\ conn' = [conn EXCEPT ![c] = "open"]
          /\ clients' = [clients EXCEPT ![f] = c]
          /\ watched' = watched \cup {f}
    BY <1>7 DEF AcceptClient
  <2>2. c \in Conns /\ c # NoConn /\ conn[c] = "backlog" /\ clients[f] = NoConn
    BY ServerAssumption DEF Backlog, ClientFds
  <2>3. ControlTypes'
    BY <1>7, <2>1, <2>2 DEF AcceptClient, ControlTypes, socketVars, signalVars, epollVars, clientVars, localVars
  <2>4. ClientFds' = ClientFds \cup {f}
    BY <2>1, <2>2 DEF ClientFds, ControlTypes
  <2>5. state = "Running" /\ spc = "accept" /\ listening /\ ~paused
    BY <1>7 DEF AcceptClient, Phases, ControlTypes
  <2>6. Phases'
    BY <1>7, <2>4, <2>5 DEF AcceptClient, Phases, Reading, socketVars, signalVars, epollVars, clientVars, localVars
  <2>7. \A e \in events : e.kind = "client" => e.fd # f /\ e.fd \in Fds
    BY <2>2, <2>5, ServerAssumption DEF Snapshot
  <2>8. Snapshot'
    BY <1>7, <2>1, <2>5, <2>7 DEF AcceptClient, Snapshot, Reading, ControlTypes, socketVars, signalVars, epollVars, clientVars, localVars
  <2>9. ClientsOpen'
    BY <2>1, <2>2, <2>4 DEF ClientsOpen, ControlTypes, ClientFds
  <2>10. EpollInSync'
    BY <1>7, <2>1, <2>4, <2>5 DEF AcceptClient, EpollInSync, socketVars, signalVars, epollVars, clientVars, localVars
  <2>. QED BY <2>3, <2>6, <2>8, <2>9, <2>10
<1>8. CASE AcceptDone
  <2>1. ControlTypes'
    BY <1>8 DEF AcceptDone, ControlTypes, socketVars, signalVars, epollVars, clientVars, localVars
  <2>2. ClientFds' = ClientFds
    BY <1>8 DEF AcceptDone, ClientFds, socketVars, signalVars, epollVars, clientVars, localVars
  <2>3. Phases' /\ Snapshot'
    BY <1>8, <2>2 DEF AcceptDone, Phases, Snapshot, Reading, socketVars, signalVars, epollVars, clientVars, localVars
  <2>4. ClientsOpen' /\ EpollInSync'
    BY <1>8, <2>2 DEF AcceptDone, ClientsOpen, EpollInSync, Phases, socketVars, signalVars, epollVars, clientVars, localVars
  <2>. QED BY <2>1, <2>3, <2>4
<1>9. CASE SpaceEvent
  <2>1. ControlTypes'
    BY <1>9 DEF SpaceEvent, ControlTypes, socketVars, signalVars, epollVars, clientVars, localVars
  <2>2. ClientFds' = ClientFds
    BY <1>9 DEF SpaceEvent, ClientFds, socketVars, signalVars, epollVars, clientVars, localVars
  <2>3. Phases' /\ Snapshot'
    BY <1>9, <2>2 DEF SpaceEvent, Phases, Snapshot, Reading, socketVars, signalVars, epollVars, clientVars, localVars
  <2>4. ClientsOpen' /\ EpollInSync'
    BY <1>9, <2>2 DEF SpaceEvent, ClientsOpen, EpollInSync, Phases, socketVars, signalVars, epollVars, clientVars, localVars
  <2>. QED BY <2>1, <2>3, <2>4
<1>10. CASE ResumeCheck
  <2>1. CASE \E t \in tailSeen..tail : Drained(t) /\ ResumeIngress
    BY <1>10, <2>1, ResumeControl DEF ResumeCheck, Drained
  <2>2. CASE NextEvent /\ UNCHANGED <<socketVars, epollVars, clientVars, state, paused,
                                      events, result>>
    BY <1>10, <2>2, BackControl DEF ResumeCheck, socketVars, clientVars
  <2>. QED BY <1>10, <2>1, <2>2 DEF ResumeCheck
<1>11. CASE ClientEvent
  <2>1. PICK e \in events :
          /\ e.kind = "client" /\ events' = events \ {e}
          /\ IF paused \/ clients[e.fd] = NoConn
               THEN spc' = "dispatch" /\ UNCHANGED event
               ELSE spc' = "recv" /\ event' = e
    BY <1>11 DEF ClientEvent
  <2>2. ControlTypes'
    BY <1>11, <2>1 DEF ClientEvent, ControlTypes, socketVars, signalVars, epollVars, clientVars, localVars
  <2>3. ClientFds' = ClientFds
    BY <1>11 DEF ClientEvent, ClientFds, socketVars, signalVars, epollVars, clientVars, localVars
  <2>4. spc = "dispatch" /\ e.fd \in Fds
    BY <1>11, <2>1 DEF ClientEvent, Snapshot
  <2>5. clients[e.fd] # NoConn => state = "Running" /\ clients[e.fd] = e.conn
    BY <2>1 DEF Snapshot, ControlTypes
  <2>6. Phases'
    BY <1>11, <2>1, <2>3, <2>4, <2>5 DEF ClientEvent, Phases, Reading, ClientFds, socketVars, signalVars, epollVars, clientVars, localVars
  <2>7. Snapshot'
    BY <1>11, <2>1 DEF ClientEvent, Snapshot, Reading, socketVars, signalVars, epollVars, clientVars, localVars
  <2>8. ClientsOpen' /\ EpollInSync'
    BY <1>11, <2>1, <2>3 DEF ClientEvent, ClientsOpen, EpollInSync, socketVars, signalVars, epollVars, clientVars, localVars
  <2>. QED BY <2>2, <2>6, <2>7, <2>8
<1>12. CASE ReceiveData
  <2>1. /\ spc = "recv"
        /\ UNCHANGED <<hangup, signalVars, state, paused, events, result>>
    BY <1>12 DEF ReceiveData
  <2>2. CASE RemoveClients({event.fd}) /\ NextEvent
    BY <2>1, <2>2, RemoveControl DEF Reading
  <2>3. CASE /\ spc' \in Reading
             /\ publishedAny' \in BOOLEAN /\ invalid' \in BOOLEAN
             /\ UNCHANGED <<conn, epollVars, clients, event, pauseRequested>>
    BY <2>1, <2>3, ReadOnControl DEF Reading, ControlTypes
  <2>. QED BY <1>12, <2>2, <2>3 DEF ReceiveData, Reading
<1>13. CASE PauseCheck
  <2>1. ControlTypes'
    BY <1>13 DEF PauseCheck, ControlTypes, socketVars, signalVars, epollVars, clientVars, localVars
  <2>2. ClientFds' = ClientFds
    BY <1>13 DEF PauseCheck, ClientFds, socketVars, signalVars, epollVars, clientVars, localVars
  <2>3. Phases' /\ Snapshot'
    BY <1>13, <2>2 DEF PauseCheck, Phases, Snapshot, Reading, socketVars, signalVars, epollVars, clientVars, localVars
  <2>4. ClientsOpen' /\ EpollInSync'
    BY <1>13, <2>2 DEF PauseCheck, ClientsOpen, EpollInSync, Phases, socketVars, signalVars, epollVars, clientVars, localVars
  <2>. QED BY <2>1, <2>3, <2>4
<1>14. CASE NotifyReader
  <2>. DEFINE gone == IF invalid THEN {event.fd} ELSE {}
  <2>1. spc = "notify" /\ UNCHANGED signalVars
    BY <1>14 DEF NotifyReader
  <2>2. CASE PauseIngress(gone)
    BY <2>1, <2>2, PauseControl
  <2>3. CASE /\ RemoveClients({event.fd}) /\ NextEvent
             /\ UNCHANGED <<hangup, state, paused, events, result>>
    BY <2>1, <2>3, RemoveControl DEF Reading
  <2>4. CASE /\ spc' = "recv" /\ publishedAny' = FALSE
             /\ UNCHANGED <<socketVars, epollVars, clients, pauseRequested, invalid,
                            state, paused, events, event, result>>
    BY <2>1, <2>4, ReadOnControl DEF Reading, ControlTypes, socketVars
  <2>. QED BY <1>14, <2>2, <2>3, <2>4 DEF NotifyReader
<1>15. CASE RingFull
  BY <1>15, StopControl DEF RingFull, signalVars, ControlTypes
<1>16. CASE ReceiveEnd
  BY <1>16, RemoveControl DEF ReceiveEnd, Reading
<1>17. CASE ReceiveAgain
  BY <1>17, RemoveControl, BackControl DEF ReceiveAgain, Reading, clientVars
<1>. QED BY <1>1, <1>2, <1>3, <1>4, <1>5, <1>6, <1>7, <1>8, <1>9, <1>10, <1>11, <1>12, <1>13, <1>14, <1>15, <1>16, <1>17 DEF ServerStep

(* So does every failure of a call the server makes.                       *)
LEMMA ControlServerFault ==
  ASSUME ControlInv, ServerFault
  PROVE  ControlInv'
<1>1. CASE AcceptUnwatched
  <2>. USE <1>1 DEF AcceptUnwatched, ControlInv
  <2>1. PICK c \in Backlog : conn' = [conn EXCEPT ![c] = "closed"]
    OBVIOUS
  <2>2. ControlTypes'
    BY <2>1 DEF ControlTypes, Backlog, socketVars, signalVars, epollVars, clientVars, localVars
  <2>3. ClientFds' = ClientFds
    BY DEF ClientFds, clientVars
  <2>4. Phases' /\ Snapshot' /\ EpollInSync'
    BY <2>3 DEF Phases, Snapshot, Reading, EpollInSync, clientVars, epollVars
  <2>5. ClientsOpen'
    BY <2>1, <2>2, <2>3 DEF ClientsOpen, Backlog, ControlTypes, clientVars
  <2>. QED BY <2>2, <2>4, <2>5
<1>2. CASE Stop("failure") /\ UNCHANGED signalVars
  BY <1>2, StopControl DEF ControlInv, ControlTypes, signalVars
<1>. QED BY <1>1, <1>2 DEF ServerFault, StartFails, EpollWaitFails, AcceptFails, EventFails, ListenFails,
                           NotifyReaderFails, IngressFails

(* So does every step that leaves the server alone but for a signal that   *)
(* becomes pending, or for its result.                                     *)
LEMMA ControlUnchanged ==
  ASSUME ControlInv,
         UNCHANGED <<conn, hangup, epollVars, clients, localVars, spc, state, paused, events,
                     event>>,
         termPending' \in BOOLEAN, result' \in {"success", "failure"},
         childPending' \in {"none", "exited", "killed", "stopped", "continued"}
  PROVE  ControlInv'
<1>. USE DEF ControlInv, epollVars, localVars
<1>1. ControlTypes'
  BY DEF ControlTypes
<1>2. ClientFds' = ClientFds
  BY DEF ClientFds
<1>3. Phases' /\ Snapshot'
  BY <1>2 DEF Phases, Snapshot
<1>4. ClientsOpen' /\ EpollInSync'
  BY <1>2 DEF ClientsOpen, EpollInSync
<1>. QED BY <1>1, <1>3, <1>4

(* Peers connect, send, hang up and reset without breaking it: a peer does *)
(* not change a connection the server has accepted, except by hanging up.  *)
LEMMA ControlPeer ==
  ASSUME ControlInv, Peer
  PROVE  ControlInv'
<1>. USE DEF ControlInv, Peer, epollVars, signalVars, localVars, clientVars
<1>1. PICK c \in Conns :
        \/ conn[c] = "none" /\ conn' = [conn EXCEPT ![c] = "backlog"] /\ hangup' = hangup
        \/ conn' = conn /\ hangup' = [hangup EXCEPT ![c] = "fin"]
        \/ conn' = conn /\ hangup' = [hangup EXCEPT ![c] = "rst"]
        \/ conn' = conn /\ hangup' = hangup
  BY DEF Connect, Send, HangUp, Reset
<1>2. ControlTypes'
  BY <1>1 DEF ControlTypes
<1>3. ClientFds' = ClientFds
  BY DEF ClientFds
<1>4. Phases' /\ Snapshot' /\ EpollInSync'
  BY <1>3 DEF Phases, Snapshot, EpollInSync
<1>5. \A f \in ClientFds : conn'[clients[f]] = "open" /\ clients'[f] = clients[f]
  BY <1>1 DEF ClientsOpen, ControlTypes, ClientFds
<1>6. ClientsOpen'
  BY <1>3, <1>5 DEF ClientsOpen
<1>. QED BY <1>2, <1>4, <1>6

(* The server's control invariant holds of every behaviour of the system,  *)
(* whatever fails and whichever process is killed: the client map, epoll's *)
(* interest list and the batch of events agree at every step of            *)
(* Server::run.                                                            *)
THEOREM ControlInvariant == Spec => []ControlInv
<1>1. Init => ControlInv
  <2>. SUFFICES ASSUME Init PROVE ControlInv
    OBVIOUS
  <2>. USE DEF Init, ServerInit
  <2>1. ControlTypes
    BY DEF ControlTypes, Event, NoEvent
  <2>2. ClientFds = {}
    BY DEF ClientFds
  <2>3. Phases /\ Snapshot /\ ClientsOpen /\ EpollInSync
    BY <2>2 DEF Phases, Snapshot, ClientsOpen, EpollInSync, Reading
  <2>. QED BY <2>1, <2>3 DEF ControlInv
<1>2. ControlInv /\ [Next]_vars => ControlInv'
  <2>. SUFFICES ASSUME ControlInv, [Next]_vars PROVE ControlInv'
    OBVIOUS
  <2>0. /\ termPending \in BOOLEAN /\ result \in {"success", "failure"}
        /\ childPending \in {"none", "exited", "killed", "stopped", "continued"}
    BY DEF ControlInv, ControlTypes
  <2>1. CASE ServerActs
    BY <2>1, ControlServerStep DEF ServerActs
  <2>2. CASE ServerFails
    BY <2>2, ControlServerFault DEF ServerFails
  <2>3. CASE ReaderActs \/ ReaderFails
    BY <2>0, <2>3, ControlUnchanged DEF ReaderActs, ReaderFails, ChildChanges, serverButChild,
                                  socketVars, clientVars
  <2>4. CASE MainStep
    BY <2>0, <2>4, ControlUnchanged
       DEF MainStep, ParseArguments, Fork, CloseRing, WakeReader, WaitReader, serverVars,
           socketVars, signalVars, epollVars, clientVars, localVars
  <2>5. CASE SignalfdFails \/ KillMain
    BY <2>0, <2>5, StopControl DEF SignalfdFails, KillMain, signalVars
  <2>6. CASE SetupFails \/ WakeReaderFails \/ WaitReaderFails
    BY <2>0, <2>6, ControlUnchanged
       DEF SetupFails, WakeReaderFails, WaitReaderFails, ChildChanges, serverVars, socketVars, signalVars, epollVars, clientVars, localVars
  <2>7. CASE Peer
    BY <2>7, ControlPeer
  <2>8. CASE Terminate
    BY <2>0, <2>8, ControlUnchanged DEF Terminate, socketVars, clientVars
  <2>9. CASE KillReader \/ StopReader \/ ContinueReader
    BY <2>0, <2>9, ControlUnchanged
       DEF KillReader, StopReader, ContinueReader, SignalReader, ChildChanges, serverButChild,
           socketVars, clientVars
  <2>10. CASE Rebase
    BY <2>0, <2>10, ControlUnchanged DEF Rebase, signalVars, clientVars
  <2>11. CASE UNCHANGED vars
    BY <2>0, <2>11, ControlUnchanged DEF vars, serverVars, socketVars, signalVars, epollVars, clientVars, localVars
  <2>. QED BY <2>1, <2>2, <2>3, <2>4, <2>5, <2>6, <2>7, <2>8, <2>9, <2>10, <2>11
           DEF Next, MainFault, Idle
<1>. QED BY <1>1, <1>2, PTL DEF Spec

-----------------------------------------------------------------------------
(* The input buffers and the ring.                                         *)


(* The values an input buffer can have: m_offset stays within m_data.      *)
Buffer == {b \in [data : Seq(Conns \X Nat), offset : Nat] : b.offset <= Len(b.data)}

(* Buffer b holds the last units read from connection c, of r so far.      *)
Holds(b, c, r) ==
  /\ Len(b.data) <= r
  /\ \A i \in 1..Len(b.data) : b.data[i] = <<c, r - Len(b.data) + i - 1>>

(* A fresh buffer holds nothing, of any connection.                        *)
LEMMA EmptyBufferHolds ==
  ASSUME NEW c, NEW r \in Nat
  PROVE  EmptyBuffer \in Buffer /\ Holds(EmptyBuffer, c, r) /\ PendingUnits(EmptyBuffer) = 0
         /\ Len(EmptyBuffer.data) = 0
  BY DEF EmptyBuffer, Buffer, Holds, PendingUnits

(* A buffer and its pending units, by their parts.                         *)
LEMMA BufferParts ==
  ASSUME NEW b \in Buffer
  PROVE  /\ b = [data |-> b.data, offset |-> b.offset]
         /\ b.data \in Seq(Conns \X Nat) /\ Len(b.data) \in Nat
         /\ b.offset \in Nat /\ b.offset <= Len(b.data)
         /\ PendingUnits(b) = Len(b.data) - b.offset /\ PendingUnits(b) \in Nat
  BY DEF Buffer, PendingUnits

(* A record with an offset within its data is a buffer.                    *)
LEMMA MakeBuffer ==
  ASSUME NEW d \in Seq(Conns \X Nat), NEW o \in Nat, o <= Len(d)
  PROVE  [data |-> d, offset |-> o] \in Buffer
  BY DEF Buffer

(* A window of n units from position lo + 1.                               *)
LEMMA Cut ==
  ASSUME NEW s \in Seq(Conns \X Nat), NEW lo \in Nat, NEW n \in Nat, lo + n <= Len(s)
  PROVE  /\ SubSeq(s, lo + 1, lo + n) \in Seq(Conns \X Nat)
         /\ Len(SubSeq(s, lo + 1, lo + n)) = n
         /\ \A i \in 1..n : SubSeq(s, lo + 1, lo + n)[i] = s[lo + i]
  OBVIOUS

(* The window that reaches to the end.                                     *)
LEMMA CutEnd ==
  ASSUME NEW s \in Seq(Conns \X Nat), NEW lo \in Nat, NEW n \in Nat, lo + n = Len(s),
         NEW d, d = SubSeq(s, lo + 1, Len(s))
  PROVE  d \in Seq(Conns \X Nat) /\ Len(d) = n /\ \A i \in 1..n : d[i] = s[lo + i]
<1>1. d = SubSeq(s, lo + 1, lo + n)
  OBVIOUS
<1>2. lo + n <= Len(s)
  OBVIOUS
<1>3. /\ SubSeq(s, lo + 1, lo + n) \in Seq(Conns \X Nat)
      /\ Len(SubSeq(s, lo + 1, lo + n)) = n
      /\ \A i \in 1..n : SubSeq(s, lo + 1, lo + n)[i] = s[lo + i]
  BY <1>2, Cut, Zenon
<1>. QED BY <1>1, <1>3, Zenon

(* Buffer::compact() drops consumed units only: what is pending stays, and *)
(* the data that remains is less than the threshold of compact() beyond    *)
(* what is pending.                                                        *)
LEMMA CompactHolds ==
  ASSUME NEW b \in Buffer, NEW c, NEW r \in Nat, Holds(b, c, r)
  PROVE  /\ Compact(b) \in Buffer /\ Holds(Compact(b), c, r)
         /\ PendingUnits(Compact(b)) = PendingUnits(b)
         /\ Len(Compact(b).data) <= Larger(CompactAt + PendingUnits(b) - 1, PendingUnits(b))
<1>. DEFINE x == b.data
            o == b.offset
            p == PendingUnits(b)
<1>0. /\ x \in Seq(Conns \X Nat) /\ Len(x) \in Nat
      /\ o \in Nat /\ o <= Len(x) /\ p = Len(x) - o /\ p \in Nat
      /\ b = [data |-> x, offset |-> o]
  BY BufferParts
<1>4. CompactAt \in Nat
  BY ServerAssumption
<1>1. CASE o = 0 \/ (p # 0 /\ o < CompactAt)
  <2>1. Compact(b) = b
    BY <1>1, <1>0 DEF Compact
  <2>2. Len(x) <= Larger(CompactAt + p - 1, p)
    <3>. HIDE DEF x, o, p
    <3>. QED BY <1>0, <1>1, <1>4 DEF Larger
  <2>. QED BY <2>1, <2>2
<1>2. CASE o # 0 /\ p = 0
  <2>1. Compact(b) = EmptyBuffer
    BY <1>2 DEF Compact
  <2>2. Larger(CompactAt + p - 1, p) >= 0
    <3>. HIDE DEF p
    <3>. QED BY <1>2, <1>4 DEF Larger
  <2>. QED BY <1>2, <2>1, <2>2, EmptyBufferHolds
<1>3. CASE o # 0 /\ o >= CompactAt /\ p # 0
  <2>. DEFINE d == SubSeq(x, o + 1, Len(x))
  <2>1. Compact(b) = [data |-> d, offset |-> 0]
    BY <1>0, <1>3, <1>4 DEF Compact
  <2>0. d = SubSeq(x, o + 1, Len(x))
    OBVIOUS
  <2>. HIDE DEF x, o, p
  <2>2. o + p = Len(x)
    BY <1>0
  <2>. HIDE DEF d
  <2>3. d \in Seq(Conns \X Nat) /\ Len(d) = p /\ \A i \in 1..p : d[i] = x[o + i]
    <3>1. x \in Seq(Conns \X Nat)
      BY <1>0
    <3>2. o \in Nat
      BY <1>0
    <3>3. p \in Nat
      BY <1>0
    <3>. QED BY <2>0, <2>2, <3>1, <3>2, <3>3, CutEnd
  <2>4. Compact(b) \in Buffer /\ Compact(b).data = d /\ Compact(b).offset = 0
    <3>1. d \in Seq(Conns \X Nat)
      BY <2>3
    <3>2. 0 \in Nat /\ 0 <= Len(d)
      BY <3>1
    <3>3. [data |-> d, offset |-> 0] \in Buffer
      BY <3>1, <3>2, MakeBuffer
    <3>. QED BY <2>1, <3>3
  <2>5. PendingUnits(Compact(b)) = p
    BY <1>0, <2>3, <2>4, BufferParts
  <2>6. Len(x) <= r /\ \A i \in 1..Len(x) : x[i] = <<c, r - Len(x) + i - 1>>
    BY DEF Holds, x
  <2>7. \A i \in 1..p : d[i] = <<c, r - p + i - 1>>
    <3>. SUFFICES ASSUME NEW i \in 1..p PROVE d[i] = <<c, r - p + i - 1>>
      OBVIOUS
    <3>1. o + i \in 1..Len(x) /\ r - Len(x) + (o + i) - 1 = r - p + i - 1
      BY <1>0
    <3>. QED BY <2>3, <2>6, <3>1
  <2>8. Holds(Compact(b), c, r)
    <3>1. p <= r /\ Len(Compact(b).data) = p
      BY <1>0, <2>3, <2>4, <2>6
    <3>. QED BY <2>4, <2>7, <3>1 DEF Holds
  <2>9. p <= Larger(CompactAt + p - 1, p)
    BY <1>0, <1>4 DEF Larger
  <2>. QED BY <2>3, <2>4, <2>5, <2>8, <2>9 DEF p
<1>. QED BY <1>0, <1>1, <1>2, <1>3, <1>4

(* The n units of a connection from number r on.                           *)
LEMMA UnitsAre ==
  ASSUME NEW c \in Conns, NEW r \in Nat, NEW n \in Nat
  PROVE  /\ Units(c, r, r + n) \in Seq(Conns \X Nat)
         /\ Len(Units(c, r, r + n)) = n
         /\ \A i \in 1..n : Units(c, r, r + n)[i] = <<c, r + i - 1>>
<1>1. Units(c, r, r + n) \in [1..n -> Conns \X Nat]
  BY DEF Units
<1>. QED BY <1>1 DEF Units

(* The buffer b after a recv() of n units of connection c, r read before.  *)
Received(b, c, r, n) == [data |-> b.data \o Units(c, r, r + n), offset |-> b.offset]

(* What recv() returned is appended: the offset stays, n more are pending. *)
LEMMA ReceivedHolds ==
  ASSUME NEW b \in Buffer, NEW c \in Conns, NEW r \in Nat, Holds(b, c, r), NEW n \in Nat
  PROVE  /\ Received(b, c, r, n) \in Buffer /\ Holds(Received(b, c, r, n), c, r + n)
         /\ Received(b, c, r, n).offset = b.offset
         /\ PendingUnits(Received(b, c, r, n)) = PendingUnits(b) + n
         /\ Len(Received(b, c, r, n).data) = Len(b.data) + n
<1>. DEFINE d == Received(b, c, r, n)
            u == Units(c, r, r + n)
            x == b.data
            o == b.offset
            y == x \o u
<1>1. u \in Seq(Conns \X Nat) /\ Len(u) = n /\ \A i \in 1..n : u[i] = <<c, r + i - 1>>
  BY UnitsAre
<1>2. /\ x \in Seq(Conns \X Nat) /\ Len(x) \in Nat
      /\ o \in Nat /\ o <= Len(x) /\ PendingUnits(b) = Len(x) - o
      /\ b = [data |-> x, offset |-> o]
  BY BufferParts
<1>3. Len(x) <= r /\ \A i \in 1..Len(x) : x[i] = <<c, r - Len(x) + i - 1>>
  BY DEF Holds
<1>4. d = [data |-> y, offset |-> o]
  BY DEF Received
<1>. HIDE DEF u, x, o, d
<1>5. /\ y \in Seq(Conns \X Nat) /\ Len(y) = Len(x) + n
      /\ \A i \in 1..Len(y) : y[i] = IF i <= Len(x) THEN x[i] ELSE u[i - Len(x)]
  <2>1. /\ y \in Seq(Conns \X Nat) /\ Len(y) = Len(x) + Len(u)
        /\ \A i \in 1..(Len(x) + Len(u)) : y[i] = IF i <= Len(x) THEN x[i] ELSE u[i - Len(x)]
    BY <1>1, <1>2, ConcatProperties, Zenon
  <2>. QED BY <1>1, <2>1, Zenon
<1>. HIDE DEF y
<1>6. d.data = y /\ d.offset = o /\ d \in Buffer
  <2>1. y \in Seq(Conns \X Nat) /\ o \in Nat /\ o <= Len(y)
    BY <1>2, <1>5
  <2>2. [data |-> y, offset |-> o] \in Buffer
    BY <2>1, MakeBuffer, Zenon
  <2>. QED BY <1>4, <2>2
<1>7. PendingUnits(d) = PendingUnits(b) + n
  <2>1. PendingUnits(d) = Len(y) - o
    BY <1>6, BufferParts
  <2>. QED BY <1>2, <1>5, <2>1
<1>8. \A i \in 1..Len(y) : y[i] = <<c, r + n - Len(y) + i - 1>>
  <2>. SUFFICES ASSUME NEW i \in 1..Len(y) PROVE y[i] = <<c, r + n - Len(y) + i - 1>>
    OBVIOUS
  <2>0. Len(y) = Len(x) + n /\ i \in Nat /\ i >= 1 /\ i <= Len(x) + n /\ Len(x) \in Nat
    BY <1>2, <1>5
  <2>1. CASE i <= Len(x)
    <3>1. i \in 1..Len(x) /\ y[i] = x[i] /\ r - Len(x) = r + n - Len(y)
      BY <2>0, <2>1, <1>5
    <3>. QED BY <1>3, <3>1
  <2>2. CASE i > Len(x)
    <3>1. i - Len(x) \in 1..n /\ r + (i - Len(x)) - 1 = r + n - Len(y) + i - 1
      BY <2>0, <2>2
    <3>2. y[i] = u[i - Len(x)]
      BY <2>0, <2>2, <1>5
    <3>. QED BY <1>1, <3>1, <3>2
  <2>. QED BY <2>0, <2>1, <2>2
<1>9. Holds(d, c, r + n)
  <2>1. Len(y) <= r + n
    BY <1>2, <1>3, <1>5
  <2>. QED BY <1>6, <1>8, <2>1 DEF Holds
<1>. QED BY <1>5, <1>6, <1>7, <1>9 DEF x, o, d

(* availableFrames(): as many frames as are complete, the rest is less     *)
(* than one more.                                                          *)
LEMMA Available ==
  ASSUME NEW b \in Buffer
  PROVE  /\ AvailableFrames(b) \in Nat
         /\ AvailableFrames(b) * FrameUnits <= PendingUnits(b)
         /\ PendingUnits(b) < AvailableFrames(b) * FrameUnits + FrameUnits
<1>. DEFINE p == PendingUnits(b)
<1>1. p \in Nat
  BY BufferParts
<1>. HIDE DEF p
<1>2. /\ p = FrameUnits * (p \div FrameUnits) + (p % FrameUnits)
      /\ p % FrameUnits \in 0..(FrameUnits - 1) /\ p \div FrameUnits \in Int
  BY <1>1, FramesAssumption, SMT
<1>3. p \div FrameUnits >= 0
  BY <1>1, FramesAssumption, SMT
<1>. DEFINE q == p \div FrameUnits
<1>4. q * FrameUnits = FrameUnits * q /\ q * FrameUnits \in Int /\ q \in Nat
  BY <1>2, <1>3, FramesAssumption, SMT
<1>5. AvailableFrames(b) = q
  BY DEF AvailableFrames, p
<1>. HIDE DEF q
<1>6. p = FrameUnits * q + (p % FrameUnits)
  BY <1>2 DEF q
<1>7. q * FrameUnits <= p /\ p < q * FrameUnits + FrameUnits
  BY <1>1, <1>2, <1>4, <1>6, FramesAssumption
<1>. QED BY <1>4, <1>5, <1>7 DEF p

(* Multiples of a positive number are ordered as their factors are.        *)
LEMMA Multiples ==
  ASSUME NEW i \in Nat, NEW k \in Nat, i < k, NEW m \in Nat \ {0}
  PROVE  i * m \in Nat /\ (i + 1) * m = i * m + m /\ (i + 1) * m <= k * m /\ k * m \in Nat
<1>1. i * m \in Nat /\ k * m \in Nat /\ (i + 1) * m = i * m + m
  BY SMT
<1>2. PICK j \in Nat : k = i + 1 + j
  <2>1. k = i + 1 + (k - i - 1) /\ k - i - 1 \in Nat
    OBVIOUS
  <2>. QED BY <2>1
<1>3. j * m >= 0 /\ j * m \in Int
  BY SMT
<1>4. k * m = (i + 1) * m + j * m
  BY <1>2, SMT
<1>. QED BY <1>1, <1>3, <1>4

(* The i-th complete frame of a buffer is a frame of the connection's own  *)
(* consecutive units, at the position the buffer's length determines.      *)
LEMMA FrameCut ==
  ASSUME NEW b \in Buffer, NEW c \in Conns, NEW r \in Nat, Holds(b, c, r),
         NEW i \in 0..(AvailableFrames(b) - 1)
  PROVE  /\ FrameIn(b, i) \in Frame
         /\ i * FrameUnits \in Nat
         /\ FrameIn(b, i) = Units(c, r - PendingUnits(b) + i * FrameUnits,
                                     r - PendingUnits(b) + i * FrameUnits + FrameUnits)
<1>. USE FramesAssumption
<1>. DEFINE a == i * FrameUnits
            p == PendingUnits(b)
            x == b.data
            o == b.offset
            k == AvailableFrames(b)
<1>0. k \in Nat /\ k * FrameUnits <= p
  BY Available
<1>1. /\ a \in Nat /\ (i + 1) * FrameUnits = a + FrameUnits
      /\ a + FrameUnits <= p
  <2>1. i \in Nat /\ i < k
    BY <1>0
  <2>2. /\ a \in Nat /\ (i + 1) * FrameUnits = a + FrameUnits
        /\ (i + 1) * FrameUnits <= k * FrameUnits /\ k * FrameUnits \in Nat
    BY <1>0, <2>1, Multiples
  <2>3. p \in Nat
    BY BufferParts
  <2>. DEFINE ku == k * FrameUnits
  <2>4. a + FrameUnits <= ku /\ ku \in Nat /\ ku <= p
    BY <1>0, <2>2
  <2>. HIDE DEF ku, k, p, a
  <2>5. a + FrameUnits <= p
    BY <2>2, <2>3, <2>4
  <2>. QED BY <2>2, <2>5
<1>2. /\ x \in Seq(Conns \X Nat) /\ Len(x) \in Nat
      /\ o \in Nat /\ o <= Len(x) /\ p = Len(x) - o /\ p \in Nat
  BY BufferParts
<1>3. Len(x) <= r /\ \A j \in 1..Len(x) : x[j] = <<c, r - Len(x) + j - 1>>
  BY DEF Holds
<1>. DEFINE lo == o + a
            f == SubSeq(x, lo + 1, lo + FrameUnits)
<1>4. FrameIn(b, i) = SubSeq(x, lo + 1, o + (i + 1) * FrameUnits)
  BY DEF FrameIn
<1>. HIDE DEF a, p, x, o, k
<1>5. FrameIn(b, i) = f
  <2>1. o + (i + 1) * FrameUnits = lo + FrameUnits
    BY <1>1, <1>2
  <2>. QED BY <1>4, <2>1
<1>6. lo \in Nat /\ lo + FrameUnits <= Len(x) /\ lo = Len(x) - p + a
  <2>1. a \in Nat /\ a + FrameUnits <= p
    BY <1>1
  <2>. QED BY <1>2, <2>1
<1>. HIDE DEF lo
<1>7. /\ f \in Seq(Conns \X Nat) /\ Len(f) = FrameUnits
      /\ \A j \in 1..FrameUnits : f[j] = x[lo + j]
  <2>1. x \in Seq(Conns \X Nat) /\ lo \in Nat /\ FrameUnits \in Nat /\ lo + FrameUnits <= Len(x)
    BY <1>2, <1>6
  <2>. QED BY <2>1, Cut
<1>. HIDE DEF f
<1>8. f \in [1..FrameUnits -> Conns \X Nat]
  BY <1>7
<1>9. \A j \in 1..FrameUnits : f[j] = <<c, r - p + a + j - 1>>
  <2>. SUFFICES ASSUME NEW j \in 1..FrameUnits PROVE f[j] = <<c, r - p + a + j - 1>>
    OBVIOUS
  <2>1. lo + j \in 1..Len(x) /\ r - Len(x) + (lo + j) - 1 = r - p + a + j - 1
    BY <1>1, <1>2, <1>6
  <2>. QED BY <1>3, <1>7, <2>1
<1>10. Units(c, r - p + a, r - p + a + FrameUnits) = [j \in 1..FrameUnits |-> <<c, r - p + a + j - 1>>]
  BY <1>1, <1>2 DEF Units
<1>11. f = Units(c, r - p + a, r - p + a + FrameUnits)
  BY <1>8, <1>9, <1>10
<1>. QED BY <1>1, <1>5, <1>8, <1>11 DEF Frame, a, p

(* A nonempty set of naturals has a least element: the choice in           *)
(* ValidFrames is well defined.                                            *)
LEMMA Smallest ==
  ASSUME NEW T \in SUBSET Nat, T # {}
  PROVE  \E x \in T : \A y \in T : x <= y
<1>1. PICK x \in T : \A y \in T : ~ (<<y, x>> \in OpToRel(<, Nat))
  BY NatLessThanWellFounded, WFMin
<1>2. \A y \in T : ~(y < x)
  BY <1>1 DEF OpToRel
<1>. QED BY <1>2

(* The frames before the first one that decode() refuses are accepted, and *)
(* they are all complete frames or the next one is refused.                *)
LEMMA ValidAre ==
  ASSUME NEW b \in Buffer
  PROVE  /\ ValidFrames(b) \in 0..AvailableFrames(b)
         /\ \A i \in 0..(ValidFrames(b) - 1) : Decodes(FrameIn(b, i))
         /\ ValidFrames(b) # AvailableFrames(b) => ~Decodes(FrameIn(b, ValidFrames(b)))
<1>. DEFINE refused == {i \in 0..(AvailableFrames(b) - 1) : ~Decodes(FrameIn(b, i))}
<1>0. AvailableFrames(b) \in Nat
  BY Available
<1>1. CASE refused = {}
  <2>1. ValidFrames(b) = AvailableFrames(b)
    BY <1>1 DEF ValidFrames
  <2>. QED BY <1>0, <1>1, <2>1
<1>2. CASE refused # {}
  <2>0. refused \in SUBSET Nat
    BY <1>0
  <2>1. PICK x \in refused : \A y \in refused : x <= y
    BY <1>2, <2>0, Smallest, Zenon
  <2>2. ValidFrames(b) = CHOOSE i \in refused : \A j \in refused : i <= j
    BY <1>2 DEF ValidFrames
  <2>3. ValidFrames(b) \in refused /\ \A y \in refused : ValidFrames(b) <= y
    <3>. HIDE DEF refused
    <3>. QED BY <2>1, <2>2
  <2>. QED BY <1>0, <2>3
<1>. QED BY <1>1, <1>2

-----------------------------------------------------------------------------
(* The ring: positions are ordered as tailSeen <= tail <= headSeen <=      *)
(* head, by the producer's view of the tail never more than Capacity       *)
(* frames are pending, and a notification never announces what has not     *)
(* happened.                                                               *)
Ring ==
  /\ stream \in Seq(Frame)
  /\ tail \in 0..head /\ tailSeen \in 0..tail /\ headSeen \in tail..head
  /\ head - tailSeen <= Capacity
  /\ dataReady \in {NotSet} \cup 0..head /\ spaceReady \in {NotSet} \cup 0..tail

(* A connection is not read ahead of what its peer has sent.               *)
Traffic ==
  /\ sent \in [Conns -> Nat] /\ received \in [Conns -> Nat]
  /\ \A c \in Conns : received[c] <= sent[c] /\ sent[c] <= MaxUnits[c]

(* readClient() has bytes of this recv() in hand.                          *)
Busy == spc \in {"check", "notify", "full"}

(* A buffer is below its bounds, and outside readClient(), or when all     *)
(* complete frames were published, it holds less than a frame.             *)
Bounded(f) ==
  /\ PendingUnits(input[f]) < FrameUnits + RecvUnits
  /\ Len(input[f].data) < CompactAt + FrameUnits + RecvUnits
  /\ ~(Busy /\ f = event.fd) => Len(input[f].data) < CompactAt + FrameUnits
  /\ ~(Busy /\ f = event.fd /\ (spc = "full" \/ invalid)) => PendingUnits(input[f]) < FrameUnits

(* Every client's buffer holds the last units read from its connection,    *)
(* and a free descriptor has an empty one: no bytes of a former client     *)
(* wait there for the next one.                                            *)
Buffers ==
  /\ input \in [Fds -> Buffer]
  /\ \A f \in Fds \ ClientFds : input[f] = EmptyBuffer
  /\ \A f \in ClientFds : Holds(input[f], clients[f], received[clients[f]])
  /\ \A f \in Fds : Bounded(f)

(* An event of spaceReady still to be handled will find the eventfd set,   *)
(* since nobody but the server consumes it: its read() cannot block.       *)
SpaceFresh == \A e \in events : e.kind = "space" => spaceReady # NotSet

(* The inductive invariant of the buffers and the ring.                    *)
InputInv == Ring /\ Traffic /\ Buffers /\ SpaceFresh

(* compact() of a buffer with less than a frame leaves a small one.        *)
LEMMA SettledCompact ==
  ASSUME NEW b \in Buffer, NEW c, NEW r \in Nat, Holds(b, c, r), PendingUnits(b) < FrameUnits
  PROVE  /\ Compact(b) \in Buffer /\ Holds(Compact(b), c, r)
         /\ PendingUnits(Compact(b)) < FrameUnits
         /\ Len(Compact(b).data) < CompactAt + FrameUnits
<1>. DEFINE p == PendingUnits(b)
            x == Len(Compact(b).data)
<1>1. /\ Compact(b) \in Buffer /\ Holds(Compact(b), c, r) /\ PendingUnits(Compact(b)) = p
      /\ x <= Larger(CompactAt + p - 1, p)
  BY CompactHolds
<1>2. x \in Nat /\ p \in Nat
  BY <1>1, BufferParts
<1>3. p < FrameUnits
  OBVIOUS
<1>4. x < CompactAt + FrameUnits
  <2>. HIDE DEF x, p
  <2>. QED BY <1>1, <1>2, <1>3, ServerAssumption, FramesAssumption DEF Larger
<1>. QED BY <1>1, <1>3, <1>4

(* Removing all clients leaves every buffer empty.                         *)
LEMMA NoBuffers ==
  ASSUME input' = [f \in Fds |-> EmptyBuffer], clients' = [f \in Fds |-> NoConn]
  PROVE  Buffers'
<1>1. EmptyBuffer \in Buffer /\ PendingUnits(EmptyBuffer) = 0 /\ Len(EmptyBuffer.data) = 0
  BY EmptyBufferHolds
<1>2. ClientFds' = {}
  BY DEF ClientFds
<1>3. \A f \in Fds : Bounded(f)'
  BY <1>1, FramesAssumption, ServerAssumption DEF Bounded
<1>. QED BY <1>1, <1>2, <1>3 DEF Buffers

(* A step that touches no buffer and no client keeps them.                 *)
LEMMA BuffersKept ==
  ASSUME Buffers, UNCHANGED <<input, clients>>,
         \A f \in ClientFds : received'[clients[f]] = received[clients[f]],
         Busy => /\ Busy' /\ UNCHANGED <<event, invalid>>
                 /\ spc' = "full" <=> spc = "full"
  PROVE  Buffers'
<1>1. ClientFds' = ClientFds
  BY DEF ClientFds
<1>2. ASSUME NEW f \in Fds PROVE Bounded(f)'
  <2>1. Bounded(f)
    BY DEF Buffers
  <2>2. input'[f] = input[f] /\ PendingUnits(input[f])' = PendingUnits(input[f])
    BY DEF PendingUnits
  <2>3. CASE Busy
    BY <2>1, <2>2, <2>3 DEF Bounded
  <2>4. CASE ~Busy
    BY <2>1, <2>2, <2>4, FramesAssumption, ServerAssumption DEF Bounded
  <2>. QED BY <2>3, <2>4
<1>3. \A f \in ClientFds : Holds(input[f], clients[f], received[clients[f]])'
  BY DEF Buffers, Holds
<1>. QED BY <1>1, <1>2, <1>3 DEF Buffers

(* removeClient() of the client being read empties its buffer.             *)
LEMMA BuffersRemoved ==
  ASSUME ControlInv, Buffers, spc \in Reading, RemoveClients({event.fd}), NextEvent,
         \A c \in Conns \ {clients[event.fd]} : received'[c] = received[c]
  PROVE  Buffers'
<1>1. event.fd \in ClientFds /\ event.fd \in Fds
  BY DEF ControlInv, Phases, ClientFds
<1>2. /\ clients' = [f \in Fds |-> IF f \in {event.fd} THEN NoConn ELSE clients[f]]
      /\ input' = [f \in Fds |-> IF f \in {event.fd} THEN EmptyBuffer ELSE input[f]]
      /\ spc' = "dispatch"
  BY DEF RemoveClients, NextEvent
<1>3. ClientFds' = ClientFds \ {event.fd}
  BY <1>1, <1>2 DEF ClientFds
<1>4. EmptyBuffer \in Buffer /\ PendingUnits(EmptyBuffer) = 0 /\ Len(EmptyBuffer.data) = 0
  BY EmptyBufferHolds
<1>5. ASSUME NEW f \in Fds PROVE Bounded(f)'
  <2>1. CASE f = event.fd
    BY <1>2, <1>4, <2>1, FramesAssumption, ServerAssumption DEF Bounded
  <2>2. CASE f # event.fd
    BY <1>2, <2>2 DEF Bounded, Buffers, Busy
  <2>. QED BY <2>1, <2>2
<1>6. ASSUME NEW f \in ClientFds \ {event.fd}
      PROVE  Holds(input[f], clients[f], received[clients[f]])'
  <2>1. f \in Fds /\ clients[f] \in Conns /\ clients[f] # clients[event.fd]
    BY <1>1 DEF ControlInv, ControlTypes, ClientsOpen, ClientFds
  <2>2. Holds(input[f], clients[f], received[clients[f]])
    BY DEF Buffers
  <2>3. input'[f] = input[f] /\ clients'[f] = clients[f] /\ received'[clients[f]] = received[clients[f]]
    BY <1>2, <2>1
  <2>. QED BY <2>2, <2>3 DEF Holds
<1>. QED BY <1>2, <1>3, <1>4, <1>5, <1>6 DEF Buffers

(* compact() at the end of a round of readClient().                        *)
LEMMA BuffersCompacted ==
  ASSUME ControlInv, Buffers, Traffic, spc = "notify", ~invalid,
         spc' \in {"recv", "dispatch"}, UNCHANGED <<clients, received>>,
         input' = [input EXCEPT ![event.fd] = Compact(@)]
  PROVE  Buffers'
<1>1. event.fd \in ClientFds /\ event.fd \in Fds /\ clients[event.fd] \in Conns
  BY DEF ControlInv, Phases, ClientFds, Reading, ControlTypes
<1>2. ClientFds' = ClientFds /\ ~Busy'
  BY DEF ClientFds, Busy
<1>3. /\ input[event.fd] \in Buffer /\ PendingUnits(input[event.fd]) < FrameUnits
      /\ received[clients[event.fd]] \in Nat
      /\ Holds(input[event.fd], clients[event.fd], received[clients[event.fd]])
  BY <1>1 DEF Buffers, Bounded, Traffic
<1>. DEFINE b == Compact(input[event.fd])
<1>4. /\ b \in Buffer /\ Holds(b, clients[event.fd], received[clients[event.fd]])
      /\ PendingUnits(b) < FrameUnits /\ Len(b.data) < CompactAt + FrameUnits
  BY <1>3, SettledCompact
<1>5. input' \in [Fds -> Buffer] /\ input'[event.fd] = b
      /\ \A f \in Fds \ {event.fd} : input'[f] = input[f]
  BY <1>1, <1>4 DEF Buffers
<1>. HIDE DEF b
<1>6. ASSUME NEW f \in Fds PROVE Bounded(f)'
  <2>1. CASE f = event.fd
    <3>1. PendingUnits(b) \in Nat /\ Len(b.data) \in Nat
      BY <1>4, BufferParts
    <3>. QED BY <1>2, <1>4, <1>5, <2>1, <3>1, FramesAssumption, ServerAssumption DEF Bounded
  <2>2. CASE f # event.fd
    BY <1>2, <1>5, <2>2 DEF Bounded, Buffers
  <2>. QED BY <2>1, <2>2
<1>7. \A f \in ClientFds : Holds(input[f], clients[f], received[clients[f]])'
  <2>. SUFFICES ASSUME NEW f \in ClientFds
                PROVE  Holds(input'[f], clients[f], received[clients[f]])
    OBVIOUS
  <2>1. f \in Fds
    BY DEF ClientFds
  <2>2. CASE f = event.fd
    BY <1>4, <1>5, <2>2
  <2>3. CASE f # event.fd
    BY <1>5, <2>1, <2>3 DEF Buffers
  <2>. QED BY <2>2, <2>3
<1>8. \A f \in Fds \ ClientFds : input'[f] = EmptyBuffer
  BY <1>1, <1>5 DEF Buffers
<1>. QED BY <1>2, <1>5, <1>6, <1>7, <1>8 DEF Buffers

(* The pause compacts the buffer of the client being read, or removes it.  *)
LEMMA BuffersPaused ==
  ASSUME ControlInv, Buffers, Traffic, spc = "notify",
         PauseIngress(IF invalid THEN {event.fd} ELSE {})
  PROVE  Buffers'
<1>1. event.fd \in ClientFds /\ event.fd \in Fds /\ invalid \in BOOLEAN
  BY DEF ControlInv, Phases, ClientFds, Reading, ControlTypes
<1>2. watched = ClientFds
  BY DEF ControlInv, EpollInSync, Phases, Reading
<1>3. CASE invalid
  <2>1. PauseIngress({event.fd})
    BY <1>3
  <2>2. /\ clients' = [f \in Fds |-> IF f \in {event.fd} THEN NoConn ELSE clients[f]]
        /\ input' = [f \in Fds |-> IF f \in {event.fd} THEN EmptyBuffer ELSE input[f]]
        /\ spc' = "dispatch" /\ event' = NoEvent /\ received' = received
    BY <1>2, <2>1 DEF PauseIngress, NextEvent
  <2>3. ClientFds' = ClientFds \ {event.fd}
    BY <1>1, <2>2 DEF ClientFds
  <2>4. EmptyBuffer \in Buffer /\ PendingUnits(EmptyBuffer) = 0 /\ Len(EmptyBuffer.data) = 0
    BY EmptyBufferHolds
  <2>5. ASSUME NEW f \in Fds PROVE Bounded(f)'
    <3>1. CASE f = event.fd
      BY <2>2, <2>4, <3>1, FramesAssumption, ServerAssumption DEF Bounded
    <3>2. CASE f # event.fd
      BY <2>2, <3>2 DEF Bounded, Buffers, Busy
    <3>. QED BY <3>1, <3>2
  <2>6. ASSUME NEW f \in ClientFds \ {event.fd}
        PROVE  Holds(input[f], clients[f], received[clients[f]])'
    <3>1. f \in Fds /\ input'[f] = input[f] /\ clients'[f] = clients[f]
      BY <2>2 DEF ClientFds
    <3>. QED BY <2>2, <3>1 DEF Holds, Buffers
  <2>. QED BY <2>2, <2>3, <2>4, <2>5, <2>6 DEF Buffers
<1>4. CASE ~invalid
  <2>1. PauseIngress({})
    BY <1>4
  <2>2. /\ clients' = [f \in Fds |-> clients[f]]
        /\ input' = [f \in Fds |-> IF f = event.fd THEN Compact(input[f]) ELSE input[f]]
        /\ spc' = "dispatch" /\ received' = received
    BY <1>2, <2>1 DEF PauseIngress, NextEvent
  <2>3. clients' = clients /\ input' = [input EXCEPT ![event.fd] = Compact(@)]
    BY <1>1, <2>2 DEF ControlInv, ControlTypes, Buffers
  <2>. QED BY <1>4, <2>2, <2>3, BuffersCompacted
<1>. QED BY <1>1, <1>3, <1>4

-----------------------------------------------------------------------------
(* The connection that readClient() is reading.                            *)
Source == clients[event.fd]

(* How much the next recv() on it returns.                                 *)
ReadCount == Smaller(sent[Source] - received[Source], RecvUnits)

(* Its buffer after that recv().                                           *)
Refill == Received(input[event.fd], Source, received[Source], ReadCount)

(* The first m complete frames of a buffer.                                *)
FirstFrames(b, m) == [i \in 1..m |-> FrameIn(b, i - 1)]

(* What ReceiveData does with a buffer below its limit: with the tail      *)
(* loaded as t it publishes the first m frames, all the valid ones if the  *)
(* ring has room.                                                          *)
Publish(t, m) ==
  /\ tailSeen' = t
  /\ stream' = stream \o FirstFrames(Refill, m)
  /\ input' = [input EXCEPT ![event.fd] =
                 [data |-> Refill.data, offset |-> Refill.offset + m * FrameUnits]]
  /\ invalid' = (ValidFrames(Refill) # AvailableFrames(Refill))
  /\ publishedAny' = (m # 0)
  /\ m > 0 => head + m - t <= Capacity /\ ~producerClosed
  /\ \/ spc' = "notify" /\ m = ValidFrames(Refill) /\ m = 0
     \/ spc' = "check" /\ m = ValidFrames(Refill) /\ m # 0
     \/ spc' = "full" /\ m < ValidFrames(Refill) /\ (producerClosed \/ m = Capacity - (head - t))
  /\ UNCHANGED <<conn, epollVars, clients, event, pauseRequested>>

(* Sums are ordered as their parts are.                                    *)
LEMMA SumLess ==
  ASSUME NEW x \in Nat, NEW y \in Nat, x < y, NEW r \in Nat, NEW n \in 0..r
  PROVE  x + n < y + r
OBVIOUS

(* The buffer after a recv(): its contents and its bounds, from those of   *)
(* the buffer before.                                                      *)
LEMMA RefillIs ==
  ASSUME ControlInv, Traffic, Buffers, spc = "recv"
  PROVE  /\ event.fd \in ClientFds /\ event.fd \in Fds /\ Source \in Conns
         /\ received[Source] \in Nat /\ sent[Source] - received[Source] \in Nat
         /\ ReadCount \in 0..RecvUnits /\ ReadCount <= sent[Source] - received[Source]
         /\ Refill \in Buffer /\ Holds(Refill, Source, received[Source] + ReadCount)
         /\ PendingUnits(Refill) = PendingUnits(input[event.fd]) + ReadCount
         /\ Len(Refill.data) = Len(input[event.fd].data) + ReadCount
         /\ PendingUnits(Refill) < FrameUnits + RecvUnits
         /\ Len(Refill.data) < CompactAt + FrameUnits + RecvUnits
         /\ ValidFrames(Refill) \in 0..AvailableFrames(Refill)
         /\ AvailableFrames(Refill) \in Nat
<1>1. event.fd \in ClientFds /\ event.fd \in Fds /\ Source \in Conns
  BY DEF ControlInv, Phases, Reading, ControlTypes, Source, ClientFds
<1>2. received[Source] \in Nat /\ sent[Source] - received[Source] \in Nat
  BY <1>1 DEF Traffic
<1>3. ReadCount \in 0..RecvUnits /\ ReadCount <= sent[Source] - received[Source]
  BY <1>2, ServerAssumption DEF ReadCount, Smaller
<1>4. /\ input[event.fd] \in Buffer /\ Holds(input[event.fd], Source, received[Source])
      /\ PendingUnits(input[event.fd]) < FrameUnits
      /\ Len(input[event.fd].data) < CompactAt + FrameUnits
  BY <1>1 DEF Buffers, Bounded, Busy, Source
<1>5. ReadCount \in Nat
  BY <1>3, ServerAssumption
<1>6. /\ Refill \in Buffer /\ Holds(Refill, Source, received[Source] + ReadCount)
      /\ PendingUnits(Refill) = PendingUnits(input[event.fd]) + ReadCount
      /\ Len(Refill.data) = Len(input[event.fd].data) + ReadCount
  BY <1>1, <1>2, <1>4, <1>5, ReceivedHolds DEF Refill
<1>7. PendingUnits(input[event.fd]) \in Nat /\ Len(input[event.fd].data) \in Nat
  BY <1>4, BufferParts
<1>8. /\ PendingUnits(Refill) < FrameUnits + RecvUnits
      /\ Len(Refill.data) < CompactAt + FrameUnits + RecvUnits
  <2>1. FrameUnits \in Nat /\ RecvUnits \in Nat /\ CompactAt \in Nat
    BY FramesAssumption, ServerAssumption
  <2>2. PendingUnits(input[event.fd]) + ReadCount < FrameUnits + RecvUnits
    BY <1>3, <1>4, <1>7, <2>1, SumLess
  <2>3. CompactAt + FrameUnits \in Nat
    BY <2>1
  <2>4. Len(input[event.fd].data) + ReadCount < CompactAt + FrameUnits + RecvUnits
    BY <1>3, <1>4, <1>7, <2>1, <2>3, SumLess
  <2>. QED BY <1>6, <2>2, <2>4
<1>9. ValidFrames(Refill) \in 0..AvailableFrames(Refill) /\ AvailableFrames(Refill) \in Nat
  BY <1>6, ValidAre, Available
<1>. QED BY <1>1, <1>2, <1>3, <1>6, <1>8, <1>9

(* ReceiveData either closes the connection, because its buffer grew past  *)
(* the limit, or publishes.                                                *)
LEMMA ReceiveCases ==
  ASSUME ControlInv, Ring, Traffic, Buffers, ReceiveData
  PROVE  /\ spc = "recv"
         /\ ReadCount > 0
         /\ received' = [received EXCEPT ![Source] = @ + ReadCount]
         /\ UNCHANGED <<tail, headSeen, producerClosed, dataReady, spaceReady, sent, hangup,
                        signalVars, state, paused, events, result>>
         /\ \/ /\ PendingUnits(Refill) > MaxInput
               /\ RemoveClients({event.fd}) /\ NextEvent /\ UNCHANGED <<stream, tailSeen>>
            \/ \E t \in tailSeen..tail, m \in 0..ValidFrames(Refill) : Publish(t, m)
<1>0. spc = "recv"
  BY DEF ReceiveData
<1>. DEFINE f == event.fd
            c == clients[f]
            n == Smaller(sent[c] - received[c], RecvUnits)
            b == [data |-> input[f].data \o Units(c, received[c], received[c] + n),
                  offset |-> input[f].offset]
            valid == ValidFrames(b)
            frames == [i \in 1..valid |-> FrameIn(b, i - 1)]
<1>1. c = Source /\ n = ReadCount
  BY DEF Source, ReadCount
<1>2. b = Refill
  BY DEF Refill, Received, Source, ReadCount
<1>3. /\ n > 0 /\ received' = [received EXCEPT ![c] = @ + n]
      /\ UNCHANGED <<tail, headSeen, producerClosed, dataReady, spaceReady, sent, hangup,
                     signalVars, state, paused, events, result>>
      /\ \/ /\ PendingUnits(b) > MaxInput
            /\ RemoveClients({f}) /\ NextEvent /\ UNCHANGED <<stream, tailSeen>>
         \/ /\ invalid' = (valid # AvailableFrames(b))
            /\ \E t \in tailSeen..tail :
                 IF valid = 0
                   THEN /\ t = tailSeen
                        /\ spc' = "notify" /\ publishedAny' = FALSE
                        /\ input' = [input EXCEPT ![f] = b]
                        /\ UNCHANGED <<stream, tailSeen>>
                   ELSE /\ TryPushBatch(frames, t)
                        /\ spc' = IF PushCount(frames, t) # valid THEN "full" ELSE "check"
                        /\ publishedAny' = (PushCount(frames, t) # 0)
                        /\ input' = [input EXCEPT ![f] =
                             [b EXCEPT !.offset = @ + PushCount(frames, t) * FrameUnits]]
            /\ UNCHANGED <<conn, epollVars, clients, event, pauseRequested>>
  BY DEF ReceiveData
<1>. HIDE DEF b, n, c
<1>4. ASSUME NEW t \in tailSeen..tail, valid = 0, t = tailSeen,
             invalid' = (valid # AvailableFrames(b)),
             spc' = "notify", publishedAny' = FALSE, input' = [input EXCEPT ![f] = b],
             UNCHANGED <<stream, tailSeen>>,
             UNCHANGED <<conn, epollVars, clients, event, pauseRequested>>
      PROVE  Publish(t, 0)
  <2>1. b = [data |-> b.data, offset |-> b.offset + 0 * FrameUnits]
    BY <1>0, <1>2, RefillIs, BufferParts, FramesAssumption
  <2>2. FirstFrames(Refill, 0) = <<>>
    BY DEF FirstFrames
  <2>3. stream' = stream \o FirstFrames(Refill, 0)
    BY <1>4, <2>2 DEF Ring
  <2>4. publishedAny' = (0 # 0)
    BY <1>4
  <2>5. input' = [input EXCEPT ![f] = [data |-> b.data, offset |-> b.offset + 0 * FrameUnits]]
    BY <1>4, <2>1, Zenon
  <2>6. ~(0 > 0)
    OBVIOUS
  <2>. QED BY <1>2, <1>4, <2>3, <2>4, <2>5, <2>6, Zenon DEF Publish
<1>5. ASSUME NEW t \in tailSeen..tail, valid # 0,
             invalid' = (valid # AvailableFrames(b)),
             TryPushBatch(frames, t),
             spc' = IF PushCount(frames, t) # valid THEN "full" ELSE "check",
             publishedAny' = (PushCount(frames, t) # 0),
             input' = [input EXCEPT ![f] =
                         [b EXCEPT !.offset = @ + PushCount(frames, t) * FrameUnits]],
             UNCHANGED <<conn, epollVars, clients, event, pauseRequested>>
      PROVE  \E m \in 0..ValidFrames(Refill) : Publish(t, m)
  <2>. DEFINE m == PushCount(frames, t)
  <2>1. valid \in Nat
    BY <1>0, <1>2, RefillIs
  <2>2. Len(frames) = valid
    <3>. HIDE DEF valid
    <3>. QED BY <2>1
  <2>3. head \in Nat /\ t \in Nat /\ t <= head /\ head - t <= Capacity
    <3>1. head \in Nat
      BY LenProperties DEF Ring, head
    <3>2. tail \in 0..head /\ tailSeen \in 0..tail /\ head - tailSeen <= Capacity
      BY DEF Ring
    <3>. QED BY <3>1, <3>2, IpcAssumption
  <2>4. /\ m \in 0..valid /\ (m > 0 => head + m - t <= Capacity /\ ~producerClosed)
        /\ m # valid => m < valid /\ (producerClosed \/ m = Capacity - (head - t))
    <3>. HIDE DEF valid, frames
    <3>. QED BY <2>1, <2>2, <2>3, IpcAssumption DEF PushCount, Smaller
  <2>5. SubSeq(frames, 1, m) = FirstFrames(b, m)
    <3>1. m \in Nat /\ m <= valid
      BY <2>1, <2>4
    <3>. HIDE DEF m, valid
    <3>2. SubSeq(frames, 1, m) = [i \in 1..m |-> frames[i]]
      BY <2>1, <2>2, <3>1
    <3>3. \A i \in 1..m : frames[i] = FrameIn(b, i - 1)
      BY <2>1, <3>1
    <3>. QED BY <3>2, <3>3 DEF FirstFrames
  <2>6. tailSeen' = t /\ stream' = stream \o FirstFrames(b, m)
    BY <1>5, <2>5 DEF TryPushBatch
  <2>7. [b EXCEPT !.offset = @ + m * FrameUnits] = [data |-> b.data, offset |-> b.offset + m * FrameUnits]
    <3>1. b = [data |-> b.data, offset |-> b.offset]
      BY <1>0, <1>2, RefillIs, BufferParts
    <3>. HIDE DEF m
    <3>. QED BY <3>1
  <2>. HIDE DEF m
  <2>8. Publish(t, m)
    BY <1>2, <1>5, <2>4, <2>6, <2>7 DEF Publish, m
  <2>. QED BY <1>2, <2>4, <2>8
<1>6. ASSUME NEW t \in tailSeen..tail, Publish(t, 0)
      PROVE  \E m \in 0..ValidFrames(Refill) : Publish(t, m)
  BY <1>0, <1>6, RefillIs
<1>7. CASE PendingUnits(b) > MaxInput /\ RemoveClients({f}) /\ NextEvent
           /\ UNCHANGED <<stream, tailSeen>>
  BY <1>0, <1>1, <1>2, <1>3, <1>7
<1>8. CASE /\ invalid' = (valid # AvailableFrames(b))
           /\ \E t \in tailSeen..tail :
                 IF valid = 0
                   THEN /\ t = tailSeen
                        /\ spc' = "notify" /\ publishedAny' = FALSE
                        /\ input' = [input EXCEPT ![f] = b]
                        /\ UNCHANGED <<stream, tailSeen>>
                   ELSE /\ TryPushBatch(frames, t)
                        /\ spc' = IF PushCount(frames, t) # valid THEN "full" ELSE "check"
                        /\ publishedAny' = (PushCount(frames, t) # 0)
                        /\ input' = [input EXCEPT ![f] =
                             [b EXCEPT !.offset = @ + PushCount(frames, t) * FrameUnits]]
           /\ UNCHANGED <<conn, epollVars, clients, event, pauseRequested>>
  <2>. HIDE DEF valid, frames
  <2>1. \E t \in tailSeen..tail, m \in 0..ValidFrames(Refill) : Publish(t, m)
    BY <1>4, <1>5, <1>6, <1>8
  <2>. QED BY <1>0, <1>1, <1>3, <2>1
<1>. QED BY <1>3, <1>7, <1>8

(* The frames to publish are frames, m of them.                            *)
LEMMA FirstFramesAre ==
  ASSUME NEW b \in Buffer, NEW c \in Conns, NEW r \in Nat, Holds(b, c, r),
         NEW m \in 0..AvailableFrames(b)
  PROVE  FirstFrames(b, m) \in Seq(Frame) /\ Len(FirstFrames(b, m)) = m
<1>1. AvailableFrames(b) \in Nat
  BY Available
<1>2. \A i \in 1..m : FrameIn(b, i - 1) \in Frame
  <2>. SUFFICES ASSUME NEW i \in 1..m PROVE FrameIn(b, i - 1) \in Frame
    OBVIOUS
  <2>1. i - 1 \in 0..(AvailableFrames(b) - 1)
    BY <1>1
  <2>. QED BY <2>1, FrameCut
<1>3. FirstFrames(b, m) \in [1..m -> Frame] /\ m \in Nat
  BY <1>1, <1>2 DEF FirstFrames
<1>. QED BY <1>3

(* After publishing m frames the buffer holds the same data with the       *)
(* offset m frames further; after all complete ones, less than a frame is  *)
(* pending.                                                                *)
LEMMA PublishedBuffer ==
  ASSUME NEW b \in Buffer, NEW c, NEW r \in Nat, Holds(b, c, r),
         NEW m \in 0..AvailableFrames(b),
         NEW d, d = [data |-> b.data, offset |-> b.offset + m * FrameUnits]
  PROVE  /\ d \in Buffer /\ Holds(d, c, r) /\ m * FrameUnits \in Nat
         /\ d.data = b.data
         /\ PendingUnits(d) = PendingUnits(b) - m * FrameUnits
         /\ m = AvailableFrames(b) => PendingUnits(d) < FrameUnits
<1>. USE FramesAssumption
<1>. DEFINE a == m * FrameUnits
            k == AvailableFrames(b) * FrameUnits
            x == b.data
            o == b.offset
            p == PendingUnits(b)
<1>1. AvailableFrames(b) \in Nat /\ k <= p /\ p < k + FrameUnits
  BY Available
<1>2. a \in Nat /\ a <= k /\ k \in Nat
  <2>1. CASE m = AvailableFrames(b)
    <3>1. AvailableFrames(b) * FrameUnits \in Nat
      BY <1>1, SMT
    <3>. QED BY <2>1, <3>1
  <2>2. CASE m < AvailableFrames(b)
    <3>1. m \in Nat
      BY <1>1
    <3>. QED BY <1>1, <2>2, <3>1, Multiples
  <2>. QED BY <1>1, <2>1, <2>2
<1>3. m = AvailableFrames(b) => a = k
  OBVIOUS
<1>4. /\ x \in Seq(Conns \X Nat) /\ Len(x) \in Nat
      /\ o \in Nat /\ o <= Len(x) /\ p = Len(x) - o /\ p \in Nat
  BY BufferParts
<1>5. d = [data |-> x, offset |-> o + a]
  OBVIOUS
<1>. HIDE DEF a, k, x, o, p
<1>6. o + a \in Nat /\ o + a <= Len(x)
  BY <1>1, <1>2, <1>4
<1>7. d \in Buffer /\ d.data = x /\ d.offset = o + a
  BY <1>4, <1>5, <1>6, MakeBuffer
<1>8. PendingUnits(d) = p - a
  <2>1. PendingUnits(d) = Len(x) - (o + a)
    BY <1>7, BufferParts
  <2>. QED BY <1>2, <1>4, <2>1
<1>9. Holds(d, c, r)
  BY <1>7 DEF Holds, x
<1>10. m = AvailableFrames(b) => p - a < FrameUnits
  BY <1>1, <1>2, <1>3, <1>4
<1>. QED BY <1>2, <1>7, <1>8, <1>9, <1>10 DEF x, p, a

(* ReceiveData keeps the buffers' invariant.                               *)
LEMMA BuffersReceived ==
  ASSUME ControlInv, Ring, Traffic, Buffers, spc = "recv",
         received' = [received EXCEPT ![Source] = @ + ReadCount],
         NEW t \in tailSeen..tail, NEW m \in 0..ValidFrames(Refill), Publish(t, m)
  PROVE  Buffers'
<1>. DEFINE f == event.fd
            b == Refill
            d == [data |-> b.data, offset |-> b.offset + m * FrameUnits]
<1>1. /\ f \in ClientFds /\ f \in Fds /\ Source \in Conns /\ received[Source] \in Nat
      /\ ReadCount \in 0..RecvUnits
      /\ b \in Buffer /\ Holds(b, Source, received[Source] + ReadCount)
      /\ PendingUnits(b) < FrameUnits + RecvUnits
      /\ Len(b.data) < CompactAt + FrameUnits + RecvUnits
      /\ ValidFrames(b) \in 0..AvailableFrames(b) /\ AvailableFrames(b) \in Nat
  BY RefillIs
<1>2. m \in 0..AvailableFrames(b)
  BY <1>1
<1>3. received[Source] + ReadCount \in Nat
  BY <1>1, ServerAssumption
<1>4. /\ d \in Buffer /\ Holds(d, Source, received[Source] + ReadCount)
      /\ d.data = b.data /\ m * FrameUnits \in Nat
      /\ PendingUnits(d) = PendingUnits(b) - m * FrameUnits
      /\ m = AvailableFrames(b) => PendingUnits(d) < FrameUnits
  BY <1>1, <1>2, <1>3, PublishedBuffer
<1>5. PendingUnits(d) <= PendingUnits(b) /\ PendingUnits(d) \in Nat /\ PendingUnits(b) \in Nat
      /\ Len(d.data) \in Nat
  <2>1. PendingUnits(d) \in Nat /\ PendingUnits(b) \in Nat /\ Len(d.data) \in Nat
    BY <1>1, <1>4, BufferParts
  <2>. DEFINE a == m * FrameUnits
  <2>2. a \in Nat /\ PendingUnits(d) = PendingUnits(b) - a
    BY <1>4
  <2>. HIDE DEF a, d, b
  <2>. QED BY <2>1, <2>2
<1>6. /\ input' = [input EXCEPT ![f] = d]
      /\ clients' = clients /\ event' = event
      /\ invalid' = (ValidFrames(b) # AvailableFrames(b))
      /\ spc' \in {"check", "notify", "full"}
      /\ spc' # "full" => m = ValidFrames(b)
  BY DEF Publish
<1>. HIDE DEF b, d
<1>7. /\ input' \in [Fds -> Buffer] /\ input'[f] = d
      /\ \A g \in Fds \ {f} : input'[g] = input[g]
  BY <1>1, <1>4, <1>6 DEF Buffers
<1>8. ClientFds' = ClientFds /\ Busy'
  BY <1>6 DEF ClientFds, Busy
<1>9. ASSUME NEW g \in Fds PROVE Bounded(g)'
  <2>1. CASE g = f
    <3>1. PendingUnits(d) < FrameUnits + RecvUnits
      BY <1>1, <1>5, FramesAssumption, ServerAssumption
    <3>2. Len(d.data) < CompactAt + FrameUnits + RecvUnits
      BY <1>1, <1>4
    <3>3. ~(spc' = "full" \/ invalid') => PendingUnits(d) < FrameUnits
      BY <1>4, <1>6
    <3>. QED BY <1>6, <1>7, <1>8, <2>1, <3>1, <3>2, <3>3 DEF Bounded
  <2>2. CASE g # f
    BY <1>6, <1>7, <2>2 DEF Bounded, Buffers, Busy
  <2>. QED BY <2>1, <2>2
<1>10. ASSUME NEW g \in ClientFds PROVE Holds(input[g], clients[g], received[clients[g]])'
  <2>0. g \in Fds /\ clients[g] \in Conns
    BY DEF ControlInv, ControlTypes, ClientFds
  <2>1. CASE g = f
    <3>1. clients[g] = Source /\ received'[Source] = received[Source] + ReadCount
      BY <1>1, <2>1 DEF Source, Traffic
    <3>. QED BY <1>4, <1>6, <1>7, <2>1, <3>1
  <2>2. CASE g # f
    <3>1. clients[g] # Source
      BY <1>1, <2>2 DEF Source, ControlInv, ClientsOpen
    <3>2. received'[clients[g]] = received[clients[g]] /\ input'[g] = input[g]
      BY <1>7, <2>0, <2>2, <3>1 DEF Traffic
    <3>3. Holds(input[g], clients[g], received[clients[g]])
      BY DEF Buffers
    <3>. QED BY <1>6, <3>2, <3>3
  <2>. QED BY <2>1, <2>2
<1>11. \A g \in Fds \ ClientFds : input'[g] = EmptyBuffer
  BY <1>1, <1>7 DEF Buffers
<1>. QED BY <1>7, <1>8, <1>9, <1>10, <1>11 DEF Buffers

(* ReceiveData keeps the ring's invariant, and the head advances by the    *)
(* number of frames published.                                             *)
LEMMA RingReceived ==
  ASSUME ControlInv, Ring, Traffic, Buffers, spc = "recv",
         UNCHANGED <<tail, headSeen, dataReady, spaceReady>>,
         NEW t \in tailSeen..tail, NEW m \in 0..ValidFrames(Refill), Publish(t, m)
  PROVE  Ring' /\ head' = head + m /\ head \in Nat /\ m \in Nat
<1>1. /\ Source \in Conns /\ received[Source] \in Nat /\ ReadCount \in 0..RecvUnits
      /\ Refill \in Buffer /\ Holds(Refill, Source, received[Source] + ReadCount)
      /\ ValidFrames(Refill) \in 0..AvailableFrames(Refill) /\ AvailableFrames(Refill) \in Nat
  BY RefillIs
<1>2. m \in 0..AvailableFrames(Refill) /\ received[Source] + ReadCount \in Nat /\ m \in Nat
  BY <1>1, ServerAssumption
<1>. DEFINE s == FirstFrames(Refill, m)
<1>3. s \in Seq(Frame) /\ Len(s) = m
  BY <1>1, <1>2, FirstFramesAre
<1>4. stream' = stream \o s /\ tailSeen' = t /\ (m > 0 => head + m - t <= Capacity)
  BY DEF Publish
<1>. HIDE DEF s
<1>5. stream' \in Seq(Frame) /\ head' = head + m /\ head \in Nat
  BY <1>3, <1>4, ConcatProperties, LenProperties DEF Ring, head
<1>6. /\ tail \in 0..head /\ tailSeen \in 0..tail /\ headSeen \in tail..head
      /\ head - tailSeen <= Capacity
      /\ dataReady \in {NotSet} \cup 0..head /\ spaceReady \in {NotSet} \cup 0..tail
  BY DEF Ring
<1>7. /\ tail' \in 0..head' /\ tailSeen' \in 0..tail' /\ headSeen' \in tail'..head'
      /\ head' - tailSeen' <= Capacity
      /\ dataReady' \in {NotSet} \cup 0..head' /\ spaceReady' \in {NotSet} \cup 0..tail'
  BY <1>2, <1>4, <1>5, <1>6, IpcAssumption
<1>. QED BY <1>2, <1>5, <1>7 DEF Ring

-----------------------------------------------------------------------------
(* Less is left when more is taken away.                                   *)
LEMMA Subtract ==
  ASSUME NEW x \in Nat, NEW y \in Nat, NEW z \in Nat, NEW c \in Nat, y <= z, x - y <= c
  PROVE  x - z <= c
  OBVIOUS

(* A step of either process that moves its own positions forward, and sets *)
(* or consumes notifications, keeps the ring's invariant.                  *)
LEMMA RingStep ==
  ASSUME Ring, UNCHANGED stream,
         tail' \in tail..head, headSeen' \in tail'..head, tailSeen' \in tailSeen..tail,
         dataReady' \in {NotSet, dataReady, head}, spaceReady' \in {NotSet, spaceReady, tail}
  PROVE  Ring'
<1>1. head \in Nat /\ head' = head
  BY LenProperties DEF Ring, head
<1>2. /\ tail \in 0..head /\ tailSeen \in 0..tail /\ headSeen \in tail..head
      /\ head - tailSeen <= Capacity
      /\ dataReady \in {NotSet} \cup 0..head /\ spaceReady \in {NotSet} \cup 0..tail
  BY DEF Ring
<1>3. /\ tail' \in 0..head /\ tailSeen' \in 0..tail' /\ head - tailSeen' <= Capacity
      /\ dataReady' \in {NotSet} \cup 0..head /\ spaceReady' \in {NotSet} \cup 0..tail'
  <2>1. tail \in Nat /\ tail' \in Nat /\ tail <= tail' /\ tail' <= head
    BY <1>1, <1>2
  <2>2. tailSeen' \in 0..tail' /\ head - tailSeen' <= Capacity
    <3>1. tailSeen \in Nat /\ tailSeen <= tail /\ head - tailSeen <= Capacity
      BY <1>2
    <3>2. tailSeen' \in Nat /\ tailSeen <= tailSeen' /\ tailSeen' <= tail
      BY <2>1, <3>1
    <3>3. tailSeen' \in 0..tail'
      BY <2>1, <3>2
    <3>4. head - tailSeen' <= Capacity
      BY <1>1, <3>1, <3>2, IpcAssumption, Subtract
    <3>. QED BY <3>3, <3>4
  <2>3. dataReady' \in {NotSet} \cup 0..head
    BY <1>1, <1>2
  <2>4. spaceReady' \in {NotSet} \cup 0..tail'
    BY <1>1, <1>2, <2>1
  <2>. QED BY <2>1, <2>2, <2>3, <2>4, <1>1
<1>. QED BY <1>1, <1>3 DEF Ring

(* The ring's positions as ordered numbers.                                *)
LEMMA RingFacts ==
  ASSUME Ring
  PROVE  /\ head \in Nat /\ tail \in Nat /\ tailSeen \in Nat /\ headSeen \in Nat
         /\ tailSeen <= tail /\ tail <= headSeen /\ headSeen <= head /\ tail <= head
         /\ head - tailSeen <= Capacity
         /\ dataReady \in Int /\ spaceReady \in Int /\ dataReady <= head /\ spaceReady <= tail
<1>1. head \in Nat
  BY LenProperties DEF Ring, head
<1>. QED BY <1>1 DEF Ring, NotSet

(* What the server does to the ring and the eventfds when it publishes     *)
(* nothing.                                                                *)
ServerIpc ==
  /\ UNCHANGED <<stream, tail, headSeen, producerClosed, sent, received, hangup>>
  /\ tailSeen' \in tailSeen..tail
  /\ dataReady' \in {dataReady, head} /\ spaceReady' \in {spaceReady, NotSet}

(* Every step of the server but ReceiveData does only that.                *)
LEMMA ServerStepIpc ==
  ASSUME Ring, ServerStep, ~ReceiveData, ControlInv
  PROVE  ServerIpc
<1>. USE DEF ServerIpc
<1>0. /\ head \in Nat /\ tail \in Nat /\ tailSeen \in Nat /\ tailSeen <= tail
      /\ spaceReady \in Int /\ spaceReady <= tail
  BY RingFacts
<1>1. CASE StartServer \/ EpollWait \/ BatchDone \/ ListenEvent \/ AcceptClient \/ AcceptDone \/ ClientEvent
  BY <1>0, <1>1 DEF StartServer, EpollWait, BatchDone, ListenEvent, AcceptClient, AcceptDone,
     ClientEvent, ipcVars, socketVars
<1>2. CASE LoopTop
  <2>1. tailSeen' \in tailSeen..tail
    BY <1>0, <1>2 DEF LoopTop
  <2>2. UNCHANGED <<sent, received, hangup>>
    BY <1>2 DEF LoopTop, Stop, socketVars
  <2>. QED BY <1>2, <2>1, <2>2 DEF LoopTop
<1>3. CASE SignalEvent
  <2>1. UNCHANGED <<sent, received, hangup>>
    BY <1>3 DEF SignalEvent, Stop, socketVars
  <2>2. UNCHANGED ipcVars
    BY <1>3 DEF SignalEvent
  <2>. QED BY <1>0, <2>1, <2>2 DEF ipcVars
<1>4. CASE SpaceEvent
  BY <1>0, <1>4 DEF SpaceEvent, ConsumeSpace, Larger, socketVars
<1>5. CASE ResumeCheck
  BY <1>0, <1>5 DEF ResumeCheck, ResumeIngress, Stop, socketVars
<1>6. CASE PauseCheck
  BY <1>0, <1>6 DEF PauseCheck, socketVars
<1>7. CASE NotifyReader
  <2>1. UNCHANGED <<sent, received, hangup>>
    BY <1>7 DEF NotifyReader, PauseIngress, Stop, socketVars
  <2>. QED BY <1>0, <1>7, <2>1 DEF NotifyReader, NotifyData
<1>8. CASE RingFull
  BY <1>0, <1>8 DEF RingFull, NotifyData, Stop
<1>9. CASE ReceiveEnd \/ ReceiveAgain
  BY <1>0, <1>9 DEF ReceiveEnd, ReceiveAgain, ipcVars
<1>. QED BY <1>1, <1>2, <1>3, <1>4, <1>5, <1>6, <1>7, <1>8, <1>9 DEF ServerStep

(* And so does every failure in the server.                                *)
LEMMA ServerFaultIpc ==
  ASSUME Ring, ServerFault
  PROVE  ServerIpc
<1>. USE DEF ServerIpc
<1>0. head \in Nat /\ tail \in Nat /\ tailSeen \in Nat /\ tailSeen <= tail
  BY RingFacts
<1>1. CASE AcceptUnwatched
  BY <1>0, <1>1 DEF AcceptUnwatched, ipcVars
<1>2. CASE IngressFails
  BY <1>0, <1>2 DEF IngressFails, NotifyData, Stop
<1>3. CASE Stop("failure") /\ UNCHANGED ipcVars
  BY <1>0, <1>3 DEF Stop, ipcVars
<1>. QED BY <1>1, <1>2, <1>3 DEF ServerFault, StartFails, EpollWaitFails, AcceptFails, EventFails, ListenFails,
                                 NotifyReaderFails

(* What the reader does to the ring and the eventfds: it never pops more   *)
(* than was published.                                                     *)
ReaderIpc ==
  /\ UNCHANGED <<stream, tailSeen, producerClosed>>
  /\ tail' \in tail..head /\ headSeen' \in headSeen..head /\ tail' <= headSeen'
  /\ dataReady' \in {dataReady, NotSet} /\ spaceReady' \in {spaceReady, tail}

(* Every step of the reader, and every failure, does only that.            *)
LEMMA ReaderAnyIpc ==
  ASSUME Ring, ReaderStep \/ ReaderFault
  PROVE  ReaderIpc
<1>. USE DEF ReaderIpc
<1>0. /\ head \in Nat /\ tail \in Nat /\ headSeen \in Nat /\ tail <= headSeen /\ headSeen <= head
      /\ dataReady \in Int /\ dataReady <= head
  BY RingFacts
<1>1. CASE Pop
  <2>1. PICK h \in headSeen..head : headSeen' = h /\ tail' = tail + PopCount(IpcBatch, h)
    BY <1>1 DEF Pop, TryPopBatch
  <2>2. tail + PopCount(IpcBatch, h) \in tail..h
    BY <1>0, ReaderAssumption DEF PopCount, Smaller
  <2>3. UNCHANGED <<stream, tailSeen, producerClosed, dataReady, spaceReady>>
    BY <1>1 DEF Pop
  <2>. QED BY <1>0, <2>1, <2>2, <2>3
<1>2. CASE AwaitData
  <2>1. /\ headSeen' = Larger(headSeen, dataReady) /\ dataReady' = NotSet
        /\ UNCHANGED <<stream, tail, tailSeen, producerClosed, spaceReady>>
    BY <1>2 DEF AwaitData, ConsumeData
  <2>2. Larger(headSeen, dataReady) \in headSeen..head
    BY <1>0 DEF Larger
  <2>. QED BY <1>0, <2>1, <2>2
<1>3. CASE CheckClosed
  BY <1>0, <1>3 DEF CheckClosed
<1>4. CASE ReportSpace
  BY <1>0, <1>4 DEF ReportSpace, NotifySpace
<1>5. CASE UNCHANGED ipcVars
  BY <1>0, <1>5 DEF ipcVars
<1>. QED BY <1>1, <1>2, <1>3, <1>4, <1>5
     DEF ReaderStep, ReaderFault, OpenFile, ProcessFrame, ProcessDone, Flush, FinalSync,
         OpenFails, ProcessFails, FlushFails, ReportSpaceFails, FinalSyncFails, AwaitDataFails

(* A new client starts with an empty buffer, although its descriptor may   *)
(* have been used before.                                                  *)
LEMMA BuffersAccepted ==
  ASSUME ControlInv, Traffic, Buffers, AcceptClient
  PROVE  Buffers'
<1>1. PICK c \in Backlog, f \in Fds \ ClientFds : clients' = [clients EXCEPT ![f] = c]
  BY DEF AcceptClient
<1>2. spc = "accept" /\ spc' = spc /\ UNCHANGED <<input, received, event>>
  BY DEF AcceptClient
<1>3. c \in Conns /\ received[c] \in Nat /\ input[f] = EmptyBuffer /\ f \in Fds /\ c # NoConn
  BY ServerAssumption DEF Backlog, Traffic, Buffers
<1>4. ClientFds' = ClientFds \cup {f}
  BY <1>1, <1>3 DEF ClientFds, ControlInv, ControlTypes
<1>5. \A g \in Fds : Bounded(g)'
  BY <1>2 DEF Bounded, Buffers, Busy
<1>6. ASSUME NEW g \in ClientFds \cup {f}
      PROVE  Holds(input[g], clients[g], received[clients[g]])'
  <2>1. CASE g = f
    <3>1. input'[g] = EmptyBuffer /\ clients'[g] = c /\ received'[c] \in Nat
      BY <1>1, <1>2, <1>3, <2>1 DEF ControlInv, ControlTypes
    <3>. QED BY <3>1, EmptyBufferHolds
  <2>2. CASE g # f
    <3>1. clients'[g] = clients[g] /\ input'[g] = input[g]
      BY <1>1, <1>2, <2>2 DEF ControlInv, ControlTypes, ClientFds
    <3>. QED BY <1>2, <2>2, <3>1 DEF Buffers
  <2>. QED BY <2>1, <2>2
<1>7. \A g \in Fds \ (ClientFds \cup {f}) : input'[g] = EmptyBuffer
  BY <1>2 DEF Buffers
<1>. QED BY <1>2, <1>4, <1>5, <1>6, <1>7 DEF Buffers

(* Leaving run() leaves empty buffers and no events.                       *)
LEMMA StopInput ==
  ASSUME NEW r, Stop(r)
  PROVE  Buffers' /\ SpaceFresh'
<1>1. Buffers'
  BY NoBuffers DEF Stop
<1>2. SpaceFresh'
  BY DEF Stop, SpaceFresh
<1>. QED BY <1>1, <1>2

(* Every step of the server but ReceiveData keeps the buffers' invariant.  *)
LEMMA BuffersServerStep ==
  ASSUME ControlInv, Traffic, Buffers, ServerStep, ~ReceiveData
  PROVE  Buffers'
<1>1. CASE \E r \in {"success", "failure"} : Stop(r)
  BY <1>1, StopInput
<1>2. CASE /\ UNCHANGED <<input, clients, received>> /\ ~Busy
  BY <1>2, BuffersKept
<1>3. CASE StartServer \/ EpollWait \/ BatchDone \/ ListenEvent \/ AcceptDone \/ ClientEvent \/ SpaceEvent
  BY <1>2, <1>3 DEF StartServer, EpollWait, BatchDone, ListenEvent, AcceptDone,
     ClientEvent, SpaceEvent, socketVars, clientVars, Busy
<1>4. CASE LoopTop
  BY <1>1, <1>2, <1>4 DEF LoopTop, socketVars, clientVars, Busy
<1>5. CASE SignalEvent
  <2>1. CASE ReaderTerminated
    BY <1>1, <1>5, <2>1 DEF SignalEvent
  <2>2. CASE ~ReaderTerminated /\ ShutdownRequested
    BY <1>5, <2>2, NoBuffers DEF SignalEvent
  <2>3. CASE ~ReaderTerminated /\ ~ShutdownRequested
    BY <1>2, <1>5, <2>3 DEF SignalEvent, socketVars, clientVars, Busy
  <2>. QED BY <2>1, <2>2, <2>3
<1>6. CASE AcceptClient
  BY <1>6, BuffersAccepted
<1>7. CASE ResumeCheck
  BY <1>1, <1>2, <1>7 DEF ResumeCheck, ResumeIngress, socketVars, clientVars, Busy
<1>8. CASE PauseCheck
  <2>1. /\ UNCHANGED <<input, clients, received, event, invalid>>
        /\ spc = "check" /\ spc' = "notify"
    BY <1>8 DEF PauseCheck, socketVars, clientVars
  <2>. QED BY <2>1, BuffersKept DEF Busy
<1>9. CASE NotifyReader
  <2>0. spc = "notify" /\ spc \in Reading
    BY <1>9 DEF NotifyReader, Reading
  <2>1. CASE PauseIngress(IF invalid THEN {event.fd} ELSE {})
    BY <2>0, <2>1, BuffersPaused
  <2>2. CASE RemoveClients({event.fd}) /\ NextEvent /\ UNCHANGED received
    BY <2>0, <2>2, BuffersRemoved
  <2>3. CASE /\ ~invalid /\ input' = [input EXCEPT ![event.fd] = Compact(@)]
             /\ spc' = "recv" /\ UNCHANGED <<clients, received>>
    BY <2>0, <2>3, BuffersCompacted
  <2>. QED BY <1>9, <2>1, <2>2, <2>3 DEF NotifyReader, socketVars
<1>10. CASE RingFull
  BY <1>1, <1>10 DEF RingFull
<1>11. CASE ReceiveEnd
  BY <1>11, BuffersRemoved DEF ReceiveEnd, Reading
<1>12. CASE ReceiveAgain
  <2>0. spc = "recv" /\ spc \in Reading /\ NextEvent /\ UNCHANGED received
    BY <1>12 DEF ReceiveAgain, Reading
  <2>1. CASE RemoveClients({event.fd})
    BY <2>0, <2>1, BuffersRemoved
  <2>2. CASE UNCHANGED clientVars
    BY <1>2, <2>0, <2>2 DEF clientVars, Busy
  <2>. QED BY <1>12, <2>1, <2>2 DEF ReceiveAgain
<1>. QED BY <1>3, <1>4, <1>5, <1>6, <1>7, <1>8, <1>9, <1>10, <1>11, <1>12 DEF ServerStep

(* Every step of the server keeps the eventfd set while its event is to be *)
(* handled.                                                                *)
LEMMA SpaceServerStep ==
  ASSUME ControlInv, SpaceFresh, ServerStep
  PROVE  SpaceFresh'
<1>1. CASE \E r \in {"success", "failure"} : Stop(r)
  BY <1>1, StopInput
<1>2. CASE events' \subseteq events /\ UNCHANGED spaceReady
  BY <1>2 DEF SpaceFresh
<1>3. CASE EpollWait
  <2>1. events' \subseteq Ready /\ UNCHANGED spaceReady
    BY <1>3 DEF EpollWait, ipcVars
  <2>2. \A e \in Ready : e.kind = "space" => spaceReady # NotSet
    <3>. SUFFICES ASSUME NEW e \in Ready, e.kind = "space" PROVE spaceReady # NotSet
      OBVIOUS
    <3>1. CASE e.kind = "client"
      BY <3>1
    <3>2. CASE \E k \in (IF termPending \/ childPending # "none" THEN {"signal"} ELSE {})
                   \cup (IF spaceReady # NotSet THEN {"space"} ELSE {})
                   \cup (IF acceptInterest /\ Backlog # {} THEN {"listen"} ELSE {}) :
                 e = [NoEvent EXCEPT !.kind = k]
      BY <3>2 DEF NoEvent
    <3>. QED BY <3>1, <3>2 DEF Ready
  <2>. QED BY <2>1, <2>2 DEF SpaceFresh
<1>4. CASE SpaceEvent
  <2>1. PICK e \in events : e.kind = "space" /\ events' = events \ {e}
    BY <1>4 DEF SpaceEvent
  <2>2. \A d \in events : d.kind = "space" => d = e
    BY <2>1 DEF ControlInv, Snapshot
  <2>. QED BY <2>1, <2>2 DEF SpaceFresh
<1>5. CASE StartServer \/ BatchDone \/ ListenEvent \/ AcceptClient \/ AcceptDone \/ ClientEvent
  BY <1>2, <1>5 DEF StartServer, BatchDone, ListenEvent, AcceptClient, AcceptDone, ClientEvent, ipcVars
<1>6. CASE LoopTop \/ SignalEvent \/ ResumeCheck
  BY <1>1, <1>2, <1>6 DEF LoopTop, SignalEvent, ResumeCheck, ResumeIngress, ipcVars
<1>7. CASE NotifyReader \/ RingFull
  BY <1>1, <1>2, <1>7 DEF NotifyReader, PauseIngress, RingFull
<1>8. CASE ReceiveData \/ PauseCheck \/ ReceiveEnd \/ ReceiveAgain
  BY <1>2, <1>8 DEF ReceiveData, PauseCheck, ReceiveEnd, ReceiveAgain, ipcVars
<1>. QED BY <1>3, <1>4, <1>5, <1>6, <1>7, <1>8 DEF ServerStep

(* A step of the server that publishes nothing keeps the ring's invariant. *)
LEMMA RingOfServer ==
  ASSUME Ring, ServerIpc
  PROVE  Ring'
<1>1. head \in Nat /\ tail \in Nat /\ tail <= headSeen /\ headSeen <= head /\ headSeen \in Nat
  BY RingFacts
<1>2. tail' \in tail..head /\ headSeen' \in tail'..head
  BY <1>1 DEF ServerIpc
<1>. QED BY <1>2, RingStep DEF ServerIpc

(* Every step of the server keeps the invariant, one case per action.      *)
LEMMA InputServerActs ==
  ASSUME ControlInv, InputInv, ServerStep
  PROVE  InputInv'
<1>. USE DEF InputInv
<1>1. SpaceFresh'
  BY SpaceServerStep
<1>2. CASE ~ReceiveData
  <2>1. ServerIpc
    BY <1>2, ServerStepIpc
  <2>2. Ring' /\ Buffers'
    BY <1>2, <2>1, RingOfServer, BuffersServerStep
  <2>3. Traffic'
    BY <2>1 DEF ServerIpc, Traffic
  <2>. QED BY <1>1, <2>2, <2>3
<1>3. CASE ReceiveData
  <2>1. /\ spc = "recv" /\ spc \in Reading
        /\ received' = [received EXCEPT ![Source] = @ + ReadCount]
        /\ UNCHANGED <<tail, headSeen, dataReady, spaceReady, sent>>
        /\ \/ RemoveClients({event.fd}) /\ NextEvent /\ UNCHANGED <<stream, tailSeen>>
           \/ \E t \in tailSeen..tail, m \in 0..ValidFrames(Refill) : Publish(t, m)
    BY <1>3, ReceiveCases DEF Reading
  <2>2. /\ Source \in Conns /\ received[Source] \in Nat /\ sent[Source] \in Nat
        /\ ReadCount \in Nat /\ ReadCount <= sent[Source] - received[Source]
    BY <2>1, RefillIs, ServerAssumption DEF Traffic
  <2>3. Traffic'
    <3>1. received' \in [Conns -> Nat]
      BY <2>1, <2>2 DEF Traffic
    <3>2. \A c \in Conns : received'[c] <= sent[c]
      BY <2>1, <2>2 DEF Traffic
    <3>. QED BY <2>1, <3>1, <3>2 DEF Traffic
  <2>4. CASE RemoveClients({event.fd}) /\ NextEvent /\ UNCHANGED <<stream, tailSeen>>
    <3>1. \A c \in Conns \ {clients[event.fd]} : received'[c] = received[c]
      BY <2>1 DEF Traffic, Source
    <3>2. Buffers'
      BY <2>1, <2>4, <3>1, BuffersRemoved
    <3>3. Ring'
      BY <2>1, <2>4 DEF Ring, head
    <3>. QED BY <1>1, <2>3, <3>2, <3>3
  <2>5. CASE \E t \in tailSeen..tail, m \in 0..ValidFrames(Refill) : Publish(t, m)
    <3>1. Buffers' /\ Ring'
      BY <2>1, <2>5, BuffersReceived, RingReceived
    <3>. QED BY <1>1, <2>3, <3>1
  <2>. QED BY <2>1, <2>4, <2>5
<1>. QED BY <1>2, <1>3

(* So does every failure in the server.                                    *)
LEMMA InputServerFault ==
  ASSUME ControlInv, InputInv, ServerFault
  PROVE  InputInv'
<1>. USE DEF InputInv
<1>1. ServerIpc
  BY ServerFaultIpc
<1>2. Ring' /\ Traffic'
  BY <1>1, RingOfServer DEF ServerIpc, Traffic
<1>3. CASE Stop("failure")
  BY <1>2, <1>3, StopInput
<1>4. CASE AcceptUnwatched
  <2>1. spc = "accept" /\ UNCHANGED <<input, clients, received, events, spaceReady>>
    BY <1>4 DEF AcceptUnwatched, clientVars, ipcVars
  <2>2. Buffers'
    BY <2>1, BuffersKept DEF Busy
  <2>. QED BY <1>2, <2>1, <2>2 DEF SpaceFresh
<1>. QED BY <1>3, <1>4 DEF ServerFault, StartFails, EpollWaitFails, AcceptFails, EventFails, ListenFails,
                           NotifyReaderFails, IngressFails

(* A step that changes nothing the buffers' invariant speaks of keeps it.  *)
LEMMA BuffersSame ==
  ASSUME Buffers, UNCHANGED <<input, clients, received, spc, event, invalid>>
  PROVE  Buffers'
  BY BuffersKept DEF Busy

(* Every step of the reader, and every failure in it, keeps the invariant. *)
LEMMA InputReader ==
  ASSUME InputInv, ReaderStep \/ ReaderFault,
         UNCHANGED <<sent, received, input, clients, spc, event, events, invalid>>
  PROVE  InputInv'
<1>. USE DEF InputInv
<1>1. ReaderIpc
  BY ReaderAnyIpc
<1>0. /\ head \in Nat /\ tail \in Nat /\ tail <= headSeen /\ headSeen <= head /\ headSeen \in Nat
      /\ tailSeen \in Nat /\ tailSeen <= tail
  BY RingFacts
<1>2. Ring'
  <2>1. tail' \in tail..head /\ headSeen' \in tail'..head /\ tailSeen' \in tailSeen..tail
    BY <1>0, <1>1 DEF ReaderIpc
  <2>. QED BY <1>1, <2>1, RingStep DEF ReaderIpc
<1>3. Traffic'
  BY DEF Traffic
<1>4. SpaceFresh'
  <2>1. tail # NotSet
    BY <1>0 DEF NotSet
  <2>. QED BY <1>1, <2>1 DEF SpaceFresh, ReaderIpc
<1>. QED BY <1>2, <1>3, <1>4, BuffersSame

(* So does a step of neither that at most announces data.                  *)
LEMMA InputSame ==
  ASSUME InputInv, dataReady' \in {dataReady, head},
         UNCHANGED <<stream, tail, tailSeen, headSeen, spaceReady, sent, received, input, clients,
                     spc, event, events, invalid>>
  PROVE  InputInv'
<1>. USE DEF InputInv
<1>0. /\ head \in Nat /\ tail \in Nat /\ tail <= headSeen /\ headSeen <= head /\ headSeen \in Nat
      /\ tailSeen \in Nat /\ tailSeen <= tail
  BY RingFacts
<1>1. tail' \in tail..head /\ headSeen' \in tail'..head /\ tailSeen' \in tailSeen..tail
  BY <1>0
<1>2. Ring'
  BY <1>1, RingStep
<1>3. Traffic' /\ SpaceFresh'
  BY DEF Traffic, SpaceFresh
<1>. QED BY <1>2, <1>3, BuffersSame

(* So does the end of the main process.                                    *)
LEMMA InputStop ==
  ASSUME InputInv, Stop("failure"), UNCHANGED ipcVars
  PROVE  InputInv'
<1>1. Ring' /\ Traffic'
  BY DEF InputInv, Ring, head, Traffic, ipcVars, Stop
<1>. QED BY <1>1, StopInput DEF InputInv

(* So do the peers: what they send waits in the socket.                    *)
LEMMA InputPeer ==
  ASSUME InputInv, Peer
  PROVE  InputInv'
<1>1. UNCHANGED <<ipcVars, input, clients, received, spc, event, events, invalid>>
  BY DEF Peer, clientVars, localVars, Connect, Send, HangUp, Reset
<1>2. Traffic'
  <2>1. PICK c \in Conns : Connect(c) \/ Send(c) \/ HangUp(c) \/ Reset(c)
    BY DEF Peer
  <2>2. CASE sent' = sent /\ received' = received
    BY <2>2 DEF InputInv, Traffic
  <2>3. CASE Send(c)
    <3>1. /\ sent[c] < MaxUnits[c] /\ sent' = [sent EXCEPT ![c] = @ + 1] /\ received' = received
          /\ \A d \in Conns : /\ sent[d] \in Nat /\ received[d] \in Nat /\ MaxUnits[d] \in Nat
                             /\ received[d] <= sent[d] /\ sent[d] <= MaxUnits[d]
      BY <2>3, SystemAssumption DEF InputInv, Traffic, Send
    <3>2. sent' \in [Conns -> Nat] /\ sent'[c] = sent[c] + 1
          /\ \A d \in Conns \ {c} : sent'[d] = sent[d]
      BY <3>1 DEF InputInv, Traffic
    <3>3. ASSUME NEW d \in Conns PROVE received[d] <= sent'[d] /\ sent'[d] <= MaxUnits[d]
      <4>1. CASE d = c
        BY <3>1, <3>2, <4>1
      <4>2. CASE d # c
        BY <3>1, <3>2, <4>2
      <4>. QED BY <4>1, <4>2
    <3>. QED BY <3>1, <3>2, <3>3 DEF InputInv, Traffic
  <2>. QED BY <2>1, <2>2, <2>3 DEF Connect, HangUp, Reset
<1>3. Ring' /\ SpaceFresh'
  BY <1>1 DEF InputInv, Ring, head, ipcVars, SpaceFresh
<1>. QED BY <1>1, <1>2, <1>3, BuffersSame DEF InputInv

(* So does counting positions from zero again.                             *)
LEMMA InputRebase ==
  ASSUME ControlInv, InputInv, Rebase
  PROVE  InputInv'
<1>. USE DEF InputInv
<1>0. /\ dataReady \in Int /\ spaceReady \in Int
      /\ dataReady \in {NotSet} \cup Nat /\ spaceReady \in {NotSet} \cup Nat
  BY RingFacts DEF Ring
<1>1. stream' = <<>> /\ head' = 0 /\ tail' = 0 /\ tailSeen' = 0 /\ headSeen' = 0
  BY DEF Rebase, head
<1>2. /\ dataReady' \in {NotSet, 0} /\ spaceReady' \in {NotSet, 0}
      /\ spaceReady # NotSet => spaceReady' # NotSet
  BY <1>0 DEF Rebase, Smaller, NotSet
<1>3. Ring'
  BY <1>1, <1>2, IpcAssumption DEF Ring
<1>4. SpaceFresh'
  BY <1>2 DEF Rebase, SpaceFresh
<1>5. Traffic'
  <2>1. /\ sent' = [c \in Conns |-> IF c \in Endless THEN sent[c] - received[c] ELSE sent[c]]
        /\ received' = [c \in Conns |-> IF c \in Endless THEN 0 ELSE received[c]]
    BY DEF Rebase
  <2>2. \A c \in Conns : /\ sent[c] \in Nat /\ received[c] \in Nat /\ MaxUnits[c] \in Nat
                         /\ received[c] <= sent[c] /\ sent[c] <= MaxUnits[c]
    BY SystemAssumption DEF Traffic
  <2>3. \A c \in Conns : /\ sent'[c] \in Nat /\ received'[c] \in Nat
                         /\ received'[c] <= sent'[c] /\ sent'[c] <= MaxUnits[c]
    BY <2>1, <2>2
  <2>4. sent' \in [Conns -> Nat] /\ received' \in [Conns -> Nat]
    BY <2>1, <2>3
  <2>. QED BY <2>3, <2>4 DEF Traffic
<1>6. Buffers'
  <2>1. /\ UNCHANGED <<input, clients, spc, event, invalid>>
        /\ \A f \in Fds : input[f] = EmptyBuffer
    BY DEF Rebase, clientVars, localVars
  <2>2. ClientFds' = ClientFds /\ \A f \in ClientFds : f \in Fds
    BY <2>1 DEF ClientFds
  <2>3. \A f \in Fds : Bounded(f)'
    BY <2>1 DEF Bounded, Buffers, Busy
  <2>4. \A f \in ClientFds : Holds(input[f], clients[f], received[clients[f]])'
    <3>. SUFFICES ASSUME NEW f \in ClientFds
                  PROVE  Holds(EmptyBuffer, clients[f], received'[clients[f]])
      BY <2>1, <2>2
    <3>1. received'[clients[f]] \in Nat
      BY <1>5 DEF Traffic, ControlInv, ControlTypes, ClientFds
    <3>. QED BY <3>1, EmptyBufferHolds
  <2>. QED BY <2>1, <2>2, <2>3, <2>4 DEF Buffers
<1>. QED BY <1>3, <1>4, <1>5, <1>6

(* The invariant of the buffers and the ring holds of every behaviour of   *)
(* the system: Buffer, readClient() and the two views of the ring agree on *)
(* what has been read, what is pending and what was published.             *)
THEOREM InputInvariant == Spec => []InputInv
<1>1. Init => InputInv
  <2>. SUFFICES ASSUME Init PROVE InputInv
    OBVIOUS
  <2>1. Ring
    BY IpcAssumption DEF Init, IpcInit, Ring, head
  <2>2. Traffic
    BY SystemAssumption DEF Init, ServerInit, Traffic
  <2>3. SpaceFresh
    BY DEF Init, ServerInit, SpaceFresh
  <2>4. Buffers
    <3>1. /\ input = [f \in Fds |-> EmptyBuffer] /\ clients = [f \in Fds |-> NoConn]
      BY DEF Init, ServerInit
    <3>2. EmptyBuffer \in Buffer /\ PendingUnits(EmptyBuffer) = 0 /\ Len(EmptyBuffer.data) = 0
      BY EmptyBufferHolds
    <3>3. ClientFds = {}
      BY <3>1 DEF ClientFds
    <3>4. \A f \in Fds : Bounded(f)
      BY <3>1, <3>2, FramesAssumption, ServerAssumption DEF Bounded
    <3>. QED BY <3>1, <3>2, <3>3, <3>4 DEF Buffers
  <2>. QED BY <2>1, <2>2, <2>3, <2>4 DEF InputInv
<1>2. ControlInv /\ InputInv /\ [Next]_vars => InputInv'
  <2>. SUFFICES ASSUME ControlInv, InputInv, [Next]_vars PROVE InputInv'
    OBVIOUS
  <2>1. CASE ServerActs
    BY <2>1, InputServerActs DEF ServerActs
  <2>2. CASE ServerFails
    BY <2>2, InputServerFault DEF ServerFails
  <2>3. CASE ReaderActs \/ ReaderFails
    BY <2>3, InputReader DEF ReaderActs, ReaderFails, serverButChild, socketVars, clientVars, localVars
  <2>4. CASE MainStep
    BY <2>4, InputSame
       DEF MainStep, ParseArguments, Fork, CloseRing, WakeReader, WaitReader, NotifyData, ipcVars,
           serverVars, socketVars, clientVars, localVars
  <2>5. CASE SignalfdFails \/ KillMain
    BY <2>5, InputStop DEF SignalfdFails, KillMain
  <2>6. CASE SetupFails \/ WakeReaderFails \/ WaitReaderFails
    BY <2>6, InputSame
       DEF SetupFails, WakeReaderFails, WaitReaderFails, ipcVars, serverVars, socketVars, clientVars, localVars
  <2>7. CASE Peer
    BY <2>7, InputPeer
  <2>8. CASE Terminate
    BY <2>8, InputSame DEF Terminate, ipcVars, socketVars, clientVars, localVars
  <2>9. CASE KillReader \/ StopReader \/ ContinueReader
    BY <2>9, InputSame
       DEF KillReader, StopReader, ContinueReader, SignalReader, serverButChild, ipcVars,
           socketVars, clientVars, localVars
  <2>10. CASE Rebase
    BY <2>10, InputRebase
  <2>11. CASE UNCHANGED vars
    BY <2>11, InputSame DEF vars, ipcVars, serverVars, socketVars, clientVars, localVars
  <2>. QED BY <2>1, <2>2, <2>3, <2>4, <2>5, <2>6, <2>7, <2>8, <2>9, <2>10, <2>11
           DEF Next, MainFault, Idle
<1>. QED BY <1>1, <1>2, ControlInvariant, PTL DEF Spec

(* epoll watches every client or, while ingress is paused, none, and the   *)
(* listening socket exactly when connections are accepted:                 *)
(* updateIngressInterest() never fails on a client that is registered      *)
(* already or not at all, for any number of clients and any order of       *)
(* events.                                                                 *)
THEOREM EpollStaysInSync == Spec => []EpollInSync
<1>1. ControlInv => EpollInSync
  BY DEF ControlInv
<1>. QED BY <1>1, ControlInvariant, PTL

(* An event of a batch never meets another connection that has got its     *)
(* descriptor since, and the read() of spaceReady never blocks: handling a *)
(* stale snapshot of epoll_wait() is safe.                                 *)
THEOREM EventsStayFresh == Spec => []EventsFresh
<1>1. ControlInv /\ InputInv => EventsFresh
  <2>. SUFFICES ASSUME ControlInv, InputInv,
                       NEW e \in events \cup {event}
                PROVE  /\ e.kind = "client" /\ e.fd \in ClientFds => clients[e.fd] = e.conn
                       /\ e.kind = "space" => spaceReady # NotSet
    BY DEF EventsFresh
  <2>1. CASE e \in events
    BY <2>1 DEF ControlInv, Snapshot, ClientFds, InputInv, SpaceFresh
  <2>2. CASE e = event
    BY <2>2 DEF ControlInv, Phases, NoEvent
  <2>. QED BY <2>1, <2>2
<1>. QED BY <1>1, ControlInvariant, InputInvariant, PTL

(* At most a frame less a unit and a whole read are ever pending in an     *)
(* input buffer, and compact() keeps the consumed bytes in front of them   *)
(* bounded, however the peer's bytes arrive: with the code's sizes, 31 +   *)
(* 4096 bytes pending, the 64 KiB limit of readClient() is out of reach.   *)
THEOREM InputStaysBounded == Spec => []InputBounded
<1>1. InputInv => InputBounded
  BY DEF InputInv, Buffers, Bounded, InputBounded
<1>. QED BY <1>1, InputInvariant, PTL

-----------------------------------------------------------------------------
(* The pause threshold leaves room for one read: below PauseFrames         *)
(* pending, the complete frames of a buffer with one frame less a unit and *)
(* a whole read fit.  In the code a frame is 32 bytes and a read 4096, so  *)
(* that a read completes at most 128 frames, and 98303 + 128 are less than *)
(* the capacity of 131072.                                                 *)
Headroom ==
  /\ ResumeFrames < PauseFrames
  /\ PauseFrames - 1 + (FrameUnits - 1 + RecvUnits) \div FrameUnits <= Capacity

(* Ingress is open, and the server not about to pause it.                  *)
Ingress ==
  /\ ~paused /\ spc \notin {"check", "stopped"}
  /\ ~(spc = "notify" /\ pauseRequested)

(* While ingress is open, fewer frames than the pause threshold are        *)
(* pending by the producer's view: PauseCheck looks after every batch, and *)
(* a resume asks for fewer still.                                          *)
Pressure ==
  /\ producerClosed => spc = "stopped"
  /\ spc # "full"
  /\ Ingress => head - tailSeen < PauseFrames

(* A multiple of u that is at most y has a factor of at most y \div u.     *)
LEMMA Quotient ==
  ASSUME NEW q \in Nat, NEW y \in Nat, NEW u \in Nat \ {0}, q * u <= y
  PROVE  q <= y \div u /\ y \div u \in Nat
<1>. DEFINE d == y \div u
            e == y % u
            du == d * u
            qu == q * u
<1>1. y = u * d + e /\ e \in 0..(u - 1) /\ d \in Int
  BY SMT
<1>2. d >= 0
  BY SMT
<1>3. du = u * d
  BY <1>1, SMT
<1>4. ASSUME d < q PROVE FALSE
  <2>1. d \in Nat
    BY <1>1, <1>2
  <2>. DEFINE du1 == (d + 1) * u
  <2>2. du \in Nat /\ du1 = du + u /\ du1 <= qu /\ qu \in Nat
    BY <1>4, <2>1, Multiples
  <2>3. y = du + e /\ qu <= y
    BY <1>1, <1>3
  <2>4. e \in Int /\ e < u
    BY <1>1
  <2>. HIDE DEF du, du1, qu, e, d
  <2>. QED BY <2>2, <2>3, <2>4
<1>. HIDE DEF d
<1>. QED BY <1>1, <1>2, <1>4 DEF d

(* Three facts on differences.                                             *)
LEMMA Less ==
  ASSUME NEW x \in Int, NEW y \in Int, NEW z \in Int
  PROVE  /\ x - y < z => \A v \in Int : v >= y => x - v < z
         /\ x - y <= z => \A w \in Int : z < w => x - y < w
         /\ ~(x - y >= z) => x - y < z
  OBVIOUS

(* The valid frames of the buffer after a recv() fit into the ring, with   *)
(* any value of the tail the producer may load.                            *)
LEMMA BatchFits ==
  ASSUME Headroom, ControlInv, InputInv, Pressure, spc = "recv",
         NEW t \in tailSeen..tail
  PROVE  ValidFrames(Refill) <= Capacity - (head - t)
<1>. USE DEF InputInv
<1>1. /\ Refill \in Buffer /\ PendingUnits(Refill) < FrameUnits + RecvUnits
      /\ ValidFrames(Refill) \in 0..AvailableFrames(Refill) /\ AvailableFrames(Refill) \in Nat
  BY RefillIs
<1>. DEFINE q == AvailableFrames(Refill)
            p == PendingUnits(Refill)
            y == FrameUnits - 1 + RecvUnits
            v == ValidFrames(Refill)
            most == y \div FrameUnits
<1>2. q * FrameUnits <= p /\ p \in Nat
  BY <1>1, Available, BufferParts
<1>3. q \in Nat /\ y \in Nat /\ p <= y /\ v \in Nat /\ v <= q
  BY <1>1, <1>2, FramesAssumption, ServerAssumption
<1>4. q * FrameUnits <= y
  <2>. DEFINE qu == q * FrameUnits
  <2>1. qu <= p /\ qu \in Int
    BY <1>2, <1>3, FramesAssumption, SMT
  <2>. HIDE DEF qu, p, y
  <2>2. qu <= y
    BY <1>2, <1>3, <2>1
  <2>. QED BY <2>2 DEF qu
<1>5. q <= most /\ most \in Nat
  <2>. HIDE DEF q, y
  <2>. QED BY <1>3, <1>4, Quotient, FramesAssumption
<1>6. PauseFrames - 1 + most <= Capacity
  BY DEF Headroom
<1>7. head - tailSeen < PauseFrames
  BY DEF Pressure, Ingress, ControlInv, Phases, Reading
<1>8. head \in Nat /\ tailSeen \in Nat /\ tail \in Nat
  BY RingFacts
<1>9. t \in Nat /\ tailSeen <= t
  BY <1>8
<1>. HIDE DEF q, p, y, v, most
<1>10. head - t <= PauseFrames - 1
  BY <1>7, <1>8, <1>9, ServerAssumption
<1>11. v <= Capacity - (head - t)
  BY <1>3, <1>5, <1>6, <1>8, <1>9, <1>10, ServerAssumption, IpcAssumption
<1>. QED BY <1>11 DEF v

(* Every step of the server keeps the pressure below the threshold.        *)
LEMMA PressureServerStep ==
  ASSUME Headroom, ControlInv, InputInv, Pressure, ServerStep
  PROVE  Pressure'
<1>. USE DEF Pressure, InputInv
<1>0. /\ head \in Nat /\ tailSeen \in Nat /\ tail \in Nat /\ paused \in BOOLEAN
      /\ pauseRequested \in BOOLEAN
  BY RingFacts DEF ControlInv, ControlTypes
<1>1. CASE spc' = "stopped"
  BY <1>1 DEF Ingress
<1>2. CASE /\ ServerIpc /\ Ingress /\ spc' # "full" /\ spc # "stopped"
  <2>1. UNCHANGED <<stream, producerClosed>> /\ tailSeen' \in tailSeen..tail
    BY <1>2 DEF ServerIpc
  <2>2. head' = head /\ head - tailSeen < PauseFrames
    BY <1>2, <2>1 DEF head
  <2>3. tailSeen' \in Nat /\ tailSeen <= tailSeen'
    BY <1>0, <2>1
  <2>4. head - tailSeen' < PauseFrames
    <3>1. /\ head \in Int /\ tailSeen \in Int /\ tailSeen' \in Int /\ tailSeen' >= tailSeen
          /\ PauseFrames \in Int
      BY <1>0, <2>3, ServerAssumption
    <3>. QED BY <2>2, <3>1, Less
  <2>. QED BY <1>2, <2>1, <2>2, <2>4
<1>3. CASE /\ ServerIpc /\ ~Ingress' /\ spc' # "full" /\ spc # "stopped"
  BY <1>3 DEF ServerIpc
<1>4. CASE StartServer \/ EpollWait \/ BatchDone \/ ListenEvent \/ AcceptClient \/ AcceptDone
             \/ ClientEvent \/ SpaceEvent
  <2>1. /\ ~ReceiveData /\ spc \notin {"stopped", "check", "notify"} /\ spc' \notin {"full", "check", "stopped"}
        /\ UNCHANGED <<paused, pauseRequested>>
    BY <1>4 DEF StartServer, EpollWait, BatchDone, ListenEvent, AcceptClient, AcceptDone,
          ClientEvent, SpaceEvent, ReceiveData, localVars
  <2>2. ServerIpc
    BY <2>1, ServerStepIpc
  <2>. QED BY <1>2, <1>3, <2>1, <2>2 DEF Ingress
<1>5. CASE LoopTop \/ SignalEvent
  <2>1. /\ ~ReceiveData /\ spc \in {"loop", "dispatch"}
        /\ \/ spc' = "stopped"
           \/ spc' \in {"wait", "dispatch"} /\ UNCHANGED <<paused, pauseRequested>>
    BY <1>5 DEF LoopTop, SignalEvent, Stop, ReceiveData, localVars
  <2>2. ServerIpc
    BY <2>1, ServerStepIpc
  <2>. QED BY <1>1, <1>2, <1>3, <2>1, <2>2 DEF Ingress
<1>6. CASE ResumeCheck
  <2>1. ~ReceiveData /\ spc = "space"
    BY <1>6 DEF ResumeCheck, ReceiveData
  <2>2. ServerIpc
    BY <2>1, ServerStepIpc
  <2>3. CASE NextEvent /\ UNCHANGED paused
    BY <1>2, <1>3, <2>1, <2>2, <2>3 DEF NextEvent, Ingress
  <2>4. CASE Drained(tailSeen') /\ ResumeIngress
    <3>1. head' = head /\ UNCHANGED producerClosed
      BY <2>2 DEF ServerIpc, head
    <3>2. head - tailSeen' <= ResumeFrames
      BY <2>4 DEF Drained, PendingFrames
    <3>3. head - tailSeen' < PauseFrames
      <4>1. tailSeen' \in Nat
        BY <1>0, <2>2 DEF ServerIpc
      <4>2. head \in Int /\ tailSeen' \in Int /\ ResumeFrames \in Int /\ PauseFrames \in Int
        BY <1>0, <4>1, ServerAssumption
      <4>3. ResumeFrames < PauseFrames
        BY DEF Headroom
      <4>. QED BY <3>2, <4>2, <4>3, Less
    <3>4. spc' \in {"dispatch", "stopped"}
      BY <2>4 DEF ResumeIngress, NextEvent, Stop
    <3>. QED BY <2>1, <3>1, <3>3, <3>4
  <2>. QED BY <1>6, <2>3, <2>4 DEF ResumeCheck
<1>7. CASE ReceiveData
  <2>1. /\ spc = "recv" /\ UNCHANGED <<producerClosed, paused>>
        /\ \/ RemoveClients({event.fd}) /\ NextEvent /\ UNCHANGED <<stream, tailSeen>>
           \/ \E t \in tailSeen..tail, m \in 0..ValidFrames(Refill) : Publish(t, m)
    BY <1>7, ReceiveCases
  <2>2. CASE RemoveClients({event.fd}) /\ NextEvent /\ UNCHANGED <<stream, tailSeen>>
    <3>1. head' = head /\ spc' = "dispatch"
      BY <2>2 DEF head, NextEvent
    <3>. QED BY <2>1, <2>2, <3>1 DEF Ingress
  <2>3. ASSUME NEW t \in tailSeen..tail, NEW m \in 0..ValidFrames(Refill), Publish(t, m)
        PROVE  Pressure'
    <3>1. ~producerClosed
      BY <2>1
    <3>2. CASE spc' = "notify" /\ m = 0
      <4>1. stream' = stream /\ tailSeen' = t
        BY <2>3, <3>2 DEF Publish, FirstFrames, Ring
      <4>2. head' = head /\ head - tailSeen < PauseFrames
        BY <2>1, <4>1 DEF head, Ingress, ControlInv, Phases, Reading
      <4>3. head - t < PauseFrames
        <5>1. t \in Nat /\ tailSeen <= t
          BY <1>0
        <5>. QED BY <1>0, <4>2, <5>1, ServerAssumption
      <4>. QED BY <2>1, <3>1, <3>2, <4>1, <4>2, <4>3
    <3>3. CASE spc' = "check"
      BY <2>1, <3>1, <3>3 DEF Ingress
    <3>4. CASE spc' = "full" /\ m < ValidFrames(Refill) /\ (producerClosed \/ m = Capacity - (head - t))
      <4>1. ValidFrames(Refill) <= Capacity - (head - t)
        BY <2>1, BatchFits
      <4>2. ValidFrames(Refill) \in Nat /\ m \in Nat
        BY <2>1, RefillIs
      <4>. QED BY <3>1, <3>4, <4>1, <4>2
    <3>. QED BY <2>3, <3>2, <3>3, <3>4 DEF Publish
  <2>. QED BY <2>1, <2>2, <2>3
<1>8. CASE PauseCheck
  <2>1. PICK t \in tailSeen..tail : tailSeen' = t /\ pauseRequested' = (PendingFrames(t) >= PauseFrames)
    BY <1>8 DEF PauseCheck
  <2>2. spc = "check" /\ spc' = "notify" /\ UNCHANGED <<stream, producerClosed>>
    BY <1>8 DEF PauseCheck
  <2>3. head' = head
    BY <2>2 DEF head
  <2>4. ~pauseRequested' => head - t < PauseFrames
    <3>1. head \in Int /\ t \in Int /\ PauseFrames \in Int
      BY <1>0, ServerAssumption
    <3>2. ~pauseRequested' => ~(head - t >= PauseFrames)
      BY <2>1, Zenon DEF PendingFrames
    <3>. QED BY <3>1, <3>2, Less
  <2>. QED BY <2>1, <2>2, <2>3, <2>4 DEF Ingress
<1>9. CASE NotifyReader
  <2>1. ~ReceiveData /\ spc = "notify"
    BY <1>9 DEF NotifyReader, ReceiveData
  <2>2. ServerIpc
    BY <2>1, ServerStepIpc
  <2>3. \/ spc' = "stopped"
        \/ paused' = TRUE /\ spc' = "dispatch"
        \/ ~pauseRequested /\ spc' \in {"dispatch", "recv"} /\ UNCHANGED paused
    BY <1>9 DEF NotifyReader, PauseIngress, Stop, NextEvent
  <2>. QED BY <1>1, <1>2, <1>3, <2>1, <2>2, <2>3 DEF Ingress
<1>10. CASE RingFull
  BY <1>10 DEF RingFull
<1>11. CASE ReceiveEnd \/ ReceiveAgain
  <2>1. /\ spc = "recv" /\ spc' = "dispatch" /\ UNCHANGED <<ipcVars, paused>>
    BY <1>11 DEF ReceiveEnd, ReceiveAgain, NextEvent
  <2>. QED BY <2>1 DEF Ingress, ipcVars, head
<1>. QED BY <1>4, <1>5, <1>6, <1>7, <1>8, <1>9, <1>10, <1>11 DEF ServerStep

(* The others do not change it: the producer's view of the tail is its     *)
(* own.                                                                    *)
LEMMA PressureSame ==
  ASSUME Pressure, UNCHANGED <<stream, tailSeen, producerClosed, spc, paused, pauseRequested>>
  PROVE  Pressure'
  BY DEF Pressure, Ingress, head

(* With that headroom the fatal branch for a full ring is never taken, for *)
(* any capacity, thresholds and read size that satisfy it, any number of   *)
(* clients and any speed of the reader.                                    *)
THEOREM NeverFullHolds ==
  ASSUME Headroom
  PROVE  Spec => []NeverFull
<1>1. Init => Pressure
  <2>. SUFFICES ASSUME Init PROVE Pressure
    OBVIOUS
  <2>1. head = 0 /\ tailSeen = 0 /\ spc = "start" /\ producerClosed = FALSE
    BY DEF Init, IpcInit, ServerInit, head
  <2>. QED BY <2>1, ServerAssumption DEF Pressure
<1>2. ControlInv /\ InputInv /\ Pressure /\ [Next]_vars => Pressure'
  <2>. SUFFICES ASSUME ControlInv, InputInv, Pressure, [Next]_vars PROVE Pressure'
    OBVIOUS
  <2>0. CASE spc' = "stopped"
    BY <2>0 DEF Pressure, Ingress
  <2>1. CASE ServerActs
    BY <2>1, PressureServerStep DEF ServerActs
  <2>2. CASE ServerFails
    <3>1. CASE Stop("failure")
      BY <2>0, <3>1 DEF Stop
    <3>2. CASE AcceptUnwatched
      BY <3>2, PressureSame DEF AcceptUnwatched, ipcVars, localVars
    <3>. QED BY <2>2, <3>1, <3>2
             DEF ServerFails, ServerFault, StartFails, EpollWaitFails, AcceptFails, EventFails, ListenFails,
                 NotifyReaderFails, IngressFails
  <2>3. CASE ReaderActs \/ ReaderFails
    BY <2>3, PressureSame, ReaderAnyIpc
       DEF ReaderActs, ReaderFails, ReaderIpc, InputInv, serverButChild, localVars
  <2>4. CASE MainStep
    <3>1. CASE CloseRing
      BY <2>0, <3>1 DEF CloseRing, serverVars
    <3>. QED BY <2>4, <3>1, PressureSame
       DEF MainStep, ParseArguments, Fork, WakeReader, WaitReader, ipcVars, serverVars, localVars
  <2>5. CASE SignalfdFails \/ KillMain
    BY <2>0, <2>5 DEF SignalfdFails, KillMain, Stop
  <2>6. CASE SetupFails \/ WakeReaderFails \/ WaitReaderFails \/ Peer \/ Terminate
    BY <2>6, PressureSame
       DEF SetupFails, WakeReaderFails, WaitReaderFails, Peer, Terminate, ipcVars, serverVars, localVars
  <2>7. CASE KillReader \/ StopReader \/ ContinueReader
    BY <2>7, PressureSame
       DEF KillReader, StopReader, ContinueReader, SignalReader, serverButChild, ipcVars, localVars
  <2>8. CASE Rebase
    <3>1. head' = 0 /\ tailSeen' = 0 /\ UNCHANGED <<spc, producerClosed>>
      BY <2>8 DEF Rebase, head
    <3>. QED BY <3>1, ServerAssumption DEF Pressure
  <2>9. CASE UNCHANGED vars
    BY <2>9, PressureSame DEF vars, ipcVars, serverVars, localVars
  <2>. QED BY <2>1, <2>2, <2>3, <2>4, <2>5, <2>6, <2>7, <2>8, <2>9
           DEF Next, MainFault, Idle
<1>3. Pressure => NeverFull
  BY DEF Pressure, NeverFull
<1>. QED BY <1>1, <1>2, <1>3, ControlInvariant, InputInvariant, PTL DEF Spec
=============================================================================
