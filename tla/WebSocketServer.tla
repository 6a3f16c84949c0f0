-------------------------- MODULE WebSocketServer ---------------------------
(***************************************************************************)
(* The WebSocket server (server/src/websocket_server.c): the accept, worker *)
(* and cleanup threads, application threads that use its functions, and    *)
(* websocket_server_stop, around clients_mutex.                            *)
(*                                                                         *)
(* A frame is what one read returns: the server keeps nothing of a frame   *)
(* that is incomplete, nor of a second frame in the same read, so such     *)
(* frames are lost.  TLS, statistics and the callbacks are left out: these *)
(* must not call the server back, as they run under clients_mutex.         *)
(***************************************************************************)
EXTENDS Integers, Sequences, FiniteSets

CONSTANTS Ids,           \* client ids, 1..n: bound on the connections accepted
          max_clients,
          Apps,          \* application threads
          MaxFragments   \* of one message

ASSUME WsAssumption ==
    /\ Ids \subseteq Nat \ {0} /\ IsFiniteSet(Ids) /\ max_clients \in Nat \ {0}
    /\ MaxFragments \in Nat \ {0, 1}

VARIABLES wsstate,     \* "running", "stopping", "stopped"
          clients,     \* server->clients: an id or 0
          client_count,
          wcl,         \* the client objects
          mutex,       \* who holds clients_mutex
          accpc, accid,
          wkpc, readable, wkslot,
          clpc,
          apppc, appid,
          wsfault      \* a destroyed client was used

wsvars == <<wsstate, clients, client_count, wcl, mutex, accpc, accid, wkpc, readable, wkslot,
            clpc, apppc, appid, wsfault>>
threadvars == <<accpc, accid, wkpc, readable, wkslot, clpc, apppc, appid>>

ClientSlots == 1..max_clients
Fds == 1..(max_clients + 1)
NoClient == [state |-> "none", fd |-> 0, fragments |-> 0, buffer |-> 0, lost |-> FALSE]

WsInit ==
    /\ wsstate = "running"
    /\ clients = [i \in ClientSlots |-> 0] /\ client_count = 0
    /\ wcl = [c \in Ids |-> NoClient] /\ mutex = "free"
    /\ accpc = "test" /\ accid = 0
    /\ wkpc = "test" /\ readable = {} /\ wkslot = 0
    /\ clpc = "test"
    /\ apppc = [a \in Apps |-> "idle"] /\ appid = [a \in Apps |-> 0]
    /\ wsfault = FALSE

Free == mutex = "free"
Stopping == wsstate # "running"
Sound == ~wsfault
SlotOf(c) == CHOOSE i \in ClientSlots : clients[i] = c
Connected(c) == \E i \in ClientSlots : clients[i] = c
OpenFds == {wcl[c].fd : c \in {d \in Ids : wcl[d].state \in {"CONNECTING", "OPEN"}}}
NewFd == CHOOSE f \in Fds \ OpenFds : \A g \in Fds \ OpenFds : f <= g

-----------------------------------------------------------------------------
(* accept_thread_function *)

AcceptTest ==
    /\ Sound /\ accpc = "test"
    /\ accpc' = IF Stopping THEN "exited" ELSE "accept"
    /\ UNCHANGED <<wsstate, clients, client_count, wcl, mutex, accid, wkpc, readable, wkslot,
                   clpc, apppc, appid, wsfault>>

(* A connection is there; the limit is tested in a critical section of its own. *)
Accept(c) ==
    /\ Sound /\ accpc = "accept" /\ Free
    /\ wcl[c].state = "none" /\ \A d \in Ids : d < c => wcl[d].state # "none"
    /\ IF client_count >= max_clients
       THEN accpc' = "test" /\ UNCHANGED accid
       ELSE accpc' = "add" /\ accid' = c
    /\ UNCHANGED <<wsstate, clients, client_count, wcl, mutex, wkpc, readable, wkslot,
                   clpc, apppc, appid, wsfault>>

NothingToAccept ==
    /\ Sound /\ accpc = "accept"
    /\ accpc' = "test"
    /\ UNCHANGED <<wsstate, clients, client_count, wcl, mutex, accid, wkpc, readable, wkslot,
                   clpc, apppc, appid, wsfault>>

(* handle_client_connection *)
AddClient ==
    /\ Sound /\ accpc = "add" /\ Free
    /\ \E i \in ClientSlots :
         /\ clients[i] = 0 /\ \A j \in ClientSlots : j < i => clients[j] # 0
         /\ clients' = [clients EXCEPT ![i] = accid]
    /\ client_count' = client_count + 1
    /\ wcl' = [wcl EXCEPT ![accid] = [NoClient EXCEPT !.state = "CONNECTING", !.fd = NewFd]]
    /\ accpc' = "test" /\ accid' = 0
    /\ UNCHANGED <<wsstate, mutex, wkpc, readable, wkslot, clpc, apppc, appid, wsfault>>

-----------------------------------------------------------------------------
(* worker_thread_function *)

(* Mutation variant: the worker does not look at shutdown_requested. *)
WorkerTestAlways ==
    /\ Sound /\ wkpc = "test" /\ Free
    /\ wkpc' = "select"
    /\ readable' = {wcl[c].fd : c \in {d \in Ids : Connected(d) /\ wcl[d].state = "OPEN"}}
    /\ UNCHANGED <<wsstate, clients, client_count, wcl, mutex, accpc, accid, wkslot,
                   clpc, apppc, appid, wsfault>>

(* The loop test, then the descriptors of the OPEN clients. *)
WorkerTest ==
    /\ Sound /\ wkpc = "test"
    /\ \/ /\ Stopping
          /\ wkpc' = "exited" /\ UNCHANGED readable
       \/ /\ ~Stopping /\ Free
          /\ wkpc' = "select"
          /\ readable' = {wcl[c].fd : c \in {d \in Ids : Connected(d) /\ wcl[d].state = "OPEN"}}
    /\ UNCHANGED <<wsstate, clients, client_count, wcl, mutex, accpc, accid, wkslot,
                   clpc, apppc, appid, wsfault>>

(* select leaves the descriptors that have something to read, and the worker
   takes the mutex again. *)
SelectReady(fds) ==
    /\ Sound /\ wkpc = "select" /\ Free
    /\ fds \subseteq readable /\ fds # {}
    /\ readable' = fds
    /\ mutex' = "worker" /\ wkslot' = 1 /\ wkpc' = "serve"
    /\ UNCHANGED <<wsstate, clients, client_count, wcl, accpc, accid, clpc, apppc, appid, wsfault>>

(* Nothing within a second: check_client_timeout, which calls remove_client
   with the mutex held if a client is late. *)
SelectTimesOut(late) ==
    /\ Sound /\ wkpc = "select" /\ Free
    /\ late => \E c \in Ids : Connected(c) /\ wcl[c].state = "OPEN"
    /\ IF late THEN wkpc' = "hung" /\ mutex' = "worker" ELSE wkpc' = "test" /\ UNCHANGED mutex
    /\ readable' = {}
    /\ UNCHANGED <<wsstate, clients, client_count, wcl, accpc, accid, wkslot, clpc, apppc, appid,
                   wsfault>>

(* The client in slot wkslot; it may be another than select was asked about. *)
Served == clients[wkslot]
Serving == Sound /\ wkpc = "serve" /\ wkslot \in ClientSlots
HasData == Served # 0 /\ wcl[Served].fd \in readable

NextSlot == wkslot' = wkslot + 1

Skip ==
    /\ Serving /\ ~HasData
    /\ NextSlot
    /\ UNCHANGED <<wsstate, clients, client_count, wcl, mutex, accpc, accid, wkpc, readable,
                   clpc, apppc, appid, wsfault>>

(* handle_handshake, for a client that has the descriptor of a former one. *)
HandshakeRead ==
    /\ Serving /\ HasData /\ wcl[Served].state = "CONNECTING"
    /\ \E complete \in BOOLEAN :
         wcl' = IF complete THEN [wcl EXCEPT ![Served].state = "OPEN"] ELSE wcl
    /\ NextSlot
    /\ UNCHANGED <<wsstate, clients, client_count, mutex, accpc, accid, wkpc, readable,
                   clpc, apppc, appid, wsfault>>

(* message_length after fragment n + 1 of a message. *)
Buffer(n) == n + 1

(* process_websocket_frame: a fragment that starts a message, continues it or
   ends it; with the last one the message goes to on_message.  Fragments
   before it may have been lost, so each kind can follow each. *)
FrameRead(kind) ==
    LET c == Served
        n == wcl[c].fragments
        length == Buffer(wcl[c].buffer)
    IN
    /\ Serving /\ HasData /\ wcl[c].state = "OPEN"
    /\ kind = "continue" => n < MaxFragments
    /\ wcl' = [wcl EXCEPT
         ![c].fragments = CASE kind = "start" -> 1 [] kind = "continue" -> n + 1 [] kind = "end" -> 0,
         ![c].buffer = CASE kind = "start" -> 1 [] kind = "continue" -> length [] kind = "end" -> 0,
         ![c].lost = @ \/ (kind = "end" /\ length # n + 1)]
    /\ NextSlot
    /\ UNCHANGED <<wsstate, clients, client_count, mutex, accpc, accid, wkpc, readable,
                   clpc, apppc, appid, wsfault>>

(* A message in one frame, a ping or pong; or a frame that is not all there,
   which is dropped. *)
FrameLeavesNothing ==
    /\ Serving /\ HasData /\ wcl[Served].state = "OPEN"
    /\ NextSlot
    /\ UNCHANGED <<wsstate, clients, client_count, wcl, mutex, accpc, accid, wkpc, readable,
                   clpc, apppc, appid, wsfault>>

(* A close frame, a message that is too large, the end of the stream or an
   error: remove_client takes the mutex the worker holds. *)
DisconnectRead ==
    /\ Serving /\ HasData
    /\ wkpc' = "hung"
    /\ UNCHANGED <<wsstate, clients, client_count, wcl, mutex, accpc, accid, readable, wkslot,
                   clpc, apppc, appid, wsfault>>

WorkerUnlocks ==
    /\ Sound /\ wkpc = "serve" /\ wkslot > max_clients
    /\ mutex' = "free" /\ wkpc' = "test" /\ wkslot' = 0 /\ readable' = {}
    /\ UNCHANGED <<wsstate, clients, client_count, wcl, accpc, accid, clpc, apppc, appid, wsfault>>

-----------------------------------------------------------------------------
(* cleanup_thread_function: pings under the mutex, then a second's sleep. *)
CleanupRound ==
    /\ Sound
    /\ \/ clpc = "test" /\ clpc' = IF Stopping THEN "exited" ELSE "ping"
       \/ clpc = "ping" /\ Free /\ clpc' = "test"
    /\ UNCHANGED <<wsstate, clients, client_count, wcl, mutex, accpc, accid, wkpc, readable, wkslot,
                   apppc, appid, wsfault>>

-----------------------------------------------------------------------------
(* Application threads *)

AppIdle(a) == Sound /\ apppc[a] = "idle" /\ wsstate # "stopped" /\ Free

(* websocket_get_client returns a pointer that nothing protects ... *)
GetClient(a, c, use) ==
    /\ AppIdle(a) /\ Connected(c)
    /\ use = "send" => wcl[c].state = "OPEN"
    /\ apppc' = [apppc EXCEPT ![a] = use] /\ appid' = [appid EXCEPT ![a] = c]
    /\ UNCHANGED <<wsstate, clients, client_count, wcl, mutex, accpc, accid, wkpc, readable, wkslot,
                   clpc, wsfault>>

(* ... to websocket_send_text and websocket_send_binary, or to
   websocket_handshake. *)
UseClient(a) ==
    LET c == appid[a] IN
    /\ Sound /\ apppc[a] \in {"send", "handshake"}
    /\ wsfault' = (wcl[c].state = "destroyed")
    /\ wcl' = IF apppc[a] = "handshake" /\ wcl[c].state = "CONNECTING"
              THEN [wcl EXCEPT ![c].state = "OPEN"] ELSE wcl
    /\ apppc' = [apppc EXCEPT ![a] = "idle"] /\ appid' = [appid EXCEPT ![a] = 0]
    /\ UNCHANGED <<wsstate, clients, client_count, mutex, accpc, accid, wkpc, readable, wkslot, clpc>>

(* Mutation variant: the slot is emptied, the count stays. *)
CloseClientUncounted(a, c) ==
    /\ AppIdle(a) /\ Connected(c)
    /\ clients' = [clients EXCEPT ![SlotOf(c)] = 0]
    /\ wcl' = [wcl EXCEPT ![c] = [NoClient EXCEPT !.state = "destroyed"]]
    /\ UNCHANGED <<wsstate, client_count, mutex, threadvars, wsfault>>

(* websocket_close_client: remove_client, here without the mutex. *)
CloseClient(a, c) ==
    /\ AppIdle(a) /\ Connected(c)
    /\ clients' = [clients EXCEPT ![SlotOf(c)] = 0]
    /\ client_count' = client_count - 1
    /\ wcl' = [wcl EXCEPT ![c] = [NoClient EXCEPT !.state = "destroyed"]]
    /\ UNCHANGED <<wsstate, mutex, threadvars, wsfault>>

-----------------------------------------------------------------------------
(* websocket_server_stop *)

StopRequested ==
    /\ Sound /\ wsstate = "running"
    /\ wsstate' = "stopping"
    /\ UNCHANGED <<clients, client_count, wcl, mutex, threadvars, wsfault>>

(* The three threads are joined and all clients destroyed; client_count is
   not reset, and a server that was stopped does not run again. *)
StopFinishes ==
    /\ Sound /\ wsstate = "stopping" /\ Free
    /\ accpc = "exited" /\ wkpc = "exited" /\ clpc = "exited"
    /\ wcl' = [c \in Ids |-> IF Connected(c) THEN [NoClient EXCEPT !.state = "destroyed"] ELSE wcl[c]]
    /\ clients' = [i \in ClientSlots |-> 0]
    /\ wsstate' = "stopped"
    /\ UNCHANGED <<client_count, mutex, threadvars, wsfault>>

AcceptStep == AcceptTest \/ NothingToAccept \/ AddClient
WorkerStep ==
    \/ WorkerTest \/ SelectTimesOut(FALSE) \/ Skip \/ HandshakeRead \/ WorkerUnlocks
    \/ FrameLeavesNothing \/ \E kind \in {"start", "continue", "end"} : FrameRead(kind)

WsNext ==
    \/ AcceptStep \/ \E c \in Ids : Accept(c)
    \/ WorkerStep \/ SelectTimesOut(TRUE) \/ DisconnectRead
    \/ \E fds \in SUBSET Fds : SelectReady(fds)
    \/ CleanupRound
    \/ \E a \in Apps :
         \/ UseClient(a)
         \/ \E c \in Ids :
              CloseClient(a, c) \/ \E use \in {"send", "handshake"} : GetClient(a, c, use)
    \/ StopRequested
    \/ StopFinishes

(* The server's threads are scheduled and get the mutex when it is free;
   readable data is not assumed to come. *)
WsFairness ==
    /\ SF_wsvars(AcceptStep) /\ WF_wsvars(WorkerStep)
    /\ SF_wsvars(CleanupRound) /\ WF_wsvars(StopFinishes)

WsSpec == WsInit /\ [][WsNext]_wsvars /\ WsFairness

-----------------------------------------------------------------------------
(* Properties *)

WsTypeOK ==
    /\ wsstate \in {"running", "stopping", "stopped"} /\ mutex \in {"free", "worker"}
    /\ clients \in [ClientSlots -> Ids \cup {0}] /\ client_count \in 0..max_clients
    /\ wcl \in [Ids -> [state : {"none", "CONNECTING", "OPEN", "destroyed"}, fd : Fds \cup {0},
                        fragments : 0..MaxFragments, buffer : 0..MaxFragments, lost : BOOLEAN]]
    /\ accpc \in {"test", "accept", "add", "exited"} /\ accid \in Ids \cup {0}
    /\ wkpc \in {"test", "select", "serve", "hung", "exited"} /\ readable \subseteq Fds
    /\ wkslot \in 0..(max_clients + 1) /\ clpc \in {"test", "ping", "exited"}
    /\ apppc \in [Apps -> {"idle", "send", "handshake"}] /\ appid \in [Apps -> Ids \cup {0}]

(* While the server runs client_count is the number of clients in the table,
   which are alive and distinct, so that a client that passed the test of the
   limit finds a slot although test and insertion are two critical sections
   (lines 386-393, 576-582, 1009-1011); and a message that is put together
   from fragments holds every one that was read since its first
   (lines 796-872). *)
ClientsAccounted ==
    /\ Sound /\ wsstate # "stopped" =>
         /\ client_count = Cardinality({i \in ClientSlots : clients[i] # 0})
         /\ \A i \in ClientSlots : clients[i] # 0 => wcl[clients[i]].state \in {"CONNECTING", "OPEN"}
         /\ \A i, j \in ClientSlots : clients[i] = clients[j] /\ clients[i] # 0 => i = j
         /\ accpc = "add" => \E i \in ClientSlots : clients[i] = 0
    /\ \A c \in Ids : ~wcl[c].lost

(* websocket_server_stop returns unless the worker hangs in remove_client,
   whatever the threads were doing (lines 308-329). *)
StopReturns == wsstate = "stopping" ~> (wsstate = "stopped" \/ wkpc = "hung" \/ wsfault)
=============================================================================
