------------------------------- MODULE Client -------------------------------
(***************************************************************************)
(* The C client's connection (client/core.c): the application's thread, the *)
(* receive, heartbeat and reconnect threads, and the fields they share with *)
(* no lock but the one around state.                                        *)
(*                                                                          *)
(* Every connection that comes about has a number, and its socket, receive  *)
(* thread and heartbeat thread, and the reconnect thread that the receive   *)
(* thread may start, carry it.  Sockets block.  Left out: TLS, recv_mutex    *)
(* (one receive thread at a time is the rule), the contents of messages,    *)
(* and thread creation that fails.                                          *)
(***************************************************************************)
EXTENDS Integers, FiniteSets

CONSTANTS MaxConnects,          \* bound on the connections that come about
          ReconnectSettings,    \* what config->reconnect_attempts may be
          MaxMissed,            \* heartbeats without an answer (3)
          MaxConnectCalls       \* bound on the calls of client_connect

ASSUME ClAssumption == MaxConnects \in Nat /\ ReconnectSettings \subseteq Nat /\ MaxMissed \in Nat

VARIABLES reconnect_attempts,  \* config; 0: the client does not reconnect
          cstate, threads_running, connection_active,
          sockfd,              \* the number of the connection, or 0
          sock,                \* "none", "up", "down" (by the peer), "closed"
          nconn,               \* connections so far
          rpc, rsock, hpc, cpc,   \* the threads
          receive_thread, heartbeat_thread, reconnect_thread,   \* handles
          reconnect_count, heartbeat_missed,
          opc,                 \* the application's thread
          target,              \* the thread that pthread_join waits for
          ccalls,
          clfault              \* "none", or "joined_null"

clvars == <<reconnect_attempts, cstate, threads_running, connection_active, sockfd, sock, nconn, rpc, rsock, hpc, cpc,
            receive_thread, heartbeat_thread, reconnect_thread, reconnect_count, heartbeat_missed,
            opc, target, ccalls, clfault>>
handles == <<receive_thread, heartbeat_thread, reconnect_thread>>
counters == <<reconnect_count, heartbeat_missed>>
threads == <<rpc, rsock, hpc, cpc>>
conn == <<connection_active, sockfd, sock, nconn>>

Conns == 1..MaxConnects

(* client_create *)
ClInit ==
    /\ reconnect_attempts \in ReconnectSettings
    /\ cstate = "DISCONNECTED" /\ threads_running = FALSE /\ connection_active = FALSE
    /\ sockfd = 0 /\ sock = [k \in Conns |-> "none"] /\ nconn = 0
    /\ rpc = [k \in Conns |-> "none"] /\ rsock = [k \in Conns |-> 0]
    /\ hpc = [k \in Conns |-> "none"] /\ cpc = [k \in Conns |-> "none"]
    /\ receive_thread = 0 /\ heartbeat_thread = 0 /\ reconnect_thread = 0
    /\ reconnect_count = 0 /\ heartbeat_missed = 0
    /\ opc = "idle" /\ target = 0 /\ ccalls = 0 /\ clfault = "none"

Ok == clfault = "none"
Serves == threads_running /\ connection_active
Over == {"none", "ended"}

-----------------------------------------------------------------------------
(* client_connect *)

(* client_connect_internal succeeds; the former socket is not closed. *)
Established ==
    /\ nconn < MaxConnects
    /\ nconn' = nconn + 1 /\ sockfd' = nconn + 1
    /\ sock' = [sock EXCEPT ![nconn + 1] = "up"]
    /\ connection_active' = TRUE

(* It fails: the new socket is closed. *)
NotEstablished == sockfd' = 0 /\ UNCHANGED <<sock, nconn, connection_active>>

Connect ==
    /\ Ok /\ opc = "idle" /\ cstate \in {"DISCONNECTED", "ERROR"} /\ ccalls < MaxConnectCalls
    /\ ccalls' = ccalls + 1
    /\ cstate' = "CONNECTING" /\ opc' = "connect"
    /\ UNCHANGED <<threads_running, conn, threads, handles, counters, target, clfault>>

ConnectFails ==
    /\ Ok /\ opc = "connect"
    /\ NotEstablished
    /\ cstate' = "ERROR" /\ opc' = "idle"
    /\ UNCHANGED <<threads_running, threads, handles, counters, target, ccalls, clfault>>

(* The threads are created before threads_running is set. *)
ConnectThreads ==
    /\ Ok /\ opc = "connect"
    /\ Established
    /\ rpc' = [rpc EXCEPT ![nconn + 1] = "test"] /\ receive_thread' = nconn + 1
    /\ hpc' = [hpc EXCEPT ![nconn + 1] = "test"] /\ heartbeat_thread' = nconn + 1
    /\ opc' = "threads"
    /\ UNCHANGED <<cstate, threads_running, rsock, cpc, reconnect_thread, counters, target, ccalls, clfault>>

ConnectDone ==
    /\ Ok /\ opc = "threads"
    /\ threads_running' = TRUE
    /\ cstate' = "CONNECTED" /\ opc' = "idle"
    /\ UNCHANGED <<conn, threads, handles, counters, target, ccalls, clfault>>

(* client_login sends its message, or goes back to CONNECTED. *)
Login ==
    /\ Ok /\ opc = "idle" /\ cstate = "CONNECTED"
    /\ connection_active /\ sockfd # 0
    /\ cstate' = "AUTHENTICATING"
    /\ UNCHANGED <<threads_running, conn, threads, handles, counters, opc, target, ccalls, clfault>>

-----------------------------------------------------------------------------
(* client_disconnect *)

Disconnect ==
    /\ Ok /\ opc = "idle" /\ cstate \notin {"DISCONNECTED", "DISCONNECTING"}
    /\ cstate' = "DISCONNECTING" /\ opc' = "stopping"
    /\ UNCHANGED <<threads_running, conn, threads, handles, counters, target, ccalls, clfault>>

StopThreads ==
    /\ Ok /\ opc = "stopping"
    /\ threads_running' = FALSE /\ opc' = "join_receive"
    /\ UNCHANGED <<cstate, conn, threads, handles, counters, target, ccalls, clfault>>

(* A handle is read and its thread waited for; the reconnect thread may store
   a new handle meanwhile, which is then cleared without waiting. *)
JoinReceive ==
    /\ Ok /\ opc = "join_receive"
    /\ target' = receive_thread
    /\ opc' = IF receive_thread = 0 THEN "join_heartbeat" ELSE "joining_receive"
    /\ UNCHANGED <<cstate, threads_running, conn, threads, handles, counters, ccalls, clfault>>

(* Mutant: the thread is detached and not waited for. *)
ReceiveDetached ==
    /\ Ok /\ opc = "joining_receive"
    /\ receive_thread' = 0 /\ target' = 0 /\ opc' = "join_heartbeat"
    /\ UNCHANGED <<cstate, threads_running, conn, threads, heartbeat_thread, reconnect_thread,
                   counters, ccalls, clfault>>

ReceiveJoined ==
    /\ Ok /\ opc = "joining_receive" /\ rpc[target] = "ended"
    /\ receive_thread' = 0 /\ target' = 0 /\ opc' = "join_heartbeat"
    /\ UNCHANGED <<cstate, threads_running, conn, threads, heartbeat_thread, reconnect_thread,
                   counters, ccalls, clfault>>

JoinHeartbeat ==
    /\ Ok /\ opc = "join_heartbeat"
    /\ target' = heartbeat_thread
    /\ opc' = IF heartbeat_thread = 0 THEN "test_reconnect" ELSE "joining_heartbeat"
    /\ UNCHANGED <<cstate, threads_running, conn, threads, handles, counters, ccalls, clfault>>

HeartbeatJoined ==
    /\ Ok /\ opc = "joining_heartbeat" /\ hpc[target] = "ended"
    /\ heartbeat_thread' = 0 /\ target' = 0 /\ opc' = "test_reconnect"
    /\ UNCHANGED <<cstate, threads_running, conn, threads, receive_thread, reconnect_thread,
                   counters, ccalls, clfault>>

TestReconnect ==
    /\ Ok /\ opc = "test_reconnect"
    /\ opc' = IF reconnect_thread = 0 THEN "cleanup" ELSE "join_reconnect"
    /\ UNCHANGED <<cstate, threads_running, conn, threads, handles, counters, target, ccalls, clfault>>

(* This handle is cleared by the thread itself, so that it may be gone by
   the time it is read again. *)
JoinReconnect ==
    /\ Ok /\ opc = "join_reconnect"
    /\ IF reconnect_thread = 0
       THEN clfault' = "joined_null" /\ UNCHANGED <<opc, target>>
       ELSE opc' = "joining_reconnect" /\ target' = reconnect_thread /\ UNCHANGED clfault
    /\ UNCHANGED <<cstate, threads_running, conn, threads, handles, counters, ccalls>>

ReconnectJoined ==
    /\ Ok /\ opc = "joining_reconnect" /\ cpc[target] = "ended"
    /\ reconnect_thread' = 0 /\ target' = 0 /\ opc' = "cleanup"
    /\ UNCHANGED <<cstate, threads_running, conn, threads, receive_thread, heartbeat_thread,
                   counters, ccalls, clfault>>

(* cleanup_connection closes the newest socket. *)
Cleanup ==
    /\ Ok /\ opc = "cleanup"
    /\ sock' = IF sockfd = 0 THEN sock ELSE [sock EXCEPT ![sockfd] = "closed"]
    /\ sockfd' = 0 /\ connection_active' = FALSE
    /\ reconnect_count' = 0 /\ heartbeat_missed' = 0
    /\ cstate' = "DISCONNECTED" /\ opc' = "idle"
    /\ UNCHANGED <<threads_running, nconn, threads, handles, target, ccalls, clfault>>

-----------------------------------------------------------------------------
(* receive_thread_func *)

(* The test of the loop, and receive_message_internal's of the socket. *)
ReceiveTest(k) ==
    /\ Ok /\ rpc[k] = "test"
    /\ rpc' = [rpc EXCEPT ![k] = IF ~Serves THEN "ended" ELSE IF sockfd = 0 THEN "failed" ELSE "recv"]
    /\ rsock' = [rsock EXCEPT ![k] = IF Serves THEN sockfd ELSE 0]
    /\ UNCHANGED <<cstate, threads_running, conn, hpc, cpc, handles, counters, opc, target, ccalls, clfault>>

(* Data comes; a heartbeat is answered and sets heartbeat_missed back. *)
ReceiveData(k) ==
    /\ Ok /\ rpc[k] = "recv" /\ sock[rsock[k]] = "up"
    /\ rpc' = [rpc EXCEPT ![k] = "test"]
    /\ heartbeat_missed' \in {0, heartbeat_missed}
    /\ UNCHANGED <<cstate, threads_running, conn, rsock, hpc, cpc, handles, reconnect_count, opc,
                   target, ccalls, clfault>>

ReceiveFails(k) ==
    /\ Ok /\ rpc[k] = "recv" /\ sock[rsock[k]] # "up"
    /\ rpc' = [rpc EXCEPT ![k] = "failed"]
    /\ UNCHANGED <<cstate, threads_running, conn, rsock, hpc, cpc, handles, counters, opc, target,
                   ccalls, clfault>>

FailureSeen(k) ==
    /\ Ok /\ rpc[k] = "failed"
    /\ rpc' = [rpc EXCEPT ![k] = IF threads_running THEN "reconnecting" ELSE "ended"]
    /\ UNCHANGED <<cstate, threads_running, conn, rsock, hpc, cpc, handles, counters, opc, target,
                   ccalls, clfault>>

(* RECONNECTING, then a reconnect thread unless one has its handle stored; or
   ERROR if the client is not to reconnect. *)
StartReconnect(k) ==
    /\ Ok /\ rpc[k] = "reconnecting"
    /\ \/ /\ reconnect_attempts > 0 /\ cstate' = "RECONNECTING"
          /\ IF reconnect_thread = 0
             THEN cpc' = [cpc EXCEPT ![k] = "loop"] /\ reconnect_thread' = k
             ELSE UNCHANGED <<cpc, reconnect_thread>>
       \/ reconnect_attempts = 0 /\ cstate' = "ERROR" /\ UNCHANGED <<cpc, reconnect_thread>>
    /\ rpc' = [rpc EXCEPT ![k] = "inactive"]
    /\ UNCHANGED <<threads_running, conn, rsock, hpc, receive_thread, heartbeat_thread, counters,
                   opc, target, ccalls, clfault>>

(* The last thing it does, whatever was connected since. *)
ReceiveEnds(k) ==
    /\ Ok /\ rpc[k] = "inactive"
    /\ connection_active' = FALSE
    /\ rpc' = [rpc EXCEPT ![k] = "ended"]
    /\ UNCHANGED <<cstate, threads_running, sockfd, sock, nconn, rsock, hpc, cpc, handles, counters,
                   opc, target, ccalls, clfault>>

-----------------------------------------------------------------------------
(* heartbeat_thread_func: test, sleep, test, send. *)

Beat(k) ==
    /\ Ok /\ hpc[k] = "test"
    /\ IF ~Serves
       THEN hpc' = [hpc EXCEPT ![k] = "ended"] /\ UNCHANGED <<heartbeat_missed, connection_active>>
       ELSE /\ heartbeat_missed' = heartbeat_missed + 1
            /\ IF heartbeat_missed + 1 > MaxMissed
               THEN connection_active' = FALSE /\ hpc' = [hpc EXCEPT ![k] = "ended"]
               ELSE UNCHANGED <<connection_active, hpc>>
    /\ UNCHANGED <<cstate, threads_running, sockfd, sock, nconn, rpc, rsock, cpc, handles,
                   reconnect_count, opc, target, ccalls, clfault>>

-----------------------------------------------------------------------------
(* reconnect_thread_func *)

(* The loop test, the delay and the second test of threads_running. *)
ReconnectTest(k) ==
    /\ Ok /\ cpc[k] = "loop"
    /\ cpc' = [cpc EXCEPT ![k] = IF reconnect_count < reconnect_attempts /\ threads_running
                                 THEN "connect" ELSE "last"]
    /\ UNCHANGED <<cstate, threads_running, conn, rpc, rsock, hpc, handles, counters, opc, target,
                   ccalls, clfault>>

ReconnectFails(k) ==
    /\ Ok /\ cpc[k] = "connect"
    /\ NotEstablished
    /\ reconnect_count' = reconnect_count + 1
    /\ cpc' = [cpc EXCEPT ![k] = "loop"]
    /\ UNCHANGED <<cstate, threads_running, rpc, rsock, hpc, handles, heartbeat_missed, opc, target,
                   ccalls, clfault>>

(* Both threads are created, over whatever the handles held. *)
Reconnected(k) ==
    /\ Ok /\ cpc[k] = "connect"
    /\ Established
    /\ rpc' = [rpc EXCEPT ![nconn + 1] = "test"] /\ receive_thread' = nconn + 1
    /\ hpc' = [hpc EXCEPT ![nconn + 1] = "test"] /\ heartbeat_thread' = nconn + 1
    /\ cpc' = [cpc EXCEPT ![k] = "connected"]
    /\ UNCHANGED <<cstate, threads_running, rsock, reconnect_thread, counters, opc, target, ccalls, clfault>>

ReconnectState(k) ==
    /\ Ok
    /\ \/ /\ cpc[k] = "connected"
          /\ cstate' = "CONNECTED" /\ cpc' = [cpc EXCEPT ![k] = "last"]
       \/ /\ cpc[k] = "last"
          /\ cstate' = IF reconnect_count >= reconnect_attempts THEN "ERROR" ELSE cstate
          /\ cpc' = [cpc EXCEPT ![k] = "clear"]
    /\ UNCHANGED <<threads_running, conn, rpc, rsock, hpc, handles, counters, opc, target, ccalls, clfault>>

ReconnectEnds(k) ==
    /\ Ok /\ cpc[k] = "clear"
    /\ reconnect_thread' = 0
    /\ cpc' = [cpc EXCEPT ![k] = "ended"]
    /\ UNCHANGED <<cstate, threads_running, conn, rpc, rsock, hpc, receive_thread, heartbeat_thread,
                   counters, opc, target, ccalls, clfault>>

-----------------------------------------------------------------------------
(* The server closes a connection, or the network does. *)
PeerCloses(k) ==
    /\ sock[k] = "up"
    /\ sock' = [sock EXCEPT ![k] = "down"]
    /\ UNCHANGED <<cstate, threads_running, connection_active, sockfd, nconn, threads, handles,
                   counters, opc, target, ccalls, clfault>>

Receives(k) == \/ ReceiveTest(k) \/ ReceiveFails(k) \/ FailureSeen(k) \/ StartReconnect(k)
               \/ ReceiveEnds(k)
Reconnects(k) == \/ ReconnectTest(k) \/ ReconnectFails(k) \/ Reconnected(k) \/ ReconnectState(k)
                 \/ ReconnectEnds(k)
Returns == \/ ConnectFails \/ ConnectThreads \/ ConnectDone
           \/ StopThreads \/ JoinReceive \/ ReceiveJoined \/ JoinHeartbeat
           \/ HeartbeatJoined \/ TestReconnect \/ JoinReconnect \/ ReconnectJoined \/ Cleanup

ClNext ==
  /\ UNCHANGED reconnect_attempts
  /\ \/ Connect \/ Login \/ Disconnect \/ Returns
     \/ \E k \in Conns : Receives(k) \/ ReceiveData(k) \/ Beat(k) \/ Reconnects(k) \/ PeerCloses(k)

(* Threads are scheduled; a server closes a connection on which it hears
   nothing. *)
ClFairness ==
    /\ WF_clvars(Returns)
    /\ \A k \in Conns : /\ WF_clvars(Receives(k)) /\ WF_clvars(Beat(k)) /\ WF_clvars(Reconnects(k))
                        /\ WF_clvars(PeerCloses(k))

ClSpec == ClInit /\ [][ClNext]_clvars /\ ClFairness

-----------------------------------------------------------------------------
(* Properties *)

ClTypeOK ==
    /\ cstate \in {"DISCONNECTED", "CONNECTING", "CONNECTED", "AUTHENTICATING", "DISCONNECTING",
                   "RECONNECTING", "ERROR"}
    /\ sockfd \in 0..MaxConnects /\ sock \in [Conns -> {"none", "up", "down", "closed"}]
    /\ rpc \in [Conns -> {"none", "test", "recv", "failed", "reconnecting", "inactive", "ended"}]
    /\ hpc \in [Conns -> {"none", "test", "ended"}]
    /\ cpc \in [Conns -> {"none", "loop", "connect", "connected", "last", "clear", "ended"}]
    /\ receive_thread \in 0..MaxConnects /\ heartbeat_thread \in 0..MaxConnects
    /\ reconnect_attempts \in ReconnectSettings
    /\ reconnect_thread \in 0..MaxConnects /\ reconnect_count \in 0..reconnect_attempts
    /\ clfault \in {"none", "joined_null"}

(* When the first client_disconnect has returned, no thread is left that
   receives or could still change the state, start a thread or open a
   connection behind the application's back, although the reconnect thread
   stores new handles while the old ones are waited for (lines 407-460,
   492-526, 577-620).  A thread that was not waited for may be left, about to
   find that it has to end; when it does so only in the next connection it
   stays, and after that the same cannot be said. *)
QuietAfterDisconnect ==
    Ok /\ opc = "idle" /\ cstate = "DISCONNECTED" /\ ccalls = 1 =>
        \A k \in Conns : rpc[k] \notin {"recv", "failed", "reconnecting"} /\ cpc[k] \in Over
=============================================================================
