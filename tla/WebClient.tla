----------------------------- MODULE WebClient ------------------------------
(***************************************************************************)
(* The connection of the web client (web/websocket-client.ts).  A step is   *)
(* one turn of the browser's event loop: a call by the page, a timer or a   *)
(* socket event, with the promise reactions it causes.                      *)
(*                                                                          *)
(* Sockets, and the calls of connect() that make them, are numbered.  A     *)
(* close() before the socket is open makes it fail; a failing socket fires  *)
(* error and then close with code 1006.  Request 0 is a heartbeat, which    *)
(* nobody waits for.  Left out: message bodies, checksums, callbacks.       *)
(***************************************************************************)
EXTENDS Integers, Sequences, FiniteSets

CONSTANTS MaxSockets,          \* bound on the sockets that are made
          reconnectAttempts,
          MaxRequests,         \* bound on the page's requests
          MaxQueued            \* bound on the queue when heartbeats pile up

ASSUME WcAssumption == {MaxSockets, reconnectAttempts, MaxRequests, MaxQueued} \subseteq Nat

VARIABLES wstate, socket, ws, nsock,
          byRetry,             \* connect() calls of the reconnect timer not settled yet
          connectTimers, reconnectTimers, reconnectCount,
          heartbeatTimer, intervals,
          pendingMessages, correlationMap, nextCorrelationId,
          request, answer,     \* state of a request's promise, and its reply
          nreq, wire           \* <<correlation id, request, socket>> in flight

wcvars == <<wstate, socket, ws, nsock, byRetry, connectTimers, reconnectTimers,
            reconnectCount, heartbeatTimer, intervals, pendingMessages, correlationMap,
            nextCorrelationId, request, answer, nreq, wire>>
wcsockets == <<socket, ws, nsock, byRetry>>
wctimers == <<connectTimers, reconnectTimers, reconnectCount>>
wcbeats == <<heartbeatTimer, intervals>>
wcrequests == <<pendingMessages, correlationMap, nextCorrelationId, request, answer, nreq, wire>>

Sockets == 1..MaxSockets
Requests == 1..MaxRequests

WcInit ==
    /\ wstate = "disconnected" /\ socket = 0 /\ nsock = 0
    /\ ws = [n \in Sockets |-> "none"]
    /\ byRetry = {}
    /\ connectTimers = {} /\ reconnectTimers = 0 /\ reconnectCount = 0
    /\ heartbeatTimer = 0 /\ intervals = {}
    /\ pendingMessages = <<>> /\ correlationMap = {} /\ nextCorrelationId = 1
    /\ request = [r \in Requests |-> "none"] /\ answer = [r \in Requests |-> 0]
    /\ nreq = 0 /\ wire = {}

-----------------------------------------------------------------------------
(* connect, reconnect *)

(* connect() when the state allows it. *)
NewSocket(retry) ==
    /\ wstate \notin {"connected", "connecting"} /\ nsock < MaxSockets
    /\ wstate' = "connecting"
    /\ nsock' = nsock + 1 /\ socket' = nsock + 1
    /\ ws' = [ws EXCEPT ![nsock + 1] = "connecting"]
    /\ byRetry' = IF retry THEN byRetry \cup {nsock + 1} ELSE byRetry
    /\ connectTimers' = connectTimers \cup {nsock + 1}
    /\ UNCHANGED <<reconnectCount, wcbeats, wcrequests>>

(* k tests of reconnectCount, each followed by a reconnect() if it holds. *)
Granted(k) == LET left == reconnectAttempts - reconnectCount IN IF k < left THEN k ELSE left
Reconnect(k) ==
    /\ reconnectCount' = reconnectCount + Granted(k)
    /\ reconnectTimers' = reconnectTimers + Granted(k)

PageConnects == NewSocket(FALSE) /\ UNCHANGED reconnectTimers

(* The reconnect timer; a connect() that is refused is tried again. *)
RetryConnects ==
    /\ reconnectTimers > 0
    /\ NewSocket(TRUE) /\ reconnectTimers' = reconnectTimers - 1

RetryRefused ==
    /\ reconnectTimers > 0 /\ wstate \in {"connected", "connecting"}
    /\ reconnectCount' = reconnectCount + Granted(1)
    /\ reconnectTimers' = reconnectTimers - 1 + Granted(1)
    /\ wstate' = IF Granted(1) = 1 THEN "reconnecting" ELSE wstate
    /\ UNCHANGED <<wcsockets, connectTimers, wcbeats, wcrequests>>

(* The constructor of the socket throws: the state is ERROR, the socket is the
   former one. *)
PageConnectThrows ==
    /\ wstate \notin {"connected", "connecting"}
    /\ wstate' = "error"
    /\ UNCHANGED <<wcsockets, wctimers, wcbeats, wcrequests>>

RetryThrows ==
    /\ reconnectTimers > 0 /\ wstate \notin {"connected", "connecting"}
    /\ reconnectCount' = reconnectCount + Granted(1)
    /\ reconnectTimers' = reconnectTimers - 1 + Granted(1)
    /\ wstate' = IF Granted(1) = 1 THEN "reconnecting" ELSE "error"
    /\ UNCHANGED <<wcsockets, connectTimers, wcbeats, wcrequests>>

(* The connection timer looks at the state and closes the newest socket,
   whichever call it belongs to. *)
ConnectTimeout(n) ==
    /\ n \in connectTimers
    /\ connectTimers' = connectTimers \ {n}
    /\ IF wstate = "connecting"
       THEN /\ ws' = [ws EXCEPT ![socket] = IF @ = "connecting" THEN "failing" ELSE @]
            /\ byRetry' = byRetry \ {n}
            /\ LET k == IF n \in byRetry THEN 1 ELSE 0 IN
               /\ Reconnect(k)
               /\ wstate' = IF Granted(k) = 1 THEN "reconnecting" ELSE wstate
       ELSE UNCHANGED <<ws, byRetry, reconnectCount, reconnectTimers, wstate>>
    /\ UNCHANGED <<socket, nsock, wcbeats, wcrequests>>

-----------------------------------------------------------------------------
(* sendMessage *)

(* Mutant: the correlation id is the size of the map plus one. *)
SendReusesIds ==
    /\ nreq < MaxRequests /\ nreq' = nreq + 1
    /\ socket # 0 /\ wstate = "connected" /\ ws[socket] # "connecting"
    /\ request' = [request EXCEPT ![nreq + 1] = "waiting"]
    /\ LET id == Cardinality(correlationMap) + 1 IN
       /\ correlationMap' = correlationMap \cup {<<id, nreq + 1>>}
       /\ wire' = IF ws[socket] = "open" THEN wire \cup {<<id, nreq + 1, socket>>} ELSE wire
    /\ UNCHANGED <<wstate, wcsockets, wctimers, wcbeats, nextCorrelationId,
                   pendingMessages, answer>>

(* A request waits in the queue unless the state is CONNECTED.  send() throws
   on a socket that is not open yet and drops the data on a closed one. *)
Send ==
    /\ nreq < MaxRequests /\ nreq' = nreq + 1
    /\ IF socket = 0 \/ wstate # "connected"
       THEN /\ Len(pendingMessages) < MaxQueued
            /\ pendingMessages' = Append(pendingMessages, nreq + 1)
            /\ request' = [request EXCEPT ![nreq + 1] = "queued"]
            /\ UNCHANGED <<correlationMap, nextCorrelationId, wire>>
       ELSE /\ nextCorrelationId' = nextCorrelationId + 1
            /\ IF ws[socket] = "connecting"
               THEN /\ request' = [request EXCEPT ![nreq + 1] = "rejected"]
                    /\ UNCHANGED <<correlationMap, wire>>
               ELSE /\ request' = [request EXCEPT ![nreq + 1] = "waiting"]
                    /\ correlationMap' = correlationMap \cup {<<nextCorrelationId, nreq + 1>>}
                    /\ wire' = IF ws[socket] = "open"
                               THEN wire \cup {<<nextCorrelationId, nreq + 1, socket>>} ELSE wire
            /\ UNCHANGED pendingMessages
    /\ UNCHANGED <<wstate, wcsockets, wctimers, wcbeats, answer>>

(* A heartbeat is queued like any message when the state is not CONNECTED. *)
Heartbeat ==
    /\ intervals # {} /\ socket # 0 /\ ws[socket] = "open" /\ wstate # "connected"
    /\ Len(pendingMessages) < MaxQueued
    /\ pendingMessages' = Append(pendingMessages, 0)
    /\ UNCHANGED <<wstate, wcsockets, wctimers, wcbeats, correlationMap,
                   nextCorrelationId, request, answer, nreq, wire>>

ReplyTimeout(e) ==
    /\ e \in correlationMap
    /\ correlationMap' = correlationMap \ {e}
    /\ request' = [request EXCEPT ![e[2]] = "rejected"]
    /\ UNCHANGED <<wstate, wcsockets, wctimers, wcbeats, pendingMessages,
                   nextCorrelationId, answer, nreq, wire>>

(* handleMessage, with FLAG_RESPONSE: whoever is filed under the id gets it. *)
Reply(e) ==
    /\ e \in wire /\ ws[e[3]] = "open"
    /\ wire' = wire \ {e}
    /\ LET waiting == {q \in Requests : <<e[1], q>> \in correlationMap} IN
       /\ correlationMap' = {f \in correlationMap : f[1] # e[1]}
       /\ request' = [q \in Requests |-> IF q \in waiting THEN "answered" ELSE request[q]]
       /\ answer' = [q \in Requests |-> IF q \in waiting THEN e[2] ELSE answer[q]]
    /\ UNCHANGED <<wstate, wcsockets, wctimers, wcbeats, pendingMessages,
                   nextCorrelationId, nreq>>

(* handleLoginResponse, without the flag. *)
LoginAnswer(e) ==
    /\ e \in wire /\ ws[e[3]] = "open"
    /\ wire' = wire \ {e}
    /\ wstate' = "authenticated"
    /\ UNCHANGED <<wcsockets, wctimers, wcbeats, pendingMessages, correlationMap,
                   nextCorrelationId, request, answer, nreq>>

-----------------------------------------------------------------------------
(* The events of a socket. *)

(* flushPendingMessages: the queue is sent again, no longer expecting a reply,
   and so resolved with null; with no socket it is only queued again. *)
Flush(sockets) ==
    IF socket = 0 THEN UNCHANGED <<pendingMessages, request>>
    ELSE /\ pendingMessages' = <<>>
         /\ request' = [r \in Requests |->
                          IF \E i \in 1..Len(pendingMessages) : pendingMessages[i] = r
                          THEN IF sockets[socket] = "connecting" THEN "rejected" ELSE "null"
                          ELSE request[r]]

StateOnOpen(n) ==
    /\ ws[n] = "connecting"
    /\ ws' = [ws EXCEPT ![n] = "open"]
    /\ wstate' = "connected" /\ reconnectCount' = 0
    /\ heartbeatTimer' = n /\ intervals' = intervals \cup {n}
    /\ byRetry' = byRetry \ {n}
    /\ UNCHANGED <<socket, nsock, connectTimers, reconnectTimers, correlationMap,
                   nextCorrelationId, answer, nreq, wire>>

(* Mutant: the queue is flushed before the state is set. *)
OpensFlushFirst(n) == StateOnOpen(n) /\ UNCHANGED <<pendingMessages, request>>

Opens(n) == StateOnOpen(n) /\ Flush(ws')

(* What was under way on socket n is lost with it. *)
LostWith(n) ==
    /\ wire' = {e \in wire : e[3] # n}
    /\ UNCHANGED <<pendingMessages, correlationMap, nextCorrelationId, request, answer, nreq>>

StopHeartbeat ==
    /\ intervals' = intervals \ {heartbeatTimer}
    /\ heartbeatTimer' = 0

(* onclose; normal: code 1000 or 1001. *)
Closes(n, normal) ==
    /\ \/ ws[n] = "open"
       \/ ws[n] = "closing" /\ normal
    /\ ws' = [ws EXCEPT ![n] = "closed"]
    /\ StopHeartbeat
    /\ IF normal
       THEN wstate' = "disconnected" /\ UNCHANGED <<reconnectCount, reconnectTimers>>
       ELSE /\ Reconnect(1)
            /\ wstate' = IF Granted(1) = 1 THEN "reconnecting" ELSE "disconnected"
    /\ LostWith(n)
    /\ UNCHANGED <<socket, nsock, byRetry, connectTimers>>

(* onerror, the rejection of the reconnect timer's connect(), then onclose. *)
Fails(n) ==
    /\ ws[n] \in {"connecting", "failing", "open", "closing"}
    /\ ws' = [ws EXCEPT ![n] = "closed"]
    /\ StopHeartbeat
    /\ byRetry' = byRetry \ {n}
    /\ LET k == IF n \in byRetry THEN 2 ELSE 1 IN
       /\ Reconnect(k)
       /\ wstate' = IF Granted(k) = k THEN "reconnecting" ELSE "disconnected"
    /\ LostWith(n)
    /\ UNCHANGED <<socket, nsock, connectTimers>>

(* disconnect(): what is queued or waited for is forgotten. *)
PageDisconnects ==
    /\ StopHeartbeat
    /\ request' = [r \in Requests |->
                     IF request[r] \in {"queued", "waiting"} THEN "forgotten" ELSE request[r]]
    /\ pendingMessages' = <<>> /\ correlationMap' = {}
    /\ ws' = [n \in Sockets |-> IF n # socket THEN ws[n]
                                ELSE IF ws[n] = "connecting" THEN "failing"
                                ELSE IF ws[n] = "open" THEN "closing" ELSE ws[n]]
    /\ wire' = {e \in wire : e[3] # socket}
    /\ socket' = 0 /\ wstate' = "disconnected"
    /\ UNCHANGED <<nsock, byRetry, wctimers, nextCorrelationId, answer, nreq>>

WcNext ==
    \/ PageConnects \/ RetryConnects \/ RetryRefused \/ PageConnectThrows \/ RetryThrows
    \/ Send \/ Heartbeat \/ PageDisconnects
    \/ \E n \in Sockets : \/ ConnectTimeout(n) \/ Opens(n) \/ Fails(n)
                          \/ \E normal \in BOOLEAN : Closes(n, normal)
    \/ \E e \in correlationMap : ReplyTimeout(e)
    \/ \E e \in wire : Reply(e) \/ LoginAnswer(e)

WcSpec == WcInit /\ [][WcNext]_wcvars

-----------------------------------------------------------------------------
(* Properties *)

(* A request's promise is resolved with the reply to that request, although
   replies come late, after a timeout, and over sockets that a reconnection
   left open (websocket-client.ts:156-207, 235-242). *)
RepliesMatch == \A r \in Requests : request[r] = "answered" => answer[r] = r

(* Nothing is left in the queue of a client that is connected: what was queued
   while it was not goes out when a socket opens, with whatever reconnections,
   refused calls and disconnects there were in between
   (websocket-client.ts:77-83, 157-162, 345-352). *)
NoBacklogWhenConnected == wstate = "connected" /\ socket # 0 => pendingMessages = <<>>
=============================================================================
