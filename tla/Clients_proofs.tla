--------------------------- MODULE Clients_proofs ---------------------------
(***************************************************************************)
(* Proofs about the components of the web client and about the connection  *)
(* of the C client, each for its own specification and for every value of  *)
(* its constants: synchronisation, connection, file transfers, group keys, *)
(* threads.                                                                *)
(***************************************************************************)
EXTENDS OfflineSync, WebClient, WebFiles, Groups, Client, FiniteSetTheorems, TLAPS

-----------------------------------------------------------------------------
(* Synchronisation.  The flag is set exactly while a round runs. *)
OneSync == syncs \in {0, 1} /\ (syncInProgress <=> syncs = 1)

(* A round begins only when the flag is not set, and clears it when it ends. *)
LEMMA OneSyncStep == OneSync /\ [OsNext]_osvars => OneSync'
  <1> SUFFICES ASSUME OneSync, [OsNext]_osvars PROVE OneSync'
    OBVIOUS
  <1>1. ASSUME UNCHANGED <<syncInProgress, syncs>> PROVE OneSync'
    BY <1>1 DEF OneSync
  <1>2. ASSUME BeginSync PROVE OneSync'
    BY <1>2 DEF BeginSync, OneSync
  <1>3. CASE SyncFails
    BY <1>3 DEF SyncFails, OneSync
  <1>4. CASE SyncStarts \/ GoesOnline \/ StoreMessage
    BY <1>1, <1>2, <1>4 DEF SyncStarts, GoesOnline, StoreMessage
  <1>5. CASE UNCHANGED osvars \/ Initialize \/ Opened \/ Destroy \/ GoesOffline
    BY <1>1, <1>5 DEF osvars, Initialize, Opened, Destroy, GoesOffline
  <1>6. CASE MessageArrives \/ MarkStarts \/ MarkFails \/ \E m \in MsgIds : DeleteMessage(m) \/ MarkWrites(m)
    BY <1>1, <1>6 DEF MessageArrives, MarkStarts, MarkFails, DeleteMessage, MarkWrites
  <1>7. CASE \E old \in SUBSET Stored : ClearOldMessages(old)
    BY <1>1, <1>7 DEF ClearOldMessages
  <1>8. QED
    BY <1>3, <1>4, <1>5, <1>6, <1>7 DEF OsNext

(* Two rounds of synchronisation never run at the same time and the flag is
   never left set, whoever starts them and whichever step fails
   (offline-sync.ts, autoSync and its syncInProgress flag). *)
THEOREM SyncsAreSerial == OsSpec => []OneSyncAtATime
  <1>1. OsInit => OneSync
    BY DEF OsInit, OneSync
  <1>2. OneSync => OneSyncAtATime
    BY DEF OneSync, OneSyncAtATime
  <1>3. QED
    BY <1>1, <1>2, OneSyncStep, PTL DEF OsSpec

(* A stored message has these fields. *)
Record(r) == r = [status |-> r.status, synced |-> r.synced, read |-> r.read]

(* What is not sent yet was stored, is not deleted by a step other than the
   user's, and neither its record nor the copy that a round will write back
   says that it is synced; it is kept as sending until it is read. *)
UnsentInv ==
    /\ nstored \in Nat /\ unsent \subseteq 1..nstored /\ unsent \subseteq MsgIds
    /\ DOMAIN messages = MsgIds /\ DOMAIN marking = MsgIds
    /\ \A m \in MsgIds : Record(messages[m]) /\ Record(marking[m])
    /\ \A m \in MsgIds : m \in unsent \/ m > nstored => ~messages[m].synced /\ ~marking[m].synced
    /\ \A m \in unsent \ deleted : messages[m] # Absent /\ (messages[m].status = "sending" \/ messages[m].read)

(* Every step keeps what is not sent. *)
LEMMA UnsentStep == UnsentInv /\ [OsNext]_osvars => UnsentInv'
  <1> SUFFICES ASSUME UnsentInv, [OsNext]_osvars PROVE UnsentInv'
    OBVIOUS
  <1> USE DEF UnsentInv, Record, Absent, Put
  <1>1. ASSUME UNCHANGED <<messages, nstored, marking, unsent, deleted>> PROVE UnsentInv'
    BY <1>1
  <1>2. CASE UNCHANGED osvars \/ Initialize \/ Opened \/ Destroy \/ SyncStarts \/ SyncFails \/ GoesOffline \/ GoesOnline
    BY <1>1, <1>2 DEF osvars, Initialize, Opened, Destroy, SyncStarts, SyncFails, GoesOffline, GoesOnline
  <1>3. CASE StoreMessage
    <2>1. PICK k \in MsgIds : k = nstored + 1 /\ k \in 1..nstored' /\ nstored' = nstored + 1
      BY <1>3, OsAssumption DEF StoreMessage, MsgIds
    <2>2. /\ messages' = [messages EXCEPT ![k] = [status |-> "sending", synced |-> FALSE, read |-> FALSE]]
          /\ unsent' = unsent \cup {k} /\ UNCHANGED <<marking, deleted>>
      BY <1>3, <2>1 DEF StoreMessage
    <2>3. \A m \in MsgIds : m \in Nat
      BY OsAssumption DEF MsgIds
    <2>4. nstored' \in Nat /\ unsent' \subseteq 1..nstored' /\ unsent' \subseteq MsgIds
      BY <2>1, <2>2
    <2>5. \A m \in MsgIds : m \in unsent' \/ m > nstored' => ~messages'[m].synced /\ ~marking'[m].synced
      BY <2>1, <2>2, <2>3
    <2>6. \A m \in unsent' \ deleted' :
             messages'[m] # Absent /\ (messages'[m].status = "sending" \/ messages'[m].read)
      BY <2>2
    <2>7. QED
      BY <2>2, <2>4, <2>5, <2>6
  <1>4. CASE MessageArrives
    <2>1. PICK k \in MsgIds : k = nstored + 1 /\ nstored' = nstored + 1
      BY <1>4, OsAssumption DEF MessageArrives, MsgIds
    <2>2. /\ messages' = [messages EXCEPT ![k] = [status |-> "delivered", synced |-> TRUE, read |-> FALSE]]
          /\ UNCHANGED <<unsent, marking, deleted>>
      BY <1>4, <2>1 DEF MessageArrives
    <2>3. \A m \in MsgIds : m \in Nat
      BY OsAssumption DEF MsgIds
    <2>4. nstored' \in Nat /\ unsent' \subseteq 1..nstored' /\ k \notin unsent
      BY <2>1, <2>2
    <2>5. \A m \in MsgIds : m \in unsent \/ m > nstored' => m # k /\ (m \in unsent \/ m > nstored)
      BY <2>1, <2>3, <2>4
    <2>6. \A m \in MsgIds : m \in unsent \/ m > nstored' => ~messages'[m].synced /\ ~marking[m].synced
      BY <2>2, <2>5
    <2>7. \A m \in unsent \ deleted :
             messages'[m] # Absent /\ (messages'[m].status = "sending" \/ messages'[m].read)
      BY <2>2, <2>4
    <2>8. \A m \in MsgIds : Record(messages'[m])
      BY <2>2
    <2>9. QED
      BY <2>2, <2>4, <2>6, <2>7, <2>8
  <1>5. ASSUME NEW m \in MsgIds, DeleteMessage(m) PROVE UnsentInv'
    BY <1>5 DEF DeleteMessage
  <1>6. ASSUME NEW old, ClearOldMessages(old) PROVE UnsentInv'
    BY <1>6 DEF ClearOldMessages
  <1>7. CASE MarkStarts
    BY <1>7 DEF MarkStarts
  <1>8. ASSUME NEW m \in MsgIds, MarkWrites(m) PROVE UnsentInv'
    <2>1. marking[m] = [status |-> marking[m].status, synced |-> marking[m].synced, read |-> marking[m].read]
      OBVIOUS
    <2> DEFINE old == marking[m]
    <2>a. messages' = [messages EXCEPT ![m] = [old EXCEPT !.status = "read", !.read = TRUE]]
      BY <1>8 DEF MarkWrites
    <2>b. old = [status |-> old.status, synced |-> old.synced, read |-> old.read]
      BY <2>1
    <2> HIDE DEF old
    <2>c. [old EXCEPT !.status = "read", !.read = TRUE] = [status |-> "read", synced |-> old.synced, read |-> TRUE]
      <3>1. PICK k : k = [old EXCEPT !.status = "read"]
        OBVIOUS
      <3>2. k = [status |-> "read", synced |-> old.synced, read |-> old.read]
        BY ONLY <2>b, <3>1
      <3>3. \A t : [k EXCEPT !.read = t] = [status |-> "read", synced |-> old.synced, read |-> t]
        BY ONLY <3>2
      <3> QED
        BY <3>1, <3>3, Zenon
    <2>2. PICK w : /\ messages' = [messages EXCEPT ![m] = w]
                   /\ w = [status |-> "read", synced |-> marking[m].synced, read |-> TRUE]
      BY <2>a, <2>c DEF old
    <2>3. w.read /\ w # Absent /\ Record(w) /\ w.synced = marking[m].synced
      BY <2>2
    <2>4. /\ marking' = [marking EXCEPT ![m] = Absent] /\ Record(Absent) /\ ~Absent.synced
          /\ UNCHANGED <<nstored, unsent, deleted>>
      BY <1>8 DEF MarkWrites
    <2> HIDE DEF Record, Absent
    <2>5. messages'[m] = w /\ marking'[m] = Absent
          /\ \A e \in MsgIds : e # m => messages'[e] = messages[e] /\ marking'[e] = marking[e]
      BY <2>2, <2>4
    <2> QED
      BY <2>2, <2>3, <2>4, <2>5
  <1>9. CASE MarkFails
    BY <1>9 DEF MarkFails
  <1>10. QED
    BY <1>2, <1>3, <1>4, <1>5, <1>6, <1>7, <1>8, <1>9 DEF OsNext

(* A message that the page stored and did not delete stays in the store as not
   sent, and is looked for when messages are sent unless its conversation was
   marked as read, whatever is cleaned up and although marking writes copies
   back that it took earlier (offline-sync.ts, clearOldMessages and
   markConversationAsRead), for any messages. *)
THEOREM UnsentAreKept == OsSpec => []UnsentKept
  <1>1. OsInit => UnsentInv
    BY OsAssumption DEF OsInit, UnsentInv, Record, Absent, MsgIds
  <1>2. UnsentInv => UnsentKept
    BY DEF UnsentInv, UnsentKept
  <1>3. QED
    BY <1>1, <1>2, UnsentStep, PTL DEF OsSpec

-----------------------------------------------------------------------------
(* Correlation.  The ids on the wire and in the map are older than the next
   one, so an id never stands for two requests. *)
Correlated ==
    /\ DOMAIN request = Requests /\ DOMAIN answer = Requests
    /\ nextCorrelationId \in Nat /\ nreq \in Nat
    /\ \A e \in correlationMap : \E id \in Nat, r \in Requests : e = <<id, r>> /\ id < nextCorrelationId
    /\ \A e \in wire : e[1] \in Nat /\ e[1] < nextCorrelationId
    /\ \A e \in wire, q \in Requests : <<e[1], q>> \in correlationMap => q = e[2]
    /\ RepliesMatch

(* Every step keeps ids and requests together. *)
LEMMA CorrelatedStep == Correlated /\ [WcNext]_wcvars => Correlated'
  <1> SUFFICES ASSUME Correlated, [WcNext]_wcvars PROVE Correlated'
    OBVIOUS
  <1> USE DEF Correlated, RepliesMatch
  <1>1. ASSUME UNCHANGED wcrequests PROVE Correlated'
    BY <1>1 DEF wcrequests
  <1>2. CASE UNCHANGED wcvars \/ PageConnects \/ RetryConnects \/ RetryRefused
             \/ PageConnectThrows \/ RetryThrows \/ \E n \in Sockets : ConnectTimeout(n)
    BY <1>1, <1>2 DEF wcvars, wcrequests, PageConnects, RetryConnects, RetryRefused, PageConnectThrows,
       RetryThrows, NewSocket, ConnectTimeout
  <1>3. CASE Send
    <2>1. DOMAIN request' = Requests /\ nextCorrelationId' \in Nat /\ nextCorrelationId' >= nextCorrelationId
          /\ UNCHANGED answer /\ nreq' \in Nat
      BY <1>3 DEF Send
    <2>2. \A r \in Requests : request'[r] = "answered" => answer'[r] = r
      BY <1>3 DEF Send
    <2>3. CASE UNCHANGED <<correlationMap, wire>>
      BY <2>1, <2>2, <2>3
    <2>4. CASE correlationMap' = correlationMap \cup {<<nextCorrelationId, nreq + 1>>}
               /\ nextCorrelationId' = nextCorrelationId + 1
      <3>1. nreq + 1 \in Requests
        BY <1>3, WcAssumption DEF Send, Requests
      <3>2. wire' \subseteq wire \cup {<<nextCorrelationId, nreq + 1, socket>>}
        BY <1>3, <2>4 DEF Send
      <3>3. \A e \in correlationMap' : \E id \in Nat, r \in Requests : e = <<id, r>> /\ id < nextCorrelationId'
        BY <2>1, <2>4, <3>1
      <3>4. \A e \in wire' : e[1] \in Nat /\ e[1] < nextCorrelationId'
        BY <2>1, <2>4, <3>2
      <3>5. \A e \in wire', q \in Requests : <<e[1], q>> \in correlationMap' => q = e[2]
        BY <2>4, <3>2
      <3>6. QED
        BY <2>1, <2>2, <3>3, <3>4, <3>5
    <2>5. QED
      BY <1>3, <2>3, <2>4 DEF Send
  <1>4. CASE Heartbeat
    BY <1>4 DEF Heartbeat
  <1>5. CASE PageDisconnects
    BY <1>5 DEF PageDisconnects
  <1>6. ASSUME NEW n \in Sockets, Opens(n) PROVE Correlated'
    BY <1>6 DEF Opens, StateOnOpen, Flush
  <1>7. ASSUME NEW n \in Sockets, NEW normal \in BOOLEAN, Closes(n, normal) \/ Fails(n) PROVE Correlated'
    BY <1>7 DEF Closes, Fails, LostWith
  <1>8. ASSUME NEW e \in correlationMap, ReplyTimeout(e) PROVE Correlated'
    BY <1>8 DEF ReplyTimeout
  <1>9. ASSUME NEW e \in wire, Reply(e) PROVE Correlated'
    BY <1>9 DEF Reply
  <1>10. ASSUME NEW e \in wire, LoginAnswer(e) PROVE Correlated'
    BY <1>10 DEF LoginAnswer
  <1>11. QED
    BY <1>2, <1>3, <1>4, <1>5, <1>6, <1>7, <1>8, <1>9, <1>10 DEF WcNext

(* A reply resolves the request it answers, however late, however often the
   client reconnects and whatever timed out meanwhile (websocket-client.ts,
   its correlation map), for any number of requests. *)
THEOREM RepliesAreMatched == WcSpec => []RepliesMatch
  <1>1. WcInit => Correlated
    BY DEF WcInit, Correlated, RepliesMatch
  <1>2. Correlated => RepliesMatch
    BY DEF Correlated
  <1>3. QED
    BY <1>1, <1>2, CorrelatedStep, PTL DEF WcSpec

(* Every step leaves the backlog empty while the client is connected. *)
LEMMA BacklogStep == NoBacklogWhenConnected /\ [WcNext]_wcvars => NoBacklogWhenConnected'
  <1> SUFFICES ASSUME NoBacklogWhenConnected, [WcNext]_wcvars PROVE NoBacklogWhenConnected'
    OBVIOUS
  <1> USE DEF NoBacklogWhenConnected, wcsockets, wcrequests
  <1>1. CASE UNCHANGED wcvars
    BY <1>1 DEF wcvars
  <1>2. CASE PageConnects \/ RetryConnects \/ RetryRefused \/ PageConnectThrows \/ RetryThrows
    BY <1>2 DEF PageConnects, RetryConnects, RetryRefused, PageConnectThrows, RetryThrows, NewSocket
  <1>3. CASE Send \/ Heartbeat
    BY <1>3 DEF Send, Heartbeat
  <1>4. CASE PageDisconnects
    BY <1>4 DEF PageDisconnects
  <1>5. ASSUME NEW n \in Sockets, ConnectTimeout(n) PROVE NoBacklogWhenConnected'
    BY <1>5 DEF ConnectTimeout
  <1>6. ASSUME NEW n \in Sockets, Opens(n) PROVE NoBacklogWhenConnected'
    BY <1>6 DEF Opens, StateOnOpen, Flush
  <1>7. ASSUME NEW n \in Sockets, NEW normal \in BOOLEAN, Closes(n, normal) \/ Fails(n)
        PROVE  NoBacklogWhenConnected'
    BY <1>7 DEF Closes, Fails
  <1>8. CASE (\E e \in correlationMap : ReplyTimeout(e)) \/ (\E e \in wire : Reply(e) \/ LoginAnswer(e))
    BY <1>8 DEF ReplyTimeout, Reply, LoginAnswer
  <1>9. QED
    BY <1>1, <1>2, <1>3, <1>4, <1>5, <1>6, <1>7, <1>8 DEF WcNext

(* While the client is connected nothing waits in the queue of messages (websocket-client.ts,
   its pendingMessages and what it does when a socket opens). *)
THEOREM BacklogIsSent == WcSpec => []NoBacklogWhenConnected
  <1>1. WcInit => NoBacklogWhenConnected
    BY DEF WcInit, NoBacklogWhenConnected
  <1>2. QED
    BY <1>1, BacklogStep, PTL DEF WcSpec

-----------------------------------------------------------------------------
(* Transfers.  The files of a kind, and those of them that are under way. *)
FilesOf(k) == {t \in AllFiles : KindOf(t) = k}
Running(k) == {t \in FilesOf(k) : pc[t] \notin {"none", "queued", "ended"}}

(* A kind has a queue of its own files and no more active ones than allowed;
   and where something waits, something runs whose end will start it. *)
QueueInv ==
    /\ DOMAIN pc = AllFiles /\ DOMAIN queue = Kinds /\ DOMAIN active = Kinds
    /\ \A k \in Kinds :
         /\ queue[k] \in Seq(FilesOf(k))
         /\ active[k] \subseteq Running(k) /\ IsFiniteSet(active[k])
         /\ Cardinality(active[k]) <= MaxActive
         /\ queue[k] # <<>> => Running(k) # {}

(* The first n elements of a sequence are no more than n. *)
LEMMA FirstOf ==
    ASSUME NEW S, NEW q \in Seq(S), NEW n \in Nat, n <= Len(q)
    PROVE  LET T == {q[i] : i \in 1..n} IN IsFiniteSet(T) /\ Cardinality(T) \in Nat /\ Cardinality(T) <= n
  <1> DEFINE T == {q[i] : i \in 1..n}
             f == [i \in 1..n |-> q[i]]
  <1>1. f \in Surjection(1..n, T)
    BY DEF Surjection
  <1>2. IsFiniteSet(1..n) /\ Cardinality(1..n) = n
    <2>1. IsFiniteSet(1..n) /\ Cardinality(1..n) = IF 1 > n THEN 0 ELSE n - 1 + 1
      BY FS_Interval
    <2>2. QED
      BY <2>1
  <1>3. IsFiniteSet(T) /\ Cardinality(T) <= Cardinality(1..n)
    BY <1>1, <1>2, FS_Surjection
  <1>4. QED
    BY <1>2, <1>3, FS_CardinalityType

(* processQueue starts what fits: if anything still waits afterwards, all the
   places are taken, by transfers that run. *)
LEMMA QueueProcessed ==
    ASSUME QueueInv, NEW k \in Kinds, NEW q \in Seq(FilesOf(k)), NEW a, a \subseteq active[k],
           NEW t \in FilesOf(k), t \notin a, NEW p, NEW s, ProcessQueue(k, q, a, t, p, s)
    PROVE  QueueInv'
  <1> DEFINE free == MaxActive - Cardinality(a)
             n == IF Len(q) < free THEN Len(q) ELSE free
             started == {q[i] : i \in 1..n}
  <1>1. IsFiniteSet(a) /\ Cardinality(a) \in Nat /\ Cardinality(a) <= MaxActive
    <2>1. IsFiniteSet(active[k]) /\ Cardinality(active[k]) <= MaxActive
      BY DEF QueueInv
    <2>2. QED
      BY <2>1, WfAssumption, FS_Subset, FS_CardinalityType
  <1>2. n \in Nat /\ n <= Len(q) /\ n <= free /\ free \in Nat /\ Len(q) \in Nat
    BY <1>1, WfAssumption
  <1>3. /\ queue' = [queue EXCEPT ![k] = SubSeq(q, n + 1, Len(q))]
        /\ active' = [active EXCEPT ![k] = a \cup started]
        /\ pc' = [u \in AllFiles |-> IF u \in started THEN FirstStep(k) ELSE IF u = t THEN p ELSE pc[u]]
    BY DEF ProcessQueue
  <1> HIDE DEF n
  <1>4. started \subseteq FilesOf(k)
    BY <1>2
  <1>5. IsFiniteSet(started) /\ Cardinality(started) \in Nat /\ Cardinality(started) <= n
    BY <1>2, FirstOf
  <1>6. IsFiniteSet(a \cup started) /\ Cardinality(a \cup started) <= MaxActive
    <2>1. IsFiniteSet(a \cup started)
          /\ Cardinality(a \cup started) = Cardinality(a) + Cardinality(started) - Cardinality(a \cap started)
      BY <1>1, <1>5, FS_Union
    <2>2. Cardinality(a \cap started) \in Nat
      BY <1>1, FS_Intersection, FS_CardinalityType
    <2>3. QED
      BY <1>1, <1>2, <1>5, <2>1, <2>2, WfAssumption
  <1> HIDE DEF started
  <1>7. \A u \in a \cup started : u \in Running(k)'
    <2>1. FirstStep(k) \notin {"none", "queued", "ended"}
      BY DEF FirstStep
    <2>2. a \subseteq Running(k)
      BY DEF QueueInv
    <2>3. QED
      BY <1>3, <1>4, <2>1, <2>2 DEF Running, FilesOf
  <1>8. \A j \in Kinds : j # k => Running(j)' = Running(j)
    BY <1>3, <1>4 DEF Running, FilesOf, QueueInv
  <1>9. SubSeq(q, n + 1, Len(q)) \in Seq(FilesOf(k))
    BY <1>2
  <1>10. SubSeq(q, n + 1, Len(q)) # <<>> => a \cup started # {}
    <2>1. SUFFICES ASSUME n < Len(q) PROVE a \cup started # {}
      BY <1>2
    <2>2. n = free
      BY <2>1, <1>2 DEF n
    <2>3. CASE n = 0
      <3>1. Cardinality(a) # 0
        BY <1>1, <2>2, <2>3, WfAssumption
      <3>2. QED
        BY <3>1, FS_EmptySet
    <2>4. CASE n # 0
      BY <1>2, <2>4 DEF started
    <2>5. QED
      BY <2>3, <2>4
  <1>11. DOMAIN pc' = AllFiles /\ DOMAIN queue' = Kinds /\ DOMAIN active' = Kinds
    BY <1>3 DEF QueueInv
  <1>12. ASSUME NEW j \in Kinds
         PROVE  /\ queue'[j] \in Seq(FilesOf(j))
                /\ active'[j] \subseteq Running(j)' /\ IsFiniteSet(active'[j])
                /\ Cardinality(active'[j]) <= MaxActive
                /\ queue'[j] # <<>> => Running(j)' # {}
    <2>1. CASE j = k
      <3>1. queue'[j] = SubSeq(q, n + 1, Len(q)) /\ active'[j] = a \cup started
        BY <1>3, <2>1 DEF QueueInv
      <3>2. QED
        BY <1>6, <1>7, <1>9, <1>10, <2>1, <3>1
    <2>2. CASE j # k
      <3>1. queue'[j] = queue[j] /\ active'[j] = active[j]
        BY <1>3, <2>2 DEF QueueInv
      <3>2. QED
        BY <1>8, <2>2, <3>1 DEF QueueInv
    <2>3. QED
      BY <2>1, <2>2
  <1>13. QED
    BY <1>11, <1>12 DEF QueueInv, FilesOf

(* Every step keeps the queues served. *)
LEMMA QueueStep == QueueInv /\ [WfNext]_wfvars => QueueInv'
  <1> SUFFICES ASSUME QueueInv, [WfNext]_wfvars PROVE QueueInv'
    OBVIOUS
  <1>k. \A t \in AllFiles : KindOf(t) \in Kinds /\ t \in FilesOf(KindOf(t))
    BY DEF KindOf, Kinds, FilesOf
  <1>1. ASSUME UNCHANGED <<queue, active, pc>> PROVE QueueInv'
    BY <1>1 DEF QueueInv, Running
  <1>2. ASSUME NEW t \in AllFiles, AskTransfer(t) PROVE QueueInv'
    <2>1. t \notin active[KindOf(t)] /\ queue[KindOf(t)] \in Seq(FilesOf(KindOf(t)))
      BY <1>2, <1>k DEF AskTransfer, QueueInv, Running
    <2>2. QED
      <3>1. Append(queue[KindOf(t)], t) \in Seq(FilesOf(KindOf(t)))
        BY <1>k, <2>1
      <3>2. QED
        BY <1>2, <1>k, <2>1, <3>1, QueueProcessed DEF AskTransfer
  <1>3. ASSUME NEW t \in AllFiles, NEW s, Ends(t, s) PROVE QueueInv'
    <2>1. queue[KindOf(t)] \in Seq(FilesOf(KindOf(t)))
      BY <1>k DEF QueueInv
    <2>2. QED
      BY <1>3, <1>k, <2>1, QueueProcessed DEF Ends
  <1>4. ASSUME NEW t \in AllFiles, RequestAnswered(t) PROVE QueueInv'
    <2>1. \A k \in Kinds : Running(k)' = Running(k)
      BY <1>4 DEF RequestAnswered, QueueInv, Running, FilesOf
    <2>2. QED
      BY <1>4, <2>1 DEF RequestAnswered, QueueInv
  <1>5. ASSUME NEW t \in AllFiles, Cancel(t), t \in active[KindOf(t)] PROVE QueueInv'
    <2>1. /\ active' = [active EXCEPT ![KindOf(t)] = @ \ {t}]
          /\ UNCHANGED <<queue, pc>>
      BY <1>5 DEF Cancel
    <2>2. IsFiniteSet(active[KindOf(t)] \ {t}) /\ Cardinality(active[KindOf(t)] \ {t}) <= MaxActive
      <3>1. IsFiniteSet(active[KindOf(t)]) /\ Cardinality(active[KindOf(t)]) <= MaxActive
        BY <1>k DEF QueueInv
      <3>2. IsFiniteSet(active[KindOf(t)] \ {t}) /\ Cardinality(active[KindOf(t)] \ {t}) <= Cardinality(active[KindOf(t)])
        BY <3>1, FS_Subset
      <3>3. Cardinality(active[KindOf(t)] \ {t}) \in Nat /\ Cardinality(active[KindOf(t)]) \in Nat /\ MaxActive \in Nat
        BY <3>1, <3>2, WfAssumption, FS_CardinalityType
      <3>4. QED
        BY <3>1, <3>2, <3>3
    <2>3. QED
      BY <1>k, <2>1, <2>2 DEF QueueInv, Running
  <1>6. ASSUME NEW t \in AllFiles, Cancel(t), t \notin active[KindOf(t)] PROVE QueueInv'
    <2>0. queue[KindOf(t)] \in Seq(FilesOf(KindOf(t)))
      BY <1>k DEF QueueInv
    <2>1. PICK i \in 1..Len(queue[KindOf(t)]) :
            queue' = [queue EXCEPT ![KindOf(t)] = SubSeq(@, 1, i - 1) \o SubSeq(@, i + 1, Len(@))]
      BY <1>6 DEF Cancel
    <2>2. pc[t] = "queued" /\ pc' = [pc EXCEPT ![t] = "ended"] /\ UNCHANGED active
      BY <1>6 DEF Cancel
    <2>3. PICK q \in Seq(FilesOf(KindOf(t))) : queue' = [queue EXCEPT ![KindOf(t)] = q]
      <3>1. SubSeq(queue[KindOf(t)], 1, i - 1) \in Seq(FilesOf(KindOf(t)))
        BY <2>0
      <3>2. SubSeq(queue[KindOf(t)], i + 1, Len(queue[KindOf(t)])) \in Seq(FilesOf(KindOf(t)))
        BY <2>0
      <3> DEFINE q1 == SubSeq(queue[KindOf(t)], 1, i - 1)
                 q2 == SubSeq(queue[KindOf(t)], i + 1, Len(queue[KindOf(t)]))
      <3>3. q1 \o q2 \in Seq(FilesOf(KindOf(t)))
        <4> HIDE DEF q1, q2
        <4>1. q1 \in Seq(FilesOf(KindOf(t))) /\ q2 \in Seq(FilesOf(KindOf(t)))
          BY <3>1, <3>2 DEF q1, q2
        <4>2. QED
          BY <4>1
      <3>4. queue' = [queue EXCEPT ![KindOf(t)] = q1 \o q2]
        BY <1>k, <2>1 DEF QueueInv
      <3> HIDE DEF q1, q2
      <3>5. QED
        BY <3>3, <3>4
    <2>6. queue[KindOf(t)] # <<>>
      BY <2>0, <2>1
    <2>4. \A k \in Kinds : Running(k)' = Running(k)
      BY <2>2 DEF QueueInv, Running, FilesOf
    <2>5. QED
      BY <1>k, <2>2, <2>3, <2>4, <2>6 DEF QueueInv
  <1>7. ASSUME NEW t \in AllFiles, UploadFails(t) \/ RequestFails(t) \/ DownloadTimeout(t) \/ DownloadCompletes(t)
                                       \/ MissingChunk(t)
        PROVE  QueueInv'
    BY <1>3, <1>7 DEF UploadFails, RequestFails, DownloadTimeout, DownloadCompletes, MissingChunk
  <1>8. ASSUME NEW t \in AllFiles, Pause(t) \/ Resume(t) \/ DownloadResponse(t) PROVE QueueInv'
    BY <1>1, <1>8 DEF Pause, Resume, DownloadResponse
  <1>9. ASSUME NEW t \in AllFiles, NEW i, DownloadChunk(t, i) PROVE QueueInv'
    BY <1>1, <1>9 DEF DownloadChunk
  <1>10. QED
    BY <1>1, <1>2, <1>4, <1>5, <1>6, <1>7, <1>8, <1>9 DEF WfNext, wfvars

(* No transfer waits in a queue while none of its kind runs, whatever is
   paused, cancelled or fails (file-transfer.ts, the queues and all that
   ends a transfer), for any files and limits. *)
THEOREM NoTransferStranded == WfSpec => []NoneStranded
  <1>1. WfInit => QueueInv
    <2> SUFFICES ASSUME WfInit PROVE QueueInv
      OBVIOUS
    <2>1. IsFiniteSet({}) /\ Cardinality({}) = 0
      BY FS_EmptySet
    <2>2. QED
      BY <2>1, WfAssumption DEF WfInit, QueueInv
  <1>2. QueueInv => NoneStranded
    BY DEF QueueInv, NoneStranded, Running, FilesOf
  <1>3. QED
    BY <1>1, <1>2, QueueStep, PTL DEF WfSpec

-----------------------------------------------------------------------------
(* Group keys.  The objects that were made: group infos, encryption contexts
   and keys. *)
Objects ==
    /\ nctx \in Nat /\ ninfo \in Nat /\ nkey \in Nat /\ nctx <= MaxContexts /\ ninfo <= MaxInfos
    /\ groups \in {0, ninfo} /\ encryptionContexts \in 0..nctx
    /\ DOMAIN keyVersionOf = 1..MaxInfos /\ DOMAIN contexts = 1..MaxContexts
    /\ nctx > 0 => ninfo > 0
    /\ \A o \in 1..MaxContexts :
         /\ contexts[o] = [keyVersion |-> contexts[o].keyVersion, encryptionKey |-> contexts[o].encryptionKey,
                           historicalKeys |-> contexts[o].historicalKeys]
         /\ contexts[o].keyVersion \in Nat

(* A call holds an object that exists as long as it needs one. *)
Calls ==
    /\ DOMAIN call = GrCalls
    /\ \A c \in GrCalls :
         /\ call[c] = [pc |-> call[c].pc, ctx |-> call[c].ctx, info |-> call[c].info]
         /\ call[c].pc \in {"asking_create", "creating"} => call[c].info \in 1..ninfo
         /\ call[c].pc \in {"asking_rotate", "generating", "reencrypting", "saving"} => call[c].ctx \in 1..nctx

GrTypes == Objects /\ Calls

(* A call that only moves on keeps its objects. *)
LEMMA CallMoves ==
    ASSUME Calls, NEW c \in GrCalls, NEW p, call' = [call EXCEPT ![c].pc = p]
    PROVE  \E r : call' = [call EXCEPT ![c] = r] /\ r = [pc |-> p, ctx |-> call[c].ctx, info |-> call[c].info]
  <1> DEFINE r == [call[c] EXCEPT !.pc = p]
  <1>1. r = [pc |-> p, ctx |-> call[c].ctx, info |-> call[c].info]
    BY DEF Calls
  <1>2. call' = [call EXCEPT ![c] = r]
    OBVIOUS
  <1>3. QED
    BY ONLY <1>1, <1>2

(* A call may take any object that exists. *)
LEMMA CallSet ==
    ASSUME Objects, Objects', nctx' >= nctx, ninfo' >= ninfo, Calls, NEW c \in GrCalls, NEW r,
           call' = [call EXCEPT ![c] = r],
           r = [pc |-> r.pc, ctx |-> r.ctx, info |-> r.info],
           r.pc \in {"asking_create", "creating"} => r.info \in 1..ninfo,
           r.pc \in {"asking_rotate", "generating", "reencrypting", "saving"} => r.ctx \in 1..nctx
    PROVE  Calls'
  <1>1. \A d \in GrCalls : d # c => call'[d] = call[d]
    BY DEF Calls
  <1>2. call'[c] = r /\ DOMAIN call' = GrCalls
    BY DEF Calls
  <1>3. \A k \in 1..ninfo : k \in 1..ninfo'
    BY DEF Objects
  <1>4. \A k \in 1..nctx : k \in 1..nctx'
    BY DEF Objects
  <1>5. QED
    BY <1>1, <1>2, <1>3, <1>4 DEF Calls

(* A call that moves on to where it needs an object has it already. *)
LEMMA CallMoved ==
    ASSUME Objects, Objects', nctx' >= nctx, ninfo' >= ninfo, Calls, NEW c \in GrCalls, NEW p,
           call' = [call EXCEPT ![c].pc = p],
           p \in {"asking_create", "creating"} => call[c].info \in 1..ninfo,
           p \in {"asking_rotate", "generating", "reencrypting", "saving"} => call[c].ctx \in 1..nctx
    PROVE  Calls'
  <1>1. PICK r : call' = [call EXCEPT ![c] = r] /\ r = [pc |-> p, ctx |-> call[c].ctx, info |-> call[c].info]
    BY CallMoves
  <1>2. /\ r = [pc |-> r.pc, ctx |-> r.ctx, info |-> r.info]
        /\ r.pc \in {"asking_create", "creating"} => r.info \in 1..ninfo
        /\ r.pc \in {"asking_rotate", "generating", "reencrypting", "saving"} => r.ctx \in 1..nctx
    BY <1>1
  <1>3. QED
    BY <1>1, <1>2, CallSet

(* Archiving replaces the key of the version by the current one. *)
LEMMA ArchiveIs ==
    ASSUME NEW k, k = [keyVersion |-> k.keyVersion, encryptionKey |-> k.encryptionKey,
                       historicalKeys |-> k.historicalKeys]
    PROVE  Archive(k) = [keyVersion |-> k.keyVersion, encryptionKey |-> k.encryptionKey,
                         historicalKeys |-> {h \in k.historicalKeys : h[1] # k.keyVersion}
                                              \cup {<<k.keyVersion, k.encryptionKey>>}]
  <1> DEFINE hs == {h \in k.historicalKeys : h[1] # k.keyVersion} \cup {<<k.keyVersion, k.encryptionKey>>}
  <1>1. Archive(k) = [k EXCEPT !.historicalKeys = hs]
    BY DEF Archive
  <1> HIDE DEF hs
  <1>2. [k EXCEPT !.historicalKeys = hs] =
          [keyVersion |-> k.keyVersion, encryptionKey |-> k.encryptionKey, historicalKeys |-> hs]
    OBVIOUS
  <1>3. QED
    BY <1>1, <1>2 DEF hs

(* The first step of a rotation archives the current key of one context. *)
LEMMA Archives ==
    ASSUME Objects, NEW c \in GrCalls, NEW o \in 1..nctx, ArchiveOldKey(c, o)
    PROVE  \E hs : /\ contexts' = [contexts EXCEPT ![o] =
                                     [keyVersion |-> contexts[o].keyVersion, encryptionKey |-> contexts[o].encryptionKey,
                                      historicalKeys |-> hs]]
                   /\ hs = {h \in contexts[o].historicalKeys : h[1] # contexts[o].keyVersion}
                             \cup {<<contexts[o].keyVersion, contexts[o].encryptionKey>>}
  <1>1. o \in 1..MaxContexts
    BY GrAssumption DEF Objects
  <1>2. contexts' = [contexts EXCEPT ![o] = Archive(contexts[o])]
    BY DEF ArchiveOldKey
  <1>3. contexts[o] = [keyVersion |-> contexts[o].keyVersion, encryptionKey |-> contexts[o].encryptionKey,
                       historicalKeys |-> contexts[o].historicalKeys]
    BY <1>1 DEF Objects
  <1>4. QED
    BY <1>2, <1>3, ArchiveIs

(* The second one gives the context the next version and a new key. *)
LEMMA Generates ==
    ASSUME Objects, NEW c \in GrCalls, RotateGenerated(c), call[c].ctx \in 1..nctx
    PROVE  contexts' = [contexts EXCEPT ![call[c].ctx] =
                          [keyVersion |-> contexts[call[c].ctx].keyVersion + 1, encryptionKey |-> nkey + 1,
                           historicalKeys |-> contexts[call[c].ctx].historicalKeys]]
  <1> DEFINE o == call[c].ctx
             v == contexts[o].keyVersion + 1
  <1>1. o \in 1..MaxContexts
    BY GrAssumption DEF Objects
  <1>2. contexts' = [contexts EXCEPT ![o].keyVersion = v, ![o].encryptionKey = nkey + 1]
    BY DEF RotateGenerated, NextVersion
  <1>3. contexts[o] = [keyVersion |-> contexts[o].keyVersion, encryptionKey |-> contexts[o].encryptionKey,
                       historicalKeys |-> contexts[o].historicalKeys]
    BY <1>1 DEF Objects
  <1> HIDE DEF v
  <1>4. PICK k : k = [contexts[o] EXCEPT !.keyVersion = v]
    OBVIOUS
  <1>5. k = [keyVersion |-> v, encryptionKey |-> contexts[o].encryptionKey,
             historicalKeys |-> contexts[o].historicalKeys]
    BY <1>3, <1>4
  <1>6. [k EXCEPT !.encryptionKey = nkey + 1] =
          [keyVersion |-> v, encryptionKey |-> nkey + 1, historicalKeys |-> contexts[o].historicalKeys]
    BY ONLY <1>5
  <1>7. contexts' = [contexts EXCEPT ![o] = [k EXCEPT !.encryptionKey = nkey + 1]]
    BY <1>2, <1>4
  <1>8. QED
    BY <1>6, <1>7 DEF v

(* keyAt, the record of which key each version of a context had, is a function
   and the contexts agree with it: in their current key and in each archived
   one. *)
KeysRecorded ==
    /\ \A e \in keyAt : e = <<e[1], e[2], e[3]>> /\ e[1] \in 1..nctx /\ e[2] \in 1..contexts[e[1]].keyVersion
    /\ \A e, f \in keyAt : e[1] = f[1] /\ e[2] = f[2] => e = f
    /\ \A o \in 1..nctx :
         /\ <<o, contexts[o].keyVersion, contexts[o].encryptionKey>> \in keyAt
         /\ \A h \in contexts[o].historicalKeys : h = <<h[1], h[2]>> /\ <<o, h[1], h[2]>> \in keyAt

(* Where no two rotations overlapped, only one runs and every older version is
   archived; the current one too once the new key is being generated. *)
KeysArchived ==
    \A o \in (1..nctx) \ overlapped :
        /\ \A c, d \in Rotating(o) : c = d
        /\ \A v \in 1..(contexts[o].keyVersion - 1) : \E h \in contexts[o].historicalKeys : h[1] = v
        /\ \A c \in GrCalls : call[c].ctx = o /\ call[c].pc = "generating"
             => \E h \in contexts[o].historicalKeys : h[1] = contexts[o].keyVersion

(* With one group and one context the announced version is the context's, or
   a rotation is about to announce it. *)
KeyAnnounced ==
    groups = 1 /\ ninfo = 1 /\ nctx = 1 =>
        \/ keyVersionOf[1] = contexts[1].keyVersion
        \/ \E c \in GrCalls : call[c].pc \in {"reencrypting", "saving"}

GrInv == GrTypes /\ KeysRecorded /\ KeysArchived /\ KeyAnnounced

(* Every step keeps the objects in place. *)
LEMMA GrTypesStep == GrTypes /\ [GrNext]_grvars => GrTypes'
  <1> SUFFICES ASSUME GrTypes, [GrNext]_grvars PROVE GrTypes'
    OBVIOUS
  <1> USE DEF GrTypes
  <1>1. CASE UNCHANGED grvars
    BY <1>1 DEF grvars, Objects, Calls
  <1>2. CASE InfoResponse \/ DestroyManager \/ \E role \in {"permitted", "refused"} : MembersResponse(role)
    BY <1>2, GrAssumption DEF InfoResponse, DestroyManager, MembersResponse, Objects, Calls
  <1>3. ASSUME NEW c \in GrCalls, InitializeStarts(c) \/ InitializePermitted(c) PROVE GrTypes'
    <2>1. Objects' /\ UNCHANGED <<nctx, ninfo>>
      BY <1>3 DEF InitializeStarts, InitializePermitted, Objects
    <2>2. CASE InitializeStarts(c)
      <3>1. groups \in 1..ninfo
        BY <2>2 DEF InitializeStarts, Objects
      <3>2. PICK r : /\ call' = [call EXCEPT ![c] = r]
                     /\ r = [pc |-> IF Cached THEN "creating" ELSE "asking_create", ctx |-> 0, info |-> groups]
        BY <2>2 DEF InitializeStarts
      <3>3. r = [pc |-> r.pc, ctx |-> r.ctx, info |-> r.info] /\ r.info \in 1..ninfo
            /\ r.pc \in {"creating", "asking_create"}
        BY <3>1, <3>2
      <3>4. nctx' >= nctx /\ ninfo' >= ninfo
        BY <2>1 DEF Objects
      <3>5. QED
        BY <2>1, <3>2, <3>3, <3>4, CallSet
    <2>3. CASE InitializePermitted(c)
      <3>1. call' = [call EXCEPT ![c].pc = "creating"] /\ call[c].info \in 1..ninfo
        BY <2>3 DEF InitializePermitted, Calls
      <3>2. nctx' >= nctx /\ ninfo' >= ninfo
        BY <2>1 DEF Objects
      <3>3. QED
        BY <2>1, <3>1, <3>2, CallMoved
    <2>4. QED
      BY <1>3, <2>2, <2>3
  <1>4. ASSUME NEW c \in GrCalls, ContextCreated(c) PROVE GrTypes'
    <2>1. call' = [call EXCEPT ![c].pc = "ended"] /\ nctx' = nctx + 1 /\ UNCHANGED ninfo
      BY <1>4 DEF ContextCreated
    <2>4. ninfo > 0
      BY <1>4 DEF ContextCreated, Calls, Objects
    <2>5. PICK r : /\ contexts' = [contexts EXCEPT ![nctx + 1] = r]
                   /\ r = [keyVersion |-> 1, encryptionKey |-> nkey + 1, historicalKeys |-> {}]
      BY <1>4 DEF ContextCreated
    <2>6. DOMAIN contexts' = 1..MaxContexts
          /\ \A o \in 1..MaxContexts : contexts'[o] = IF o = nctx + 1 THEN r ELSE contexts[o]
      BY <2>5 DEF Objects
    <2>7. \A o \in 1..MaxContexts :
            /\ contexts'[o] = [keyVersion |-> contexts'[o].keyVersion, encryptionKey |-> contexts'[o].encryptionKey,
                               historicalKeys |-> contexts'[o].historicalKeys]
            /\ contexts'[o].keyVersion \in Nat
      BY <2>5, <2>6 DEF Objects
    <2>8. Objects'
      BY <1>4, <2>4, <2>6, <2>7, GrAssumption DEF ContextCreated, Objects
    <2>9. nctx' >= nctx /\ ninfo' >= ninfo
      BY <2>1 DEF Objects
    <2>10. QED
      BY <2>1, <2>8, <2>9, CallMoved
  <1>5. ASSUME NEW c \in GrCalls, NEW o \in 1..nctx, ArchiveOldKey(c, o),
               UNCHANGED <<groups, keyVersionOf, groupMembers, encryptionContexts, nctx, ninfo, nkey, keyAt>>
        PROVE  GrTypes'
    <2>1. PICK hs : contexts' = [contexts EXCEPT ![o] =
                      [keyVersion |-> contexts[o].keyVersion, encryptionKey |-> contexts[o].encryptionKey,
                       historicalKeys |-> hs]]
      BY <1>5, Archives
    <2>2. o \in 1..MaxContexts
      BY GrAssumption DEF Objects
    <2>4. Objects'
      BY <1>5, <2>1, <2>2 DEF Objects
    <2>5. PICK r : call' = [call EXCEPT ![c] = r] /\ r = [pc |-> "generating", ctx |-> o, info |-> 0]
      BY <1>5 DEF ArchiveOldKey
    <2>6. r = [pc |-> r.pc, ctx |-> r.ctx, info |-> r.info] /\ r.ctx \in 1..nctx /\ r.pc = "generating"
      BY <2>5
    <2>7. nctx' >= nctx /\ ninfo' >= ninfo
      BY <1>5 DEF Objects
    <2>8. QED
      BY <2>4, <2>5, <2>6, <2>7, CallSet
  <1>6. ASSUME NEW c \in GrCalls, RotateStarts(c) PROVE GrTypes'
    <2>1. encryptionContexts \in 1..nctx
      BY <1>6 DEF RotateStarts, Objects
    <2>2. CASE Cached
      BY <1>5, <1>6, <2>1, <2>2 DEF RotateStarts
    <2>3. CASE ~Cached
      <3>1. Objects' /\ UNCHANGED <<nctx, ninfo>>
        BY <1>6, <2>3 DEF RotateStarts, Objects
      <3>2. PICK r : /\ call' = [call EXCEPT ![c] = r]
                     /\ r = [pc |-> "asking_rotate", ctx |-> encryptionContexts, info |-> 0]
        BY <1>6, <2>3 DEF RotateStarts
      <3>3. r = [pc |-> r.pc, ctx |-> r.ctx, info |-> r.info] /\ r.ctx \in 1..nctx /\ r.pc = "asking_rotate"
        BY <2>1, <3>2
      <3>4. nctx' >= nctx /\ ninfo' >= ninfo
        BY <3>1 DEF Objects
      <3>5. QED
        BY <3>1, <3>2, <3>3, <3>4, CallSet
    <2>4. QED
      BY <2>2, <2>3
  <1>7. ASSUME NEW c \in GrCalls, RotatePermitted(c) PROVE GrTypes'
    BY <1>5, <1>7 DEF RotatePermitted, Calls
  <1>8. ASSUME NEW c \in GrCalls, RotateGenerated(c) PROVE GrTypes'
    BY <1>8 DEF RotateGenerated, NextVersion, Store, Objects, Calls
  <1>9. ASSUME NEW c \in GrCalls, RotateReencrypted(c) \/ RotateSaved(c) PROVE GrTypes'
    <2>1. call[c].ctx \in 1..nctx /\ UNCHANGED <<nctx, ninfo>>
      BY <1>9 DEF RotateReencrypted, RotateSaved, Calls
    <2>2. PICK p \in {"ended", "saving"} : call' = [call EXCEPT ![c].pc = p]
      BY <1>9 DEF RotateReencrypted, RotateSaved, Store
    <2>3. ASSUME RotateReencrypted(c) PROVE Objects'
      BY <2>1, <2>3 DEF RotateReencrypted, Store, Objects
    <2>4. ASSUME RotateSaved(c) PROVE Objects'
      <3>1. DOMAIN keyVersionOf' = 1..MaxInfos
        BY <2>4 DEF RotateSaved, Objects
      <3>2. QED
        BY <2>4, <3>1 DEF RotateSaved, Objects
    <2>5. Objects'
      BY <1>9, <2>3, <2>4
    <2>6. nctx' >= nctx /\ ninfo' >= ninfo
      BY <2>1 DEF Objects
    <2>7. QED
      BY <2>1, <2>2, <2>5, <2>6, CallMoved
  <1>10. ASSUME NEW c \in GrCalls, CallFails(c) PROVE GrTypes'
    <2>1. Objects' /\ UNCHANGED <<nctx, ninfo>> /\ call' = [call EXCEPT ![c].pc = "ended"]
      BY <1>10 DEF CallFails, Objects
    <2>2. nctx' >= nctx /\ ninfo' >= ninfo
      BY <2>1 DEF Objects
    <2>3. QED
      BY <2>1, <2>2, CallMoved
  <1>11. QED
    BY <1>1, <1>2, <1>3, <1>4, <1>6, <1>7, <1>8, <1>9, <1>10 DEF GrNext

(* Only the second step of a rotation makes a key, for a version that had none. *)
LEMMA KeysRecordedStep == GrTypes /\ KeysRecorded /\ [GrNext]_grvars => KeysRecorded'
  <1> SUFFICES ASSUME GrTypes, KeysRecorded, [GrNext]_grvars PROVE KeysRecorded'
    OBVIOUS
  <1>1. ASSUME UNCHANGED <<contexts, nctx, keyAt>> PROVE KeysRecorded'
    BY <1>1 DEF KeysRecorded
  <1>2. CASE UNCHANGED grvars
    BY <1>1, <1>2 DEF grvars
  <1>3. CASE InfoResponse \/ DestroyManager \/ \E role \in {"permitted", "refused"} : MembersResponse(role)
    BY <1>1, <1>3 DEF InfoResponse, DestroyManager, MembersResponse
  <1>4. ASSUME NEW c \in GrCalls,
               InitializeStarts(c) \/ InitializePermitted(c) \/ RotateReencrypted(c) \/ RotateSaved(c) \/ CallFails(c)
        PROVE  KeysRecorded'
    BY <1>1, <1>4 DEF InitializeStarts, InitializePermitted, RotateReencrypted, RotateSaved, CallFails
  <1>5. ASSUME NEW c \in GrCalls, ContextCreated(c) PROVE KeysRecorded'
    <2>1. PICK n \in 1..MaxContexts : n = nctx + 1
      BY <1>5, GrAssumption DEF ContextCreated, GrTypes, Objects
    <2>2. /\ contexts' = [contexts EXCEPT ![n] =
                            [keyVersion |-> 1, encryptionKey |-> nkey + 1, historicalKeys |-> {}]]
          /\ keyAt' = keyAt \cup {<<n, 1, nkey + 1>>} /\ nctx' = n
      BY <1>5, <2>1 DEF ContextCreated
    <2>3. \A o \in 1..nctx : o # n /\ o \in 1..MaxContexts /\ contexts'[o] = contexts[o]
      BY <2>1, <2>2, GrAssumption DEF GrTypes, Objects
    <2>4. contexts'[n] = [keyVersion |-> 1, encryptionKey |-> nkey + 1, historicalKeys |-> {}]
      BY <2>2 DEF GrTypes, Objects
    <2>5. \A o \in 1..nctx' : o \in 1..nctx \/ o = n
      BY <2>1, <2>2 DEF GrTypes, Objects
    <2>6. \A o \in 1..nctx : o \in 1..nctx'
      BY <2>1, <2>2 DEF GrTypes, Objects
    <2>7. n \in 1..nctx' /\ 1 \in 1..1
      BY <2>1, <2>2
    <2>8. \A e \in keyAt' : e = <<e[1], e[2], e[3]>> /\ e[1] \in 1..nctx' /\ e[2] \in 1..contexts'[e[1]].keyVersion
      BY <2>2, <2>3, <2>4, <2>6, <2>7 DEF KeysRecorded
    <2>9. \A e, f \in keyAt' : e[1] = f[1] /\ e[2] = f[2] => e = f
      BY <2>2, <2>3 DEF KeysRecorded
    <2>10. \A o \in 1..nctx' : <<o, contexts'[o].keyVersion, contexts'[o].encryptionKey>> \in keyAt'
      BY <2>2, <2>3, <2>4, <2>5 DEF KeysRecorded
    <2>11. ASSUME NEW o \in 1..nctx', NEW h \in contexts'[o].historicalKeys
           PROVE  h = <<h[1], h[2]>> /\ <<o, h[1], h[2]>> \in keyAt'
      <3>1. o \in 1..nctx /\ h \in contexts[o].historicalKeys
        BY <2>3, <2>4, <2>5
      <3>2. QED
        BY <2>2, <3>1 DEF KeysRecorded
    <2>12. QED
      BY <2>8, <2>9, <2>10, <2>11 DEF KeysRecorded
  <1>6. ASSUME NEW c \in GrCalls, NEW o \in 1..nctx, ArchiveOldKey(c, o),
               UNCHANGED <<groups, keyVersionOf, groupMembers, encryptionContexts, nctx, ninfo, nkey, keyAt>>
        PROVE  KeysRecorded'
    BY <1>6, GrAssumption DEF ArchiveOldKey, Archive, KeysRecorded, GrTypes, Objects
  <1>7. ASSUME NEW c \in GrCalls, RotateStarts(c) PROVE KeysRecorded'
    <2>1. encryptionContexts \in 1..nctx
      BY <1>7 DEF RotateStarts, GrTypes, Objects
    <2>2. QED
      BY <1>1, <1>6, <1>7, <2>1 DEF RotateStarts
  <1>8. ASSUME NEW c \in GrCalls, RotatePermitted(c) PROVE KeysRecorded'
    BY <1>6, <1>8 DEF RotatePermitted, GrTypes, Calls
  <1>9. ASSUME NEW c \in GrCalls, RotateGenerated(c) PROVE KeysRecorded'
    <2>1. PICK o \in 1..nctx : o = call[c].ctx
      BY <1>9 DEF RotateGenerated, GrTypes, Calls
    <2>2. PICK v \in Nat : v = contexts[o].keyVersion + 1
      BY GrAssumption DEF GrTypes, Objects
    <2>3. contexts' = [contexts EXCEPT ![o] = [keyVersion |-> v, encryptionKey |-> nkey + 1,
                                               historicalKeys |-> contexts[o].historicalKeys]]
      BY <1>9, <2>1, <2>2, Generates DEF GrTypes
    <2>4. keyAt' = keyAt \cup {<<o, v, nkey + 1>>} /\ UNCHANGED nctx
      BY <1>9, <2>1, <2>2 DEF RotateGenerated, NextVersion
    <2>5. \A q \in 1..nctx : q \in DOMAIN contexts
      BY GrAssumption DEF GrTypes, Objects
    <2>6. \A q \in 1..nctx : q # o => contexts'[q] = contexts[q]
      BY <2>3, <2>5
    <2>7. contexts'[o] = [keyVersion |-> v, encryptionKey |-> nkey + 1, historicalKeys |-> contexts[o].historicalKeys]
      BY <2>3, <2>5
    <2>8. (\A w \in 1..contexts[o].keyVersion : w \in 1..v /\ w # v) /\ v \in 1..v
      BY <2>2, GrAssumption DEF GrTypes, Objects
    <2>9. \A e \in keyAt' : e = <<e[1], e[2], e[3]>> /\ e[1] \in 1..nctx /\ e[2] \in 1..contexts'[e[1]].keyVersion
      BY <2>4, <2>6, <2>7, <2>8 DEF KeysRecorded
    <2>10. \A e, f \in keyAt' : e[1] = f[1] /\ e[2] = f[2] => e = f
      BY <2>4, <2>8 DEF KeysRecorded
    <2>11. \A q \in 1..nctx : <<q, contexts'[q].keyVersion, contexts'[q].encryptionKey>> \in keyAt'
      BY <2>4, <2>6, <2>7 DEF KeysRecorded
    <2>12. ASSUME NEW q \in 1..nctx, NEW h \in contexts'[q].historicalKeys
           PROVE  h = <<h[1], h[2]>> /\ <<q, h[1], h[2]>> \in keyAt'
      <3>1. h \in contexts[q].historicalKeys
        BY <2>6, <2>7
      <3>2. QED
        BY <2>4, <3>1 DEF KeysRecorded
    <2>13. QED
      BY <2>4, <2>9, <2>10, <2>11, <2>12 DEF KeysRecorded
  <1>10. QED
    BY <1>2, <1>3, <1>4, <1>5, <1>7, <1>8, <1>9 DEF GrNext

(* A rotation that nobody overlaps archives a key before it replaces it. *)
LEMMA KeysArchivedStep == GrTypes /\ KeysArchived /\ [GrNext]_grvars => KeysArchived'
  <1> SUFFICES ASSUME GrTypes, KeysArchived, [GrNext]_grvars PROVE KeysArchived'
    OBVIOUS
  <1> USE DEF Rotating
  <1>1. ASSUME UNCHANGED <<contexts, nctx, overlapped, call>> PROVE KeysArchived'
    BY <1>1 DEF KeysArchived
  <1>2. CASE UNCHANGED grvars
    BY <1>1, <1>2 DEF grvars
  <1>3. CASE InfoResponse \/ DestroyManager \/ \E role \in {"permitted", "refused"} : MembersResponse(role)
    BY <1>1, <1>3 DEF InfoResponse, DestroyManager, MembersResponse
  <1>4. ASSUME NEW c \in GrCalls,
               InitializeStarts(c) \/ InitializePermitted(c) \/ RotateReencrypted(c) \/ RotateSaved(c) \/ CallFails(c)
        PROVE  KeysArchived'
    <2>1. UNCHANGED <<contexts, nctx, overlapped>>
      BY <1>4 DEF InitializeStarts, InitializePermitted, RotateReencrypted, RotateSaved, CallFails
    <2>2. \A d \in GrCalls : d # c => call'[d] = call[d]
      BY <1>4 DEF InitializeStarts, InitializePermitted, RotateReencrypted, RotateSaved, CallFails, Store,
         GrTypes, Calls
    <2>3. call'[c].pc # "generating"
      BY <1>4 DEF InitializeStarts, InitializePermitted, RotateReencrypted, RotateSaved, CallFails, Store,
         GrTypes, Calls
    <2>4. call'[c].pc = "saving" => call[c].pc = "reencrypting" /\ call'[c].ctx = call[c].ctx
      BY <1>4 DEF InitializeStarts, InitializePermitted, RotateReencrypted, RotateSaved, CallFails, Store,
         GrTypes, Calls
    <2>5. call'[c].pc # "reencrypting"
      BY <1>4 DEF InitializeStarts, InitializePermitted, RotateReencrypted, RotateSaved, CallFails, Store,
         GrTypes, Calls
    <2>6. \A o : Rotating(o)' \subseteq Rotating(o)
      BY <2>2, <2>3, <2>4, <2>5
    <2>7. QED
      BY <2>1, <2>2, <2>3, <2>6 DEF KeysArchived
  <1>5. ASSUME NEW c \in GrCalls, ContextCreated(c) PROVE KeysArchived'
    BY <1>5, GrAssumption DEF ContextCreated, KeysArchived, GrTypes, Objects, Calls
  <1>6. ASSUME NEW c \in GrCalls, NEW o \in 1..nctx, ArchiveOldKey(c, o), call[c].pc \in {"none", "asking_rotate"},
               UNCHANGED <<groups, keyVersionOf, groupMembers, encryptionContexts, nctx, ninfo, nkey, keyAt>>
        PROVE  KeysArchived'
    <2>1. PICK hs :
            /\ contexts' = [contexts EXCEPT ![o] =
                              [keyVersion |-> contexts[o].keyVersion, encryptionKey |-> contexts[o].encryptionKey,
                               historicalKeys |-> hs]]
            /\ hs = {h \in contexts[o].historicalKeys : h[1] # contexts[o].keyVersion}
                      \cup {<<contexts[o].keyVersion, contexts[o].encryptionKey>>}
      BY <1>6, Archives DEF GrTypes
    <2>2. /\ call' = [call EXCEPT ![c] = [pc |-> "generating", ctx |-> o, info |-> 0]]
          /\ overlapped' = IF Rotating(o) = {} THEN overlapped ELSE overlapped \cup {o}
      BY <1>6 DEF ArchiveOldKey
    <2>3. \A q \in 1..nctx : q \in DOMAIN contexts
      BY GrAssumption DEF GrTypes, Objects
    <2>4. \A d \in GrCalls : d # c => call'[d] = call[d]
      BY <2>2 DEF GrTypes, Calls
    <2>5. call'[c] = [pc |-> "generating", ctx |-> o, info |-> 0]
      BY <2>2 DEF GrTypes, Calls
    <2>6. SUFFICES ASSUME NEW q \in (1..nctx) \ overlapped' PROVE
            /\ \A x, y \in Rotating(q)' : x = y
            /\ \A v \in 1..(contexts'[q].keyVersion - 1) : \E h \in contexts'[q].historicalKeys : h[1] = v
            /\ \A x \in GrCalls : call'[x].ctx = q /\ call'[x].pc = "generating"
                 => \E h \in contexts'[q].historicalKeys : h[1] = contexts'[q].keyVersion
      BY <1>6 DEF KeysArchived
    <2>7. q \notin overlapped
      BY <2>2
    <2>8. CASE q # o
      <3>1. contexts'[q] = contexts[q]
        BY <2>1, <2>3, <2>8
      <3>2. Rotating(q)' \subseteq Rotating(q)
        BY <2>4, <2>5, <2>8
      <3>3. QED
        BY <2>4, <2>5, <2>7, <2>8, <3>1, <3>2 DEF KeysArchived
    <2>9. CASE q = o
      <3>1. Rotating(o) = {}
        BY <2>2, <2>9
      <3>2. Rotating(q)' \subseteq {c}
        BY <2>4, <2>9, <3>1
      <3>3. contexts'[q].keyVersion = contexts[q].keyVersion /\ contexts'[q].historicalKeys = hs
        BY <2>1, <2>3, <2>9
      <3>4. <<contexts[q].keyVersion, contexts[q].encryptionKey>> \in hs
        BY <2>1, <2>9
      <3>5. contexts[q].keyVersion \in Nat
        BY <2>3 DEF GrTypes, Objects
      <3>6. ASSUME NEW v \in 1..(contexts[q].keyVersion - 1) PROVE \E h \in hs : h[1] = v
        <4>1. PICK h \in contexts[q].historicalKeys : h[1] = v
          BY <2>7 DEF KeysArchived
        <4>2. v # contexts[q].keyVersion
          BY <3>5
        <4>3. QED
          BY <2>1, <2>9, <4>1, <4>2
      <3>7. \E h \in hs : h[1] = contexts[q].keyVersion
        BY <3>4
      <3>8. QED
        BY <3>2, <3>3, <3>6, <3>7
    <2>10. QED
      BY <2>8, <2>9
  <1>7. ASSUME NEW c \in GrCalls, RotateStarts(c) PROVE KeysArchived'
    <2>1. encryptionContexts \in 1..nctx
      BY <1>7 DEF RotateStarts, GrTypes, Objects
    <2>2. CASE Cached
      BY <1>6, <1>7, <2>1, <2>2 DEF RotateStarts
    <2>3. CASE ~Cached
      BY <1>7, <2>1, <2>3 DEF RotateStarts, KeysArchived, GrTypes, Objects, Calls
    <2>4. QED
      BY <2>2, <2>3
  <1>8. ASSUME NEW c \in GrCalls, RotatePermitted(c) PROVE KeysArchived'
    BY <1>6, <1>8 DEF RotatePermitted, GrTypes, Calls
  <1>9. ASSUME NEW c \in GrCalls, RotateGenerated(c) PROVE KeysArchived'
    <2>1. PICK o \in 1..nctx : o = call[c].ctx
      BY <1>9 DEF RotateGenerated, GrTypes, Calls
    <2>2. contexts' = [contexts EXCEPT ![o] = [keyVersion |-> contexts[o].keyVersion + 1, encryptionKey |-> nkey + 1,
                                               historicalKeys |-> contexts[o].historicalKeys]]
      BY <1>9, <2>1, Generates DEF GrTypes
    <2>3. \A q \in 1..nctx : q \in DOMAIN contexts
      BY GrAssumption DEF GrTypes, Objects
    <2>4. UNCHANGED <<nctx, overlapped>> /\ call[c].pc = "generating"
          /\ \E p \in {"reencrypting", "saving"} : call' = [call EXCEPT ![c].pc = p]
      BY <1>9 DEF RotateGenerated, Store
    <2>5. PICK p \in {"reencrypting", "saving"} : call' = [call EXCEPT ![c].pc = p]
      BY <2>4
    <2>6. PICK r : call' = [call EXCEPT ![c] = r] /\ r = [pc |-> p, ctx |-> call[c].ctx, info |-> call[c].info]
      BY <2>5, CallMoves DEF GrTypes
    <2>7. (\A d \in GrCalls : d # c => call'[d] = call[d]) /\ call'[c] = r
      BY <2>6 DEF GrTypes, Calls
    <2>8. r.pc = p /\ r.ctx = o
      BY <2>1, <2>6
    <2>9. SUFFICES ASSUME NEW q \in (1..nctx) \ overlapped PROVE
            /\ \A x, y \in Rotating(q)' : x = y
            /\ \A v \in 1..(contexts'[q].keyVersion - 1) : \E h \in contexts'[q].historicalKeys : h[1] = v
            /\ \A x \in GrCalls : call'[x].ctx = q /\ call'[x].pc = "generating"
                 => \E h \in contexts'[q].historicalKeys : h[1] = contexts'[q].keyVersion
      BY <2>4 DEF KeysArchived
    <2>10. Rotating(q)' \subseteq Rotating(q)
      BY <2>1, <2>4, <2>7, <2>8
    <2>11. CASE q # o
      <3>1. contexts'[q] = contexts[q]
        BY <2>2, <2>3, <2>11
      <3>2. QED
        BY <2>7, <2>8, <2>10, <2>11, <3>1 DEF KeysArchived
    <2>12. CASE q = o
      <3>1. contexts'[q].keyVersion = contexts[q].keyVersion + 1
            /\ contexts'[q].historicalKeys = contexts[q].historicalKeys
        BY <2>2, <2>3, <2>12
      <3>2. contexts[q].keyVersion \in Nat
        BY <2>3 DEF GrTypes, Objects
      <3>3. \E h \in contexts[q].historicalKeys : h[1] = contexts[q].keyVersion
        BY <2>1, <2>4, <2>12 DEF KeysArchived
      <3>4. \A v \in 1..contexts[q].keyVersion : v \in 1..(contexts[q].keyVersion - 1) \/ v = contexts[q].keyVersion
        BY <3>2
      <3>5. \A v \in 1..contexts[q].keyVersion : \E h \in contexts[q].historicalKeys : h[1] = v
        BY <3>3, <3>4 DEF KeysArchived
      <3>6. \A x \in GrCalls : ~(call'[x].ctx = q /\ call'[x].pc = "generating")
        <4>1. \A x \in Rotating(q) : x = c
          BY <2>1, <2>4, <2>12 DEF KeysArchived
        <4>2. QED
          BY <2>7, <2>8, <4>1
      <3>7. contexts'[q].keyVersion - 1 = contexts[q].keyVersion
        BY <3>1, <3>2
      <3>8. QED
        BY <2>10, <3>1, <3>5, <3>6, <3>7 DEF KeysArchived
    <2>13. QED
      BY <2>11, <2>12
  <1>10. QED
    BY <1>2, <1>3, <1>4, <1>5, <1>7, <1>8, <1>9 DEF GrNext

(* Whoever makes a new version announces it before it ends. *)
LEMMA KeyAnnouncedStep == GrTypes /\ KeyAnnounced /\ [GrNext]_grvars => KeyAnnounced'
  <1> SUFFICES ASSUME GrTypes, KeyAnnounced, [GrNext]_grvars PROVE KeyAnnounced'
    OBVIOUS
  <1>2. CASE UNCHANGED grvars
    BY <1>2 DEF grvars, KeyAnnounced
  <1>3. CASE InfoResponse \/ DestroyManager \/ \E role \in {"permitted", "refused"} : MembersResponse(role)
    <2>1. CASE InfoResponse
      BY <2>1 DEF InfoResponse, KeyAnnounced, GrTypes, Objects
    <2>2. CASE DestroyManager
      BY <2>2 DEF DestroyManager, KeyAnnounced
    <2>3. CASE \E role \in {"permitted", "refused"} : MembersResponse(role)
      BY <2>3 DEF MembersResponse, KeyAnnounced
    <2>4. QED
      BY <1>3, <2>1, <2>2, <2>3
  <1>4. ASSUME NEW c \in GrCalls,
               InitializeStarts(c) \/ InitializePermitted(c) \/ RotateReencrypted(c) \/ CallFails(c)
        PROVE  KeyAnnounced'
    BY <1>4 DEF InitializeStarts, InitializePermitted, RotateReencrypted, CallFails, Store, KeyAnnounced,
       GrTypes, Objects, Calls
  <1>5. ASSUME NEW c \in GrCalls, ContextCreated(c) PROVE KeyAnnounced'
    BY <1>5, GrAssumption DEF ContextCreated, KeyAnnounced, GrTypes, Objects, Calls
  <1>6. ASSUME NEW c \in GrCalls, NEW o \in 1..nctx, ArchiveOldKey(c, o), call[c].pc \in {"none", "asking_rotate"},
               UNCHANGED <<groups, keyVersionOf, groupMembers, encryptionContexts, nctx, ninfo, nkey, keyAt>>
        PROVE  KeyAnnounced'
    BY <1>6, GrAssumption DEF ArchiveOldKey, Archive, KeyAnnounced, GrTypes, Objects, Calls
  <1>7. ASSUME NEW c \in GrCalls, RotateStarts(c) PROVE KeyAnnounced'
    <2>1. encryptionContexts \in 1..nctx
      BY <1>7 DEF RotateStarts, GrTypes, Objects
    <2>2. CASE Cached
      BY <1>6, <1>7, <2>1, <2>2 DEF RotateStarts
    <2>3. CASE ~Cached
      BY <1>7, <2>1, <2>3 DEF RotateStarts, KeyAnnounced, GrTypes, Objects, Calls
    <2>4. QED
      BY <2>2, <2>3
  <1>8. ASSUME NEW c \in GrCalls, RotatePermitted(c) PROVE KeyAnnounced'
    BY <1>6, <1>8 DEF RotatePermitted, GrTypes, Calls
  <1>9. ASSUME NEW c \in GrCalls, RotateGenerated(c) PROVE KeyAnnounced'
    BY <1>9 DEF RotateGenerated, Store, KeyAnnounced, GrTypes, Objects, Calls
  <1>10. ASSUME NEW c \in GrCalls, RotateSaved(c) PROVE KeyAnnounced'
    BY <1>10, GrAssumption DEF RotateSaved, KeyAnnounced, GrTypes, Objects, Calls
  <1>11. QED
    BY <1>2, <1>3, <1>4, <1>5, <1>7, <1>8, <1>9, <1>10 DEF GrNext

(* A version of a group key never stands for two keys, an older version can
   still be decrypted unless rotations overlapped, and the announced version
   is the current one when no rotation runs (group-manager.ts, the
   creation of groups and the rotation of their keys), for any number of calls. *)
THEOREM GroupKeysAgree == GrSpec => []KeysAgree
  <1>1. GrInit => GrInv
    BY GrAssumption DEF GrInit, GrInv, GrTypes, Objects, Calls, KeysRecorded, KeysArchived, KeyAnnounced,
       NoContext, NoCall
  <1>2. GrInv => KeysAgree
    <2> SUFFICES ASSUME GrInv PROVE KeysAgree
      OBVIOUS
    <2>1. ASSUME NEW o \in 1..nctx, NEW h \in contexts[o].historicalKeys
          PROVE  {e \in keyAt : e[1] = o /\ e[2] = h[1]} = {<<o, h[1], h[2]>>}
      <3>1. <<o, h[1], h[2]>> \in keyAt
        BY DEF GrInv, KeysRecorded
      <3>2. \A e \in keyAt : e[1] = o /\ e[2] = h[1] => e = <<o, h[1], h[2]>>
        BY <3>1 DEF GrInv, KeysRecorded
      <3>3. QED
        BY <3>1, <3>2
    <2>2. ASSUME NEW o \in 1..nctx, o \notin overlapped, NEW v \in 1..(contexts[o].keyVersion - 1)
          PROVE  \E h \in contexts[o].historicalKeys : h[1] = v
      BY <2>2 DEF GrInv, KeysArchived
    <2>3. ASSUME groups # 0, ninfo = 1, nctx = 1, \A c \in GrCalls : call[c].pc \in {"none", "ended"}
          PROVE  keyVersionOf[groups] = contexts[1].keyVersion
      BY <2>3 DEF GrInv, KeyAnnounced, GrTypes, Objects
    <2>4. QED
      BY <2>1, <2>2, <2>3 DEF KeysAgree
  <1>3. GrInv /\ [GrNext]_grvars => GrInv'
    BY GrTypesStep, KeysRecordedStep, KeysArchivedStep, KeyAnnouncedStep DEF GrInv
  <1>4. QED
    BY <1>1, <1>2, <1>3, PTL DEF GrSpec

-----------------------------------------------------------------------------
(* The C client.  A receive thread that has not given up its connection yet,
   and a reconnect thread that may still make one. *)
LiveR(k) == rpc[k] \in {"test", "recv", "failed", "reconnecting"}
LiveC(k) == cpc[k] \in {"loop", "connect"}

(* client_disconnect has returned, has waited for a receive thread, has told
   the threads to stop. *)
Returned == opc = "idle" /\ cstate = "DISCONNECTED" /\ ccalls = 1
AfterReceive == opc \in {"join_heartbeat", "joining_heartbeat", "test_reconnect", "join_reconnect",
                         "joining_reconnect", "cleanup"} \/ Returned
Stopped == opc \in {"join_receive", "joining_receive"} \/ AfterReceive

(* No thread exists before the first connection does. *)
NothingYet ==
    /\ ccalls = 0 => opc = "idle" /\ cstate = "DISCONNECTED"
    /\ ccalls = 0 \/ opc = "connect" => \A k \in Conns : rpc[k] = "none" /\ cpc[k] = "none"

(* One thread at most holds the connection or is about to make one: a receive
   thread hands over to a reconnect thread, and that to a new receive thread. *)
OneToken ==
    /\ \A j, k \in Conns : LiveR(j) /\ LiveR(k) => j = k
    /\ \A j, k \in Conns : LiveC(j) => ~LiveR(k)

(* The handle is that of the reconnect thread that runs: nobody overwrites it. *)
HandleKept == \A k \in Conns : cpc[k] \notin Over => reconnect_thread = k

(* Until a receive thread is waited for, the handle is that of the one that runs. *)
Listed ==
    opc \in {"threads", "idle", "stopping", "join_receive"} /\ ~Returned =>
        \A k \in Conns : LiveR(k) => k = receive_thread

(* One that comes about while another is waited for has yet to look at
   threads_running, *)
LateReceiver == opc = "joining_receive" => \A k \in Conns : LiveR(k) /\ k # target => rpc[k] = "test"

(* and it does not go on to receive when it does. *)
ReceiversOver == AfterReceive => \A k \in Conns : rpc[k] \notin {"recv", "failed", "reconnecting"}

(* No reconnect thread runs but the one that is waited for, and then none. *)
LastReconnect ==
    opc = "joining_reconnect" => \A k \in Conns : cpc[k] \notin Over => k = target
ReconnectsOver == opc = "cleanup" \/ Returned => \A k \in Conns : cpc[k] \in Over

(* All of it while client_disconnect is the first. *)
Stopping ==
    /\ NothingYet /\ OneToken /\ HandleKept /\ Listed /\ LateReceiver /\ ReceiversOver
    /\ LastReconnect /\ ReconnectsOver
    /\ Stopped => threads_running = FALSE

(* The inductive invariant.  It is about the first connection of a client: a
   thread that was left behind may see threads_running set by the second. *)
ClInv ==
    /\ ccalls \in Nat /\ nconn \in Nat /\ DOMAIN rpc = Conns /\ DOMAIN cpc = Conns
    /\ Ok /\ ccalls <= 1 => Stopping

(* Every step of every thread keeps it. *)
LEMMA ClStep ==
    ASSUME ClInv, [ClNext]_clvars
    PROVE  ClInv'
<1> USE DEF ClInv, Stopping, NothingYet, OneToken, HandleKept, Listed, LateReceiver, ReceiversOver,
            LastReconnect, ReconnectsOver, LiveR, LiveC, Returned, AfterReceive, Stopped, Over, Conns,
            conn, threads, handles, counters, Ok
<1>0. CASE UNCHANGED clvars  BY <1>0 DEF clvars
<1>1. CASE Connect  BY <1>1 DEF Connect
<1>2. CASE ConnectFails  BY <1>2 DEF ConnectFails, NotEstablished
<1>3. CASE ConnectThreads  BY <1>3 DEF ConnectThreads, Established
<1>4. CASE ConnectDone  BY <1>4 DEF ConnectDone
<1>5. CASE Login  BY <1>5 DEF Login
<1>6. CASE Disconnect  BY <1>6 DEF Disconnect
<1>7. CASE StopThreads  BY <1>7 DEF StopThreads
<1>8. CASE JoinReceive  BY <1>8 DEF JoinReceive
<1>9. CASE ReceiveJoined  BY <1>9 DEF ReceiveJoined
<1>10. CASE JoinHeartbeat  BY <1>10 DEF JoinHeartbeat
<1>11. CASE HeartbeatJoined  BY <1>11 DEF HeartbeatJoined
<1>12. CASE TestReconnect  BY <1>12 DEF TestReconnect
<1>13. CASE JoinReconnect  BY <1>13 DEF JoinReconnect
<1>14. CASE ReconnectJoined  BY <1>14 DEF ReconnectJoined
<1>15. CASE Cleanup  BY <1>15 DEF Cleanup
<1>16. ASSUME NEW k \in Conns, ReceiveTest(k) PROVE ClInv'  BY <1>16 DEF ReceiveTest, Serves
<1>17. ASSUME NEW k \in Conns, ReceiveData(k) PROVE ClInv'  BY <1>17 DEF ReceiveData
<1>18. ASSUME NEW k \in Conns, ReceiveFails(k) PROVE ClInv'  BY <1>18 DEF ReceiveFails
<1>19. ASSUME NEW k \in Conns, FailureSeen(k) PROVE ClInv'  BY <1>19 DEF FailureSeen
<1>20. ASSUME NEW k \in Conns, StartReconnect(k) PROVE ClInv'
  <2> USE <1>20 DEF StartReconnect
  <2>1. rpc[k] = "reconnecting" /\ rpc' = [rpc EXCEPT ![k] = "inactive"] /\ cstate' \in {"RECONNECTING", "ERROR"}
    OBVIOUS
  <2>2. CASE reconnect_attempts > 0 /\ reconnect_thread = 0
    <3> SUFFICES ASSUME ccalls <= 1 PROVE Stopping'
      OBVIOUS
    <3>1. cpc' = [cpc EXCEPT ![k] = "loop"] /\ reconnect_thread' = k /\ \A j \in Conns : cpc[j] \in Over
      BY <2>2
    <3>2. \A j \in Conns : j # k => ~LiveR(j) /\ rpc'[j] = rpc[j] /\ cpc'[j] = cpc[j]
      BY <2>1, <3>1
    <3>3. NothingYet /\ ccalls = 1 /\ ~AfterReceive /\ opc # "connect"
      BY <2>1
    <3>4. rpc'[k] = "inactive" /\ cpc'[k] = "loop"
      BY <2>1, <3>1
    <3> QED  BY <3>1, <3>2, <3>3, <3>4, <2>1
  <2>3. CASE UNCHANGED <<cpc, reconnect_thread>>
    BY <2>1, <2>3
  <2> QED  BY <2>2, <2>3
<1>21. ASSUME NEW k \in Conns, ReceiveEnds(k) PROVE ClInv'  BY <1>21 DEF ReceiveEnds
<1>22. ASSUME NEW k \in Conns, Beat(k) PROVE ClInv'  BY <1>22 DEF Beat, Serves
<1>23. ASSUME NEW k \in Conns, ReconnectTest(k) PROVE ClInv'  BY <1>23 DEF ReconnectTest
<1>24. ASSUME NEW k \in Conns, ReconnectFails(k) PROVE ClInv'  BY <1>24 DEF ReconnectFails, NotEstablished
<1>25. ASSUME NEW k \in Conns, Reconnected(k) PROVE ClInv'  BY <1>25 DEF Reconnected, Established
<1>26. ASSUME NEW k \in Conns, ReconnectState(k) PROVE ClInv'  BY <1>26 DEF ReconnectState
<1>27. ASSUME NEW k \in Conns, ReconnectEnds(k) PROVE ClInv'  BY <1>27 DEF ReconnectEnds
<1>28. ASSUME NEW k \in Conns, PeerCloses(k) PROVE ClInv'  BY <1>28 DEF PeerCloses
<1> QED
  BY <1>0, <1>1, <1>2, <1>3, <1>4, <1>5, <1>6, <1>7, <1>8, <1>9, <1>10, <1>11, <1>12, <1>13, <1>14, <1>15,
     <1>16, <1>17, <1>18, <1>19, <1>20, <1>21, <1>22, <1>23, <1>24, <1>25, <1>26, <1>27, <1>28 DEF ClNext,
     Returns, Receives, Reconnects

(* When the first client_disconnect has returned, no thread receives, makes a
   connection or changes the state any more, although handles are stored and
   cleared without a lock while it waits (client/core.c, client_disconnect and
   the receive and reconnect threads), for any number of reconnects. *)
THEOREM DisconnectIsQuiet == ClSpec => []QuietAfterDisconnect
<1>1. ClInit => ClInv
  BY DEF ClInit, ClInv, Stopping, NothingYet, OneToken, HandleKept, Listed, LateReceiver, ReceiversOver,
         LastReconnect, ReconnectsOver, LiveR, LiveC, Returned, AfterReceive, Stopped, Over, Conns
<1>2. ClInv /\ [ClNext]_clvars => ClInv'
  BY ClStep
<1>3. ClInv => QuietAfterDisconnect
  BY DEF ClInv, Stopping, ReceiversOver, ReconnectsOver, AfterReceive, Returned, QuietAfterDisconnect
<1> QED  BY <1>1, <1>2, <1>3, PTL DEF ClSpec

=============================================================================
