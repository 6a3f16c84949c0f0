---------------------------- MODULE OfflineSync -----------------------------
(***************************************************************************)
(* The offline store of the web client (web/offline-sync.ts): messages kept *)
(* in IndexedDB, and the synchronisation that a timer, the page and the     *)
(* network's return start.  A step runs from one await to the next.         *)
(*                                                                          *)
(* A key of an index is the set of its components, so that the key [s, t]   *)
(* that getPendingMessages asks for differs from every status.  The query   *)
(* for unresolved operations that follows asks for the key false, which no  *)
(* index admits: syncOperations throws, and the steps after it never run.   *)
(* Acknowledgements and receipts look up an index that was never created,   *)
(* and change nothing.                                                      *)
(***************************************************************************)
EXTENDS Integers, FiniteSets

CONSTANTS MaxStored,       \* bound on the messages that are stored
          MaxOpens         \* bound on the calls of initialize()

ASSUME OsAssumption == MaxStored \in Nat /\ MaxOpens \in Nat

VARIABLES db,              \* TRUE iff this.db is set
          opening,         \* requests to open the database under way
          isInitialized,
          syncInterval,    \* TRUE iff the handle of a timer is held
          timers,          \* timers that run
          opens,
          onLine, syncInProgress,
          syncs,           \* synchronisations under way
          messages,        \* id |-> record or Absent
          nstored,
          marking,         \* markConversationAsRead: records left to write
          unsent, deleted  \* stored by the page; deleted by it

osvars == <<db, opening, isInitialized, syncInterval, timers, opens, onLine, syncInProgress, syncs,
            messages, nstored, marking, unsent, deleted>>
oslife == <<db, opening, isInitialized, syncInterval, timers, opens>>

MsgIds == 1..MaxStored
Absent == [status |-> "absent", synced |-> FALSE, read |-> FALSE]
Stored == {m \in MsgIds : messages[m] # Absent}

OsInit ==
    /\ db = FALSE /\ opening = 0 /\ isInitialized = FALSE /\ syncInterval = FALSE /\ timers = 0
    /\ opens = 0 /\ onLine = TRUE /\ syncInProgress = FALSE /\ syncs = 0
    /\ messages = [m \in MsgIds |-> Absent] /\ nstored = 0
    /\ marking = [m \in MsgIds |-> Absent] /\ unsent = {} /\ deleted = {}

-----------------------------------------------------------------------------
(* initialize, destroy *)

Initialize ==
    /\ ~isInitialized /\ opens < MaxOpens
    /\ opens' = opens + 1 /\ opening' = opening + 1
    /\ UNCHANGED <<db, isInitialized, syncInterval, timers, onLine, syncInProgress, syncs, messages,
                   nstored, marking, unsent, deleted>>

(* onsuccess, with setupAutoSync; a second call may have passed the test. *)
Opened ==
    /\ opening > 0 /\ opening' = opening - 1
    /\ db' = TRUE /\ isInitialized' = TRUE
    /\ syncInterval' = TRUE /\ timers' = timers + 1
    /\ UNCHANGED <<opens, onLine, syncInProgress, syncs, messages, nstored, marking, unsent, deleted>>

Destroy ==
    /\ isInitialized
    /\ timers' = IF syncInterval THEN timers - 1 ELSE timers
    /\ syncInterval' = FALSE /\ db' = FALSE /\ isInitialized' = FALSE
    /\ UNCHANGED <<opening, opens, onLine, syncInProgress, syncs, messages, nstored, marking, unsent,
                   deleted>>

-----------------------------------------------------------------------------
(* autoSync, forceSync *)

(* getPendingMessages: the status index at the key [SENDING, PENDING_RETRY]. *)
GetPendingMessages ==
    {m \in Stored : {messages[m].status} = {"sending", "pending_retry"}}

(* Test and set; with no database the first query is rejected at once and
   the flag cleared again. *)
BeginSync ==
    IF syncInProgress \/ ~db THEN UNCHANGED <<syncInProgress, syncs>>
    ELSE syncInProgress' = TRUE /\ syncs' = syncs + 1

(* Mutation variant: the flag is set when the first query has answered. *)
SyncStartsLate ==
    /\ db /\ syncs < 2 /\ ~syncInProgress /\ (timers > 0 \/ isInitialized)
    /\ syncs' = syncs + 1
    /\ UNCHANGED <<oslife, onLine, syncInProgress, messages, nstored, marking, unsent, deleted>>

(* The timer's autoSync, or the page's forceSync. *)
SyncStarts ==
    /\ \/ timers > 0 /\ onLine
       \/ isInitialized
    /\ BeginSync
    /\ UNCHANGED <<oslife, onLine, messages, nstored, marking, unsent, deleted>>

(* The pending messages are known, there is none to send; syncOperations
   fails and finally clears the flag. *)
SyncFails ==
    /\ syncs > 0 /\ GetPendingMessages = {}
    /\ syncs' = syncs - 1 /\ syncInProgress' = FALSE
    /\ UNCHANGED <<oslife, onLine, messages, nstored, marking, unsent, deleted>>

GoesOffline ==
    /\ onLine /\ onLine' = FALSE
    /\ UNCHANGED <<oslife, syncInProgress, syncs, messages, nstored, marking, unsent, deleted>>

(* The listener is never removed. *)
GoesOnline ==
    /\ ~onLine /\ onLine' = TRUE
    /\ IF opens > opening THEN BeginSync ELSE UNCHANGED <<syncInProgress, syncs>>
    /\ UNCHANGED <<oslife, messages, nstored, marking, unsent, deleted>>

-----------------------------------------------------------------------------
(* The message store. *)

Put(m, r) == messages' = [messages EXCEPT ![m] = r]

(* storeMessage, and the autoSync it starts. *)
StoreMessage ==
    /\ db /\ nstored < MaxStored /\ nstored' = nstored + 1
    /\ Put(nstored + 1, [status |-> "sending", synced |-> FALSE, read |-> FALSE])
    /\ unsent' = unsent \cup {nstored + 1}
    /\ IF onLine THEN BeginSync ELSE UNCHANGED <<syncInProgress, syncs>>
    /\ UNCHANGED <<oslife, onLine, marking, deleted>>

(* processIncomingMessage *)
MessageArrives ==
    /\ db /\ nstored < MaxStored /\ nstored' = nstored + 1
    /\ Put(nstored + 1, [status |-> "delivered", synced |-> TRUE, read |-> FALSE])
    /\ UNCHANGED <<oslife, onLine, syncInProgress, syncs, marking, unsent, deleted>>

DeleteMessage(m) ==
    /\ db /\ m \in Stored
    /\ Put(m, Absent)
    /\ deleted' = deleted \cup {m}
    /\ UNCHANGED <<oslife, onLine, syncInProgress, syncs, nstored, marking, unsent>>

(* Mutant: old messages go, sent or not. *)
ClearAllOldMessages(old) ==
    /\ db /\ old # {}
    /\ messages' = [m \in MsgIds |-> IF m \in old THEN Absent ELSE messages[m]]
    /\ UNCHANGED <<oslife, onLine, syncInProgress, syncs, nstored, marking, unsent, deleted>>

(* clearOldMessages: old holds the messages up to the cutoff. *)
ClearOldMessages(old) ==
    /\ db /\ old # {}
    /\ messages' = [m \in MsgIds |-> IF m \in old /\ messages[m].synced THEN Absent ELSE messages[m]]
    /\ UNCHANGED <<oslife, onLine, syncInProgress, syncs, nstored, marking, unsent, deleted>>

(* markConversationAsRead: the conversation is read once, its unread messages
   are then written back one by one, a status of sending included. *)
MarkStarts ==
    /\ db /\ marking = [m \in MsgIds |-> Absent] /\ \E m \in Stored : ~messages[m].read
    /\ marking' = [m \in MsgIds |-> IF messages[m].read THEN Absent ELSE messages[m]]
    /\ UNCHANGED <<oslife, onLine, syncInProgress, syncs, messages, nstored, unsent, deleted>>

MarkWrites(m) ==
    /\ db /\ marking[m] # Absent
    /\ Put(m, [marking[m] EXCEPT !.status = "read", !.read = TRUE])
    /\ marking' = [marking EXCEPT ![m] = Absent]
    /\ UNCHANGED <<oslife, onLine, syncInProgress, syncs, nstored, unsent, deleted>>

(* A write is rejected, or the database is gone. *)
MarkFails ==
    /\ marking # [m \in MsgIds |-> Absent]
    /\ marking' = [m \in MsgIds |-> Absent]
    /\ UNCHANGED <<oslife, onLine, syncInProgress, syncs, messages, nstored, unsent, deleted>>

OsNext ==
    \/ Initialize \/ Opened \/ Destroy \/ SyncStarts \/ SyncFails \/ GoesOffline \/ GoesOnline
    \/ StoreMessage \/ MessageArrives \/ MarkStarts \/ MarkFails
    \/ \E m \in MsgIds : DeleteMessage(m) \/ MarkWrites(m)
    \/ \E old \in SUBSET Stored : ClearOldMessages(old)

OsSpec == OsInit /\ [][OsNext]_osvars

-----------------------------------------------------------------------------
(* Properties *)

(* One synchronisation runs at a time and the flag tells whether one does,
   whoever starts them, whichever of their steps fails, and with destroy() and
   initialize() called meanwhile: the flag is never left set, which would end
   synchronisation for good (offline-sync.ts:264-299, 1259-1310). *)
OneSyncAtATime == syncs <= 1 /\ (syncInProgress <=> syncs = 1)

(* A message that the page stored and did not delete itself stays in the
   store as one that was not sent, and keeps the status by which sending looks
   for it until its conversation is marked as read: neither the clean-up of
   old messages nor the writes of markConversationAsRead, which started from
   an older state of the store, lose it otherwise.  Marking does: it
   overwrites SENDING with READ, and such a message is kept but never looked
   for again (offline-sync.ts:800-803, 1181-1192, 1243-1256). *)
UnsentKept ==
    \A m \in unsent \ deleted :
       messages[m] # Absent /\ ~messages[m].synced /\ (messages[m].status = "sending" \/ messages[m].read)
=============================================================================
