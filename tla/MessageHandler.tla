--------------------------- MODULE MessageHandler ---------------------------
(***************************************************************************)
(* The message handlers (server/src/message_handler.c): the table of       *)
(* handlers, the checks before one is called, and the handlers that change *)
(* who is logged in, who is online and who is in a group, or that deliver. *)
(*                                                                         *)
(* The messages of a connection are processed one after the other, those   *)
(* of different connections concurrently.  The user manager and SQLite are *)
(* external: a status for each user, and the rows of group_members, whose  *)
(* UNIQUE(group_id, user_id) takes a user once (database_schema.sql, which *)
(* has no column joined_at: with that table every insertion fails, and the *)
(* server creates no other).  Handlers that only answer (heartbeat, lists, *)
(* profiles), the file handlers and the audit log change nothing here.     *)
(***************************************************************************)
EXTENDS Integers, FiniteSets

CONSTANTS Members,       \* user ids, integers above 0
          MhConns,       \* connections, integers
          Encrypted,     \* connections with encryption_enabled
          MaxMessages    \* bound: messages received

ASSUME MhAssumption ==
    /\ Members \subseteq Nat \ {0} /\ IsFiniteSet(Members) /\ IsFiniteSet(MhConns)
    /\ Encrypted \subseteq MhConns /\ MaxMessages \in Nat

VARIABLES handlers,    \* message types in the table
          user_id,     \* of a connection; 0: nobody is logged in
          online,      \* user manager: users whose status is ONLINE
          group,       \* group_members: users with a row
          mh,          \* the message a connection is processing
          received,
          stats,       \* message_handler_stats_t
          misread      \* memory was read that holds nothing of the kind

mhvars == <<handlers, user_id, online, group, mh, received, stats, misread>>

Types == {"LOGIN", "LOGOUT", "TEXT", "JOIN", "LEAVE", "STATUS", "NOTIFICATION"}
NeedsAuth(type) == type # "LOGIN"
NeedsEncryption(type) == type \in {"TEXT", "JOIN", "LEAVE", "STATUS"}

(* arg: the user to log in, the receiver (0: all) or the user whose status
   changes; sender: who the message says it is from; to: connections to send to. *)
NoMessage == [pc |-> "none", type |-> "none", arg |-> 0, sender |-> 0, to |-> {}]
Counters == {"processed", "failed", "invalid"}

MhInit ==
    /\ handlers = Types
    /\ user_id = [c \in MhConns |-> 0] /\ online = {}
    /\ group = {}
    /\ mh = [c \in MhConns |-> NoMessage] /\ received = 0
    /\ stats = [k \in Counters |-> 0] /\ misread = FALSE

At(c, pc) == ~misread /\ mh[c].pc = pc
Running(c, type) == At(c, "run") /\ mh[c].type = type
MyUser(c) == user_id[c]

(* update_statistics, and the message is done with. *)
Finish(c, counter) ==
    /\ stats' = [stats EXCEPT ![counter] = @ + 1]
    /\ mh' = [mh EXCEPT ![c] = NoMessage]

(* A handler ends by sending its answer, which may fail and then counts as a
   failure, whatever the handler has done. *)
Answer(c) == \E counter \in {"processed", "failed"} : Finish(c, counter)

-----------------------------------------------------------------------------
(* message_handler_register and message_handler_unregister *)

RegisterHandler(type) ==
    /\ ~misread /\ type \notin handlers
    /\ handlers' = handlers \cup {type}
    /\ UNCHANGED <<user_id, online, group, mh, received, stats, misread>>

UnregisterHandler(type) ==
    /\ ~misread /\ type \in handlers
    /\ handlers' = handlers \ {type}
    /\ UNCHANGED <<user_id, online, group, mh, received, stats, misread>>

-----------------------------------------------------------------------------
(* message_handler_process *)

(* The handler is looked up under the lock. *)
Receive(c, type, arg, sender) ==
    /\ At(c, "none") /\ received < MaxMessages
    /\ received' = received + 1
    /\ IF type \in handlers
       THEN /\ mh' = [mh EXCEPT ![c] = [NoMessage EXCEPT !.pc = "found", !.type = type, !.arg = arg, !.sender = sender]]
            /\ UNCHANGED stats
       ELSE Finish(c, "failed")
    /\ UNCHANGED <<handlers, user_id, online, group, misread>>

(* The entry is used after the lock is given back: it may have been freed. *)
UseFreedHandler(c) ==
    /\ At(c, "found") /\ mh[c].type \notin handlers
    /\ misread' = TRUE
    /\ UNCHANGED <<handlers, user_id, online, group, mh, received, stats>>

(* message_validate_integrity *)
RefuseInvalid(c) ==
    /\ At(c, "found")
    /\ Finish(c, "invalid")
    /\ UNCHANGED <<handlers, user_id, online, group, received, misread>>

Permitted(c) ==
    /\ NeedsAuth(mh[c].type) => MyUser(c) # 0
    /\ NeedsEncryption(mh[c].type) => c \in Encrypted

(* Mutation variant: what is refused is not counted. *)
ValidateUncounted(c) ==
    /\ At(c, "found") /\ mh[c].type \in handlers
    /\ mh' = [mh EXCEPT ![c] = IF Permitted(c) THEN [@ EXCEPT !.pc = "run"] ELSE NoMessage]
    /\ UNCHANGED <<handlers, user_id, online, group, received, stats, misread>>

(* validate_message_auth and validate_message_encryption *)
Validate(c) ==
    /\ At(c, "found") /\ mh[c].type \in handlers
    /\ IF Permitted(c)
       THEN mh' = [mh EXCEPT ![c].pc = "run"] /\ UNCHANGED stats
       ELSE Finish(c, "failed")
    /\ UNCHANGED <<handlers, user_id, online, group, received, misread>>

-----------------------------------------------------------------------------
(* The handlers *)

(* handle_auth_login: the connection gets its user, then the user a status. *)
LoginUser(c) ==
    /\ Running(c, "LOGIN")
    /\ user_id' = [user_id EXCEPT ![c] = mh[c].arg]
    /\ mh' = [mh EXCEPT ![c].pc = "online"]
    /\ UNCHANGED <<handlers, online, group, received, stats, misread>>

LoginStatus(c) ==
    /\ At(c, "online")
    /\ online' = online \cup {mh[c].arg}
    /\ Answer(c)
    /\ UNCHANGED <<handlers, user_id, group, received, misread>>

(* The user manager refuses; the answer is sent, and that counts. *)
LoginRefused(c) ==
    /\ Running(c, "LOGIN")
    /\ Answer(c)
    /\ UNCHANGED <<handlers, user_id, online, group, received, misread>>

(* handle_auth_logout clears user_id and then looks whether there is one to
   set OFFLINE. *)
LogoutUser(c) ==
    /\ Running(c, "LOGOUT")
    /\ user_id' = [user_id EXCEPT ![c] = 0]
    /\ Answer(c)
    /\ UNCHANGED <<handlers, online, group, received, misread>>

(* handle_user_status_update: for anybody, as message_check_permission says. *)
UpdateStatus(c) ==
    /\ Running(c, "STATUS")
    /\ online' \in {online \cup {mh[c].arg}, online \ {mh[c].arg}}
    /\ Answer(c)
    /\ UNCHANGED <<handlers, user_id, group, received, misread>>

ConnectionsOf(users) == {d \in MhConns : user_id[d] \in users \ {0}}

(* message_broadcast_to_users: the users online, in order; the sender's place
   in the array keeps what was there, and the last place is not used. *)
BroadcastUsers(sender, junk) ==
    LET last == CHOOSE u \in online : \A v \in online : v <= u
        first == online \ {last}
    IN IF sender \in first THEN (first \ {sender}) \cup {junk} ELSE first

(* handle_chat_text_send, to one user or to all; the connections to send to
   are looked up first. *)
SendText(c, junk) ==
    LET m == mh[c] IN
    /\ Running(c, "TEXT")
    /\ IF m.sender # MyUser(c)
       THEN Finish(c, "failed") /\ UNCHANGED misread
       ELSE IF m.arg = 0 /\ online = {}
       THEN misread' = TRUE /\ UNCHANGED <<mh, stats>>
       ELSE /\ mh' = [mh EXCEPT ![c].pc = "deliver",
                        ![c].to = ConnectionsOf(IF m.arg = 0 THEN BroadcastUsers(m.sender, junk)
                                                ELSE {m.arg} \cap online)]
            /\ UNCHANGED <<stats, misread>>
    /\ UNCHANGED <<handlers, user_id, online, group, received>>

(* handle_system_notification: to every connection but the sender's. *)
SendNotification(c) ==
    /\ Running(c, "NOTIFICATION")
    /\ mh' = [mh EXCEPT ![c].pc = "deliver", ![c].to = {d \in MhConns : MyUser(c) > 0 => user_id[d] # MyUser(c)}]
    /\ UNCHANGED <<handlers, user_id, online, group, received, stats, misread>>

(* server_send_to_connection, which may fail, one after the other; whether
   anything was sent is not looked at.  Then the row and the answer. *)
DeliverTo(c, d) ==
    /\ At(c, "deliver") /\ d \in mh[c].to
    /\ mh' = [mh EXCEPT ![c].to = @ \ {d}]
    /\ UNCHANGED <<handlers, user_id, online, group, received, stats, misread>>

Delivered(c) ==
    /\ At(c, "deliver") /\ mh[c].to = {}
    /\ Answer(c)
    /\ UNCHANGED <<handlers, user_id, online, group, received, misread>>

(* handle_chat_group_join: the test and the insertion are two critical
   sections.  A test that fails finds no member. *)
Join(c) ==
    /\ Running(c, "JOIN")
    /\ \/ MyUser(c) \in group /\ Answer(c)
       \/ mh' = [mh EXCEPT ![c].pc = "insert"] /\ UNCHANGED stats
    /\ UNCHANGED <<handlers, user_id, online, group, received, misread>>

(* The row is inserted, or refused: it is there, or the statement fails. *)
JoinInsert(c) ==
    /\ At(c, "insert")
    /\ group' \in {group, group \cup {MyUser(c)}}
    /\ Answer(c)
    /\ UNCHANGED <<handlers, user_id, online, received, misread>>

(* handle_chat_group_leave; the DELETE may fail. *)
Leave(c) ==
    /\ Running(c, "LEAVE")
    /\ group' \in {group, group \ {MyUser(c)}}
    /\ Answer(c)
    /\ UNCHANGED <<handlers, user_id, online, received, misread>>

-----------------------------------------------------------------------------
Process(c) ==
    \/ UseFreedHandler(c) \/ RefuseInvalid(c) \/ Validate(c)
    \/ LoginUser(c) \/ LoginStatus(c) \/ LoginRefused(c) \/ LogoutUser(c) \/ UpdateStatus(c)
    \/ \E junk \in Members : SendText(c, junk)
    \/ SendNotification(c) \/ \E d \in MhConns : DeliverTo(c, d)
    \/ Delivered(c) \/ Join(c) \/ JoinInsert(c) \/ Leave(c)

(* What a client asks: its text messages are from the user it is logged in as. *)
Arrives(c) ==
    \/ \E type \in {"LOGOUT", "JOIN", "LEAVE", "NOTIFICATION"} : Receive(c, type, 0, MyUser(c))
    \/ \E u \in Members : \E type \in {"LOGIN", "STATUS", "TEXT"} : Receive(c, type, u, MyUser(c))
    \/ Receive(c, "TEXT", 0, MyUser(c))

MhNext ==
    \/ RegisterHandler("NOTIFICATION") \/ UnregisterHandler("NOTIFICATION")
    \/ \E c \in MhConns : Arrives(c) \/ Process(c)

MhSpec == MhInit /\ [][MhNext]_mhvars

-----------------------------------------------------------------------------
(* Properties *)

MhTypeOK ==
    /\ handlers \subseteq Types /\ user_id \in [MhConns -> Members \cup {0}] /\ online \subseteq Members
    /\ group \subseteq Members \cup {0} /\ stats \in [Counters -> 0..MaxMessages]
    /\ \A c \in MhConns :
         /\ mh[c].pc \in {"none", "found", "run", "online", "deliver", "insert"}
         /\ mh[c].type \in Types \cup {"none"} /\ mh[c].to \subseteq MhConns
    /\ received \in 0..MaxMessages /\ misread \in BOOLEAN

(* Every message that was received is counted once, as processed, failed or
   invalid, or is still with its connection: whichever check refuses it, and
   whatever its handler does before the answer (lines 333-393).  A user is
   looked at when the message is validated and used in later critical
   sections: nobody who is not logged in gets into a group (lines 777-823). *)
MessagesAccounted ==
    /\ stats["processed"] + stats["failed"] + stats["invalid"]
         + Cardinality({c \in MhConns : mh[c].pc # "none"}) = received
    /\ 0 \notin group
=============================================================================
