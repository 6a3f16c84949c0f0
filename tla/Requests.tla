------------------------------ MODULE Requests -------------------------------
(***************************************************************************)
(* The handlers of message_handler.c for groups that are created, files    *)
(* and accounts, as message_handler_process calls them: an audit row       *)
(* before and after.  MessageHandler has the dispatch and the others.      *)
(*                                                                         *)
(* All of them share one SQLite connection, db_conn, with one              *)
(* last_insert_rowid for all tables; db_mutex is held for a statement and  *)
(* not for a handler, so requests of different connections interleave      *)
(* between statements.  The user manager and the file transfer manager are *)
(* external: names that are taken, and the status of a transfer, each call *)
(* atomic and free to fail; the latter writes a row of file_transfers for  *)
(* an upload over a connection of its own.                                 *)
(***************************************************************************)
EXTENDS Integers, FiniteSets, Sequences

CONSTANTS RqConns,       \* connections, each with its user logged in
          Moderators,    \* those whose user may create groups
          UserNames,     \* names that may be registered
          MaxRequests,   \* bound: requests, and so rows of a table
          MaxTransfers   \* bound: transfers

ASSUME RqAssumption ==
    /\ IsFiniteSet(RqConns) /\ Moderators \subseteq RqConns
    /\ MaxRequests \in Nat /\ MaxTransfers \in Nat

VARIABLES rq,             \* the request of a connection
          requests,       \* requests so far
          groups,         \* rows of groups: the creator, by rowid
          audit_log,      \* rows of audit_log
          last_rowid,     \* sqlite3_last_insert_rowid(db_conn)
          answers,        \* group ids sent: <<connection, id>>
          transfers,      \* file transfer manager: status, by id
          rows,           \* rows of file_transfers: status, by id
          accepted,       \* transfers the manager has taken for completed once
          accounts        \* user manager: names that are taken

rqvars == <<rq, requests, groups, audit_log, last_rowid, answers, transfers, rows, accepted, accounts>>
database == <<groups, audit_log, last_rowid>>
manager == <<transfers, rows, accepted>>

NoRequest == [pc |-> "none", type |-> "none", arg |-> 0]

(* What a progress update says of a transfer. *)
Reports == {"active", "completed", "cancelled"}
FileTypes == {"DOWNLOAD", "CANCEL"} \cup Reports

RqInit ==
    /\ rq = [c \in RqConns |-> NoRequest] /\ requests = 0
    /\ groups = <<>> /\ audit_log = 0 /\ last_rowid = 0 /\ answers = {}
    /\ transfers = <<>> /\ rows = <<>> /\ accepted = {} /\ accounts = {}

AtStep(c, type, pc) == rq[c].type = type /\ rq[c].pc = pc
Goto(c, pc) == rq' = [rq EXCEPT ![c].pc = pc]

(* The handler returns: the second audit row comes next. *)
Returns(c) == Goto(c, "audit")

ArriveRequest(c, type, arg) ==
    /\ rq[c] = NoRequest /\ requests < MaxRequests
    /\ requests' = requests + 1
    /\ rq' = [rq EXCEPT ![c] = [pc |-> "received", type |-> type, arg |-> arg]]
    /\ UNCHANGED <<database, answers, manager, accounts>>

(* message_log_audit, for what was received and for the result; its INSERT may
   fail. *)
LogAudit(c) ==
    /\ rq[c].pc \in {"received", "audit"}
    /\ rq' = [rq EXCEPT ![c] = IF @.pc = "received" THEN [@ EXCEPT !.pc = "run"] ELSE NoRequest]
    /\ \/ audit_log' = audit_log + 1 /\ last_rowid' = audit_log + 1
       \/ UNCHANGED <<audit_log, last_rowid>>
    /\ UNCHANGED <<requests, groups, answers, manager, accounts>>

-----------------------------------------------------------------------------
(* message_check_permission: group.create needs a moderator; whoever is known
   may download and update anybody's profile. *)
Allowed(c, permission) == permission = "group.create" => c \in Moderators

(* Mutation variant: the id is fetched in a critical section of its own. *)
InsertGroupOnly(c) ==
    /\ AtStep(c, "CREATE", "run") /\ Allowed(c, "group.create")
    /\ groups' = Append(groups, c) /\ last_rowid' = Len(groups) + 1
    /\ answers' = answers
    /\ Goto(c, "rowid")
    /\ UNCHANGED <<requests, audit_log, manager, accounts>>

FetchRowid(c) ==
    /\ AtStep(c, "CREATE", "rowid")
    /\ answers' = answers \cup {<<c, last_rowid>>}
    /\ Returns(c)
    /\ UNCHANGED <<requests, database, manager, accounts>>

CreateGroupTwoSections(c) == InsertGroupOnly(c) \/ FetchRowid(c)

(* handle_chat_group_create: the INSERT and last_insert_rowid are one critical
   section; the id goes into the answer. *)
CreateGroup(c) ==
    /\ AtStep(c, "CREATE", "run") /\ Allowed(c, "group.create")
    /\ groups' = Append(groups, c) /\ last_rowid' = Len(groups) + 1
    /\ answers' = answers \cup {<<c, Len(groups) + 1>>}
    /\ Returns(c)
    /\ UNCHANGED <<requests, audit_log, manager, accounts>>

(* No permission, the sender is another one, the file is too large, there is
   no such transfer or no such file, or a call fails. *)
RefuseRequest(c) ==
    /\ rq[c].pc = "run"
    /\ Returns(c)
    /\ UNCHANGED <<requests, database, answers, manager, accounts>>

-----------------------------------------------------------------------------
(* Files.  The manager is not in the repository: file_transfer_create_upload
   and _create_download add a transfer, file_transfer_cancel and _update_status
   set its status, to whatever they are told unless they refuse. *)
ManagerAdds(row) ==
    /\ Len(transfers) < MaxTransfers
    /\ transfers' = Append(transfers, "active") /\ rows' = Append(rows, row)
    /\ UNCHANGED accepted

ManagerSets(id, status) ==
    /\ id \in DOMAIN transfers
    /\ transfers' = [transfers EXCEPT ![id] = status]
    /\ accepted' = IF status = "completed" THEN accepted \cup {id} ELSE accepted
    /\ UNCHANGED rows

(* handle_file_upload_request *)
UploadRequest(c) ==
    /\ AtStep(c, "UPLOAD", "run")
    /\ ManagerAdds("active")
    /\ Returns(c)
    /\ UNCHANGED <<requests, database, answers, accounts>>

(* handle_file_download_request: the row is looked up, then the file, then a
   transfer of its own is made, which has no row. *)
DownloadLookup(c) ==
    /\ AtStep(c, "DOWNLOAD", "run") /\ Allowed(c, "file.download")
    /\ rq[c].arg \in DOMAIN rows /\ rows[rq[c].arg] # "none"
    /\ Goto(c, "create")
    /\ UNCHANGED <<requests, database, answers, manager, accounts>>

DownloadCreate(c) ==
    /\ AtStep(c, "DOWNLOAD", "create")
    /\ ManagerAdds("none") \/ UNCHANGED manager
    /\ Returns(c)
    /\ UNCHANGED <<requests, database, answers, accounts>>

(* handle_file_transfer_cancel: anybody's transfer. *)
CancelTransfer(c) ==
    /\ AtStep(c, "CANCEL", "run")
    /\ ManagerSets(rq[c].arg, "cancelled")
    /\ Returns(c)
    /\ UNCHANGED <<requests, database, answers, accounts>>

(* handle_file_transfer_status with a progress update, of any status and for
   anybody's transfer: the manager first, and only a completion that it accepts
   goes into the row. *)
UpdateStatusOf(c) ==
    /\ rq[c].type \in Reports /\ rq[c].pc = "run"
    /\ ManagerSets(rq[c].arg, rq[c].type)
    /\ IF rq[c].type = "completed" THEN Goto(c, "row") ELSE Returns(c)
    /\ UNCHANGED <<requests, database, answers, accounts>>

(* Its UPDATE finds no row for a download, or fails. *)
UpdateRow(c) ==
    /\ rq[c].pc = "row"
    /\ \/ rows' = [rows EXCEPT ![rq[c].arg] = IF @ = "none" THEN @ ELSE "completed"]
       \/ UNCHANGED rows
    /\ Returns(c)
    /\ UNCHANGED <<requests, database, answers, transfers, accepted, accounts>>

(* handle_auth_register *)
RegisterAccount(c) ==
    /\ AtStep(c, "REGISTER", "run") /\ rq[c].arg \notin accounts
    /\ accounts' = accounts \cup {rq[c].arg}
    /\ Returns(c)
    /\ UNCHANGED <<requests, database, answers, manager>>

HandleRequest(c) ==
    \/ LogAudit(c) \/ CreateGroup(c) \/ RefuseRequest(c) \/ UploadRequest(c)
    \/ DownloadLookup(c) \/ DownloadCreate(c) \/ CancelTransfer(c) \/ UpdateStatusOf(c) \/ UpdateRow(c)
    \/ RegisterAccount(c)

RqNext == \E c \in RqConns :
    \/ ArriveRequest(c, "CREATE", 0) \/ ArriveRequest(c, "UPLOAD", 0)
    \/ \E type \in FileTypes, id \in 1..MaxTransfers : ArriveRequest(c, type, id)
    \/ \E n \in UserNames : ArriveRequest(c, "REGISTER", n)
    \/ HandleRequest(c)

RqSpec == RqInit /\ [][RqNext]_rqvars

-----------------------------------------------------------------------------
(* Properties *)

RqTypeOK ==
    /\ \A c \in RqConns :
         /\ rq[c].pc \in {"none", "received", "run", "create", "row", "audit"}
         /\ rq[c].type \in FileTypes \cup {"none", "CREATE", "UPLOAD", "REGISTER"}
    /\ requests \in Nat /\ groups \in Seq(Moderators) /\ audit_log \in Nat /\ last_rowid \in Nat
    /\ rows \in Seq({"none", "active", "completed"}) /\ accounts \subseteq UserNames
    /\ transfers \in Seq(Reports) /\ Len(rows) = Len(transfers) /\ accepted \subseteq 1..Len(transfers)

(* The id a moderator is sent is that of the group he created, although every
   other request inserts rows over the same connection all the time and
   last_insert_rowid knows one row only (lines 718-740, 1776-1799).  A row of
   file_transfers says completed only of a transfer the manager has taken for
   completed, whatever others report or cancel in between; it may be active
   again by then, for anybody may report any status (lines 1127-1155). *)
AnswersTrue ==
    /\ \A a \in answers : a[2] \in DOMAIN groups /\ groups[a[2]] = a[1]
    /\ \A i \in DOMAIN rows : rows[i] = "completed" => i \in accepted
==============================================================================
