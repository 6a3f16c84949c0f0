--------------------------- MODULE Backend_proofs ---------------------------
(***************************************************************************)
(* Proofs about the components of MCBackend, each for its own              *)
(* specification and for every value of its constants.                     *)
(***************************************************************************)
EXTENDS DbPool, Migrations, MessageHandler, Requests, Auth, Program, Config, FiniteSetTheorems,
        SequenceTheorems, WellFoundedInduction, TLAPS

-----------------------------------------------------------------------------
(* Program: one instance.  The PID file is never removed, because every way
   to remove_pid_file leads through cleanup_modules, which forgets the path;
   so it is created once, and only the process that created it gets as far as
   the modules. *)

(* Where a process is only with the PID file it created. *)
PastPidFile == {"daemon", "modules", "create", "init", "thread", "start"}

Instance(p) == main[p] \in PastPidFile \/ modules[p] # {}

PgInv ==
    /\ DOMAIN main = Processes /\ DOMAIN modules = Processes /\ DOMAIN pid_file_path = Processes
    /\ after \in [Processes -> {"graceful", "remove", "exit"}]
    /\ \A p \in Processes : main[p] = "remove" => pid_file_path[p] = FALSE
    /\ \A p \in Processes : Instance(p) => pid_file = TRUE
    /\ \A p, q \in Processes : Instance(p) /\ Instance(q) => p = q

(* Only create_pid_file takes a process past the PID file. *)
LEMMA PgInvStep == PgInv /\ [PgNext]_pgvars => PgInv'
  <1> SUFFICES ASSUME PgInv, [PgNext]_pgvars PROVE PgInv'
    OBVIOUS
  <1> USE DEF PgInv, Instance, PastPidFile, context, services, async
  <1>1. CASE UNCHANGED pgvars
    BY <1>1 DEF pgvars
  <1>2. ASSUME NEW p \in Processes, Gone(p) PROVE PgInv'
    BY <1>2 DEF Gone
  <1>3. ASSUME NEW p \in Processes, ParseArguments(p) PROVE PgInv'
    BY <1>3 DEF ParseArguments, Step
  <1>4. ASSUME NEW p \in Processes, CheckConfig(p) PROVE PgInv'
    BY <1>4 DEF CheckConfig, Step
  <1>5. ASSUME NEW p \in Processes, LoadConfiguration(p) PROVE PgInv'
    BY <1>5 DEF LoadConfiguration, Fails, Step
  <1>6. ASSUME NEW p \in Processes, CheckPrivileges(p) PROVE PgInv'
    BY <1>6 DEF CheckPrivileges, Fails, Step
  <1>7. ASSUME NEW p \in Processes, ValidateEnvironment(p) PROVE PgInv'
    BY <1>7 DEF ValidateEnvironment, Fails, Step
  <1>8. ASSUME NEW p \in Processes, RegisterSignalHandlers(p) PROVE PgInv'
    BY <1>8 DEF RegisterSignalHandlers, Step
  <1>9. ASSUME NEW p \in Processes, CreatePidFile(p) PROVE PgInv'
    BY <1>9 DEF CreatePidFile, Fails, Step
  <1>10. ASSUME NEW p \in Processes, Daemonize(p) PROVE PgInv'
    BY <1>10 DEF Daemonize, Fails, Step
  <1>11. ASSUME NEW p \in Processes, InitializeModule(p) PROVE PgInv'
    BY <1>11 DEF InitializeModule, FailsInside, Step
  <1>12. ASSUME NEW p \in Processes, CreateServer(p) PROVE PgInv'
    BY <1>12 DEF CreateServer, FailsInside, Step
  <1>13. ASSUME NEW p \in Processes, InitServer(p) PROVE PgInv'
    BY <1>13 DEF InitServer, FailsInside, Step
  <1>14. ASSUME NEW p \in Processes, StartMonitor(p) PROVE PgInv'
    BY <1>14 DEF StartMonitor, Fails, Step
  <1>15. ASSUME NEW p \in Processes, StartServer(p) PROVE PgInv'
    BY <1>15 DEF StartServer, Fails, Step
  <1>16. ASSUME NEW p \in Processes, GracefulShutdown(p) PROVE PgInv'
    BY <1>16 DEF GracefulShutdown, Step
  <1>17. ASSUME NEW p \in Processes, DestroyServer(p) PROVE PgInv'
    BY <1>17 DEF DestroyServer, Step
  <1>18. ASSUME NEW p \in Processes, ResetServer(p) PROVE PgInv'
    BY <1>18 DEF ResetServer, Step
  <1>19. ASSUME NEW p \in Processes, ReleaseModules(p) PROVE PgInv'
    BY <1>19 DEF ReleaseModules, Step
  <1>20. ASSUME NEW p \in Processes, RemovePidFile(p) PROVE PgInv'
    BY <1>20 DEF RemovePidFile, Step
  <1>21. ASSUME NEW p \in Processes, Exit(p) PROVE PgInv'
    BY <1>21, <1>2 DEF Exit
  <1>22. ASSUME NEW p \in Processes, Killed(p) PROVE PgInv'
    BY <1>22, <1>2 DEF Killed
  <1>23. ASSUME NEW p \in Processes, NEW sig, Signalled(p, sig) PROVE PgInv'
    BY <1>23, <1>2 DEF Signalled
  <1>24. ASSUME NEW p \in Processes, MonitorTests(p) PROVE PgInv'
    BY <1>24, <1>2 DEF MonitorTests
  <1>25. ASSUME NEW p \in Processes, MonitorServer(p) PROVE PgInv'
    BY <1>25, <1>2 DEF MonitorServer
  <1>26. ASSUME NEW p \in Processes, HandleSignalEvents(p) PROVE PgInv'
    BY <1>26, <1>2 DEF HandleSignalEvents
  <1>27. QED
    BY <1>1, <1>3, <1>4, <1>5, <1>6, <1>7, <1>8, <1>9, <1>10, <1>11, <1>12, <1>13, <1>14,
       <1>15, <1>16, <1>17, <1>18, <1>19, <1>20, <1>21, <1>22, <1>23, <1>24, <1>25, <1>26 DEF PgNext

(* At most one process has the modules open (main.c, create_pid_file and
   cleanup_modules), for any number of processes. *)
THEOREM SingleInstance == PgSpec => []OneInstance
  <1>1. PgInit => PgInv
    BY DEF PgInit, PgInv, Instance, PastPidFile
  <1>2. PgInv => OneInstance
    BY DEF PgInv, OneInstance, Instance
  <1>3. QED
    BY <1>1, <1>2, PgInvStep, PTL DEF PgSpec

-----------------------------------------------------------------------------
(* Requests: the answers.  An id that was sent stays that of its group, for
   groups is only appended to; and what is on its way to a row was accepted by
   the manager. *)
RqInv ==
    /\ DOMAIN rq = RqConns
    /\ \A c \in RqConns : rq[c] = [pc |-> rq[c].pc, type |-> rq[c].type, arg |-> rq[c].arg]
    /\ groups \in Seq(RqConns) /\ answers \subseteq RqConns \X Nat
    /\ \A a \in answers : a[2] \in 1..Len(groups) /\ groups[a[2]] = a[1]
    /\ rows \in Seq({"none", "active", "completed"}) /\ transfers \in Seq(Reports) /\ Len(rows) = Len(transfers)
    /\ \A i \in 1..Len(rows) : rows[i] = "completed" => i \in accepted
    /\ \A c \in RqConns : rq[c].pc = "row" => rq[c].arg \in 1..Len(rows) /\ rq[c].arg \in accepted

(* A transfer that is added is the last one, with an active row or none; what
   was there stays. *)
LEMMA NewTransfer ==
    ASSUME RqInv, NEW row \in {"active", "none"}
    PROVE  LET r == Append(rows, row)
               s == Append(transfers, "active")
           IN  /\ r \in Seq({"none", "active", "completed"}) /\ s \in Seq(Reports) /\ Len(r) = Len(s)
               /\ \A i \in 1..Len(r) : r[i] = "completed" => i \in accepted
               /\ \A i \in 1..Len(rows) : i \in 1..Len(r)
  <1>1. rows \in Seq({"none", "active", "completed"}) /\ transfers \in Seq(Reports) /\ Len(rows) = Len(transfers)
    BY DEF RqInv
  <1>2. \A i \in 1..Len(rows) : rows[i] = "completed" => i \in accepted
    BY DEF RqInv
  <1>3. Append(rows, row) \in Seq({"none", "active", "completed"}) /\ Append(transfers, "active") \in Seq(Reports)
    BY <1>1 DEF Reports
  <1>4. /\ Len(Append(rows, row)) = Len(rows) + 1 /\ Len(Append(transfers, "active")) = Len(rows) + 1
        /\ Append(rows, row)[Len(rows) + 1] = row
        /\ \A i \in 1..Len(rows) : Append(rows, row)[i] = rows[i]
    BY <1>1
  <1>5. Len(rows) \in Nat
    BY <1>1
  <1>6. QED
    BY <1>2, <1>3, <1>4, <1>5

(* Every step keeps the answers and the rows as they are required to be. *)
LEMMA RqInvStep == RqInv /\ [RqNext]_rqvars => RqInv'
  <1> SUFFICES ASSUME RqInv, [RqNext]_rqvars PROVE RqInv'
    OBVIOUS
  <1> USE DEF RqInv, AtStep, database, manager, ManagerAdds, ManagerSets
  <1>1. CASE UNCHANGED rqvars
    BY <1>1 DEF rqvars
  <1>2. ASSUME NEW c \in RqConns, NEW type, NEW arg, ArriveRequest(c, type, arg) PROVE RqInv'
    BY <1>2 DEF ArriveRequest
  <1>3. ASSUME NEW c \in RqConns, LogAudit(c) PROVE RqInv'
    BY <1>3 DEF LogAudit, NoRequest
  <1>4. ASSUME NEW c \in RqConns, CreateGroup(c) PROVE RqInv'
    BY <1>4 DEF CreateGroup, Returns, Goto
  <1>5. ASSUME NEW c \in RqConns, RefuseRequest(c) PROVE RqInv'
    BY <1>5 DEF RefuseRequest, Returns, Goto
  <1>6. ASSUME NEW c \in RqConns, UploadRequest(c) PROVE RqInv'
    BY <1>6, NewTransfer DEF UploadRequest, Returns, Goto
  <1>7. ASSUME NEW c \in RqConns, DownloadLookup(c) PROVE RqInv'
    BY <1>7 DEF DownloadLookup, Goto
  <1>8. ASSUME NEW c \in RqConns, DownloadCreate(c) PROVE RqInv'
    <2>1. CASE UNCHANGED manager
      BY <1>8, <2>1 DEF DownloadCreate, Returns, Goto
    <2>2. CASE ManagerAdds("none")
      BY <1>8, <2>2, NewTransfer DEF DownloadCreate, Returns, Goto
    <2>3. QED
      BY <1>8, <2>1, <2>2 DEF DownloadCreate
  <1>9. ASSUME NEW c \in RqConns, CancelTransfer(c) PROVE RqInv'
    BY <1>9 DEF CancelTransfer, Returns, Goto, Reports
  <1>10. ASSUME NEW c \in RqConns, UpdateStatusOf(c) PROVE RqInv'
    <2>1. /\ rq[c].arg \in 1..Len(rows) /\ transfers' \in Seq(Reports) /\ Len(transfers') = Len(transfers)
          /\ accepted \subseteq accepted' /\ UNCHANGED <<rows, groups, answers>>
      BY <1>10 DEF UpdateStatusOf
    <2>2. rq[c].type = "completed" => rq[c].arg \in accepted'
      BY <1>10 DEF UpdateStatusOf
    <2>3. PICK pc : rq' = [rq EXCEPT ![c].pc = pc] /\ (pc = "row" => rq[c].type = "completed")
      <3>1. CASE rq[c].type = "completed"
        BY <1>10, <3>1, Zenon DEF UpdateStatusOf, Goto
      <3>2. CASE rq[c].type # "completed"
        <4>1. rq' = [rq EXCEPT ![c].pc = "audit"]
          BY <1>10, <3>2, Zenon DEF UpdateStatusOf, Goto, Returns
        <4>2. "audit" # "row"
          OBVIOUS
        <4> QED
          BY <4>1, <4>2, Zenon
      <3> QED
        BY <3>1, <3>2, Zenon
    <2>4. /\ DOMAIN rq' = RqConns /\ \A e \in RqConns : e # c => rq'[e] = rq[e]
          /\ rq'[c] = [pc |-> pc, type |-> rq[c].type, arg |-> rq[c].arg]
      BY <2>3
    <2>5. \A e \in RqConns : rq'[e] = [pc |-> rq'[e].pc, type |-> rq'[e].type, arg |-> rq'[e].arg]
      BY <2>4
    <2>6. \A e \in RqConns : rq'[e].pc = "row" => rq'[e].arg \in 1..Len(rows) /\ rq'[e].arg \in accepted'
      BY <2>1, <2>2, <2>3, <2>4
    <2>7. \A i \in 1..Len(rows) : rows[i] = "completed" => i \in accepted'
      BY <2>1
    <2> QED
      BY <2>1, <2>4, <2>5, <2>6, <2>7
  <1>11. ASSUME NEW c \in RqConns, UpdateRow(c) PROVE RqInv'
    <2>1. CASE UNCHANGED rows
      BY <1>11, <2>1 DEF UpdateRow, Returns, Goto
    <2>2. CASE rows' = [rows EXCEPT ![rq[c].arg] = IF @ = "none" THEN @ ELSE "completed"]
      <3>1. PICK i \in 1..Len(rows) : i = rq[c].arg /\ i \in accepted
        BY <1>11 DEF UpdateRow
      <3>2. rows' \in Seq({"none", "active", "completed"}) /\ Len(rows') = Len(rows)
            /\ \A k \in 1..Len(rows) : k # i => rows'[k] = rows[k]
        BY <2>2, <3>1
      <3>3. QED
        BY <1>11, <3>1, <3>2 DEF UpdateRow, Returns, Goto
    <2>3. QED
      BY <1>11, <2>1, <2>2 DEF UpdateRow
  <1>12. ASSUME NEW c \in RqConns, RegisterAccount(c) PROVE RqInv'
    BY <1>12 DEF RegisterAccount, Returns, Goto
  <1>13. QED
    BY <1>1, <1>2, <1>3, <1>4, <1>5, <1>6, <1>7, <1>8, <1>9, <1>10, <1>11, <1>12 DEF RqNext, HandleRequest

(* The id sent to a moderator is that of his group and no row says completed
   that the manager has not accepted as such (message_handler.c, handle_chat_group_create and
   handle_file_transfer_status), for any connections and transfers. *)
THEOREM AnswersAreTrue == RqSpec => []AnswersTrue
  <1>1. RqInit => RqInv
    BY DEF RqInit, RqInv, NoRequest, AtStep
  <1>2. RqInv => AnswersTrue
    BY DEF RqInv, AnswersTrue
  <1>3. QED
    BY <1>1, <1>2, RqInvStep, PTL DEF RqSpec

-----------------------------------------------------------------------------
(* Migrations.  Which version is the current one is a minimum, and it exists
   because the order of the naturals is well-founded. *)
LEMMA LeastIsMin == ASSUME NEW S, S \in SUBSET Nat, S # {} PROVE Min(S) \in S /\ \A x \in S : Min(S) <= x
  <1>1. ASSUME NEW x \in Nat, NEW y \in Nat, x < y PROVE <<x, y>> \in OpToRel(<, Nat)
    BY <1>1 DEF OpToRel
  <1>2. PICK R : IsWellFoundedOn(R, Nat) /\ \A x, y \in Nat : x < y => <<x, y>> \in R
    BY <1>1, NatLessThanWellFounded, Zenon
  <1>3. PICK m \in S : \A y \in S : ~(<<y, m>> \in R)
    <2>1. IsWellFoundedOn(R, Nat) /\ S \subseteq Nat /\ S # {}
      BY <1>2, Zenon
    <2>2. QED
      BY ONLY <2>1, WFMin
  <1>4. ASSUME NEW y \in S PROVE m <= y
    <2>1. m \in Nat /\ y \in Nat
      OBVIOUS
    <2>2. ~(y < m)
      BY <1>2, <1>3, <2>1, Zenon
    <2>3. QED
      BY <2>1, <2>2
  <1>5. QED
    BY <1>4, Zenon DEF Min

(* SQL and stamp go together: in the database, and in the open transaction but
   for the version whose SQL has just run. *)
MgPart1 ==
    /\ \A v \in Versions : v \in stamped <=> effects[v] > 0
    /\ \A v \in Versions : v \in stamps \/ (round.pc = "stamp" /\ v = Current) <=> ran[v] > 0
    /\ round.pc # "idle" => round.left # {}
    /\ round.pc = "commit" => Current \in stamps

(* The round so far: what it has passed is in the database or in the open
   transaction, and is smaller than what is left. *)
MgPart2 ==
    /\ \A v \in done, u \in chosen : u < v => u \in done \cup lost
    /\ done \cap lost = {}
    /\ round.pc # "idle" =>
         /\ round.left \subseteq chosen
         /\ done \cup lost \subseteq chosen \ round.left
         /\ (chosen \ round.left) \ (done \cup lost) \subseteq stamps
         /\ stamps \cap (done \cup lost) = {}
         /\ \A u \in chosen \ round.left, v \in round.left : u < v

MgInv == MgTypeOK /\ MgPart1 /\ MgPart2

(* Types are kept. *)
LEMMA MgTypeStep == MgTypeOK /\ MgPart1 /\ [MgNext]_mgvars => MgTypeOK'
  <1> SUFFICES ASSUME MgTypeOK, MgPart1, [MgNext]_mgvars PROVE MgTypeOK'
    OBVIOUS
  <1>0. round.pc # "idle" => Current \in round.left /\ Current \in Versions
    BY LeastIsMin, MgAssumption DEF MgTypeOK, MgPart1, Current
  <1> USE DEF MgTypeOK, dbstate, txvars, None, NoRound, Return, Discard, Undo
  <1>1. CASE UNCHANGED mgvars
    BY <1>1 DEF mgvars
  <1>2. ASSUME NEW v \in Versions, MigrateAdd(v) PROVE MgTypeOK'
    BY <1>2 DEF MigrateAdd
  <1>3. ASSUME NEW failed \in BOOLEAN, NEW target \in Versions, MigrateApply(failed, target) PROVE MgTypeOK'
    BY <1>3 DEF MigrateApply, Selected
  <1>4. CASE BeginMigration
    BY <1>4 DEF BeginMigration
  <1>5. CASE NoConnection
    BY <1>5 DEF NoConnection
  <1>6. CASE RunMigration
    BY <1>0, <1>6 DEF RunMigration
  <1>7. CASE StampMigration
    BY <1>0, <1>7 DEF StampMigration
  <1>8. CASE StepFails
    BY <1>8 DEF StepFails
  <1>9. CASE CommitMigration
    <2>1. effects' \in [Versions -> Nat]
      BY <1>9 DEF CommitMigration
    <2>2. round' \in [pc : {"idle", "begin", "run", "stamp", "commit"}, left : SUBSET Versions]
      BY <1>9 DEF CommitMigration, NextVersion
    <2>3. QED
      BY <1>0, <1>9, <2>1, <2>2 DEF CommitMigration, InTransaction
  <1>10. CASE CommitMigrationFails
    <2>1. round' \in [pc : {"idle", "begin", "run", "stamp", "commit"}, left : SUBSET Versions]
      BY <1>10 DEF CommitMigrationFails, NextVersion
    <2>2. InTransaction \subseteq Versions
      BY <1>0, <1>10 DEF CommitMigrationFails, InTransaction
    <2>3. QED
      <3>1. CASE UNCHANGED <<table, txvars, lost>>
        BY <1>10, <2>1, <3>1 DEF CommitMigrationFails
      <3>2. CASE Undo /\ lost' = lost \cup InTransaction
        BY <1>10, <2>1, <2>2, <3>2 DEF CommitMigrationFails
      <3>3. QED
        BY <1>10, <3>1, <3>2 DEF CommitMigrationFails
  <1>11. CASE Crash
    BY <1>11 DEF Crash
  <1>12. QED
    BY <1>1, <1>2, <1>3, <1>4, <1>5, <1>6, <1>7, <1>8, <1>9, <1>10, <1>11 DEF MgNext

(* Every statement and every failure keeps SQL and stamps together. *)
LEMMA MgPart1Step == MgTypeOK /\ MgPart1 /\ [MgNext]_mgvars => MgPart1'
  <1> SUFFICES ASSUME MgTypeOK, MgPart1, [MgNext]_mgvars PROVE MgPart1'
    OBVIOUS
  <1>0. round.pc # "idle" => Current \in round.left /\ Current \in Versions
    BY LeastIsMin, MgAssumption DEF MgTypeOK, MgPart1, Current
  <1> USE DEF MgTypeOK, MgPart1, dbstate, txvars, None, NoRound, Return, Discard, Undo, Current
  <1>1. CASE UNCHANGED mgvars
    BY <1>1 DEF mgvars
  <1>2. ASSUME NEW v \in Versions, MigrateAdd(v) PROVE MgPart1'
    BY <1>2 DEF MigrateAdd
  <1>3. ASSUME NEW failed \in BOOLEAN, NEW target \in Versions, MigrateApply(failed, target) PROVE MgPart1'
    BY <1>3 DEF MigrateApply
  <1>4. CASE BeginMigration
    BY <1>4 DEF BeginMigration
  <1>5. CASE NoConnection
    BY <1>5 DEF NoConnection
  <1>6. CASE RunMigration
    BY <1>0, <1>6 DEF RunMigration
  <1>7. CASE StampMigration
    BY <1>0, <1>7 DEF StampMigration
  <1>8. CASE StepFails
    BY <1>8 DEF StepFails
  <1>9. CASE CommitMigration
    BY <1>0, <1>9 DEF CommitMigration, NextVersion
  <1>10. CASE CommitMigrationFails
    BY <1>10 DEF CommitMigrationFails, NextVersion
  <1>11. CASE Crash
    BY <1>11 DEF Crash
  <1>12. QED
    BY <1>1, <1>2, <1>3, <1>4, <1>5, <1>6, <1>7, <1>8, <1>9, <1>10, <1>11 DEF MgNext

(* Every statement and every failure keeps the order of the versions. *)
LEMMA MgPart2Step == MgInv /\ [MgNext]_mgvars => MgPart2'
  <1> SUFFICES ASSUME MgTypeOK, MgPart1, MgPart2, [MgNext]_mgvars PROVE MgPart2'
    BY DEF MgInv
  <1>0. round.pc # "idle" => Current \in round.left /\ Current \in Versions /\ \A v \in round.left : Current <= v
    BY LeastIsMin, MgAssumption DEF MgTypeOK, MgPart1, Current
  <1> USE MgAssumption DEF MgTypeOK, MgPart2, dbstate, txvars, None, NoRound, Return, Discard, Undo
  <1>1. CASE UNCHANGED mgvars
    BY <1>1 DEF mgvars
  <1>2. ASSUME NEW v \in Versions, MigrateAdd(v) PROVE MgPart2'
    BY <1>2 DEF MigrateAdd
  <1>3. ASSUME NEW failed \in BOOLEAN, NEW target \in Versions, MigrateApply(failed, target) PROVE MgPart2'
    BY <1>3 DEF MigrateApply
  <1>4. CASE BeginMigration
    BY <1>4 DEF BeginMigration
  <1>5. CASE NoConnection
    BY <1>5 DEF NoConnection
  <1>6. CASE RunMigration
    BY <1>0, <1>6 DEF RunMigration
  <1>7. CASE StampMigration
    BY <1>0, <1>7 DEF StampMigration
  <1>8. CASE StepFails
    BY <1>8 DEF StepFails
  <1> DEFINE rest == round.left \ {Current}
  <1>d. ASSUME round.pc = "commit"
        PROVE  /\ chosen \ rest = (chosen \ round.left) \cup {Current} /\ rest \subseteq chosen
               /\ \A u \in chosen \ rest, v \in rest : u < v
    BY <1>0, <1>d
  <1>e. ASSUME round.pc = "commit"
        PROVE  /\ done \cup lost \cup InTransaction = chosen \ rest
               /\ InTransaction \cap (done \cup lost) = {}
    <2>1. /\ done \cup lost \subseteq chosen \ round.left /\ stamps \cap (done \cup lost) = {}
          /\ (chosen \ round.left) \ (done \cup lost) \subseteq stamps /\ Current \in round.left
      BY <1>0, <1>e
    <2>2. chosen \ rest = (chosen \ round.left) \cup {Current}
      BY <1>d, <1>e
    <2>3. QED
      BY ONLY <2>1, <2>2 DEF InTransaction
  <1>9. CASE CommitMigration
    <2>1. done' = done \cup InTransaction /\ UNCHANGED <<chosen, lost>> /\ stamps' = {} /\ round.pc = "commit"
      BY <1>9 DEF CommitMigration
    <2>2. \A v \in done', u \in chosen' : u < v => u \in done' \cup lost'
      BY <1>d, <1>e, <2>1
    <2>3. round'.pc # "idle" => round'.left = rest
      BY <1>9 DEF CommitMigration, NextVersion
    <2>4. QED
      BY <1>d, <1>e, <2>1, <2>2, <2>3
  <1>10. CASE CommitMigrationFails
    <2>1. /\ UNCHANGED <<done, chosen>> /\ round.pc = "commit" /\ Current \in stamps
          /\ round'.pc # "idle" => round'.left = rest
      BY <1>10 DEF CommitMigrationFails, NextVersion, MgPart1
    <2>2. CASE UNCHANGED <<stamps, lost>>
      BY <1>0, <1>d, <2>1, <2>2
    <2>3. CASE stamps' = {} /\ lost' = lost \cup InTransaction
      <3>1. lost' \cup done = chosen \ rest /\ done \cap lost' = {}
        BY <1>e, <2>1, <2>3
      <3>2. QED
        BY <1>d, <2>1, <2>3, <3>1
    <2>4. QED
      BY <1>10, <2>2, <2>3 DEF CommitMigrationFails
  <1>11. CASE Crash
    BY <1>11 DEF Crash
  <1>12. QED
    BY <1>1, <1>2, <1>3, <1>4, <1>5, <1>6, <1>7, <1>8, <1>9, <1>10, <1>11 DEF MgNext

(* A migration is in the database with its stamp or not at all, and never
   without the smaller ones of its round but those a COMMIT of the round has
   rolled back (database.c, db_migrate_apply), for any set of versions. *)
THEOREM MigrationsAreWhole == MgSpec => []MigrationsWhole
  <1>1. MgInit => MgInv
    <2>1. ASSUME MgInit PROVE MgTypeOK
      BY <2>1 DEF MgInit, MgTypeOK, None, NoRound
    <2>2. ASSUME MgInit PROVE MgPart1
      BY <2>2 DEF MgInit, MgPart1, None, NoRound
    <2>3. ASSUME MgInit PROVE MgPart2
      BY <2>3 DEF MgInit, MgPart2, NoRound
    <2>4. QED
      BY <2>1, <2>2, <2>3 DEF MgInv
  <1>2. MgInv /\ [MgNext]_mgvars => MgInv'
    BY MgTypeStep, MgPart1Step, MgPart2Step DEF MgInv
  <1>3. MgInv => MigrationsWhole
    BY DEF MgInv, MgPart1, MgPart2, MigrationsWhole
  <1>4. QED
    BY <1>1, <1>2, <1>3, PTL DEF MgSpec

-----------------------------------------------------------------------------
(* MessageHandler: the messages that are being processed. *)
Processing == {c \in MhConns : mh[c].pc # "none"}

(* Whoever runs a handler that needs a user has one, and keeps it until the
   handler is done. *)
MhLogged ==
    /\ DOMAIN user_id = MhConns /\ DOMAIN mh = MhConns /\ 0 \notin group
    /\ \A c \in MhConns :
         /\ user_id[c] \in Members \cup {0}
         /\ mh[c] = [pc |-> mh[c].pc, type |-> mh[c].type, arg |-> mh[c].arg, sender |-> mh[c].sender, to |-> mh[c].to]
         /\ mh[c].type = "LOGIN" => mh[c].arg \in Members
         /\ mh[c].pc = "run" /\ mh[c].type # "LOGIN" => user_id[c] # 0
         /\ mh[c].pc = "insert" => user_id[c] # 0

(* What is counted, what is being processed and what was received. *)
MhCounted ==
    /\ stats \in [Counters -> Nat] /\ received \in Nat
    /\ stats["processed"] + stats["failed"] + stats["invalid"] + Cardinality(Processing) = received

MhInv == MhLogged /\ MhCounted

(* Only the connection itself changes its user, and not between the two sections. *)
LEMMA MhLoggedStep == MhLogged /\ [MhNext]_mhvars => MhLogged'
  <1> SUFFICES ASSUME MhLogged, [MhNext]_mhvars PROVE MhLogged'
    OBVIOUS
  <1> USE DEF MhLogged, At, Running, MyUser, Finish, Answer, NoMessage
  <1>1. CASE UNCHANGED mhvars
    BY <1>1 DEF mhvars
  <1>2. CASE \E type \in Types : RegisterHandler(type) \/ UnregisterHandler(type)
    BY <1>2 DEF RegisterHandler, UnregisterHandler
  <1>3. ASSUME NEW c \in MhConns, NEW type, NEW arg, NEW sender, type = "LOGIN" => arg \in Members,
               Receive(c, type, arg, sender)
        PROVE  MhLogged'
    <2>1. CASE type \in handlers
      <3>1. /\ mh' = [mh EXCEPT ![c] = [pc |-> "found", type |-> type, arg |-> arg, sender |-> sender, to |-> {}]]
            /\ UNCHANGED <<user_id, group>>
        BY <1>3, <2>1 DEF Receive
      <3>2. QED
        BY <1>3, <3>1
    <2>2. CASE type \notin handlers
      BY <1>3, <2>2 DEF Receive
    <2>3. QED
      BY <2>1, <2>2
  <1>4. ASSUME NEW c \in MhConns, UseFreedHandler(c) \/ RefuseInvalid(c) PROVE MhLogged'
    BY <1>4 DEF UseFreedHandler, RefuseInvalid
  <1>5. ASSUME NEW c \in MhConns, Validate(c) PROVE MhLogged'
    BY <1>5 DEF Validate, Permitted, NeedsAuth
  <1>6. ASSUME NEW c \in MhConns, LoginUser(c) PROVE MhLogged'
    BY <1>6 DEF LoginUser
  <1>7. ASSUME NEW c \in MhConns, LoginStatus(c) \/ LoginRefused(c) PROVE MhLogged'
    BY <1>7 DEF LoginStatus, LoginRefused
  <1>8. ASSUME NEW c \in MhConns, LogoutUser(c) PROVE MhLogged'
    BY <1>8 DEF LogoutUser
  <1>9. ASSUME NEW c \in MhConns, UpdateStatus(c) PROVE MhLogged'
    BY <1>9 DEF UpdateStatus
  <1>10. ASSUME NEW c \in MhConns, NEW junk \in Members, SendText(c, junk) PROVE MhLogged'
    BY <1>10 DEF SendText
  <1>11. ASSUME NEW c \in MhConns, SendNotification(c) PROVE MhLogged'
    <2>1. PICK ds : mh' = [mh EXCEPT ![c].pc = "deliver", ![c].to = ds]
      BY <1>11, Zenon DEF SendNotification
    <2>2. UNCHANGED <<user_id, group>>
      BY <1>11 DEF SendNotification
    <2>3. PICK r : r = [mh[c] EXCEPT !.pc = "deliver"]
      OBVIOUS
    <2>4. r = [pc |-> "deliver", type |-> mh[c].type, arg |-> mh[c].arg, sender |-> mh[c].sender, to |-> mh[c].to]
      BY <2>3
    <2>5. [r EXCEPT !.to = ds] =
            [pc |-> "deliver", type |-> mh[c].type, arg |-> mh[c].arg, sender |-> mh[c].sender, to |-> ds]
      BY ONLY <2>4
    <2>6. mh' = [mh EXCEPT ![c] = [r EXCEPT !.to = ds]]
      BY <2>1, <2>3
    <2>7. QED
      BY <2>2, <2>5, <2>6
  <1>12. ASSUME NEW c \in MhConns, NEW d \in MhConns, DeliverTo(c, d) PROVE MhLogged'
    <2>1. mh' = [mh EXCEPT ![c].to = mh[c].to \ {d}] /\ UNCHANGED <<user_id, group>>
      BY <1>12 DEF DeliverTo
    <2>2. PICK r : r = [mh[c] EXCEPT !.to = mh[c].to \ {d}]
      OBVIOUS
    <2>3. r = [pc |-> mh[c].pc, type |-> mh[c].type, arg |-> mh[c].arg, sender |-> mh[c].sender,
               to |-> mh[c].to \ {d}]
      BY <2>2
    <2>4. DOMAIN mh' = MhConns /\ mh'[c] = r /\ \A e \in MhConns \ {c} : mh'[e] = mh[e]
      BY <2>1, <2>2
    <2>5. /\ r = [pc |-> r.pc, type |-> r.type, arg |-> r.arg, sender |-> r.sender, to |-> r.to]
          /\ r.pc = mh[c].pc /\ r.type = mh[c].type /\ r.arg = mh[c].arg
      BY <2>3
    <2>6. QED
      BY <2>1, <2>4, <2>5
  <1>13. ASSUME NEW c \in MhConns, Delivered(c) PROVE MhLogged'
    <2>1. mh' = [mh EXCEPT ![c] = NoMessage] /\ UNCHANGED <<user_id, group>>
      BY <1>13 DEF Delivered
    <2>2. QED
      BY <2>1
  <1>14. ASSUME NEW c \in MhConns, Join(c) PROVE MhLogged'
    BY <1>14 DEF Join
  <1>15. ASSUME NEW c \in MhConns, JoinInsert(c) \/ Leave(c) PROVE MhLogged'
    BY <1>15 DEF JoinInsert, Leave
  <1>16. QED
    BY <1>1, <1>2, <1>3, <1>4, <1>5, <1>6, <1>7, <1>8, <1>9, <1>10, <1>11, <1>12, <1>13, <1>14, <1>15
       DEF MhNext, Arrives, Process, Types

(* A message that is done with is counted. *)
LEMMA MhFinishes ==
    ASSUME MhLogged, MhCounted, NEW c \in MhConns, mh[c].pc # "none", NEW k \in Counters, Finish(c, k), UNCHANGED received
    PROVE  MhCounted'
  <1>1. Processing' = Processing \ {c} /\ c \in Processing
    BY DEF Processing, Finish, NoMessage, MhLogged
  <1>2. IsFiniteSet(Processing)
    BY MhAssumption, FS_Subset DEF Processing
  <1>3. Cardinality(Processing') = Cardinality(Processing) - 1 /\ Cardinality(Processing) \in Nat
    BY <1>1, <1>2, FS_RemoveElement, FS_CardinalityType
  <1>4. QED
    BY <1>3 DEF MhCounted, Finish, Counters

(* Every step counts what it ends. *)
LEMMA MhCountedStep == MhInv /\ [MhNext]_mhvars => MhCounted'
  <1> SUFFICES ASSUME MhLogged, MhCounted, [MhNext]_mhvars PROVE MhCounted'
    BY DEF MhInv
  <1>q. ASSUME UNCHANGED <<stats, received>>, \A c \in MhConns : mh'[c].pc = "none" <=> mh[c].pc = "none"
        PROVE  MhCounted'
    <2>1. Processing' = Processing
      BY <1>q DEF Processing
    <2>2. QED
      BY <1>q, <2>1 DEF MhCounted
  <1>f. ASSUME NEW c \in MhConns, mh[c].pc # "none", Answer(c) \/ Finish(c, "failed") \/ Finish(c, "invalid"), UNCHANGED received
        PROVE  MhCounted'
    BY <1>f, MhFinishes DEF Answer, Counters
  <1> USE DEF MhLogged, At, Running, MyUser
  <1>1. CASE UNCHANGED mhvars
    BY <1>1, <1>q DEF mhvars
  <1>2. CASE \E type \in Types : RegisterHandler(type) \/ UnregisterHandler(type)
    BY <1>2, <1>q DEF RegisterHandler, UnregisterHandler
  <1>3. ASSUME NEW c \in MhConns, NEW type, NEW arg, NEW sender, Receive(c, type, arg, sender)
        PROVE  MhCounted'
    <2>0. received' = received + 1 /\ mh[c].pc = "none" /\ c \notin Processing /\ IsFiniteSet(Processing)
      BY <1>3, MhAssumption, FS_Subset DEF Receive, Processing
    <2>1. CASE type \in handlers
      <3>1. mh' = [mh EXCEPT ![c] = [pc |-> "found", type |-> type, arg |-> arg, sender |-> sender, to |-> {}]]
            /\ UNCHANGED stats
        BY <1>3, <2>1 DEF Receive, NoMessage
      <3>2. Processing' = Processing \cup {c}
        BY <3>1 DEF Processing
      <3>3. Cardinality(Processing') = Cardinality(Processing) + 1 /\ Cardinality(Processing) \in Nat
        BY <2>0, <3>2, FS_AddElement, FS_CardinalityType
      <3>4. QED
        BY <2>0, <3>1, <3>3 DEF MhCounted, Counters
    <2>2. CASE type \notin handlers
      <3>1. Processing' = Processing /\ Cardinality(Processing) \in Nat
        BY <1>3, <2>0, <2>2, FS_CardinalityType DEF Receive, Finish, NoMessage, Processing
      <3>2. stats' = [stats EXCEPT !["failed"] = @ + 1]
        BY <1>3, <2>2 DEF Receive, Finish
      <3>3. QED
        BY <2>0, <3>1, <3>2 DEF MhCounted, Counters
    <2>3. QED
      BY <2>1, <2>2
  <1>4. ASSUME NEW c \in MhConns, UseFreedHandler(c) \/ RefuseInvalid(c) PROVE MhCounted'
    BY <1>4, <1>f, <1>q DEF UseFreedHandler, RefuseInvalid
  <1>5. ASSUME NEW c \in MhConns, Validate(c) PROVE MhCounted'
    BY <1>5, <1>f, <1>q DEF Validate
  <1>6. ASSUME NEW c \in MhConns, LoginUser(c) PROVE MhCounted'
    BY <1>6, <1>q DEF LoginUser
  <1>7. ASSUME NEW c \in MhConns, LoginStatus(c) \/ LoginRefused(c) \/ LogoutUser(c) \/ UpdateStatus(c) PROVE MhCounted'
    BY <1>7, <1>f DEF LoginStatus, LoginRefused, LogoutUser, UpdateStatus
  <1>10. ASSUME NEW c \in MhConns, NEW junk \in Members, SendText(c, junk) PROVE MhCounted'
    <2>1. CASE Finish(c, "failed")
      BY <1>10, <1>f, <2>1 DEF SendText
    <2>2. CASE UNCHANGED <<mh, stats>>
      BY <1>10, <1>q, <2>2 DEF SendText
    <2>3. CASE UNCHANGED stats /\ \E ds : mh' = [mh EXCEPT ![c].pc = "deliver", ![c].to = ds]
      BY <1>10, <1>q, <2>3 DEF SendText
    <2>4. QED
      BY <1>10, <2>1, <2>2, <2>3, Zenon DEF SendText
  <1>11. ASSUME NEW c \in MhConns, SendNotification(c) PROVE MhCounted'
    BY <1>11, <1>q DEF SendNotification
  <1>12. ASSUME NEW c \in MhConns, NEW d \in MhConns, DeliverTo(c, d) PROVE MhCounted'
    BY <1>12, <1>q DEF DeliverTo
  <1>13. ASSUME NEW c \in MhConns, Delivered(c) \/ JoinInsert(c) \/ Leave(c) PROVE MhCounted'
    BY <1>13, <1>f DEF Delivered, JoinInsert, Leave
  <1>14. ASSUME NEW c \in MhConns, Join(c) PROVE MhCounted'
    BY <1>14, <1>f, <1>q DEF Join
  <1>15. QED
    BY <1>1, <1>2, <1>3, <1>4, <1>5, <1>6, <1>7, <1>10, <1>11, <1>12, <1>13, <1>14 DEF MhNext, Arrives,
       Process, Types

(* Every message is counted once, and nobody who is not logged in becomes a
   member (message_handler.c, message_handler_process and
   handle_chat_group_join), for any users and connections. *)
THEOREM MessagesAreAccounted == MhSpec => []MessagesAccounted
  <1>1. MhInit => MhInv
    <2>1. ASSUME MhInit PROVE MhLogged
      BY <2>1 DEF MhInit, MhLogged, NoMessage
    <2>2. ASSUME MhInit PROVE MhCounted
      <3>1. Processing = {} /\ Cardinality({}) = 0
        BY <2>2, FS_EmptySet DEF MhInit, Processing, NoMessage
      <3>2. QED
        BY <2>2, <3>1 DEF MhInit, MhCounted, Counters
    <2>3. QED
      BY <2>1, <2>2 DEF MhInv
  <1>2. MhInv /\ [MhNext]_mhvars => MhInv'
    BY MhLoggedStep, MhCountedStep DEF MhInv
  <1>3. MhInv => MessagesAccounted
    BY DEF MhInv, MhLogged, MhCounted, Processing, MessagesAccounted
  <1>4. QED
    BY <1>1, <1>2, <1>3, PTL DEF MhSpec

-----------------------------------------------------------------------------
(* DbPool: the connections.  Where a thread holds one: *)
HasSlot == {"held", "batch", "migrate", "migrated", "backup", "release"}
OpenSlots == {i \in DbSlots : open[i]}

(* A slot in use has one holder, and a holder has a slot. *)
DbHolders ==
    /\ DOMAIN open = DbSlots /\ DOMAIN in_use = DbSlots
    /\ DOMAIN dpc = DbThreads /\ dslot \in [DbThreads -> DbSlots \cup {0}]
    /\ \A t \in DbThreads : dslot[t] # 0 <=> dpc[t] \in HasSlot
    /\ \A s, t \in DbThreads : s # t /\ dslot[s] # 0 => dslot[s] # dslot[t]
    /\ \A i \in DbSlots : in_use[i] <=> \E t \in DbThreads : dslot[t] = i

(* active_count is the number of open connections. *)
DbOpened == active_count = Cardinality(OpenSlots)

(* No release is lost while a thread sleeps. *)
DbWoken == Asleep # {} => Cardinality(FreeSlots) <= Cardinality(Woken)

DbPoolInv == DbHolders /\ DbOpened /\ DbWoken

(* 0 is no slot. *)
LEMMA SlotNotZero == \A i \in DbSlots : i # 0
  BY DbAssumption DEF DbSlots

(* The sets that are counted are finite. *)
LEMMA DbFinite ==
    /\ IsFiniteSet(DbSlots) /\ IsFiniteSet(FreeSlots) /\ IsFiniteSet(OpenSlots)
    /\ IsFiniteSet(Woken) /\ IsFiniteSet(Asleep)
  <1>1. IsFiniteSet(DbSlots)
    BY DbAssumption, FS_Interval DEF DbSlots
  <1>2. QED
    BY <1>1, DbAssumption, FS_Subset DEF FreeSlots, OpenSlots, Woken, Asleep

(* A thread that has a connection goes on with it. *)
LEMMA DbGoesOn ==
    ASSUME DbPoolInv, NEW t \in DbThreads, dpc[t] \in HasSlot,
           \E pc \in HasSlot : dpc' = [dpc EXCEPT ![t] = pc],
           UNCHANGED <<open, in_use, active_count, dslot>>
    PROVE  DbPoolInv'
  <1>1. DbHolders'
    BY DEF DbPoolInv, DbHolders
  <1>2. UNCHANGED <<Asleep, Woken, FreeSlots, OpenSlots>>
    BY DEF DbPoolInv, DbHolders, HasSlot, Asleep, Woken, FreeSlots, OpenSlots
  <1>3. QED
    BY <1>1, <1>2 DEF DbPoolInv, DbOpened, DbWoken

(* The first free slot is taken: one slot less, and one woken thread less if it was one. *)
LEMMA DbTakes ==
    ASSUME DbPoolInv, NEW t \in DbThreads, Take(t), dpc[t] \in {"idle", "woken"}
    PROVE  DbPoolInv'
  <1>1. PICK i \in FreeSlots :
          /\ in_use' = [in_use EXCEPT ![i] = TRUE]
          /\ open' = [open EXCEPT ![i] = TRUE]
          /\ active_count' = IF open[i] THEN active_count ELSE active_count + 1
          /\ dslot' = [dslot EXCEPT ![t] = i]
          /\ dpc' = [dpc EXCEPT ![t] = "held"]
    BY DEF Take
  <1>2. i \in DbSlots /\ i # 0 /\ ~in_use[i]
    BY DbAssumption DEF FreeSlots, DbSlots
  <1>3. DbHolders'
    <2>1. DOMAIN open' = DbSlots /\ DOMAIN in_use' = DbSlots /\ DOMAIN dpc' = DbThreads
      BY <1>1, <1>2 DEF DbPoolInv, DbHolders
    <2>2. dslot' \in [DbThreads -> DbSlots \cup {0}]
      BY <1>1, <1>2 DEF DbPoolInv, DbHolders
    <2>3. \A s \in DbThreads : dslot'[s] # 0 <=> dpc'[s] \in HasSlot
      BY <1>1, <1>2 DEF DbPoolInv, DbHolders, HasSlot
    <2>4. \A r, s \in DbThreads : r # s /\ dslot'[r] # 0 => dslot'[r] # dslot'[s]
      BY <1>1, <1>2 DEF DbPoolInv, DbHolders
    <2>5. \A j \in DbSlots : in_use'[j] <=> \E s \in DbThreads : dslot'[s] = j
      <3>1. dslot[t] = 0
        BY DEF DbPoolInv, DbHolders, HasSlot
      <3>2. ASSUME NEW j \in DbSlots, j # i
            PROVE  in_use'[j] <=> \E s \in DbThreads : dslot'[s] = j
        BY <1>1, <1>2, <3>1, <3>2, SlotNotZero DEF DbPoolInv, DbHolders
      <3>3. in_use'[i] /\ dslot'[t] = i
        BY <1>1, <1>2 DEF DbPoolInv, DbHolders
      <3>4. QED
        BY <3>2, <3>3
    <2>6. QED
      BY <2>1, <2>2, <2>3, <2>4, <2>5 DEF DbHolders
  <1>4. DbOpened'
    <2>1. CASE open[i]
      <3>1. OpenSlots' = OpenSlots /\ active_count' = active_count
        BY <1>1, <1>2, <2>1 DEF OpenSlots, DbPoolInv, DbHolders
      <3>2. QED
        BY <3>1 DEF DbPoolInv, DbOpened
    <2>2. CASE ~open[i]
      <3>1. OpenSlots' = OpenSlots \cup {i} /\ i \notin OpenSlots /\ active_count' = active_count + 1
        BY <1>1, <1>2, <2>2 DEF OpenSlots, DbPoolInv, DbHolders
      <3>2. QED
        BY <3>1, DbFinite, FS_AddElement DEF DbPoolInv, DbOpened
    <2>3. QED
      BY <2>1, <2>2
  <1>5. DbWoken'
    <2>1. FreeSlots' = FreeSlots \ {i} /\ Asleep' = Asleep
      BY <1>1, <1>2 DEF FreeSlots, Asleep, DbPoolInv, DbHolders
    <2>2. Cardinality(FreeSlots') = Cardinality(FreeSlots) - 1 /\ Cardinality(FreeSlots) \in Nat /\ Cardinality(Woken) \in Nat
      BY <1>1, <2>1, DbFinite, FS_RemoveElement, FS_CardinalityType
    <2>3. CASE dpc[t] = "woken"
      <3>1. Woken' = Woken \ {t} /\ t \in Woken
        BY <1>1, <2>3 DEF Woken, DbPoolInv, DbHolders
      <3>2. Cardinality(Woken') = Cardinality(Woken) - 1
        BY <3>1, DbFinite, FS_RemoveElement
      <3>3. QED
        BY <2>1, <2>2, <3>2 DEF DbWoken, DbPoolInv
    <2>4. CASE dpc[t] = "idle"
      <3>1. Woken' = Woken
        BY <1>1, <2>4 DEF Woken, DbPoolInv, DbHolders
      <3>2. QED
        BY <2>1, <2>2, <3>1 DEF DbWoken, DbPoolInv
    <2>5. QED
      BY <2>3, <2>4
  <1>6. QED
    BY <1>3, <1>4, <1>5 DEF DbPoolInv

(* A slot comes back: one more, and one more woken thread if any sleeps. *)
LEMMA DbReleases ==
    ASSUME DbPoolInv, NEW t \in DbThreads, Release(t)
    PROVE  DbPoolInv'
  <1>1. PICK i \in DbSlots : /\ i = dslot[t] /\ i # 0 /\ in_use[i]
                             /\ in_use' = [in_use EXCEPT ![i] = FALSE]
    <2>1. dslot[t] \in DbSlots /\ in_use' = [in_use EXCEPT ![dslot[t]] = FALSE]
      BY DEF Release, DbPoolInv, DbHolders, HasSlot
    <2>2. in_use[dslot[t]]
      BY <2>1 DEF DbPoolInv, DbHolders
    <2>3. QED
      BY <2>1, <2>2, SlotNotZero
  <1>2. dpc[t] = "release" /\ dslot' = [dslot EXCEPT ![t] = 0] /\ UNCHANGED <<open, active_count>>
    BY DEF Release
  <1>3. OpenSlots' = OpenSlots
    BY <1>2 DEF OpenSlots
  <1>4. FreeSlots' = FreeSlots \cup {i} /\ i \notin FreeSlots
    BY <1>1 DEF FreeSlots, DbPoolInv, DbHolders
  <1>5. Cardinality(FreeSlots') = Cardinality(FreeSlots) + 1 /\ Cardinality(FreeSlots) \in Nat /\ Cardinality(Woken) \in Nat
    BY <1>4, DbFinite, FS_AddElement, FS_CardinalityType
  <1>6. CASE Asleep = {}
    <2>1. dpc' = [dpc EXCEPT ![t] = "idle"]
      BY <1>6 DEF Release
    <2>2. DbHolders'
      <3>1. DOMAIN open' = DbSlots /\ DOMAIN in_use' = DbSlots /\ DOMAIN dpc' = DbThreads
        BY <1>1, <1>2, <2>1 DEF DbPoolInv, DbHolders
      <3>2. dslot' \in [DbThreads -> DbSlots \cup {0}]
        BY <1>1, <1>2, <2>1 DEF DbPoolInv, DbHolders
      <3>3. \A s \in DbThreads : dslot'[s] # 0 <=> dpc'[s] \in HasSlot
        BY <1>1, <1>2, <2>1 DEF DbPoolInv, DbHolders, HasSlot
      <3>4. \A r, s \in DbThreads : r # s /\ dslot'[r] # 0 => dslot'[r] # dslot'[s]
        BY <1>1, <1>2, <2>1 DEF DbPoolInv, DbHolders
      <3>5. \A j \in DbSlots : in_use'[j] <=> \E s \in DbThreads : dslot'[s] = j
        BY <1>1, <1>2, <2>1, SlotNotZero DEF DbPoolInv, DbHolders
      <3>6. QED
        BY <3>1, <3>2, <3>3, <3>4, <3>5 DEF DbHolders
    <2>3. Asleep' = {}
      BY <1>6, <2>1 DEF Asleep, DbPoolInv, DbHolders
    <2>4. QED
      BY <1>2, <1>3, <2>2, <2>3 DEF DbPoolInv, DbOpened, DbWoken
  <1>7. CASE Asleep # {}
    <2>1. PICK w \in Asleep : dpc' = [dpc EXCEPT ![t] = "idle", ![w] = "woken"]
      BY <1>7 DEF Release
    <2>2. w \in DbThreads /\ w # t /\ dpc[w] = "asleep"
      BY <1>2, <2>1 DEF Asleep
    <2>3. DbHolders'
      BY <1>1, <1>2, <2>1, <2>2 DEF DbPoolInv, DbHolders, HasSlot
    <2>4. Woken' = Woken \cup {w} /\ w \notin Woken
      BY <1>2, <2>1, <2>2 DEF Woken, DbPoolInv, DbHolders
    <2>5. Cardinality(Woken') = Cardinality(Woken) + 1
      BY <2>4, DbFinite, FS_AddElement
    <2>6. DbWoken'
      BY <1>5, <1>7, <2>5 DEF DbPoolInv, DbWoken
    <2>7. QED
      BY <1>2, <1>3, <2>3, <2>6 DEF DbPoolInv, DbOpened
  <1>8. QED
    BY <1>6, <1>7

(* The pool starts empty. *)
LEMMA DbPoolInit == DbInit => DbPoolInv
  <1> SUFFICES ASSUME DbInit PROVE DbPoolInv
    OBVIOUS
  <1>1. DbHolders
    BY DbAssumption DEF DbInit, DbHolders, HasSlot, DbSlots
  <1>2. OpenSlots = {} /\ Asleep = {}
    BY DEF DbInit, OpenSlots, Asleep
  <1>3. QED
    BY <1>1, <1>2, FS_EmptySet DEF DbInit, DbPoolInv, DbOpened, DbWoken

(* Every step keeps the pool consistent. *)
LEMMA DbPoolStep == DbPoolInv /\ [DbNext]_dbvars => DbPoolInv'
  <1> SUFFICES ASSUME DbPoolInv, [DbNext]_dbvars PROVE DbPoolInv'
    OBVIOUS
  <1>0. Cardinality(FreeSlots) \in Nat /\ Cardinality(Woken) \in Nat /\ Cardinality({}) = 0
    BY DbFinite, FS_CardinalityType, FS_EmptySet
  <1>1. CASE UNCHANGED dbvars
    BY <1>1 DEF dbvars, DbPoolInv, DbHolders, DbOpened, DbWoken, OpenSlots, FreeSlots, Asleep, Woken
  <1>2. CASE CloseAll
    <2>1. DbHolders'
      BY <1>2, SlotNotZero DEF CloseAll, DbPoolInv, DbHolders, HasSlot
    <2>2. OpenSlots' = {} /\ active_count' = 0
      BY <1>2 DEF CloseAll, OpenSlots
    <2>3. Asleep' = {}
      BY <1>2 DEF CloseAll, Asleep
    <2>4. QED
      BY <1>0, <2>1, <2>2, <2>3 DEF DbPoolInv, DbOpened, DbWoken
  <1>3. ASSUME NEW t \in DbThreads, Get(t) PROVE DbPoolInv'
    BY <1>3, DbTakes DEF Get
  <1>4. ASSUME NEW t \in DbThreads, GetWaits(t) PROVE DbPoolInv'
    <2>1. DbHolders'
      BY <1>4 DEF GetWaits, DbPoolInv, DbHolders, HasSlot
    <2>2. FreeSlots' = {} /\ OpenSlots' = OpenSlots /\ UNCHANGED active_count
      BY <1>4 DEF GetWaits, FreeSlots, OpenSlots
    <2>3. Woken' = Woken
      BY <1>4 DEF GetWaits, Woken, DbPoolInv, DbHolders
    <2>4. QED
      BY <1>0, <2>1, <2>2, <2>3 DEF DbPoolInv, DbOpened, DbWoken
  <1>5. ASSUME NEW t \in DbThreads, WaitEnds(t) PROVE DbPoolInv'
    <2>1. DbHolders'
      BY <1>5 DEF WaitEnds, DbPoolInv, DbHolders, HasSlot
    <2>2. FreeSlots' = FreeSlots /\ OpenSlots' = OpenSlots /\ UNCHANGED active_count /\ Asleep # {}
      BY <1>5 DEF WaitEnds, FreeSlots, OpenSlots, Asleep
    <2>3. Woken \subseteq Woken' /\ Woken' \subseteq Woken \cup {t}
      BY <1>5 DEF WaitEnds, Woken, DbPoolInv, DbHolders
    <2>4. Cardinality(Woken) <= Cardinality(Woken') /\ Cardinality(Woken') \in Nat
      <3>1. IsFiniteSet(Woken')
        BY <2>3, DbFinite, FS_AddElement, FS_Subset
      <3>2. QED
        BY <2>3, <3>1, FS_Subset, FS_CardinalityType
    <2>5. QED
      BY <1>0, <2>1, <2>2, <2>4 DEF DbPoolInv, DbOpened, DbWoken
  <1>6. ASSUME NEW t \in DbThreads, GetAgain(t) PROVE DbPoolInv'
    <2>1. CASE Take(t)
      BY <1>6, <2>1, DbTakes DEF GetAgain
    <2>2. CASE FreeSlots = {} /\ dpc' = [dpc EXCEPT ![t] = "idle"] /\ UNCHANGED <<open, in_use, active_count, dslot>>
      <3>1. DbHolders'
        BY <1>6, <2>2 DEF GetAgain, DbPoolInv, DbHolders, HasSlot
      <3>2. FreeSlots' = {} /\ OpenSlots' = OpenSlots
        BY <2>2 DEF FreeSlots, OpenSlots
      <3>3. Cardinality(Woken') \in Nat
        <4>1. Woken' \subseteq Woken
          BY <2>2 DEF Woken, DbPoolInv, DbHolders
        <4>2. QED
          BY <4>1, DbFinite, FS_Subset, FS_CardinalityType
      <3>4. QED
        BY <1>0, <2>2, <3>1, <3>2, <3>3 DEF DbPoolInv, DbOpened, DbWoken
    <2>3. QED
      BY <1>6, <2>1, <2>2 DEF GetAgain
  <1>7. ASSUME NEW t \in DbThreads, Release(t) PROVE DbPoolInv'
    BY <1>7, DbReleases
  <1>8. ASSUME NEW t \in DbThreads, Execute(t) \/ StatementFails(t) \/ BackupBegins(t) \/ BackupEnds(t)
        PROVE DbPoolInv'
    BY <1>8, DbGoesOn DEF Execute, StatementFails, BackupBegins, BackupEnds, Done, HasSlot
  <1>13. ASSUME NEW t \in DbThreads, MigrationBegins(t) \/ MigrationRuns(t) \/ MigrationFails(t)
         PROVE  DbPoolInv'
    BY <1>13, DbGoesOn DEF MigrationBegins, MigrationRuns, MigrationFails, Done, HasSlot
  <1>14. ASSUME NEW t \in DbThreads, MigrationCommits(t) \/ MigrationCommitFails(t) PROVE DbPoolInv'
    BY <1>14, DbGoesOn DEF MigrationCommits, MigrationCommitFails, Done, HasSlot
  <1>9. ASSUME NEW t \in DbThreads, BatchBegins(t) PROVE DbPoolInv'
    BY <1>9, DbGoesOn DEF BatchBegins, Done, HasSlot
  <1>10. ASSUME NEW t \in DbThreads, BatchRow(t) PROVE DbPoolInv'
    BY <1>10 DEF BatchRow, DbPoolInv, DbHolders, DbOpened, DbWoken, OpenSlots, FreeSlots, Asleep, Woken
  <1>11. ASSUME NEW t \in DbThreads, BatchRowFails(t) \/ BatchCommits(t) \/ CommitFails(t)
         PROVE DbPoolInv'
    BY <1>11, DbGoesOn DEF BatchRowFails, BatchCommits, CommitFails, Done, HasSlot
  <1>12. QED
    BY <1>1, <1>2, <1>3, <1>4, <1>5, <1>6, <1>7, <1>8, <1>9, <1>10, <1>11, <1>13, <1>14 DEF DbNext

(* Connections have one holder each and no release is lost (database.c,
   db_get_connection and db_release_connection), for any number of threads
   and connections. *)
THEOREM ConnectionsAreShared == DbSpec => []ConnectionsShared
  <1>1. DbPoolInv => ConnectionsShared
    <2> SUFFICES ASSUME DbPoolInv PROVE ConnectionsShared
      OBVIOUS
    <2>1. ASSUME NEW i \in DbSlots
          PROVE  in_use[i] <=> Cardinality({t \in DbThreads : dslot[t] = i}) = 1
      <3>0. i # 0
        BY DbAssumption DEF DbSlots
      <3>1. CASE in_use[i]
        <4>1. PICK t \in DbThreads : dslot[t] = i
          BY <3>1 DEF DbPoolInv, DbHolders
        <4>2. {s \in DbThreads : dslot[s] = i} = {t}
          BY <3>0, <4>1 DEF DbPoolInv, DbHolders
        <4>3. QED
          BY <3>1, <4>2, FS_Singleton
      <3>2. CASE ~in_use[i]
        <4>1. {s \in DbThreads : dslot[s] = i} = {}
          BY <3>2 DEF DbPoolInv, DbHolders
        <4>2. QED
          BY <3>2, <4>1, FS_EmptySet
      <3>3. QED
        BY <3>1, <3>2
    <2>2. \A s, t \in DbThreads : s # t /\ dslot[s] # 0 => dslot[s] # dslot[t]
      BY DEF DbPoolInv, DbHolders
    <2>3. active_count = Cardinality({i \in DbSlots : open[i]})
      BY DEF DbPoolInv, DbOpened, OpenSlots
    <2>4. QED
      BY <2>1, <2>2, <2>3 DEF ConnectionsShared, DbPoolInv, DbWoken
  <1>2. QED
    BY <1>1, DbPoolInit, DbPoolStep, PTL DEF DbSpec

(* A batch that runs has the transaction of its connection to itself; without
   a transaction there are no rows that are not committed. *)
Transactions ==
    /\ DOMAIN tx = DbSlots /\ DOMAIN pending = DbSlots
    /\ calls \in Nat /\ dcall \in [DbThreads -> [n : Nat, rows : Nat]]
    /\ \A i \in DbSlots : ~tx[i] => pending[i] = {}
    /\ \A t \in DbThreads : dpc[t] = "batch" =>
         tx[dslot[t]] /\ pending[dslot[t]] = RowsOf(dcall[t].n, dcall[t].rows)
    /\ \A t \in DbThreads : dpc[t] \in {"migrate", "migrated"} => tx[dslot[t]] /\ dcall[t].n <= calls

(* What waits in the transaction of a connection: whole batches, but for one
   that is running, and rows of single statements. *)
Running1(i) == \E t \in DbThreads : dpc[t] = "batch" /\ dslot[t] = i
Waits(P) ==
    \A k \in Nat, j \in 1..BatchRows : <<k, j>> \in P => RowsOf(k, BatchRows) \subseteq P
Left ==
    \A i \in DbSlots :
      /\ \A x \in pending[i] : \E k \in Nat, j \in Nat : x = <<k, j>> /\ (j = 0 => k <= calls)
      /\ ~Running1(i) => Waits(pending[i])

(* What is in the database, and what the callers were told. *)
Database ==
    /\ \A r \in astray : \E k \in 1..calls : r = <<k, 0>>
    /\ \A r \in committed : \E k \in Nat, j \in Nat : r = <<k, j>> /\ (j = 0 => k <= calls)
    /\ \A k \in Nat, j \in 1..BatchRows :
         <<k, j>> \in committed =>
           /\ RowsOf(k, BatchRows) \subseteq committed
           /\ RowsOf(k, BatchRows) \subseteq acked \/ RowsOf(k, BatchRows) \subseteq adopted
    /\ acked \ astray \subseteq committed
    /\ committed \cap astray \subseteq adopted

(* A migration's own row has a number of its own. *)
Migrating(t) == dpc[t] \in {"migrate", "migrated"}
Fresh ==
    /\ \A r \in astray : \E k \in Nat : r = <<k, 0>> /\ k <= calls
    /\ \A t \in DbThreads : Migrating(t) => <<dcall[t].n, 0>> \notin astray /\ dcall[t].n <= calls

BatchInv == DbHolders /\ Transactions /\ Left /\ Fresh /\ Database

(* Every step keeps transactions apart. *)
LEMMA TransactionsStep == DbHolders /\ Transactions /\ [DbNext]_dbvars => Transactions'
  <1> SUFFICES ASSUME DbHolders, Transactions, [DbNext]_dbvars PROVE Transactions'
    OBVIOUS
  <1>s. \A t \in DbThreads : dpc[t] \in HasSlot => dslot[t] \in DbSlots
    BY DEF DbHolders
  <1>u. \A s, t \in DbThreads : s # t /\ dpc[t] \in HasSlot => dslot[s] # dslot[t]
    BY DEF DbHolders
  <1>d. DOMAIN dpc = DbThreads /\ DOMAIN dslot = DbThreads
    BY DEF DbHolders
  <1> USE DEF Transactions, sqlvars
  <1>1. CASE UNCHANGED dbvars
    BY <1>1 DEF dbvars
  <1>2. CASE CloseAll
    BY <1>2 DEF CloseAll
  <1>3. ASSUME NEW t \in DbThreads, dpc[t] \in {"idle", "woken"}, Take(t), UNCHANGED <<dcall, calls, sqlvars>>
        PROVE  Transactions'
    BY <1>3, <1>d DEF Take
  <1>4. ASSUME NEW t \in DbThreads, GetWaits(t) \/ WaitEnds(t) PROVE Transactions'
    BY <1>4, <1>d DEF GetWaits, WaitEnds
  <1>5. ASSUME NEW t \in DbThreads, Get(t) PROVE Transactions'
    BY <1>3, <1>5 DEF Get
  <1>6. ASSUME NEW t \in DbThreads, GetAgain(t) PROVE Transactions'
    BY <1>3, <1>6, <1>d DEF GetAgain
  <1>7. ASSUME NEW t \in DbThreads, Release(t) PROVE Transactions'
    BY <1>7, <1>d DEF Release, NoCall, Asleep
  <1>8. ASSUME NEW t \in DbThreads, Execute(t) PROVE Transactions'
    BY <1>8, <1>d, <1>s, <1>u DEF Execute, Stepped, Conn, Done, HasSlot
  <1>9. ASSUME NEW t \in DbThreads, BackupBegins(t) \/ BackupEnds(t) PROVE  Transactions'
    BY <1>9, <1>d DEF BackupBegins, BackupEnds, Done
  <1>15. ASSUME NEW t \in DbThreads, dpc[t] \in HasSlot, dpc' = [dpc EXCEPT ![t] = "release"],
                UNCHANGED <<dslot, dcall, calls>>, UNCHANGED <<tx, pending>> \/ EndTransaction(dslot[t])
         PROVE  Transactions'
    BY <1>15, <1>d, <1>s, <1>u DEF EndTransaction, HasSlot
  <1>16. ASSUME NEW t \in DbThreads, StatementFails(t) \/ CommitFails(t) \/ MigrationFails(t) PROVE Transactions'
    BY <1>15, <1>16 DEF StatementFails, CommitFails, MigrationFails, Done, Conn, HasSlot
  <1>17. ASSUME NEW t \in DbThreads, MigrationCommits(t) \/ MigrationCommitFails(t) PROVE Transactions'
    BY <1>15, <1>17 DEF MigrationCommits, MigrationCommitFails, Done, Conn, HasSlot
  <1>18. ASSUME NEW t \in DbThreads, MigrationBegins(t) PROVE Transactions'
    BY <1>18, <1>d, <1>s, <1>u DEF MigrationBegins, NewCall, Conn, HasSlot
  <1>19. ASSUME NEW t \in DbThreads, MigrationRuns(t) PROVE Transactions'
    BY <1>19, <1>d, <1>s, <1>u DEF MigrationRuns, Conn, HasSlot
  <1>10. ASSUME NEW t \in DbThreads, BatchBegins(t) PROVE Transactions'
    BY <1>10, <1>d, <1>s, <1>u DEF BatchBegins, NewCall, Conn, Done, HasSlot, RowsOf
  <1>11. ASSUME NEW t \in DbThreads, BatchRow(t) PROVE Transactions'
    <2>1. PICK k \in Nat, m \in Nat, i \in DbSlots : dcall[t] = [n |-> k, rows |-> m] /\ i = dslot[t]
      BY <1>11, <1>s DEF BatchRow, HasSlot
    <2>2. /\ pending' = [pending EXCEPT ![i] = RowsOf(k, m) \cup {<<k, m + 1>>}]
          /\ dcall' = [dcall EXCEPT ![t] = [n |-> k, rows |-> m + 1]]
          /\ UNCHANGED <<dpc, dslot, calls, tx>> /\ dpc[t] = "batch"
      <3>1. /\ pending' = [pending EXCEPT ![i] = pending[i] \cup {<<k, m + 1>>}]
            /\ UNCHANGED <<dpc, dslot, calls, tx>> /\ dpc[t] = "batch"
        BY <1>11, <2>1 DEF BatchRow, Conn
      <3>2. pending[i] = RowsOf(k, m)
        BY <2>1, <3>1
      <3>3. dcall' = [dcall EXCEPT ![t] = [n |-> k, rows |-> m + 1]]
        <4>1. dcall' = [dcall EXCEPT ![t] = [dcall[t] EXCEPT !.rows = dcall[t].rows + 1]]
          BY <1>11 DEF BatchRow
        <4>2. [dcall[t] EXCEPT !.rows = dcall[t].rows + 1] = [n |-> k, rows |-> m + 1]
          BY <2>1
        <4>3. QED
          BY <4>1, <4>2
      <3>4. QED
        BY <3>1, <3>2, <3>3
    <2>3. RowsOf(k, m) \cup {<<k, m + 1>>} = RowsOf(k, m + 1)
      BY DEF RowsOf
    <2>4. ASSUME NEW s \in DbThreads, s # t, dpc[s] = "batch"
          PROVE  pending'[dslot[s]] = pending[dslot[s]] /\ dcall'[s] = dcall[s]
      BY <1>s, <1>u, <2>1, <2>2, <2>4 DEF HasSlot
    <2>5. pending'[i] = RowsOf(k, m + 1) /\ dcall'[t] = [n |-> k, rows |-> m + 1] /\ tx[i]
      BY <2>1, <2>2, <2>3
    <2>6. dcall' \in [DbThreads -> [n : Nat, rows : Nat]] /\ DOMAIN pending' = DbSlots
      BY <2>2
    <2>7. \A j \in DbSlots : ~tx[j] => pending'[j] = {}
      BY <2>2, <2>5
    <2>8. \A s \in DbThreads : dpc[s] = "batch" =>
            tx[dslot[s]] /\ pending'[dslot[s]] = RowsOf(dcall'[s].n, dcall'[s].rows)
      BY <2>1, <2>4, <2>5
    <2>9. QED
      BY <2>2, <2>6, <2>7, <2>8
  <1>12. ASSUME NEW t \in DbThreads, BatchRowFails(t) \/ BatchCommits(t) PROVE Transactions'
    BY <1>12, <1>15 DEF BatchRowFails, BatchCommits, Conn, Done, HasSlot
  <1>14. QED
    BY <1>1, <1>2, <1>4, <1>5, <1>6, <1>7, <1>8, <1>9, <1>10, <1>11, <1>12, <1>16, <1>17, <1>18,
       <1>19 DEF DbNext

(* Every step leaves whole batches behind. *)
LEMMA LeftStep == DbHolders /\ Transactions /\ Left /\ [DbNext]_dbvars => Left'
  <1> SUFFICES ASSUME DbHolders, Transactions, Left, [DbNext]_dbvars PROVE Left'
    OBVIOUS
  <1>s. \A t \in DbThreads : dpc[t] \in HasSlot => dslot[t] \in DbSlots
    BY DEF DbHolders
  <1>u. \A s, t \in DbThreads : s # t /\ dpc[t] \in HasSlot => dslot[s] # dslot[t]
    BY DEF DbHolders
  <1>d. DOMAIN dpc = DbThreads /\ DOMAIN dslot = DbThreads /\ DOMAIN pending = DbSlots /\ calls \in Nat
    BY DEF DbHolders, Transactions
  <1>w. Waits({})
    BY DEF Waits
  <1>1. ASSUME UNCHANGED pending, calls' \in Nat, calls' >= calls,
               \A i \in DbSlots : Running1(i) => Running1(i)'
        PROVE  Left'
    <2>1. \A i \in DbSlots : \A x \in pending[i] : \E k \in Nat, j \in Nat : x = <<k, j>> /\ (j = 0 => k <= calls')
      BY <1>1, <1>d DEF Left
    <2>2. \A i \in DbSlots : ~Running1(i)' => Waits(pending[i])
      BY <1>1 DEF Left
    <2>3. QED
      BY <1>1, <2>1, <2>2 DEF Left, Waits
  <1>2. ASSUME NEW t \in DbThreads, dpc[t] \in HasSlot,
               \A i \in DbSlots : i # dslot[t] => pending'[i] = pending[i],
               UNCHANGED dslot, calls' \in Nat, calls' >= calls,
               \A s \in DbThreads : s # t => dpc'[s] = dpc[s],
               \A x \in pending'[dslot[t]] : \E k \in Nat, j \in Nat : x = <<k, j>> /\ (j = 0 => k <= calls'),
               dpc'[t] = "batch" \/ Waits(pending'[dslot[t]])
        PROVE  Left'
    <2>1. ASSUME NEW i \in DbSlots, i # dslot[t]
          PROVE  /\ pending'[i] = pending[i] /\ (Running1(i)' <=> Running1(i))
                 /\ \A x \in pending[i] : \E k \in Nat, j \in Nat : x = <<k, j>> /\ (j = 0 => k <= calls')
      <3>1. pending'[i] = pending[i] /\ (Running1(i)' <=> Running1(i))
        BY <1>2, <1>d, <2>1 DEF Running1
      <3>2. QED
        BY <1>2, <1>d, <3>1 DEF Left
    <2>2. dpc'[t] = "batch" => Running1(dslot[t])'
      BY <1>2, <1>d, <1>s DEF Running1
    <2>3. ASSUME NEW i \in DbSlots
          PROVE  /\ \A x \in pending'[i] : \E k \in Nat, j \in Nat : x = <<k, j>> /\ (j = 0 => k <= calls')
                 /\ ~Running1(i)' => Waits(pending'[i])
      <3>1. CASE i = dslot[t]
        BY <1>2, <2>2, <3>1
      <3>2. CASE i # dslot[t]
        BY <2>1, <3>2 DEF Left
      <3>3. QED
        BY <3>1, <3>2
    <2>4. QED
      BY <2>3 DEF Left, Waits
  <1>3. CASE UNCHANGED dbvars
    BY <1>1, <1>3, <1>d DEF dbvars, Running1
  <1>4. CASE CloseAll
    <2>1. \A i \in DbSlots : pending'[i] = {}
      BY <1>4 DEF CloseAll
    <2>2. QED
      BY <1>w, <2>1 DEF Left, Waits
  <1>5. ASSUME NEW t \in DbThreads, dpc[t] # "batch",
               \A s \in DbThreads : dpc[s] = "batch" => dpc'[s] = "batch" /\ dslot'[s] = dslot[s],
               UNCHANGED <<calls, pending>>
        PROVE  Left'
    BY <1>1, <1>5, <1>d DEF Running1
  <1>6. ASSUME NEW t \in DbThreads, Get(t) \/ GetWaits(t) \/ WaitEnds(t) \/ GetAgain(t) PROVE Left'
    BY <1>5, <1>6, <1>d DEF Get, GetWaits, WaitEnds, GetAgain, Take, sqlvars
  <1>7. ASSUME NEW t \in DbThreads, Release(t) PROVE Left'
    BY <1>5, <1>7, <1>d DEF Release, Asleep, sqlvars
  <1>8. ASSUME NEW t \in DbThreads, BackupBegins(t) \/ BackupEnds(t) PROVE Left'
    BY <1>5, <1>8, <1>d DEF BackupBegins, BackupEnds, Done, sqlvars
  <1>9. ASSUME NEW t \in DbThreads, dpc[t] \in HasSlot, EndTransaction(dslot[t]), UNCHANGED <<dslot, calls>>,
               dpc' = [dpc EXCEPT ![t] = "release"]
        PROVE  Left'
    <2>1. pending'[dslot[t]] = {} /\ \A i \in DbSlots : i # dslot[t] => pending'[i] = pending[i]
      BY <1>9, <1>d, <1>s DEF EndTransaction
    <2>2. \A s \in DbThreads : s # t => dpc'[s] = dpc[s]
      BY <1>9, <1>d
    <2>3. QED
      BY <1>2, <1>9, <1>d, <1>w, <2>1, <2>2
  <1>10. ASSUME NEW t \in DbThreads, dpc[t] \in HasSlot \ {"batch"}, UNCHANGED <<dslot, pending>>, calls' \in {calls, calls + 1},
                \E pc \in HasSlot : dpc' = [dpc EXCEPT ![t] = pc]
         PROVE  Left'
    BY <1>1, <1>10, <1>d DEF Running1
  <1>11. ASSUME NEW t \in DbThreads, StatementFails(t) PROVE Left'
    BY <1>9, <1>10, <1>11 DEF StatementFails, Conn, Done, HasSlot
  <1>12. ASSUME NEW t \in DbThreads, BatchRowFails(t) \/ BatchCommits(t) \/ MigrationFails(t) PROVE Left'
    BY <1>9, <1>12 DEF BatchRowFails, BatchCommits, MigrationFails, Conn, Done, HasSlot
  <1>13. ASSUME NEW t \in DbThreads, MigrationCommits(t) \/ MigrationCommitFails(t) PROVE Left'
    BY <1>9, <1>10, <1>13 DEF MigrationCommits, MigrationCommitFails, Conn, Done, HasSlot
  <1>14. ASSUME NEW t \in DbThreads, MigrationBegins(t) \/ BatchBegins(t) PROVE Left'
    BY <1>10, <1>14 DEF MigrationBegins, BatchBegins, Done, HasSlot
  <1>15. ASSUME NEW t \in DbThreads, CommitFails(t) PROVE Left'
    <2>1. CASE EndTransaction(dslot[t])
      BY <1>9, <1>15, <2>1 DEF CommitFails, Conn, Done, HasSlot
    <2>2. CASE UNCHANGED pending
      <3>1. PICK k \in Nat : pending[dslot[t]] = RowsOf(k, BatchRows) /\ dslot[t] \in DbSlots
        BY <1>15, <1>s DEF CommitFails, Transactions, HasSlot
      <3>2. Waits(RowsOf(k, BatchRows))
        BY DEF Waits, RowsOf
      <3>3. \A s \in DbThreads : s # t => dpc'[s] = dpc[s]
        BY <1>15, <1>d DEF CommitFails, Done
      <3>4. \A x \in RowsOf(k, BatchRows) : \E l \in Nat, j \in Nat : x = <<l, j>> /\ (j = 0 => l <= calls)
        BY DbAssumption DEF RowsOf
      <3>5. QED
        BY <1>2, <1>15, <1>d, <2>2, <3>1, <3>2, <3>3, <3>4 DEF CommitFails, HasSlot
    <2>3. QED
      BY <1>15, <2>1, <2>2 DEF CommitFails, Conn
  <1>16. ASSUME NEW t \in DbThreads, BatchRow(t) PROVE Left'
    <2>1. PICK k \in Nat, m \in Nat : dcall[t] = [n |-> k, rows |-> m] /\ dslot[t] \in DbSlots
      BY <1>16, <1>s DEF BatchRow, HasSlot, Transactions
    <2>2. /\ pending' = [pending EXCEPT ![dslot[t]] = pending[dslot[t]] \cup {<<k, m + 1>>}]
          /\ UNCHANGED <<dpc, dslot, calls>> /\ dpc[t] = "batch"
      BY <1>16, <2>1 DEF BatchRow, Conn
    <2>3. \A x \in pending[dslot[t]] \cup {<<k, m + 1>>} :
            \E l \in Nat, j \in Nat : x = <<l, j>> /\ (j = 0 => l <= calls)
      BY <2>1 DEF Left
    <2>4. /\ pending'[dslot[t]] = pending[dslot[t]] \cup {<<k, m + 1>>}
          /\ \A i \in DbSlots : i # dslot[t] => pending'[i] = pending[i]
      BY <1>d, <2>1, <2>2
    <2>5. QED
      BY <1>2, <1>d, <2>2, <2>3, <2>4 DEF HasSlot
  <1>17. ASSUME NEW t \in DbThreads, MigrationRuns(t) PROVE Left'
    <2>1. PICK k \in Nat : dcall[t].n = k /\ k <= calls /\ dslot[t] \in DbSlots
      BY <1>17, <1>s DEF MigrationRuns, HasSlot, Transactions
    <2>2. /\ pending' = [pending EXCEPT ![dslot[t]] = pending[dslot[t]] \cup {<<k, 0>>}]
          /\ UNCHANGED <<dslot, calls>> /\ dpc[t] = "migrate" /\ dpc' = [dpc EXCEPT ![t] = "migrated"]
      BY <1>17, <2>1 DEF MigrationRuns, Conn
    <2>3. \A x \in pending[dslot[t]] \cup {<<k, 0>>} :
            \E l \in Nat, j \in Nat : x = <<l, j>> /\ (j = 0 => l <= calls)
      BY <2>1 DEF Left
    <2>4. ~Running1(dslot[t])
      BY <1>u, <2>2 DEF Running1, HasSlot
    <2>5. Waits(pending[dslot[t]])
      BY <2>1, <2>4 DEF Left
    <2>6. Waits(pending[dslot[t]] \cup {<<k, 0>>})
      BY <2>5 DEF Waits
    <2>7. /\ pending'[dslot[t]] = pending[dslot[t]] \cup {<<k, 0>>}
          /\ \A i \in DbSlots : i # dslot[t] => pending'[i] = pending[i]
          /\ \A s \in DbThreads : s # t => dpc'[s] = dpc[s]
      BY <1>d, <2>1, <2>2
    <2>8. Waits(pending'[dslot[t]])
      BY <2>6, <2>7, Zenon
    <2>9. QED
      BY <1>2, <1>d, <2>2, <2>3, <2>7, <2>8 DEF HasSlot
  <1>18. ASSUME NEW t \in DbThreads, Execute(t) PROVE Left'
    <2>1. /\ dpc[t] = "held" /\ calls' = calls + 1 /\ dpc' = [dpc EXCEPT ![t] = "release"] /\ UNCHANGED dslot
          /\ dslot[t] \in DbSlots
      BY <1>18, <1>s DEF Execute, Done, HasSlot
    <2>2. CASE UNCHANGED pending
      BY <1>10, <2>1, <2>2 DEF HasSlot
    <2>3. CASE pending' = [pending EXCEPT ![dslot[t]] = pending[dslot[t]] \cup {<<calls + 1, 0>>}]
      <3>1. \A x \in pending[dslot[t]] \cup {<<calls + 1, 0>>} :
              \E l \in Nat, j \in Nat : x = <<l, j>> /\ (j = 0 => l <= calls + 1)
        BY <1>d, <2>1 DEF Left
      <3>2. ~Running1(dslot[t])
        BY <1>u, <2>1 DEF Running1, HasSlot
      <3>3. Waits(pending[dslot[t]])
        BY <2>1, <3>2 DEF Left
      <3>4. Waits(pending[dslot[t]] \cup {<<calls + 1, 0>>})
        BY <3>3 DEF Waits
      <3>5. /\ pending'[dslot[t]] = pending[dslot[t]] \cup {<<calls + 1, 0>>}
            /\ \A i \in DbSlots : i # dslot[t] => pending'[i] = pending[i]
            /\ \A s \in DbThreads : s # t => dpc'[s] = dpc[s]
        BY <1>d, <2>1, <2>3
      <3>6. Waits(pending'[dslot[t]])
        BY <3>4, <3>5, Zenon
      <3>7. \A x \in pending'[dslot[t]] : \E l \in Nat, j \in Nat : x = <<l, j>> /\ (j = 0 => l <= calls')
        BY <2>1, <3>1, <3>5
      <3>8. calls' \in Nat /\ calls' >= calls
        BY <1>d, <2>1
      <3>9. QED
        BY <1>2, <2>1, <3>5, <3>6, <3>7, <3>8 DEF HasSlot
    <2>4. QED
      BY <1>18, <2>2, <2>3 DEF Execute, Stepped, Conn
  <1>19. QED
    BY <1>3, <1>4, <1>6, <1>7, <1>8, <1>11, <1>12, <1>13, <1>14, <1>15, <1>16, <1>17, <1>18 DEF DbNext

(* Every step keeps the numbers apart. *)
LEMMA FreshStep == DbHolders /\ Transactions /\ Fresh /\ [DbNext]_dbvars => Fresh'
  <1> SUFFICES ASSUME DbHolders, Transactions, Fresh, [DbNext]_dbvars PROVE Fresh'
    OBVIOUS
  <1>d. DOMAIN dpc = DbThreads /\ DOMAIN dcall = DbThreads /\ calls \in Nat /\ \A t \in DbThreads : dcall[t].n \in Nat
    BY DEF DbHolders, Transactions
  <1>1. ASSUME UNCHANGED astray, calls' \in Nat, calls' >= calls,
               \A t \in DbThreads : Migrating(t)' => Migrating(t) /\ dcall'[t].n = dcall[t].n
        PROVE  Fresh'
    BY <1>1, <1>d DEF Fresh
  <1>2. CASE UNCHANGED dbvars \/ CloseAll
    BY <1>1, <1>2, <1>d DEF dbvars, CloseAll, Migrating
  <1>3. ASSUME NEW t \in DbThreads, Get(t) \/ GetWaits(t) \/ WaitEnds(t) \/ GetAgain(t) PROVE Fresh'
    BY <1>1, <1>3, <1>d DEF Get, GetWaits, WaitEnds, GetAgain, Take, sqlvars, Migrating
  <1>4. ASSUME NEW t \in DbThreads, Release(t) PROVE Fresh'
    BY <1>1, <1>4, <1>d DEF Release, Asleep, sqlvars, Migrating
  <1>5. ASSUME NEW t \in DbThreads, BackupBegins(t) \/ BackupEnds(t) \/ StatementFails(t) \/ CommitFails(t)
                                    \/ BatchRowFails(t) \/ BatchCommits(t)
        PROVE  Fresh'
    BY <1>1, <1>5, <1>d DEF BackupBegins, BackupEnds, StatementFails, CommitFails, BatchRowFails, BatchCommits,
                           Done, sqlvars, Migrating
  <1>6. ASSUME NEW t \in DbThreads, MigrationFails(t) \/ MigrationCommits(t) \/ MigrationCommitFails(t) \/ MigrationRuns(t)
        PROVE  Fresh'
    BY <1>1, <1>6, <1>d DEF MigrationFails, MigrationCommits, MigrationCommitFails, MigrationRuns, Done,
       Migrating
  <1>7. ASSUME NEW t \in DbThreads, BatchBegins(t) PROVE Fresh'
    BY <1>1, <1>7, <1>d DEF BatchBegins, Done, Migrating
  <1>8. ASSUME NEW t \in DbThreads, BatchRow(t) PROVE Fresh'
    <2>1. \A s \in DbThreads : Migrating(s)' => Migrating(s) /\ s # t
      BY <1>8, <1>d DEF BatchRow, Migrating
    <2>2. \A s \in DbThreads : s # t => dcall'[s] = dcall[s]
      BY <1>8, <1>d DEF BatchRow
    <2>3. QED
      BY <1>1, <1>8, <1>d, <2>1, <2>2 DEF BatchRow
  <1>9. ASSUME NEW t \in DbThreads, Execute(t) PROVE Fresh'
    <2>1. \A s \in DbThreads : Migrating(s)' => Migrating(s)
      BY <1>9, <1>d DEF Execute, Done, Migrating
    <2>2. UNCHANGED dcall /\ calls' = calls + 1 /\ astray' \in {astray, astray \cup {<<calls + 1, 0>>}}
      BY <1>9 DEF Execute, Stepped
    <2>3. QED
      BY <1>d, <2>1, <2>2 DEF Fresh
  <1>10. ASSUME NEW t \in DbThreads, MigrationBegins(t) PROVE Fresh'
    <2>1. \A s \in DbThreads : s # t => (Migrating(s)' => Migrating(s)) /\ dcall'[s] = dcall[s]
      BY <1>10, <1>d DEF MigrationBegins, Migrating
    <2>2. dcall'[t].n = calls + 1 /\ UNCHANGED astray /\ calls' = calls + 1
      BY <1>10, <1>d DEF MigrationBegins, NewCall
    <2>3. QED
      BY <1>d, <2>1, <2>2 DEF Fresh
  <1>11. QED
    BY <1>2, <1>3, <1>4, <1>5, <1>6, <1>7, <1>8, <1>9, <1>10 DEF DbNext

(* Every step keeps batches whole. *)
LEMMA DatabaseStep == BatchInv /\ [DbNext]_dbvars => Database'
  <1> SUFFICES ASSUME DbHolders, Transactions, Left, Fresh, Database, [DbNext]_dbvars PROVE Database'
    BY DEF BatchInv
  <1>c. calls \in Nat
    BY DEF Transactions
  <1>1. ASSUME UNCHANGED <<committed, acked, astray, adopted>>, calls' \in Nat, calls' >= calls PROVE Database'
    BY <1>1, <1>c DEF Database
  <1>2. ASSUME NEW t \in DbThreads, Execute(t) PROVE Database'
    <2>1. CASE tx[Conn(t)]
      <3>1. committed' = committed /\ astray' = astray \cup {<<calls + 1, 0>>} /\ acked' = acked \cup {<<calls + 1, 0>>}
            /\ calls' = calls + 1 /\ adopted' = adopted
        BY <1>2, <2>1 DEF Execute, Stepped
      <3>2. QED
        BY <1>c, <3>1 DEF Database
    <2>2. CASE ~tx[Conn(t)]
      <3>1. committed' = committed \cup {<<calls + 1, 0>>} /\ astray' = astray /\ acked' = acked \cup {<<calls + 1, 0>>}
            /\ calls' = calls + 1 /\ adopted' = adopted
        BY <1>2, <2>2 DEF Execute, Stepped
      <3>2. QED
        BY <1>c, <3>1 DEF Database
    <2>3. QED
      BY <2>1, <2>2
  <1>3. ASSUME NEW t \in DbThreads, BatchCommits(t) PROVE Database'
    <2>1. PICK k \in Nat : k = dcall[t].n
      BY DEF Transactions
    <2>2. /\ committed' = committed \cup RowsOf(k, BatchRows) /\ acked' = acked \cup RowsOf(k, BatchRows)
          /\ UNCHANGED <<astray, calls, adopted>>
      BY <1>3, <2>1 DEF BatchCommits, Transactions, Conn
    <2>3. QED
      BY <1>c, <2>2, DbAssumption DEF Database, RowsOf
  <1>4. CASE UNCHANGED dbvars \/ CloseAll
    BY <1>1, <1>c, <1>4 DEF dbvars, CloseAll
  <1>5. ASSUME NEW t \in DbThreads, Get(t) \/ GetWaits(t) \/ WaitEnds(t) \/ GetAgain(t) \/ Release(t) PROVE Database'
    BY <1>1, <1>c, <1>5 DEF Get, GetWaits, WaitEnds, GetAgain, Release, sqlvars
  <1>6. ASSUME NEW t \in DbThreads, StatementFails(t) \/ BackupBegins(t) \/ BackupEnds(t) \/ CommitFails(t)
        PROVE  Database'
    BY <1>1, <1>c, <1>6 DEF StatementFails, BackupBegins, BackupEnds, CommitFails, sqlvars
  <1>9. ASSUME NEW t \in DbThreads,
               MigrationBegins(t) \/ MigrationRuns(t) \/ MigrationFails(t) \/ MigrationCommitFails(t)
        PROVE  Database'
    BY <1>1, <1>c, <1>9 DEF MigrationBegins, MigrationRuns, MigrationFails, MigrationCommitFails
  <1>10. ASSUME NEW t \in DbThreads, MigrationCommits(t) PROVE Database'
    <2>1. PICK i \in DbSlots : i = dslot[t] /\ ~Running1(i)
      BY <1>10 DEF DbHolders, MigrationCommits, HasSlot, Running1
    <2> DEFINE P == pending[i]
    <2>2. /\ committed' = committed \cup P /\ P \ {<<dcall[t].n, 0>>} \subseteq adopted' /\ adopted \subseteq adopted'
          /\ UNCHANGED <<acked, astray, calls>>
      BY <1>10, <2>1 DEF MigrationCommits, Conn
    <2>3. Waits(P) /\ \A x \in P : \E k \in Nat, j \in Nat : x = <<k, j>> /\ (j = 0 => k <= calls)
      BY <2>1 DEF Left
    <2>4. <<dcall[t].n, 0>> \notin astray
      BY <1>10 DEF Fresh, Migrating, MigrationCommits
    <2>5. ASSUME NEW k \in Nat, NEW j \in 1..BatchRows, <<k, j>> \in committed'
          PROVE  /\ RowsOf(k, BatchRows) \subseteq committed'
                 /\ RowsOf(k, BatchRows) \subseteq acked' \/ RowsOf(k, BatchRows) \subseteq adopted'
      <3>1. CASE <<k, j>> \in committed
        BY <2>2, <3>1 DEF Database
      <3>2. CASE <<k, j>> \in P
        <4>1. RowsOf(k, BatchRows) \subseteq P
          BY <2>3, <3>2 DEF Waits
        <4>2. <<dcall[t].n, 0>> \notin RowsOf(k, BatchRows)
          BY DEF RowsOf
        <4>3. QED
          BY <2>2, <4>1, <4>2
      <3>3. QED
        BY <2>2, <2>5, <3>1, <3>2
    <2>6. \A r \in committed' : \E k \in Nat, j \in Nat : r = <<k, j>> /\ (j = 0 => k <= calls')
      BY <2>2, <2>3 DEF Database
    <2>7. acked' \ astray' \subseteq committed' /\ committed' \cap astray' \subseteq adopted'
      BY <2>2, <2>4 DEF Database
    <2>8. QED
      BY <2>2, <2>5, <2>6, <2>7 DEF Database
  <1>7. ASSUME NEW t \in DbThreads, BatchBegins(t) \/ BatchRow(t) \/ BatchRowFails(t) PROVE Database'
    BY <1>1, <1>c, <1>7 DEF BatchBegins, BatchRow, BatchRowFails
  <1>8. QED
    BY <1>2, <1>3, <1>4, <1>5, <1>6, <1>7, <1>9, <1>10 DEF DbNext

(* A batch is in the database as a whole or not at all, and what was reported
   as done is there (database.c, db_execute_batch and db_execute), whatever
   fails and whoever gets a connection with an open transaction. *)
THEOREM BatchesAreAtomic == DbSpec => []BatchesAtomic
  <1>1. DbInit => Transactions /\ Left /\ Fresh /\ Database
    <2>1. ASSUME DbInit PROVE Transactions
      BY <2>1 DEF DbInit, Transactions, NoCall
    <2>2. ASSUME DbInit PROVE Database
      BY <2>2 DEF DbInit, Database
    <2>3. ASSUME DbInit PROVE Left /\ Fresh
      BY <2>3 DEF DbInit, Left, Waits, Fresh, Migrating
    <2>4. QED
      BY <2>1, <2>2, <2>3
  <1>2. BatchInv => BatchesAtomic
    BY DbAssumption DEF BatchInv, Database, BatchesAtomic
  <1>3. DbPoolInv => DbHolders
    BY DEF DbPoolInv
  <1>4. DbPoolInv /\ BatchInv /\ [DbNext]_dbvars => (DbPoolInv /\ BatchInv)'
    BY DbPoolStep, TransactionsStep, LeftStep, FreshStep, DatabaseStep DEF BatchInv, DbPoolInv
  <1>5. QED
    BY <1>1, <1>2, <1>3, <1>4, DbPoolInit, PTL DEF DbSpec, BatchInv

-----------------------------------------------------------------------------
(* Auth: the rate limit.  The failures that are counted against an address, and
   the threads that have passed the test for it and may still fail. *)
From(i) == {f \in LastHour : f.ip = i}
Past(i) == {t \in AuthThreads : alogin[t].pc \in {"verify", "fail"} /\ alogin[t].ip = i}

(* Rows and logins are what their types say. *)
AuthShape ==
    /\ aclock \in Nat /\ DOMAIN alogin = AuthThreads
    /\ \A t \in AuthThreads :
         alogin[t] = [pc |-> alogin[t].pc, user |-> alogin[t].user, ip |-> alogin[t].ip,
                      right |-> alogin[t].right, token |-> alogin[t].token]
    /\ IsFiniteSet(failures)
    /\ \A f \in failures : f.created_at \in Nat

(* A failure that may still come counts like one that has. *)
AuthCounted ==
    \A i \in Ips : Cardinality(From(i)) + Cardinality(Past(i)) <= ip_limit + Cardinality(AuthThreads)

AuthInv == AuthShape /\ AuthCounted

(* What is counted is finite. *)
LEMMA AuthFinite ==
    ASSUME AuthShape, NEW i
    PROVE  /\ IsFiniteSet(From(i)) /\ Cardinality(From(i)) \in Nat
           /\ IsFiniteSet(Past(i)) /\ Cardinality(Past(i)) \in Nat
           /\ Cardinality(Past(i)) <= Cardinality(AuthThreads) /\ Cardinality(AuthThreads) \in Nat
           /\ ip_limit \in Nat
  <1>1. IsFiniteSet(From(i))
    BY FS_Subset DEF AuthShape, From, LastHour
  <1>2. IsFiniteSet(Past(i)) /\ Cardinality(Past(i)) <= Cardinality(AuthThreads) /\ IsFiniteSet(AuthThreads)
    BY AuthAssumption, FS_Subset DEF Past
  <1>3. ip_limit \in Nat
    BY AuthAssumption
  <1> QED
    BY <1>1, <1>2, <1>3, FS_CardinalityType

(* Where neither set grows the bound stays. *)
LEMMA AuthShrinks ==
    ASSUME AuthInv, AuthShape', NEW i \in Ips, From(i)' \subseteq From(i), Past(i)' \subseteq Past(i)
    PROVE  Cardinality(From(i)') + Cardinality(Past(i)') <= ip_limit + Cardinality(AuthThreads)
  <1>1. Cardinality(From(i)) + Cardinality(Past(i)) <= ip_limit + Cardinality(AuthThreads)
    BY DEF AuthInv, AuthCounted
  <1>2. IsFiniteSet(From(i)) /\ Cardinality(From(i)) \in Nat /\ IsFiniteSet(Past(i)) /\ Cardinality(Past(i)) \in Nat
    BY AuthFinite DEF AuthInv
  <1>3. /\ IsFiniteSet(From(i)') /\ Cardinality(From(i)') <= Cardinality(From(i))
        /\ IsFiniteSet(Past(i)') /\ Cardinality(Past(i)') <= Cardinality(Past(i))
    BY <1>2, FS_Subset
  <1>4. Cardinality(From(i)') \in Nat /\ Cardinality(Past(i)') \in Nat
    BY <1>3, FS_CardinalityType
  <1>5. ip_limit \in Nat /\ Cardinality(AuthThreads) \in Nat
    BY AuthAssumption, FS_CardinalityType
  <1> QED
    BY <1>1, <1>2, <1>3, <1>4, <1>5

(* A step by which nobody passes the test and no failure is recorded. *)
LEMMA AuthQuiet ==
    ASSUME AuthInv, AuthShape', UNCHANGED failures, aclock' >= aclock,
           \A t \in AuthThreads : alogin'[t].pc \in {"verify", "fail"} =>
               alogin[t].pc \in {"verify", "fail"} /\ alogin'[t].ip = alogin[t].ip
    PROVE  AuthCounted'
  <1> SUFFICES ASSUME NEW i \in Ips
               PROVE  Cardinality(From(i)') + Cardinality(Past(i)') <= ip_limit + Cardinality(AuthThreads)
    BY DEF AuthCounted
  <1>1. Past(i)' \subseteq Past(i)
    BY DEF Past
  <1>2. ASSUME NEW f \in From(i)' PROVE f \in From(i)
    <2>1. f \in failures /\ f.created_at > aclock' - Hour /\ f.ip = i
      BY <1>2 DEF From, LastHour
    <2>2. f.created_at \in Nat /\ aclock \in Nat /\ aclock' \in Nat /\ Hour \in Nat
      BY <2>1, AuthAssumption DEF AuthInv, AuthShape
    <2>3. f.created_at > aclock - Hour
      BY <2>1, <2>2
    <2> QED
      BY <2>1, <2>3 DEF From, LastHour
  <1> QED
    BY <1>1, <1>2, AuthShrinks

(* Passing the test.  There were few failures then, and threads are no more
   than they are. *)
LEMMA AuthPasses ==
    ASSUME AuthInv, AuthShape', NEW t \in AuthThreads, alogin[t].pc \in {"idle", "rate"}, NEW l, Limited(t, l),
           l = [pc |-> l.pc, user |-> l.user, ip |-> l.ip, right |-> l.right, token |-> l.token]
    PROVE  AuthCounted'
  <1> SUFFICES ASSUME NEW i \in Ips
               PROVE  Cardinality(From(i)') + Cardinality(Past(i)') <= ip_limit + Cardinality(AuthThreads)
    BY DEF AuthCounted
  <1>1. UNCHANGED <<failures, aclock>>
    BY DEF Limited
  <1>2. From(i)' = From(i)
    BY <1>1 DEF From, LastHour
  <1>3. CASE WithinRate(l.ip, l.user) /\ i = l.ip
    <2>1. Cardinality(From(i)) <= ip_limit
      BY <1>3 DEF WithinRate, FailuresFrom, From
    <2>2. Cardinality(Past(i)') <= Cardinality(AuthThreads) /\ Cardinality(Past(i)') \in Nat
          /\ Cardinality(AuthThreads) \in Nat /\ ip_limit \in Nat
      <3>1. Past(i)' \subseteq AuthThreads /\ IsFiniteSet(AuthThreads) /\ ip_limit \in Nat
        BY AuthAssumption DEF Past
      <3>2. IsFiniteSet(Past(i)') /\ Cardinality(Past(i)') <= Cardinality(AuthThreads)
        BY <3>1, FS_Subset
      <3> QED
        BY <3>1, <3>2, FS_CardinalityType
    <2>3. Cardinality(From(i)) \in Nat
      BY AuthFinite DEF AuthInv
    <2> QED
      BY <1>2, <2>1, <2>2, <2>3
  <1>4. CASE ~(WithinRate(l.ip, l.user) /\ i = l.ip)
    <2>1. PICK r : alogin' = [alogin EXCEPT ![t] = r] /\ ~(r.pc \in {"verify", "fail"} /\ r.ip = i)
      <3>1. CASE WithinRate(l.ip, l.user)
        <4>1. alogin' = [alogin EXCEPT ![t] = [l EXCEPT !.pc = "verify"]]
          BY <3>1 DEF Limited
        <4>2. [l EXCEPT !.pc = "verify"].ip = l.ip
          OBVIOUS
        <4> QED
          BY <1>4, <3>1, <4>1, <4>2
      <3>2. CASE ~WithinRate(l.ip, l.user)
        <4>1. alogin' = [alogin EXCEPT ![t] = NoLogin]
          BY <3>2 DEF Limited
        <4>2. NoLogin.pc \notin {"verify", "fail"}
          BY DEF NoLogin
        <4> QED
          BY <4>1, <4>2
      <3> QED
        BY <3>1, <3>2
    <2>2. Past(i)' \subseteq Past(i)
      BY <2>1 DEF Past, AuthInv, AuthShape
    <2> QED
      BY <1>2, <2>2, AuthShrinks
  <1> QED
    BY <1>3, <1>4

(* A failure is recorded: what might come has come. *)
LEMMA AuthRecords ==
    ASSUME AuthInv, AuthShape', NEW t \in AuthThreads, LogFailure(t)
    PROVE  AuthCounted'
  <1> SUFFICES ASSUME NEW i \in Ips
               PROVE  Cardinality(From(i)') + Cardinality(Past(i)') <= ip_limit + Cardinality(AuthThreads)
    BY DEF AuthCounted
  <1> DEFINE row == [id |-> Cardinality(failures) + 1, ip |-> alogin[t].ip, user |-> alogin[t].user,
                     created_at |-> aclock]
  <1>1. /\ failures' = failures \cup {row} /\ aclock' = aclock /\ alogin[t].pc = "fail"
        /\ alogin' = [alogin EXCEPT ![t] = NoLogin]
    BY DEF LogFailure
  <1>2. t \notin Past(i)' /\ Past(i)' \subseteq Past(i) /\ (alogin[t].ip = i => t \in Past(i))
    BY <1>1 DEF Past, AuthInv, AuthShape, NoLogin
  <1>3. CASE alogin[t].ip # i
    <2>1. row.ip # i
      BY <1>3
    <2>2. From(i)' \subseteq From(i)
      BY <1>1, <2>1 DEF From, LastHour
    <2> QED
      BY <1>2, <2>2, AuthShrinks
  <1>4. CASE alogin[t].ip = i
    <2>1. row.ip = i /\ row.created_at = aclock /\ row.id = Cardinality(failures) + 1
      BY <1>4
    <2>2. From(i)' \subseteq From(i) \cup {row}
      BY <1>1 DEF From, LastHour
    <2>3. IsFiniteSet(From(i)) /\ Cardinality(From(i)) \in Nat /\ IsFiniteSet(Past(i)) /\ Cardinality(Past(i)) \in Nat
      BY AuthFinite DEF AuthInv
    <2>4. IsFiniteSet(From(i) \cup {row}) /\ Cardinality(From(i) \cup {row}) <= Cardinality(From(i)) + 1
      <3>1. /\ IsFiniteSet(From(i) \cup {row})
            /\ Cardinality(From(i) \cup {row}) = IF row \in From(i) THEN Cardinality(From(i))
                                                                   ELSE Cardinality(From(i)) + 1
        BY <2>3, FS_AddElement
      <3> QED
        BY <2>3, <3>1
    <2>5. IsFiniteSet(From(i)') /\ Cardinality(From(i)') <= Cardinality(From(i) \cup {row})
      BY <2>2, <2>4, FS_Subset
    <2>6. IsFiniteSet(Past(i) \ {t}) /\ Cardinality(Past(i) \ {t}) = Cardinality(Past(i)) - 1
      BY <1>2, <1>4, <2>3, FS_RemoveElement
    <2>7. IsFiniteSet(Past(i)') /\ Cardinality(Past(i)') <= Cardinality(Past(i) \ {t})
      <3>1. Past(i)' \subseteq Past(i) \ {t}
        BY <1>2
      <3> QED
        BY <2>6, <3>1, FS_Subset
    <2>8. /\ Cardinality(From(i)') \in Nat /\ Cardinality(Past(i)') \in Nat
          /\ Cardinality(From(i) \cup {row}) \in Nat /\ Cardinality(Past(i) \ {t}) \in Nat
      BY <2>4, <2>5, <2>6, <2>7, FS_CardinalityType
    <2>9. Cardinality(From(i)) + Cardinality(Past(i)) <= ip_limit + Cardinality(AuthThreads)
          /\ ip_limit \in Nat /\ Cardinality(AuthThreads) \in Nat
      BY AuthAssumption, FS_CardinalityType DEF AuthInv, AuthCounted
    <2> QED
      BY <2>3, <2>4, <2>5, <2>6, <2>7, <2>8, <2>9
  <1> QED
    BY <1>3, <1>4

(* Every step keeps the shape. *)
LEMMA AuthShapeStep ==
    ASSUME AuthShape, [AuthNext]_authvars
    PROVE  AuthShape'
  <1> USE DEF AuthShape
  <1>1. ASSUME UNCHANGED <<aclock, failures, alogin>> PROVE AuthShape'
    BY <1>1
  <1>2. ASSUME UNCHANGED <<aclock, failures>>, NEW t \in AuthThreads,
               NEW r, r = [pc |-> r.pc, user |-> r.user, ip |-> r.ip, right |-> r.right, token |-> r.token],
               alogin' = [alogin EXCEPT ![t] = r]
        PROVE  AuthShape'
    BY <1>2
  <1>3. CASE SecondPasses
    BY <1>3 DEF SecondPasses
  <1>4. ASSUME NEW t \in AuthThreads, NEW u \in Users, NEW i \in Ips, NEW b \in BOOLEAN, Register(t, u, i, b)
        PROVE  AuthShape'
    BY <1>1, <1>2, <1>4 DEF Register, NoLogin
  <1>5. ASSUME NEW t \in AuthThreads, NEW l, Limited(t, l),
               l = [pc |-> l.pc, user |-> l.user, ip |-> l.ip, right |-> l.right, token |-> l.token]
        PROVE  AuthShape'
    <2>1. CASE WithinRate(l.ip, l.user)
      <3>1. PICK r : r = [l EXCEPT !.pc = "verify"]
        OBVIOUS
      <3>2. r = [pc |-> r.pc, user |-> r.user, ip |-> r.ip, right |-> r.right, token |-> r.token]
        BY <1>5, <3>1
      <3> QED
        BY <1>2, <1>5, <2>1, <3>1, <3>2 DEF Limited
    <2>2. CASE ~WithinRate(l.ip, l.user)
      BY <1>2, <1>5, <2>2 DEF Limited, NoLogin
    <2> QED
      BY <2>1, <2>2
  <1>6. ASSUME NEW t \in AuthThreads, NEW u \in Users, NEW i \in Ips, NEW b \in BOOLEAN, Login(t, u, i, b)
        PROVE  AuthShape'
    <2>1. PICK l : l = [NoLogin EXCEPT !.user = u, !.ip = i, !.right = b]
      OBVIOUS
    <2>2. l = [pc |-> l.pc, user |-> l.user, ip |-> l.ip, right |-> l.right, token |-> l.token]
      BY <2>1 DEF NoLogin
    <2> QED
      BY <1>5, <1>6, <2>1, <2>2 DEF Login
  <1>7. ASSUME NEW t \in AuthThreads, LoginAfterRegister(t) PROVE AuthShape'
    BY <1>5, <1>7 DEF LoginAfterRegister
  <1>8. ASSUME NEW t \in AuthThreads, UserNotFound(t) PROVE AuthShape'
    BY <1>8 DEF UserNotFound
  <1>9. ASSUME NEW t \in AuthThreads, WrongPassword(t) PROVE AuthShape'
    BY <1>9 DEF WrongPassword
  <1>10. ASSUME NEW t \in AuthThreads, RightPassword(t) PROVE AuthShape'
    BY <1>10 DEF RightPassword
  <1>11. ASSUME NEW t \in AuthThreads, LogFailure(t) PROVE AuthShape'
    <2>1. IsFiniteSet(failures')
      BY <1>11, FS_AddElement DEF LogFailure
    <2> QED
      <3>1. \A f \in failures' : f.created_at \in Nat
        BY <1>11 DEF LogFailure
      <3>2. aclock' = aclock /\ alogin' = [alogin EXCEPT ![t] = NoLogin]
        BY <1>11 DEF LogFailure
      <3> QED
        BY <2>1, <3>1, <3>2 DEF NoLogin
  <1>12. ASSUME NEW t \in AuthThreads, GenerateTokens(t) PROVE AuthShape'
    BY <1>12 DEF GenerateTokens, NoLogin
  <1>13. ASSUME NEW t \in AuthThreads, CreateSession(t) PROVE AuthShape'
    BY <1>13 DEF CreateSession, NoLogin
  <1>14. ASSUME NEW t \in AuthThreads, NEW s \in asessions, Logout(t, s) \/ ValidateToken(t, s) PROVE AuthShape'
    BY <1>1, <1>14 DEF Logout, ValidateToken
  <1> QED
    BY <1>1, <1>3, <1>4, <1>6, <1>7, <1>8, <1>9, <1>10, <1>11, <1>12, <1>13, <1>14 DEF AuthNext, authvars

(* Every step keeps the count. *)
LEMMA AuthCountedStep ==
    ASSUME AuthInv, [AuthNext]_authvars
    PROVE  AuthCounted'
  <1>1. AuthShape /\ AuthShape'
    BY AuthShapeStep DEF AuthInv
  <1>2. ASSUME UNCHANGED <<aclock, failures, alogin>> PROVE AuthCounted'
    BY <1>1, <1>2, AuthQuiet DEF AuthShape
  <1>3. CASE SecondPasses
    BY <1>1, <1>3, AuthQuiet DEF SecondPasses, AuthShape
  <1>4. ASSUME NEW t \in AuthThreads, NEW u \in Users, NEW i \in Ips, NEW b \in BOOLEAN, Register(t, u, i, b)
        PROVE  AuthCounted'
    <2>1. PICK r : r = [NoLogin EXCEPT !.pc = "rate", !.user = u, !.ip = i, !.right = TRUE]
      OBVIOUS
    <2>2. r.pc = "rate"
      BY <2>1 DEF NoLogin
    <2>3. /\ alogin' = [alogin EXCEPT ![t] = r] \/ alogin' = alogin
          /\ UNCHANGED <<aclock, failures>>
      BY <1>4, <2>1 DEF Register
    <2>4. \A v \in AuthThreads : alogin'[v] = alogin[v] \/ alogin'[v].pc = "rate"
      BY <1>1, <2>2, <2>3 DEF AuthShape
    <2> QED
      BY <1>1, <2>3, <2>4, AuthQuiet DEF AuthShape
  <1>6. ASSUME NEW t \in AuthThreads, NEW u \in Users, NEW i \in Ips, NEW b \in BOOLEAN, Login(t, u, i, b)
        PROVE  AuthCounted'
    <2>1. PICK l : l = [NoLogin EXCEPT !.user = u, !.ip = i, !.right = b]
      OBVIOUS
    <2>2. l = [pc |-> l.pc, user |-> l.user, ip |-> l.ip, right |-> l.right, token |-> l.token]
      BY <2>1 DEF NoLogin
    <2> QED
      BY <1>1, <1>6, <2>1, <2>2, AuthPasses DEF Login
  <1>7. ASSUME NEW t \in AuthThreads, LoginAfterRegister(t) PROVE AuthCounted'
    BY <1>1, <1>7, AuthPasses DEF LoginAfterRegister, AuthShape
  <1>8. ASSUME NEW t \in AuthThreads, UserNotFound(t) PROVE AuthCounted'
    BY <1>1, <1>8, AuthQuiet DEF UserNotFound, AuthShape
  <1>9. ASSUME NEW t \in AuthThreads, WrongPassword(t) PROVE AuthCounted'
    BY <1>1, <1>9, AuthQuiet DEF WrongPassword, AuthShape
  <1>10. ASSUME NEW t \in AuthThreads, RightPassword(t) PROVE AuthCounted'
    BY <1>1, <1>10, AuthQuiet DEF RightPassword, AuthShape
  <1>11. ASSUME NEW t \in AuthThreads, LogFailure(t) PROVE AuthCounted'
    BY <1>1, <1>11, AuthRecords
  <1>12. ASSUME NEW t \in AuthThreads, GenerateTokens(t) PROVE AuthCounted'
    BY <1>1, <1>12, AuthQuiet DEF GenerateTokens, AuthShape, NoLogin
  <1>13. ASSUME NEW t \in AuthThreads, CreateSession(t) PROVE AuthCounted'
    <2>1. alogin' = [alogin EXCEPT ![t] = NoLogin] /\ UNCHANGED <<aclock, failures>>
      BY <1>13 DEF CreateSession
    <2>2. NoLogin.pc = "idle"
      BY DEF NoLogin
    <2>3. \A v \in AuthThreads : alogin'[v] = alogin[v] \/ alogin'[v].pc = "idle"
      BY <1>1, <2>1, <2>2 DEF AuthShape
    <2> QED
      BY <1>1, <2>1, <2>3, AuthQuiet DEF AuthShape
  <1>14. ASSUME NEW t \in AuthThreads, NEW s \in asessions, Logout(t, s) \/ ValidateToken(t, s) PROVE AuthCounted'
    BY <1>2, <1>14 DEF Logout, ValidateToken
  <1> QED
    BY <1>2, <1>3, <1>4, <1>6, <1>7, <1>8, <1>9, <1>10, <1>11, <1>12, <1>13, <1>14 DEF AuthNext, authvars

(* An address never fails more often in an hour than the limit and once for
   each thread, although the limit is tested in one critical section and the
   failure recorded in another one (auth.c, rate_limit_check and
   log_authentication_attempt), for any threads, addresses, users and limits. *)
THEOREM FailuresAreLimited == AuthSpec => []FailuresLimited
  <1>1. AuthInit => AuthInv
    <2> SUFFICES ASSUME AuthInit PROVE AuthInv
      OBVIOUS
    <2>1. AuthShape
      BY FS_EmptySet DEF AuthInit, AuthShape, NoLogin
    <2>2. ASSUME NEW i \in Ips
          PROVE  Cardinality(From(i)) + Cardinality(Past(i)) <= ip_limit + Cardinality(AuthThreads)
      <3>1. From(i) = {} /\ Past(i) = {}
        BY DEF AuthInit, From, LastHour, Past, NoLogin
      <3>2. Cardinality({}) = 0 /\ ip_limit \in Nat /\ Cardinality(AuthThreads) \in Nat
        BY AuthAssumption, FS_EmptySet, FS_CardinalityType
      <3> QED
        BY <3>1, <3>2
    <2> QED
      BY <2>1, <2>2 DEF AuthInv, AuthCounted
  <1>2. AuthInv /\ [AuthNext]_authvars => AuthInv'
    BY AuthShapeStep, AuthCountedStep DEF AuthInv
  <1>3. AuthInv => FailuresLimited
    <2> SUFFICES ASSUME AuthInv, NEW i \in Ips
                 PROVE  Cardinality(From(i)) <= ip_limit + Cardinality(AuthThreads)
      BY DEF FailuresLimited, FailuresFrom, From
    <2> QED
      BY AuthFinite DEF AuthInv, AuthCounted
  <1> QED
    BY <1>1, <1>2, <1>3, PTL DEF AuthSpec

-----------------------------------------------------------------------------
(* Config: what is written is read again.  A line of the written file comes
   from one item and stands below the header of that item's section; the
   induction is over the sections written so far. *)

(* The last one of finitely many lines. *)
LEMMA LastIsMax ==
    ASSUME NEW n \in Nat, NEW S \in SUBSET (1..n), S # {}
    PROVE  Max(S) \in S /\ \A y \in S : y <= Max(S)
  <1> DEFINE U == {k \in Nat : \A y \in S : y <= k}
  <1>1. n \in U
    OBVIOUS
  <1>2. Min(U) \in U /\ \A k \in U : Min(U) <= k
    BY <1>1, LeastIsMin
  <1>3. Min(U) \in S
    <2>1. PICK y \in S : TRUE
      OBVIOUS
    <2>2. Min(U) \in Nat /\ y <= Min(U) /\ y >= 1
      BY <1>2
    <2>3. ASSUME Min(U) \notin S PROVE FALSE
      <3>1. Min(U) - 1 \in Nat /\ \A z \in S : z <= Min(U) - 1
        BY <2>2, <2>3, <1>2
      <3>2. Min(U) - 1 \in U
        BY <3>1
      <3>3. Min(U) <= Min(U) - 1
        BY <3>2, <1>2
      <3> QED
        BY <3>3, <2>2
    <2> QED
      BY <2>3
  <1>4. \A y \in S : Min(U) >= y
    BY <1>2
  <1> QED
    BY <1>3, <1>4 DEF Max

(* A sequence, whatever its elements are. *)
IsSeq(q) == \E A : q \in Seq(A)

LEMMA IsSeqs ==
    ASSUME NEW n \in Nat, NEW f, DOMAIN f = 1..n, f = [i \in 1..n |-> f[i]]
    PROVE  IsSeq(f) /\ Len(f) = n
  <1>1. f \in Seq({f[i] : i \in 1..n})
    OBVIOUS
  <1>2. Len(f) \in Nat /\ DOMAIN f = 1..Len(f)
    BY <1>1
  <1>3. Len(f) = n
    <2>1. \A k \in Nat : k \in 1..Len(f) <=> k \in 1..n
      BY <1>2
    <2>2. Len(f) > 0 => Len(f) <= n
      BY <2>1, <1>2
    <2>3. n > 0 => n <= Len(f)
      BY <2>1, <1>2
    <2> QED
      BY <2>2, <2>3, <1>2
  <1> QED
    BY <1>1, <1>3 DEF IsSeq

LEMMA SeqDomain == ASSUME NEW q, IsSeq(q) PROVE Len(q) \in Nat /\ DOMAIN q = 1..Len(q)
  BY DEF IsSeq

LEMMA SeqAppend ==
    ASSUME NEW q, NEW e, IsSeq(q)
    PROVE  /\ IsSeq(Append(q, e)) /\ Len(Append(q, e)) = Len(q) + 1 /\ Append(q, e)[Len(q) + 1] = e
           /\ \A i \in 1..Len(q) : Append(q, e)[i] = q[i]
  <1>1. PICK A : q \in Seq(A)
    BY DEF IsSeq
  <1> DEFINE B == A \cup {e}
  <1>2. q \in Seq(B) /\ e \in B
    BY <1>1
  <1> HIDE DEF B
  <1>3. Append(q, e) \in Seq(B)
    BY <1>2
  <1> QED
    BY <1>2, <1>3 DEF IsSeq

LEMMA SeqConcat ==
    ASSUME NEW q, NEW r, IsSeq(q), IsSeq(r)
    PROVE  /\ IsSeq(q \o r) /\ Len(q \o r) = Len(q) + Len(r)
           /\ \A i \in 1..Len(q) : (q \o r)[i] = q[i]
           /\ \A i \in 1..Len(r) : (q \o r)[Len(q) + i] = r[i]
  <1>1. PICK A, B : q \in Seq(A) /\ r \in Seq(B)
    BY DEF IsSeq
  <1> DEFINE C == A \cup B
  <1>2. q \in Seq(C) /\ r \in Seq(C)
    BY <1>1
  <1> HIDE DEF C
  <1>3. q \o r \in Seq(C)
    BY <1>2
  <1> QED
    BY <1>2, <1>3, ConcatProperties DEF IsSeq

(* Line n of f is item i of the section, below that section's header. *)
Written(f, n, section, i) ==
    /\ f[n] = Pair(section.items[i])
    /\ \E m \in 1..n : f[m] = Header(section) /\ \A j \in (m + 1)..n : f[j].kind = "pair"

(* f is what the first k sections make. *)
Wrote(f, secs, k) ==
    /\ IsSeq(f)
    /\ \A s \in 1..k : \A i \in DOMAIN secs[s].items : \E n \in DOMAIN f : Written(f, n, secs[s], i)
    /\ \A n \in DOMAIN f : f[n].kind = "pair" =>
          \E s \in 1..k : \E i \in DOMAIN secs[s].items : Written(f, n, secs[s], i)

LEMMA WrittenKept ==
    ASSUME NEW f, NEW g, IsSeq(f), IsSeq(g), NEW n \in DOMAIN f, NEW section, NEW i, Written(f, n, section, i)
    PROVE  Written(f \o g, n, section, i)
  <1>1. Len(f) \in Nat /\ n \in 1..Len(f) /\ \A j \in 1..Len(f) : (f \o g)[j] = f[j]
    BY SeqDomain, SeqConcat
  <1>2. PICK m \in 1..n : f[m] = Header(section) /\ \A j \in (m + 1)..n : f[j].kind = "pair"
    BY DEF Written
  <1>3. m \in 1..Len(f) /\ \A j \in (m + 1)..n : j \in 1..Len(f)
    BY <1>1, <1>2
  <1> QED
    BY <1>1, <1>2, <1>3 DEF Written

(* One section more. *)
LEMMA WroteNext ==
    ASSUME NEW secs, NEW k \in Nat, NEW f, Wrote(f, secs, k), IsSeq(secs[k + 1].items)
    PROVE  Wrote(f \o SectionLines(secs[k + 1]), secs, k + 1)
  <1> DEFINE sec == secs[k + 1]
             items == sec.items
             pairs == [i \in DOMAIN items |-> Pair(items[i])]
             g == SectionLines(sec)
             F == f \o g
  <1>0. IsSeq(f) /\ Len(f) \in Nat /\ DOMAIN f = 1..Len(f) /\ Len(items) \in Nat /\ DOMAIN items = 1..Len(items)
    BY SeqDomain DEF Wrote
  <1>1. CASE items = <<>>
    <2>1. g = <<>>
      BY <1>1 DEF SectionLines
    <2>2. F = f
      BY <2>1, <1>0 DEF IsSeq
    <2>3. DOMAIN items = {}
      BY <1>1
    <2>4. \A s \in 1..(k + 1) : s \in 1..k \/ s = k + 1
      OBVIOUS
    <2>5. 1..k \subseteq 1..(k + 1)
      OBVIOUS
    <2> HIDE DEF g, F
    <2>6. Wrote(F, secs, k + 1)
      BY <2>2, <2>3, <2>4, <2>5, SMTT(30) DEF Wrote
    <2> QED
      BY <2>6 DEF F, g
  <1>2. CASE items # <<>>
    <2>1. IsSeq(pairs) /\ Len(pairs) = Len(items) /\ \A i \in 1..Len(items) : pairs[i] = Pair(items[i])
      BY <1>0, IsSeqs
    <2>2. g = <<Header(sec)>> \o pairs
      BY <1>2 DEF SectionLines
    <2>3. IsSeq(<<Header(sec)>>) /\ Len(<<Header(sec)>>) = 1 /\ <<Header(sec)>>[1] = Header(sec)
      <3>1. <<Header(sec)>> \in Seq({Header(sec)})
        OBVIOUS
      <3> QED
        BY <3>1 DEF IsSeq
    <2> HIDE DEF pairs
    <2>4. /\ IsSeq(g) /\ Len(g) = 1 + Len(items) /\ g[1] = Header(sec)
          /\ \A i \in 1..Len(items) : g[1 + i] = Pair(items[i])
      <3> DEFINE one == <<Header(sec)>>
      <3>1. /\ IsSeq(one \o pairs) /\ Len(one \o pairs) = Len(one) + Len(pairs)
            /\ \A i \in 1..Len(one) : (one \o pairs)[i] = one[i]
            /\ \A i \in 1..Len(pairs) : (one \o pairs)[Len(one) + i] = pairs[i]
        BY <2>1, <2>3, SeqConcat
      <3>2. g = one \o pairs /\ Len(one) = 1 /\ one[1] = Header(sec)
        BY <2>2, <2>3
      <3> HIDE DEF one, g, items
      <3>3. /\ IsSeq(g) /\ Len(g) = 1 + Len(pairs)
            /\ \A i \in 1..1 : g[i] = one[i]
            /\ \A i \in 1..Len(pairs) : g[1 + i] = pairs[i]
        BY <3>1, <3>2
      <3>4. g[1] = Header(sec)
        BY <3>2, <3>3
      <3>5. \A i \in 1..Len(items) : g[1 + i] = Pair(items[i])
        BY <3>3, <2>1
      <3> QED
        BY <3>3, <3>4, <3>5, <2>1
    <2> HIDE DEF g
    <2>5. /\ IsSeq(F) /\ Len(F) = Len(f) + 1 + Len(items)
          /\ \A i \in 1..Len(f) : F[i] = f[i]
          /\ F[Len(f) + 1] = Header(sec)
          /\ \A i \in 1..Len(items) : F[Len(f) + 1 + i] = Pair(items[i])
      <3>1. /\ IsSeq(F) /\ Len(F) = Len(f) + Len(g) /\ \A i \in 1..Len(f) : F[i] = f[i]
            /\ \A i \in 1..Len(g) : F[Len(f) + i] = g[i]
        <4>1. IsSeq(f) /\ IsSeq(g)
          BY <1>0, <2>4
        <4> QED
          BY ONLY <4>1, SeqConcat
      <3> HIDE DEF F
      <3>2. F[Len(f) + 1] = Header(sec)
        BY <3>1, <2>4, <1>0
      <3>3. ASSUME NEW i \in 1..Len(items) PROVE F[Len(f) + 1 + i] = Pair(items[i])
        <4>1. 1 + i \in 1..Len(g) /\ Len(f) + (1 + i) = Len(f) + 1 + i
          BY <2>4, <1>0
        <4> QED
          BY <4>1, <3>1, <2>4
      <3>4. Len(F) = Len(f) + 1 + Len(items)
        <4> HIDE DEF items
        <4> QED
          BY <3>1, <2>4, <1>0
      <3> QED
        BY <3>1, <3>2, <3>3, <3>4
    <2>6. ASSUME NEW n \in 1..Len(f), NEW section, NEW i, Written(f, n, section, i) PROVE Written(F, n, section, i)
      BY <2>6, <1>0, <2>4, WrittenKept
    <2>7. DOMAIN F = 1..(Len(f) + 1 + Len(items))
      BY <2>5, SeqDomain
    <2> HIDE DEF F
    <2>8. ASSUME NEW i \in 1..Len(items) PROVE Written(F, Len(f) + 1 + i, sec, i)
      <3>1. Len(f) + 1 \in 1..(Len(f) + 1 + i)
        BY <1>0
      <3>2. ASSUME NEW j \in (Len(f) + 1 + 1)..(Len(f) + 1 + i) PROVE F[j].kind = "pair"
        <4>1. j - Len(f) - 1 \in 1..Len(items) /\ Len(f) + 1 + (j - Len(f) - 1) = j
          BY <1>0
        <4>2. F[j] = Pair(items[j - Len(f) - 1])
          BY <4>1, <2>5
        <4> QED
          BY <4>2 DEF Pair
      <3> QED
        BY <3>1, <3>2, <2>5 DEF Written
    <2>9. ASSUME NEW s \in 1..(k + 1), NEW i \in DOMAIN secs[s].items
          PROVE  \E n \in DOMAIN F : Written(F, n, secs[s], i)
      <3>1. CASE s = k + 1
        <4>1. i \in 1..Len(items) /\ Len(f) + 1 + i \in DOMAIN F
          <5>1. i \in 1..Len(items)
            BY <3>1, <1>0
          <5> HIDE DEF items
          <5> QED
            BY <5>1, <1>0, <2>7
        <4> QED
          BY <4>1, <3>1, <2>8
      <3>2. CASE s # k + 1
        <4>1. s \in 1..k
          BY <3>2
        <4>2. PICK n \in DOMAIN f : Written(f, n, secs[s], i)
          BY <4>1 DEF Wrote
        <4>3. n \in 1..Len(f) /\ n \in DOMAIN F
          <5> HIDE DEF items
          <5> QED
            BY <1>0, <2>7
        <4> QED
          BY <4>2, <4>3, <2>6
      <3> QED
        BY <3>1, <3>2
    <2>10. ASSUME NEW n \in DOMAIN F, F[n].kind = "pair"
           PROVE  \E s \in 1..(k + 1) : \E i \in DOMAIN secs[s].items : Written(F, n, secs[s], i)
      <3>1. CASE n \in 1..Len(f)
        <4>1. f[n].kind = "pair"
          BY <2>10, <3>1, <2>5
        <4>2. PICK s \in 1..k : \E i \in DOMAIN secs[s].items : Written(f, n, secs[s], i)
          BY <4>1, <3>1, <1>0 DEF Wrote
        <4>3. PICK i \in DOMAIN secs[s].items : Written(f, n, secs[s], i)
          BY <4>2
        <4>4. Written(F, n, secs[s], i) /\ s \in 1..(k + 1)
          BY <4>3, <3>1, <2>6
        <4> QED
          BY <4>4
      <3>2. CASE n \notin 1..Len(f)
        <4>1. n # Len(f) + 1
          <5>1. Header(sec).kind = "section"
            BY DEF Header
          <5> HIDE DEF items, sec
          <5> QED
            BY <2>10, <2>5, <5>1
        <4>2. n - Len(f) - 1 \in 1..Len(items) /\ Len(f) + 1 + (n - Len(f) - 1) = n
          <5> HIDE DEF items
          <5> QED
            BY <4>1, <3>2, <2>7, <1>0
        <4>3. Written(F, n, sec, n - Len(f) - 1)
          BY <4>2, <2>8
        <4> QED
          BY <4>2, <4>3, <1>0, k + 1 \in 1..(k + 1)
      <3> QED
        BY <3>1, <3>2
    <2>11. Wrote(F, secs, k + 1)
      BY <2>5, <2>9, <2>10 DEF Wrote
    <2> QED
      BY <2>11 DEF F, g
  <1> QED
    BY <1>1, <1>2

(* The file as a function of the number of sections. *)
IsWriting(f, secs, N) == f = [s \in 0..N |-> IF s = 0 THEN <<>> ELSE f[s - 1] \o SectionLines(secs[s])]

(* It exists: were there a least number of sections without one, the function
   for one section fewer would extend. *)
LEMMA WritingExists ==
    ASSUME NEW secs, NEW N \in Nat
    PROVE  \E f : IsWriting(f, secs, N)
  <1> DEFINE Is(f, m) == f = [s \in 0..m |-> IF s = 0 THEN <<>> ELSE f[s - 1] \o SectionLines(secs[s])]
             T == {m \in Nat : ~\E f : Is(f, m)}
  <1>1. SUFFICES ASSUME T # {} PROVE FALSE
    BY DEF IsWriting
  <1>2. PICK m \in T : \A y \in T : m <= y
    BY <1>1, LeastIsMin
  <1>3. m # 0
    <2>1. ASSUME m = 0 PROVE FALSE
      <3> DEFINE g == [n \in 0..0 |-> <<>>]
      <3>1. Is(g, 0)
        OBVIOUS
      <3> QED
        BY <2>1, <3>1
    <2> QED
      BY <2>1
  <1>4. PICK f : Is(f, m - 1)
    <2>1. m - 1 \in Nat /\ ~(m <= m - 1)
      BY <1>3
    <2> QED
      BY <1>2, <2>1
  <1> DEFINE g == [s \in 0..m |-> IF s = 0 THEN <<>> ELSE f[s - 1] \o SectionLines(secs[s])]
  <1>5. ASSUME NEW s \in 1..m PROVE g[s - 1] = f[s - 1]
    BY <1>3, <1>4
  <1>6. Is(g, m)
    <2>1. ASSUME NEW s \in 0..m
          PROVE  g[s] = IF s = 0 THEN <<>> ELSE g[s - 1] \o SectionLines(secs[s])
      <3>1. g[s] = IF s = 0 THEN <<>> ELSE f[s - 1] \o SectionLines(secs[s])
        OBVIOUS
      <3>2. CASE s = 0
        BY <3>1, <3>2
      <3>3. CASE s # 0
        <4>1. s \in 1..m
          BY <3>3
        <4>2. g[s - 1] = f[s - 1]
          BY <4>1, <1>5
        <4> HIDE DEF g
        <4> QED
          BY <3>1, <3>3, <4>2
      <3> QED
        BY <3>2, <3>3
    <2> HIDE DEF g
    <2> QED
      BY <2>1 DEF g
  <1> QED
    BY <1>6

(* What write_config_file makes of all sections. *)
LEMMA FileWritten ==
    ASSUME NEW secs, Len(secs) \in Nat, \A s \in 1..Len(secs) : IsSeq(secs[s].items)
    PROVE  Wrote(WriteConfigFile(secs), secs, Len(secs))
  <1> DEFINE N == Len(secs)
  <1>1. PICK f : IsWriting(f, secs, N)
    BY WritingExists
  <1>2. PICK g : /\ g = [s \in 0..N |-> IF s = 0 THEN <<>> ELSE g[s - 1] \o SectionLines(secs[s])]
                 /\ WriteConfigFile(secs) = g[N]
    BY <1>1 DEF WriteConfigFile, IsWriting
  <1>3. g[0] = <<>> /\ \A s \in 1..N : g[s] = g[s - 1] \o SectionLines(secs[s])
    BY <1>2
  <1>4. Wrote(g[0], secs, 0)
    <2>1. IsSeq(<<>>) /\ DOMAIN <<>> = {}
      <3>1. <<>> \in Seq({})
        OBVIOUS
      <3> QED
        BY <3>1 DEF IsSeq
    <2>2. 1..0 = {}
      OBVIOUS
    <2> QED
      BY <2>1, <2>2, <1>3 DEF Wrote
  <1> DEFINE U == {k \in Nat : k <= N /\ ~Wrote(g[k], secs, k)}
  <1>5. ASSUME U # {} PROVE FALSE
    <2>1. PICK k \in U : \A y \in U : k <= y
      BY <1>5, LeastIsMin
    <2>2. k \in 1..N /\ k - 1 \in Nat /\ k - 1 \notin U /\ (k - 1) + 1 = k
      BY <2>1, <1>4
    <2>3. Wrote(g[k - 1], secs, k - 1)
      BY <2>2
    <2> HIDE DEF U
    <2>4. Wrote(g[k - 1] \o SectionLines(secs[(k - 1) + 1]), secs, (k - 1) + 1)
      BY <2>2, <2>3, WroteNext
    <2>5. Wrote(g[k], secs, k)
      BY <2>2, <2>4, <1>3
    <2> QED
      BY <2>5, <2>1 DEF U
  <1>6. Wrote(g[N], secs, N)
    BY <1>5
  <1> QED
    BY <1>2, <1>6
(* A registered item: a value of its type, and with a strict validation no
   empty text that is not the default. *)
ItemOK(item) ==
    /\ item = [key |-> item.key, type |-> item.type, strict |-> item.strict,
               default |-> item.default, value |-> item.value]
    /\ item.type \in ConfigTypes /\ item.strict \in BOOLEAN /\ (item.strict => item.type = "STRING")
    /\ item.strict /\ item.value = "" => item.default = ""

SectionOK(section) ==
    /\ section = [name |-> section.name, items |-> section.items]
    /\ IsSeq(section.items)
    /\ \A i \in DOMAIN section.items : ItemOK(section.items[i])

SectionsOK(secs) == IsSeq(secs) /\ \A s \in DOMAIN secs : SectionOK(secs[s])

CfgInv == SectionsOK(sections) /\ \E n \in Nat : DOMAIN file = 1..n

(* A printed value is accepted, but for an empty text by a strict validation. *)
LEMMA PrintedIsValid ==
    ASSUME NEW item, ItemOK(item), ~(item.strict /\ ReadBack(PrintValue(item)) = "")
    PROVE  ValidValue(item, ReadBack(PrintValue(item)))
  <1>1. CASE item.strict
    BY <1>1 DEF ItemOK, ValidValue
  <1>2. CASE ~item.strict /\ item.type \in {"INT", "FLOAT", "BOOL"}
    <2>1. PrintValue(item) \in {"0", "1", "true", "false", "0.500000", "1.000000", "0.000000"}
      BY <1>2 DEF PrintValue
    <2>2. ReadBack(PrintValue(item)) = PrintValue(item)
      BY <2>1, CfgAssumption DEF ReadBack
    <2>3. ValidValue(item, PrintValue(item))
      BY <1>2 DEF PrintValue, ValidValue
    <2> QED
      BY <2>2, <2>3
  <1>3. CASE ~item.strict /\ item.type \in {"STRING", "STRING_ARRAY"}
    BY <1>3 DEF ValidValue
  <1> QED
    BY <1>1, <1>2, <1>3 DEF ItemOK, ConfigTypes

(* The section a line belongs to, where no line runs over into a header. *)
LEMMA SectionOfLine ==
    ASSUME NEW f, NEW n \in Nat, NEW section, NEW i, Written(f, n, section, i), section.name[1] # "",
           \A j \in 1..n : Rest(f[j]).kind # "section"
    PROVE  CurrentSection(f, n) = section.name
  <1>1. PICK m \in 1..n : f[m] = Header(section) /\ \A j \in (m + 1)..n : f[j].kind = "pair"
    BY DEF Written
  <1> DEFINE headers == {j \in 1..n : IsHeader(f[j]) \/ (j < n /\ IsHeader(Rest(f[j])))}
  <1>h. IsHeader(Header(section)) /\ Header(section).name = section.name
    BY DEF Header, IsHeader
  <1>r. \A j \in headers : IsHeader(f[j])
    BY DEF IsHeader
  <1>2. m \in headers
    BY <1>1, <1>h
  <1>3. headers \in SUBSET (1..n) /\ headers # {}
    BY <1>2
  <1>4. Max(headers) \in headers /\ \A y \in headers : y <= Max(headers)
    <2> HIDE DEF headers
    <2> QED
      BY <1>3, LastIsMax
  <1>5. Max(headers) = m
    <2>1. Max(headers) \in 1..n /\ f[Max(headers)].kind = "section" /\ m <= Max(headers)
      BY <1>2, <1>4, <1>r DEF IsHeader
    <2>2. Max(headers) \notin (m + 1)..n
      BY <2>1, <1>1
    <2> DEFINE last == Max(headers)
    <2>3. n \in Nat /\ m \in 1..n /\ last \in 1..n /\ m <= last /\ last \notin (m + 1)..n
      BY <2>1, <2>2
    <2> HIDE DEF last
    <2>4. last = m
      BY ONLY <2>3
    <2> QED
      BY <2>4 DEF last
  <1>6. CurrentSection(f, n) = f[Max(headers)].name
    BY <1>3, <1>4, <1>r DEF CurrentSection
  <1> QED
    BY <1>1, <1>5, <1>6, <1>h

(* parse_config_file leaves everything but values, and those it changes it
   takes from a line that the item accepts. *)
LEMMA Parsed ==
    ASSUME NEW secs, NEW f, \E n \in Nat : DOMAIN f = 1..n,
           NEW s \in DOMAIN secs, NEW i \in DOMAIN secs[s].items,
           secs[s] = [name |-> secs[s].name, items |-> secs[s].items]
    PROVE  LET item == secs[s].items[i]
               new == ParseConfigFile(secs, f)[s].items[i]
               lines == LinesFor(secs, f, s, i)
           IN  \/ lines = {} /\ new = item
               \/ \E l \in lines : new = [item EXCEPT !.value = ConvertString(item.type, TextFor(secs, f, s, i, l))]
  <1> DEFINE lines == LinesFor(secs, f, s, i)
             item == secs[s].items[i]
  <1>1. ParseConfigFile(secs, f)[s].items[i]
          = IF lines = {} THEN item
            ELSE [item EXCEPT !.value = ConvertString(item.type, TextFor(secs, f, s, i, Max(lines)))]
    BY DEF ParseConfigFile
  <1>2. CASE lines = {}
    BY <1>1, <1>2
  <1>3. CASE lines # {}
    <2>1. PICK n \in Nat : DOMAIN f = 1..n
      OBVIOUS
    <2>2. lines \in SUBSET (1..n)
      BY <2>1 DEF LinesFor
    <2>3. Max(lines) \in lines
      <3> HIDE DEF lines
      <3> QED
        BY <1>3, <2>1, <2>2, LastIsMax
    <2> QED
      BY <1>1, <1>3, <2>3
  <1> QED
    BY <1>2, <1>3

LEMMA ParsedShape ==
    ASSUME NEW secs, NEW f, SectionsOK(secs), \E n \in Nat : DOMAIN f = 1..n
    PROVE  SectionsOK(ParseConfigFile(secs, f))
  <1> DEFINE P == ParseConfigFile(secs, f)
  <1>1. Len(secs) \in Nat /\ DOMAIN secs = 1..Len(secs)
    BY SeqDomain DEF SectionsOK
  <1>2. DOMAIN P = 1..Len(secs) /\ P = [s \in 1..Len(secs) |-> P[s]]
    BY <1>1 DEF ParseConfigFile
  <1>3. IsSeq(P)
    BY <1>1, <1>2, IsSeqs
  <1>4. ASSUME NEW s \in DOMAIN secs PROVE SectionOK(P[s])
    <2> DEFINE its == secs[s].items
    <2>1. SectionOK(secs[s]) /\ Len(its) \in Nat /\ DOMAIN its = 1..Len(its)
      BY SeqDomain DEF SectionsOK, SectionOK
    <2>2. /\ P[s] = [name |-> P[s].name, items |-> P[s].items]
          /\ DOMAIN P[s].items = 1..Len(its) /\ P[s].items = [i \in 1..Len(its) |-> P[s].items[i]]
      <3> DEFINE mine == [i \in DOMAIN its |->
                            LET item == its[i]
                                lines == LinesFor(secs, f, s, i)
                            IN IF lines = {} THEN item
                               ELSE [item EXCEPT !.value =
                                       ConvertString(item.type, TextFor(secs, f, s, i, Max(lines)))]]
      <3>1. P[s] = [secs[s] EXCEPT !.items = mine]
        BY DEF ParseConfigFile
      <3>2. DOMAIN mine = 1..Len(its) /\ mine = [i \in 1..Len(its) |-> mine[i]]
        BY <2>1
      <3>3. P[s] = [name |-> secs[s].name, items |-> mine]
        <4> HIDE DEF mine, P
        <4> QED
          BY <3>1, <2>1 DEF SectionOK
      <3> HIDE DEF mine, P
      <3> QED
        BY <3>2, <3>3
    <2>3. IsSeq(P[s].items)
      <3> HIDE DEF P
      <3> QED
        BY <2>1, <2>2, IsSeqs
    <2>4. ASSUME NEW i \in DOMAIN P[s].items PROVE ItemOK(P[s].items[i])
      <3> DEFINE item == its[i]
                 new == P[s].items[i]
      <3>1. i \in DOMAIN its /\ ItemOK(item)
        BY <2>1, <2>2, <2>4 DEF SectionOK
      <3>2. \/ new = item
            \/ \E l \in LinesFor(secs, f, s, i) :
                  new = [item EXCEPT !.value = ConvertString(item.type, TextFor(secs, f, s, i, l))]
        BY <3>1, <2>1, Parsed DEF SectionOK
      <3>3. CASE new = item
        BY <3>1, <3>3
      <3>4. ASSUME NEW l \in LinesFor(secs, f, s, i),
                   new = [item EXCEPT !.value = ConvertString(item.type, TextFor(secs, f, s, i, l))]
            PROVE  ItemOK(new)
        <4> DEFINE text == TextFor(secs, f, s, i, l)
        <4>1. ValidValue(item, text)
          BY DEF LinesFor, TextFor, Changes
        <4> HIDE DEF text
        <4>2. new = [key |-> item.key, type |-> item.type, strict |-> item.strict, default |-> item.default,
                     value |-> ConvertString(item.type, text)]
          <5> HIDE DEF item, new
          <5> QED
            BY <3>1, <3>4 DEF ItemOK, text
        <4>3. item.strict => new.value # ""
          <5> HIDE DEF item, new
          <5> QED
            BY <4>1, <4>2, <3>1 DEF ValidValue, ConvertString, ItemOK
        <4> HIDE DEF item, new
        <4>4. new.type = item.type /\ new.strict = item.strict /\ new.value = ConvertString(item.type, text)
          BY <4>2
        <4> QED
          BY <4>2, <4>3, <4>4, <3>1 DEF ItemOK
      <3> QED
        BY <3>2, <3>3, <3>4
    <2> QED
      BY <2>2, <2>3, <2>4 DEF SectionOK
  <1> QED
    BY <1>1, <1>2, <1>3, <1>4 DEF SectionsOK

LEMMA CfgInit1 == CfgInit => CfgInv
  <1>1. <<>> \in Seq({}) /\ DOMAIN <<>> = {} /\ DOMAIN <<>> = 1..0
    OBVIOUS
  <1> QED
    BY <1>1 DEF CfgInit, CfgInv, SectionsOK, IsSeq
LEMMA CfgInvStep == CfgInv /\ [CfgNext]_cfgvars => CfgInv'
  <1> SUFFICES ASSUME CfgInv, [CfgNext]_cfgvars PROVE CfgInv'
    OBVIOUS
  <1>1. CASE UNCHANGED cfgvars
    BY <1>1 DEF CfgInv, cfgvars
  <1>2. ASSUME NEW n \in SectionNames, NEW k \in Keys, NEW t \in ConfigTypes, NEW strict \in BOOLEAN, NEW d,
               strict => t = "STRING", RegisterItem(n, k, t, d, strict)
        PROVE  CfgInv'
    <2> DEFINE secs == WithSection(n)
               s == SectionIndex(n)
               item == NewItem(k, t, d, strict)
    <2>1. Len(sections) \in Nat /\ DOMAIN sections = 1..Len(sections) /\ IsSeq(sections)
      BY SeqDomain DEF CfgInv, SectionsOK
    <2>2. SectionsOK(secs) /\ s \in DOMAIN secs
      <3>1. CASE SectionsNamed(sections, n) # {}
        <4>1. SectionsNamed(sections, n) \in SUBSET Nat
          BY <2>1 DEF SectionsNamed
        <4>2. Min(SectionsNamed(sections, n)) \in SectionsNamed(sections, n)
          BY <3>1, <4>1, LeastIsMin
        <4> QED
          BY <3>1, <4>2 DEF WithSection, SectionIndex, SectionsNamed, CfgInv
      <3>2. CASE SectionsNamed(sections, n) = {}
        <4> DEFINE e == [name |-> CutName(n), items |-> <<>>]
        <4>1. SectionOK(e)
          <5>1. e.items = <<>> /\ <<>> \in Seq({}) /\ DOMAIN <<>> = {}
            OBVIOUS
          <5>2. e = [name |-> e.name, items |-> e.items]
            OBVIOUS
          <5> HIDE DEF e
          <5> QED
            BY <5>1, <5>2 DEF SectionOK, IsSeq
        <4> HIDE DEF e
        <4>2. /\ IsSeq(Append(sections, e)) /\ Len(Append(sections, e)) = Len(sections) + 1
              /\ Append(sections, e)[Len(sections) + 1] = e
              /\ \A i \in 1..Len(sections) : Append(sections, e)[i] = sections[i]
          BY <2>1, SeqAppend
        <4>3. secs = Append(sections, e) /\ s = Len(sections) + 1
          BY <3>2 DEF WithSection, SectionIndex, e
        <4>4. DOMAIN secs = 1..(Len(sections) + 1)
          BY <4>2, <4>3, SeqDomain
        <4> HIDE DEF secs, s
        <4>5. ASSUME NEW r \in DOMAIN secs PROVE SectionOK(secs[r])
          <5>1. CASE r \in 1..Len(sections)
            BY <5>1, <4>2, <4>3, <2>1 DEF CfgInv, SectionsOK
          <5>2. CASE r = Len(sections) + 1
            BY <5>2, <4>1, <4>2, <4>3
          <5> QED
            BY <5>1, <5>2, <4>4, <2>1
        <4> QED
          BY <4>2, <4>3, <4>4, <4>5, <2>1 DEF SectionsOK
      <3> QED
        BY <3>1, <3>2
    <2>3. ItemOK(item)
      <3>1. /\ item = [key |-> item.key, type |-> item.type, strict |-> item.strict,
                       default |-> item.default, value |-> item.value]
            /\ item.type = t /\ item.strict = strict /\ item.value = ConvertString(t, d)
            /\ item.default = ConvertString(t, d)
        BY DEF NewItem
      <3> HIDE DEF item
      <3> QED
        BY <3>1, <1>2 DEF ItemOK
    <2>4. \/ sections' = secs
          \/ sections' = [secs EXCEPT ![s].items = Append(@, item)]
      BY <1>2 DEF RegisterItem
    <2>5. file' = file
      BY <1>2 DEF RegisterItem
    <2> HIDE DEF secs, s, item
    <2>6. CASE sections' = secs
      BY <2>2, <2>5, <2>6 DEF CfgInv
    <2>7. CASE sections' = [secs EXCEPT ![s].items = Append(@, item)]
      <3> DEFINE its == secs[s].items
                 more == Append(its, item)
                 sec == [secs[s] EXCEPT !.items = more]
      <3>1. SectionOK(secs[s]) /\ IsSeq(its) /\ Len(its) \in Nat /\ DOMAIN its = 1..Len(its)
        BY <2>2, SeqDomain DEF SectionsOK, SectionOK
      <3>2. /\ IsSeq(more) /\ Len(more) = Len(its) + 1 /\ more[Len(its) + 1] = item
            /\ \A i \in 1..Len(its) : more[i] = its[i]
        BY <3>1, SeqAppend
      <3>3. DOMAIN more = 1..(Len(its) + 1)
        BY <3>2, SeqDomain
      <3>4. sections' = [secs EXCEPT ![s] = sec]
        BY <2>7
      <3> HIDE DEF more
      <3>5. sec = [name |-> secs[s].name, items |-> more]
        BY <3>1 DEF SectionOK
      <3>6. ASSUME NEW i \in DOMAIN more PROVE ItemOK(more[i])
        <4> HIDE DEF its
        <4>1. CASE i \in 1..Len(its)
          BY <4>1, <3>1, <3>2 DEF SectionOK, its
        <4>2. CASE i = Len(its) + 1
          BY <4>2, <3>2, <2>3
        <4> QED
          BY <4>1, <4>2, <3>3, <3>1
      <3>7. SectionOK(sec)
        <4>1. sec.name = secs[s].name /\ sec.items = more
          BY <3>5
        <4> HIDE DEF sec
        <4> QED
          BY <4>1, <3>5, <3>6, <3>2 DEF SectionOK
      <3> HIDE DEF sec
      <3>8. Len(secs) \in Nat /\ DOMAIN secs = 1..Len(secs)
        BY <2>2, SeqDomain DEF SectionsOK
      <3>9. DOMAIN sections' = 1..Len(secs) /\ sections' = [r \in 1..Len(secs) |-> sections'[r]]
        BY <3>4, <3>8
      <3>10. IsSeq(sections')
        BY <3>8, <3>9, IsSeqs
      <3>11. ASSUME NEW r \in DOMAIN sections' PROVE SectionOK(sections'[r])
        BY <3>4, <3>7, <3>8, <3>9, <2>2 DEF SectionsOK
      <3> QED
        BY <3>10, <3>11, <2>5 DEF CfgInv, SectionsOK
    <2> QED
      BY <2>4, <2>6, <2>7
  <1>3. CASE Load
    BY <1>3, ParsedShape DEF Load, CfgInv
  <1>4. CASE Save
    <2>1. Len(sections) \in Nat /\ \A s \in 1..Len(sections) : IsSeq(sections[s].items)
      BY SeqDomain DEF CfgInv, SectionsOK, SectionOK
    <2>2. IsSeq(file')
      BY <1>4, <2>1, FileWritten DEF Save, Wrote
    <2>3. \E n \in Nat : DOMAIN file' = 1..n
      BY <2>2, SeqDomain
    <2> QED
      BY <1>4, <2>3 DEF Save, CfgInv
  <1>5. CASE DestroyManager
    <2>1. <<>> \in Seq({}) /\ DOMAIN <<>> = {}
      OBVIOUS
    <2> QED
      BY <1>5, <2>1 DEF DestroyManager, CfgInv, SectionsOK, IsSeq
  <1>6. ASSUME NEW f \in Files, Edit(f) PROVE CfgInv'
    BY <1>6, CfgAssumption DEF Edit, CfgInv
  <1>7. ASSUME NEW n \in SectionNames, NEW k \in Keys, NEW r \in Registrations,
               RegisterItem(n, k, r.type, r.default, r.strict)
        PROVE  CfgInv'
    <2>1. r.type \in ConfigTypes /\ r.strict \in BOOLEAN /\ (r.strict => r.type = "STRING")
      BY CfgAssumption
    <2> QED
      BY <2>1, <1>7, <1>2
  <1> QED
    BY <1>1, <1>3, <1>4, <1>5, <1>6, <1>7 DEF CfgNext

(* What write_config_file leaves gives every item its value again, for every
   set of names and files and any number of registrations: the lines for an
   item are the ones written for it, and its text converts back to its value. *)
THEOREM SavedComesBack == CfgSpec => []SavedIsRestored
  <1>1. CfgInv => SavedIsRestored
    <2> SUFFICES ASSUME CfgInv, NEW s \in DOMAIN sections, NEW i \in DOMAIN sections[s].items, Readable,
                        Carried(s, i)
                 PROVE  LET again == ParseConfigFile(AtDefault(sections), WriteConfigFile(sections))
                        IN  again[s].items[i].value = sections[s].items[i].value
      BY DEF SavedIsRestored
    <2> DEFINE D == AtDefault(sections)
               W == WriteConfigFile(sections)
               item == sections[s].items[i]
               new == ParseConfigFile(D, W)[s].items[i]
    <2>1. /\ Len(sections) \in Nat /\ DOMAIN sections = 1..Len(sections)
          /\ \A r \in DOMAIN sections : SectionOK(sections[r])
          /\ \A r \in 1..Len(sections) : IsSeq(sections[r].items)
      BY SeqDomain DEF CfgInv, SectionsOK, SectionOK
    <2>2. Wrote(W, sections, Len(sections))
      BY <2>1, FileWritten
    <2>3. Len(W) \in Nat /\ DOMAIN W = 1..Len(W)
      BY <2>2, SeqDomain DEF Wrote
    <2> HIDE DEF W
    <2>4. /\ DOMAIN D = DOMAIN sections
          /\ \A r \in DOMAIN sections :
                /\ D[r] = [name |-> D[r].name, items |-> D[r].items] /\ D[r].name = sections[r].name
                /\ DOMAIN D[r].items = DOMAIN sections[r].items
                /\ D[r].items = [j \in DOMAIN sections[r].items |-> D[r].items[j]]
                /\ \A j \in DOMAIN sections[r].items :
                      D[r].items[j] = [sections[r].items[j] EXCEPT !.value = sections[r].items[j].default]
      <3>1. DOMAIN D = DOMAIN sections
        BY DEF AtDefault
      <3>2. ASSUME NEW r \in DOMAIN sections
            PROVE  /\ D[r] = [name |-> D[r].name, items |-> D[r].items] /\ D[r].name = sections[r].name
                   /\ DOMAIN D[r].items = DOMAIN sections[r].items
                   /\ D[r].items = [j \in DOMAIN sections[r].items |-> D[r].items[j]]
                   /\ \A j \in DOMAIN sections[r].items :
                         D[r].items[j] = [sections[r].items[j] EXCEPT !.value = sections[r].items[j].default]
        <4> DEFINE mine == [j \in DOMAIN sections[r].items |->
                              [sections[r].items[j] EXCEPT !.value = sections[r].items[j].default]]
        <4>1. D[r] = [sections[r] EXCEPT !.items = mine]
          BY DEF AtDefault
        <4>2. sections[r] = [name |-> sections[r].name, items |-> sections[r].items]
          BY <2>1 DEF SectionOK
        <4>3. /\ DOMAIN mine = DOMAIN sections[r].items
              /\ mine = [j \in DOMAIN sections[r].items |-> mine[j]]
              /\ \A j \in DOMAIN sections[r].items :
                    mine[j] = [sections[r].items[j] EXCEPT !.value = sections[r].items[j].default]
          OBVIOUS
        <4> HIDE DEF mine, D
        <4>4. D[r] = [name |-> sections[r].name, items |-> mine]
          BY <4>1, <4>2
        <4>5. D[r].items = mine /\ D[r].name = sections[r].name
          BY <4>4
        <4> QED
          BY <4>3, <4>4, <4>5
      <3> QED
        BY <3>1, <3>2
    <2> HIDE DEF D
    <2>5. ItemOK(item)
      BY <2>1 DEF SectionOK
    <2>6. /\ D[s].items[i].key = item.key /\ D[s].items[i].type = item.type
          /\ D[s].items[i].strict = item.strict /\ D[s].items[i].value = item.default
      <3>1. D[s].items[i] = [item EXCEPT !.value = item.default]
        BY <2>4
      <3> HIDE DEF item
      <3> QED
        BY <3>1, <2>5 DEF ItemOK
    <2>r. ASSUME NEW n \in DOMAIN W PROVE Rest(W[n]).kind = "none"
      <3>1. CASE W[n].kind # "pair"
        BY <3>1 DEF Rest, NoLine
      <3>2. CASE W[n].kind = "pair"
        <4>1. PICK r \in 1..Len(sections) : \E j \in DOMAIN sections[r].items : Written(W, n, sections[r], j)
          BY <3>2, <2>2 DEF Wrote
        <4>2. PICK j \in DOMAIN sections[r].items : W[n] = Pair(sections[r].items[j])
          BY <4>1 DEF Written
        <4> QED
          BY <4>2, <2>1 DEF Readable
      <3> QED
        BY <3>1, <3>2
    <2>c. ASSUME NEW n \in DOMAIN W, NEW r \in 1..Len(sections), NEW j \in DOMAIN sections[r].items,
                 Written(W, n, sections[r], j)
          PROVE  CurrentSection(W, n) = sections[r].name
      <3>1. n \in Nat /\ \A m \in 1..n : m \in DOMAIN W
        BY <2>3
      <3>2. \A m \in 1..n : Rest(W[m]).kind # "section"
        BY <3>1, <2>r
      <3>3. sections[r].name[1] # ""
        BY <2>1 DEF Readable
      <3> QED
        BY <3>1, <3>2, <3>3, <2>c, SectionOfLine
    <2>7. ASSUME NEW n \in LinesFor(D, W, s, i) PROVE TextFor(D, W, s, i, n) = ReadBack(PrintValue(item))
      <3>0. n \in DOMAIN W /\ Rest(W[n]).kind = "none"
        BY <2>r DEF LinesFor
      <3>1. /\ n \in DOMAIN W /\ W[n].kind = "pair"
            /\ D[s].name = CurrentSection(W, n) /\ D[s].items[i].key = W[n].name
            /\ TextFor(D, W, s, i, n) = ReadBack(W[n].text)
        BY <3>0 DEF LinesFor, Changes, Finds, TextFor
      <3>2. PICK r \in 1..Len(sections) : \E j \in DOMAIN sections[r].items : Written(W, n, sections[r], j)
        BY <3>1, <2>2 DEF Wrote
      <3>3. PICK j \in DOMAIN sections[r].items : Written(W, n, sections[r], j)
        BY <3>2
      <3>4. CurrentSection(W, n) = sections[r].name
        BY <3>1, <3>3, <2>c
      <3>5. D[s].name = sections[s].name
        BY <2>4
      <3>6. r \in SectionsNamed(sections, sections[s].name)
        BY <3>1, <3>4, <3>5, <2>1 DEF SectionsNamed
      <3>7. r = s
        BY <3>6 DEF Carried
      <3>8. W[n] = Pair(sections[s].items[j])
        BY <3>3, <3>7 DEF Written
      <3>9. W[n].name = sections[s].items[j].key /\ W[n].text = PrintValue(sections[s].items[j])
        BY <3>8 DEF Pair
      <3>10. j \in ItemsWithKey(sections[s], item.key)
        BY <3>1, <3>3, <3>7, <3>9, <2>6 DEF ItemsWithKey
      <3>11. j = i
        BY <3>10 DEF Carried
      <3> QED
        BY <3>1, <3>9, <3>11
    <2>8. ASSUME ~(item.strict /\ ReadBack(PrintValue(item)) = "") PROVE LinesFor(D, W, s, i) # {}
      <3>1. PICK n \in DOMAIN W : Written(W, n, sections[s], i)
        BY <2>1, <2>2 DEF Wrote
      <3>2. CurrentSection(W, n) = sections[s].name
        BY <3>1, <2>1, <2>c
      <3>3. W[n] = Pair(item)
        BY <3>1 DEF Written
      <3>4. W[n].kind = "pair" /\ W[n].name = item.key /\ W[n].text = PrintValue(item)
        BY <3>3 DEF Pair
      <3>6. SectionsNamed(D, sections[s].name) = {s}
        <4>1. SectionsNamed(D, sections[s].name) = SectionsNamed(sections, sections[s].name)
          <5>1. \A r \in DOMAIN sections : D[r].name = sections[r].name
            BY <2>4
          <5> QED
            BY <5>1, <2>4 DEF SectionsNamed
        <4> QED
          BY <4>1 DEF Carried
      <3>7. ItemsWithKey(D[s], item.key) = {i}
        <4>1. ASSUME NEW j \in DOMAIN sections[s].items PROVE D[s].items[j].key = sections[s].items[j].key
          <5>1. ItemOK(sections[s].items[j])
            BY <2>1 DEF SectionOK
          <5>2. D[s].items[j] = [sections[s].items[j] EXCEPT !.value = sections[s].items[j].default]
            BY <2>4
          <5> QED
            BY <5>1, <5>2 DEF ItemOK
        <4>2. ItemsWithKey(D[s], item.key) = ItemsWithKey(sections[s], item.key)
          BY <4>1, <2>4 DEF ItemsWithKey
        <4> QED
          BY <4>2 DEF Carried
      <3>8. s <= s /\ i <= i
        <4>1. s \in Nat /\ i \in Nat
          BY <2>1, SeqDomain
        <4> QED
          BY <4>1
      <3>9. D[s].name = sections[s].name
        BY <2>4
      <3>10. Finds(D, CurrentSection(W, n), W[n].name, s, i)
        BY <3>2, <3>4, <3>6, <3>7, <3>8, <3>9, <2>6 DEF Finds
      <3>11. ValidValue(item, ReadBack(PrintValue(item)))
        BY <2>5, <2>8, PrintedIsValid
      <3>12. ValidValue(D[s].items[i], ReadBack(W[n].text))
        <4>1. ValidValue(D[s].items[i], ReadBack(PrintValue(item)))
          BY <3>11, <2>6 DEF ValidValue
        <4> QED
          BY <4>1, <3>4
      <3>13. W[n].name[1] # ""
        BY <3>4 DEF Carried
      <3> QED
        BY <3>1, <3>4, <3>10, <3>12, <3>13 DEF LinesFor, Changes
    <2>9. \/ LinesFor(D, W, s, i) = {} /\ new = D[s].items[i]
          \/ \E l \in LinesFor(D, W, s, i) :
                new = [D[s].items[i] EXCEPT !.value = ConvertString(D[s].items[i].type, TextFor(D, W, s, i, l))]
      <3>1. s \in DOMAIN D /\ i \in DOMAIN D[s].items /\ D[s] = [name |-> D[s].name, items |-> D[s].items]
        BY <2>4
      <3> QED
        BY <3>1, <2>3, Parsed
    <2>10. CASE LinesFor(D, W, s, i) = {} /\ new = D[s].items[i]
      <3>1. item.strict /\ ReadBack(PrintValue(item)) = "" /\ item.type = "STRING"
        BY <2>10, <2>8, <2>5 DEF ItemOK
      <3>2. item.value = ""
        BY <3>1 DEF Carried, ConvertString
      <3>3. item.default = ""
        BY <3>1, <3>2, <2>5 DEF ItemOK
      <3> QED
        BY <3>2, <3>3, <2>10, <2>6 DEF D, W
    <2>11. ASSUME NEW l \in LinesFor(D, W, s, i),
                  new = [D[s].items[i] EXCEPT !.value = ConvertString(D[s].items[i].type, TextFor(D, W, s, i, l))]
           PROVE  new.value = item.value
      <3>1. D[s].items[i] = [item EXCEPT !.value = item.default]
        BY <2>4
      <3>2. item = [key |-> item.key, type |-> item.type, strict |-> item.strict,
                    default |-> item.default, value |-> item.value]
        BY <2>5 DEF ItemOK
      <3> HIDE DEF item, new
      <3>3. D[s].items[i] = [key |-> item.key, type |-> item.type, strict |-> item.strict,
                             default |-> item.default, value |-> item.default]
        BY <3>1, <3>2
      <3>4. new.value = ConvertString(item.type, TextFor(D, W, s, i, l))
        BY <3>3, <2>11
      <3> QED
        BY <3>4, <2>7 DEF Carried, item
    <2> QED
      BY <2>9, <2>10, <2>11 DEF D, W
  <1> QED
    BY <1>1, CfgInit1, CfgInvStep, PTL DEF CfgSpec
=============================================================================
