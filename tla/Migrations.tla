----------------------------- MODULE Migrations ------------------------------
(***************************************************************************)
(* The migrations of the database (server/src/database.c, db_migrate_...): *)
(* a table of versions, and the rounds that run their SQL.                 *)
(*                                                                         *)
(* g_migration_mutex is held for a whole call, so one call runs at a time; *)
(* any statement may fail, when another connection has the write lock for  *)
(* instance, and the process may stop at any step: SQLite then forgets     *)
(* what is not committed.  db_migrate_apply takes MAX(version) of the      *)
(* table for the version reached, so it finds something to do only when    *)
(* that query fails and the version is taken for 0.                        *)
(***************************************************************************)
EXTENDS Naturals, FiniteSets, FiniteSetsExt

CONSTANTS Versions,      \* versions a program adds
          MaxRounds      \* bound: calls of db_migrate_apply

ASSUME MgAssumption == Versions \subseteq Nat \ {0} /\ IsFiniteSet(Versions) /\ MaxRounds \in Nat

VARIABLES table,      \* versions in the table migrations, as the connection sees it
          added,      \* sqlite: ... inserted in the open transaction
          stamped,    \* ... whose applied_at db_migrate_apply has set
          effects,    \* how often a version's SQL is in the database
          open_tx,    \* sqlite: a transaction is open on the connection
          ran,        \* sqlite: versions whose SQL ran in it, and how often
          stamps,     \* sqlite: versions stamped in it
          round,      \* where db_migrate_apply is: pc, and the versions left
          done,       \* versions of this round that are in the database
          lost,       \* ... that a failing COMMIT of it has rolled back
          chosen,     \* versions this round has selected
          rounds

mgvars == <<table, added, stamped, effects, open_tx, ran, stamps, round, done, lost, chosen, rounds>>
txvars == <<open_tx, added, ran, stamps>>
dbstate == <<table, stamped, effects>>

None == [v \in Versions |-> 0]
NoRound == [pc |-> "idle", left |-> {}]

MgInit ==
    /\ table = {} /\ added = {} /\ stamped = {} /\ effects = None
    /\ open_tx = FALSE /\ ran = None /\ stamps = {}
    /\ round = NoRound /\ done = {} /\ lost = {} /\ chosen = {} /\ rounds = 0

Current == Min(round.left)
Return == round' = NoRound

Discard == open_tx' = FALSE /\ added' = {} /\ ran' = None /\ stamps' = {}

(* ROLLBACK, or the end of the process. *)
Undo == Discard /\ table' = table \ added

(* db_migrate_add: a version that is there is left alone; when the count
   cannot be read, the primary key refuses it. *)
MigrateAdd(v) ==
    /\ round.pc = "idle" /\ v \notin table
    /\ table' = table \cup {v}
    /\ added' = IF open_tx THEN added \cup {v} ELSE added
    /\ UNCHANGED <<stamped, effects, open_tx, ran, stamps, round, done, lost, chosen, rounds>>

(* db_migrate_get_current_version: 0 when the query fails or there is none. *)
CurrentVersion(failed) == IF failed \/ table = {} THEN 0 ELSE Max(table)

(* What db_migrate_apply selects, up to a target; -1 is as good as the
   largest version. *)
Selected(failed, target) == {v \in table : v > CurrentVersion(failed) /\ v <= target}

MigrateApply(failed, target) ==
    /\ round.pc = "idle" /\ rounds < MaxRounds
    /\ rounds' = rounds + 1
    /\ round' = [pc |-> IF Selected(failed, target) = {} THEN "idle" ELSE "begin", left |-> Selected(failed, target)]
    /\ chosen' = Selected(failed, target) /\ done' = {} /\ lost' = {}
    /\ UNCHANGED <<dbstate, txvars>>

(* BEGIN, whose result is not looked at: it fails when an earlier COMMIT has
   left the transaction open. *)
BeginMigration ==
    /\ round.pc = "begin"
    /\ open_tx' = TRUE
    /\ round' = [round EXCEPT !.pc = "run"]
    /\ UNCHANGED <<dbstate, added, ran, stamps, done, lost, chosen, rounds>>

(* There is no connection; or one other than that with the open transaction,
   and it cannot write. *)
NoConnection ==
    /\ round.pc = "begin"
    /\ Return
    /\ UNCHANGED <<dbstate, txvars, done, lost, chosen, rounds>>

RunMigration ==
    /\ round.pc = "run"
    /\ ran' = [ran EXCEPT ![Current] = @ + 1]
    /\ round' = [round EXCEPT !.pc = "stamp"]
    /\ UNCHANGED <<dbstate, open_tx, added, stamps, done, lost, chosen, rounds>>

StampMigration ==
    /\ round.pc = "stamp"
    /\ stamps' = stamps \cup {Current}
    /\ round' = [round EXCEPT !.pc = "commit"]
    /\ UNCHANGED <<dbstate, open_tx, added, ran, done, lost, chosen, rounds>>

(* Mutation variant: the connection goes back without ROLLBACK, and the SQL
   that ran before the failure stays in its transaction. *)
StepFailsKeeping ==
    /\ round.pc \in {"run", "stamp"}
    /\ Return
    /\ UNCHANGED <<dbstate, txvars, done, lost, chosen, rounds>>

(* The SQL or the UPDATE fails: everything in the transaction is undone, and
   the round ends. *)
StepFails ==
    /\ round.pc \in {"run", "stamp"}
    /\ Undo
    /\ Return
    /\ UNCHANGED <<stamped, effects, done, lost, chosen, rounds>>

(* The next version's turn, or the end of the round. *)
NextVersion ==
    LET rest == round.left \ {Current}
    IN round' = IF rest = {} THEN NoRound ELSE [pc |-> "begin", left |-> rest]

(* The versions this round has in the open transaction. *)
InTransaction == (stamps \cap (chosen \ round.left)) \cup {Current}

CommitMigration ==
    /\ round.pc = "commit"
    /\ effects' = [v \in Versions |-> effects[v] + ran[v]]
    /\ stamped' = stamped \cup stamps
    /\ done' = done \cup InTransaction
    /\ Discard
    /\ NextVersion
    /\ UNCHANGED <<table, lost, chosen, rounds>>

(* COMMIT fails and nobody looks: the migration is said to be applied, and the
   next version's turn comes.  Its transaction stays open and the next version
   runs in it, or SQLite has rolled it back. *)
CommitMigrationFails ==
    /\ round.pc = "commit"
    /\ \/ UNCHANGED <<table, txvars, lost>>
       \/ Undo /\ lost' = lost \cup InTransaction
    /\ NextVersion
    /\ UNCHANGED <<stamped, effects, done, chosen, rounds>>

(* The process ends, and another one starts. *)
Crash ==
    /\ Undo
    /\ Return
    /\ UNCHANGED <<stamped, effects, done, lost, chosen, rounds>>

MgNext ==
    \/ \E v \in Versions : MigrateAdd(v)
    \/ \E failed \in BOOLEAN, target \in Versions : MigrateApply(failed, target)
    \/ BeginMigration \/ NoConnection \/ RunMigration \/ StampMigration \/ StepFails
    \/ CommitMigration \/ CommitMigrationFails \/ Crash

MgSpec == MgInit /\ [][MgNext]_mgvars

-----------------------------------------------------------------------------
(* Properties *)

MgTypeOK ==
    /\ table \subseteq Versions /\ added \subseteq table /\ stamped \subseteq Versions /\ stamps \subseteq Versions
    /\ effects \in [Versions -> Nat] /\ ran \in [Versions -> Nat] /\ open_tx \in BOOLEAN
    /\ round \in [pc : {"idle", "begin", "run", "stamp", "commit"}, left : SUBSET Versions]
    /\ done \subseteq Versions /\ lost \subseteq Versions /\ chosen \subseteq Versions /\ rounds \in Nat

(* A migration's SQL and the record that it was applied come into the database
   together or not at all, whichever statements and COMMITs fail and whenever
   the process ends.  A version comes there in a round with all the smaller
   ones of that round, but for those a COMMIT of the round has rolled back,
   which nobody looks at; and one that was rolled back is not there
   (lines 1564-1661). *)
MigrationsWhole ==
    /\ \A v \in Versions : v \in stamped <=> effects[v] > 0
    /\ \A v \in done, u \in chosen : u < v => u \in done \cup lost
    /\ done \cap lost = {}
==============================================================================
