------------------------------- MODULE DbPool -------------------------------
(***************************************************************************)
(* The database layer (server/src/database.c): the pool of SQLite          *)
(* connections, the statements, batches and migrations that borrow one,    *)
(* and what their transactions leave behind.                               *)
(*                                                                         *)
(* SQLite is external and modelled by its locking: a transaction is        *)
(* deferred, one connection at a time may write, another writer fails when *)
(* its busy timeout ends; a COMMIT that fails leaves the transaction open  *)
(* (BUSY) or rolls it back (FULL, IOERR), and so does a statement.  Call k *)
(* writes row <<k, 0>>, or, when it is a batch, <<k, 1>>, <<k, 2>>, ...    *)
(***************************************************************************)
EXTENDS Integers, FiniteSets

CONSTANTS DbThreads,
          max_connections,
          MaxCalls,        \* bound: calls that write, by all threads
          BatchRows        \* rows of a batch

ASSUME DbAssumption ==
    /\ IsFiniteSet(DbThreads) /\ max_connections \in Nat \ {0}
    /\ MaxCalls \in Nat /\ BatchRows \in Nat \ {0}

VARIABLES open,          \* connections[i] # NULL
          in_use,
          active_count,
          dpc,           \* where a thread is
          dslot,         \* the slot of the connection it holds
          dcall,         \* its call, and the rows a batch has written
          calls,         \* calls made
          tx,            \* sqlite: a transaction is open on this connection
          pending,       \* sqlite: its rows
          committed,     \* sqlite: rows in the database
          acked,         \* rows of statements and batches that returned DB_SUCCESS
          astray,        \* rows written into a transaction another call left open
          adopted        \* rows of other calls that the COMMIT of a migration committed

dbvars == <<open, in_use, active_count, dpc, dslot, dcall, calls, tx, pending, committed, acked, astray, adopted>>
sqlvars == <<tx, pending, committed, acked, astray, adopted>>

DbSlots == 1..max_connections
NoCall == [n |-> 0, rows |-> 0]
RowsOf(k, n) == {<<k, j>> : j \in 1..n}

DbInit ==
    /\ open = [i \in DbSlots |-> FALSE] /\ in_use = open /\ active_count = 0
    /\ dpc = [t \in DbThreads |-> "idle"] /\ dslot = [t \in DbThreads |-> 0]
    /\ dcall = [t \in DbThreads |-> NoCall] /\ calls = 0
    /\ tx = open /\ pending = [i \in DbSlots |-> {}]
    /\ committed = {} /\ acked = {} /\ astray = {} /\ adopted = {}

FreeSlots == {i \in DbSlots : ~in_use[i]}
Asleep == {t \in DbThreads : dpc[t] = "asleep"}
Woken == {t \in DbThreads : dpc[t] = "woken"}

-----------------------------------------------------------------------------
(* db_get_connection and db_release_connection.  A free slot is looked for
   twice; the second time, for one that is in use and not open, finds none. *)

(* The first slot that is free: its connection, opened if there is none.  One
   that cannot be opened leaves the slot free and the pool as it was. *)
Take(t) ==
    \E i \in FreeSlots :
      /\ \A j \in FreeSlots : i <= j
      /\ in_use' = [in_use EXCEPT ![i] = TRUE]
      /\ open' = [open EXCEPT ![i] = TRUE]
      /\ active_count' = IF open[i] THEN active_count ELSE active_count + 1
      /\ dslot' = [dslot EXCEPT ![t] = i]
      /\ dpc' = [dpc EXCEPT ![t] = "held"]

Get(t) ==
    /\ dpc[t] = "idle"
    /\ Take(t)
    /\ UNCHANGED <<dcall, calls, sqlvars>>

GetWaits(t) ==
    /\ dpc[t] = "idle" /\ FreeSlots = {}
    /\ dpc' = [dpc EXCEPT ![t] = "asleep"]
    /\ UNCHANGED <<open, in_use, active_count, dslot, dcall, calls, sqlvars>>

(* ETIMEDOUT after 5 seconds, or a wakeup nobody sent. *)
WaitEnds(t) ==
    /\ dpc[t] = "asleep"
    /\ \E to \in {"idle", "woken"} : dpc' = [dpc EXCEPT ![t] = to]
    /\ UNCHANGED <<open, in_use, active_count, dslot, dcall, calls, sqlvars>>

(* A woken thread looks once more: what it was woken for may be gone, and
   then the call fails with DB_ERROR_BUSY. *)
GetAgain(t) ==
    /\ dpc[t] = "woken"
    /\ \/ Take(t)
       \/ /\ FreeSlots = {}
          /\ dpc' = [dpc EXCEPT ![t] = "idle"]
          /\ UNCHANGED <<open, in_use, active_count, dslot>>
    /\ UNCHANGED <<dcall, calls, sqlvars>>

(* Mutation variant: the slot is free, nobody is told. *)
ReleaseSilently(t) ==
    /\ dpc[t] = "release"
    /\ in_use' = [in_use EXCEPT ![dslot[t]] = FALSE]
    /\ dslot' = [dslot EXCEPT ![t] = 0] /\ dcall' = [dcall EXCEPT ![t] = NoCall]
    /\ dpc' = [dpc EXCEPT ![t] = "idle"]
    /\ UNCHANGED <<open, active_count, calls, sqlvars>>

Release(t) ==
    /\ dpc[t] = "release"
    /\ in_use' = [in_use EXCEPT ![dslot[t]] = FALSE]
    /\ dslot' = [dslot EXCEPT ![t] = 0] /\ dcall' = [dcall EXCEPT ![t] = NoCall]
    /\ IF Asleep = {}
       THEN dpc' = [dpc EXCEPT ![t] = "idle"]
       ELSE \E w \in Asleep : dpc' = [dpc EXCEPT ![t] = "idle", ![w] = "woken"]
    /\ UNCHANGED <<open, active_count, calls, sqlvars>>

(* db_close_all_connections, as db_cleanup calls it: after the last call. *)
CloseAll ==
    /\ \A t \in DbThreads : dpc[t] = "idle"
    /\ \E i \in DbSlots : open[i]
    /\ open' = [i \in DbSlots |-> FALSE] /\ in_use' = open' /\ active_count' = 0
    /\ tx' = open' /\ pending' = [i \in DbSlots |-> {}]
    /\ UNCHANGED <<dpc, dslot, dcall, calls, committed, acked, astray, adopted>>

-----------------------------------------------------------------------------
(* What is done with a connection *)

Conn(t) == dslot[t]

(* SQLite's write lock: no other connection has written. *)
MayWrite(i) == \A j \in DbSlots \ {i} : pending[j] = {}

NewCall == [n |-> calls + 1, rows |-> 0]
Done(t) == dpc' = [dpc EXCEPT ![t] = "release"]

(* What sqlite3_step does with a row: it is written in a transaction of its
   own, or in the one the connection still has open. *)
Stepped(i, row) ==
    IF tx[i]
    THEN /\ pending' = [pending EXCEPT ![i] = @ \cup {row}]
         /\ astray' = astray \cup {row} /\ UNCHANGED committed
    ELSE committed' = committed \cup {row} /\ UNCHANGED <<pending, astray>>

(* db_execute and db_execute_params with a statement that writes: row 0 of
   the call. *)
Execute(t) ==
    /\ dpc[t] = "held" /\ calls < MaxCalls /\ MayWrite(Conn(t))
    /\ calls' = calls + 1
    /\ Stepped(Conn(t), <<calls + 1, 0>>)
    /\ acked' = acked \cup {<<calls + 1, 0>>}
    /\ Done(t)
    /\ UNCHANGED <<open, in_use, active_count, dslot, dcall, tx, adopted>>

(* The transaction of a connection is over. *)
EndTransaction(i) == tx' = [tx EXCEPT ![i] = FALSE] /\ pending' = [pending EXCEPT ![i] = {}]

(* The statement cannot be prepared or bound, it does not get the lock, or it
   only reads; or the disk is full and SQLite rolls back what was open. *)
StatementFails(t) ==
    /\ dpc[t] = "held"
    /\ \/ UNCHANGED <<tx, pending>>
       \/ EndTransaction(Conn(t))
    /\ Done(t)
    /\ UNCHANGED <<open, in_use, active_count, dslot, dcall, calls, committed, acked, astray, adopted>>

(* db_create_backup reads page by page, however long others write. *)
BackupBegins(t) ==
    /\ dpc[t] = "held"
    /\ dpc' = [dpc EXCEPT ![t] = "backup"]
    /\ UNCHANGED <<open, in_use, active_count, dslot, dcall, calls, sqlvars>>

BackupEnds(t) ==
    /\ dpc[t] = "backup"
    /\ Done(t)
    /\ UNCHANGED <<open, in_use, active_count, dslot, dcall, calls, sqlvars>>

(* db_execute_batch and db_insert_batch. *)
BatchBegins(t) ==
    /\ dpc[t] = "held" /\ calls < MaxCalls
    /\ calls' = calls + 1
    /\ IF tx[Conn(t)]
       THEN Done(t) /\ UNCHANGED <<tx, dcall>>
       ELSE /\ tx' = [tx EXCEPT ![Conn(t)] = TRUE]
            /\ dcall' = [dcall EXCEPT ![t] = NewCall]
            /\ dpc' = [dpc EXCEPT ![t] = "batch"]
    /\ UNCHANGED <<open, in_use, active_count, dslot, pending, committed, acked, astray, adopted>>

BatchRow(t) ==
    LET i == Conn(t)
        c == dcall[t]
    IN
    /\ dpc[t] = "batch" /\ c.rows < BatchRows /\ MayWrite(i)
    /\ pending' = [pending EXCEPT ![i] = @ \cup {<<c.n, c.rows + 1>>}]
    /\ dcall' = [dcall EXCEPT ![t].rows = @ + 1]
    /\ UNCHANGED <<open, in_use, active_count, dpc, dslot, calls, tx, committed, acked, astray, adopted>>

(* Mutation variant: the rows so far are kept. *)
BatchRowFailsCommitting(t) ==
    /\ dpc[t] = "batch" /\ dcall[t].rows < BatchRows
    /\ tx' = [tx EXCEPT ![Conn(t)] = FALSE]
    /\ committed' = committed \cup pending[Conn(t)]
    /\ pending' = [pending EXCEPT ![Conn(t)] = {}]
    /\ Done(t)
    /\ UNCHANGED <<open, in_use, active_count, dslot, dcall, calls, acked, astray, adopted>>

(* The statement cannot be prepared, or a row is refused or does not get the
   lock: rollback. *)
BatchRowFails(t) ==
    /\ dpc[t] = "batch" /\ dcall[t].rows < BatchRows
    /\ EndTransaction(Conn(t))
    /\ Done(t)
    /\ UNCHANGED <<open, in_use, active_count, dslot, dcall, calls, committed, acked, astray, adopted>>

BatchCommits(t) ==
    /\ dpc[t] = "batch" /\ dcall[t].rows = BatchRows
    /\ EndTransaction(Conn(t))
    /\ committed' = committed \cup pending[Conn(t)]
    /\ acked' = acked \cup RowsOf(dcall[t].n, BatchRows)
    /\ Done(t)
    /\ UNCHANGED <<open, in_use, active_count, dslot, dcall, calls, astray, adopted>>

(* COMMIT fails: the caller learns it, and the connection goes back to the
   pool, with its transaction if SQLite did not roll it back. *)
CommitFails(t) ==
    /\ dpc[t] = "batch" /\ dcall[t].rows = BatchRows
    /\ \/ UNCHANGED <<tx, pending>>
       \/ EndTransaction(Conn(t))
    /\ Done(t)
    /\ UNCHANGED <<open, in_use, active_count, dslot, dcall, calls, committed, acked, astray, adopted>>

(* db_migrate_apply, one version, under g_migration_mutex.  The result of BEGIN
   is not looked at: it fails where a transaction was left open, and the
   migration runs in that one. *)
MigrationBegins(t) ==
    /\ dpc[t] = "held" /\ calls < MaxCalls
    /\ \A s \in DbThreads : dpc[s] \notin {"migrate", "migrated"}
    /\ calls' = calls + 1 /\ dcall' = [dcall EXCEPT ![t] = NewCall]
    /\ tx' = [tx EXCEPT ![Conn(t)] = TRUE]
    /\ dpc' = [dpc EXCEPT ![t] = "migrate"]
    /\ UNCHANGED <<open, in_use, active_count, dslot, pending, committed, acked, astray, adopted>>

MigrationRuns(t) ==
    /\ dpc[t] = "migrate" /\ MayWrite(Conn(t))
    /\ pending' = [pending EXCEPT ![Conn(t)] = @ \cup {<<dcall[t].n, 0>>}]
    /\ dpc' = [dpc EXCEPT ![t] = "migrated"]
    /\ UNCHANGED <<open, in_use, active_count, dslot, dcall, calls, tx, committed, acked, astray, adopted>>

(* Its SQL or the UPDATE fails: ROLLBACK. *)
MigrationFails(t) ==
    /\ dpc[t] = "migrate"
    /\ EndTransaction(Conn(t))
    /\ Done(t)
    /\ UNCHANGED <<open, in_use, active_count, dslot, dcall, calls, committed, acked, astray, adopted>>

(* COMMIT, of everything in the transaction. *)
MigrationCommits(t) ==
    /\ dpc[t] = "migrated"
    /\ EndTransaction(Conn(t))
    /\ committed' = committed \cup pending[Conn(t)]
    /\ adopted' = adopted \cup (pending[Conn(t)] \ {<<dcall[t].n, 0>>})
    /\ Done(t)
    /\ UNCHANGED <<open, in_use, active_count, dslot, dcall, calls, acked, astray>>

(* Nobody looks whether it has failed. *)
MigrationCommitFails(t) ==
    /\ dpc[t] = "migrated"
    /\ \/ UNCHANGED <<tx, pending>>
       \/ EndTransaction(Conn(t))
    /\ Done(t)
    /\ UNCHANGED <<open, in_use, active_count, dslot, dcall, calls, committed, acked, astray, adopted>>

DbNext ==
    \/ CloseAll
    \/ \E t \in DbThreads :
         \/ Get(t) \/ GetWaits(t) \/ WaitEnds(t) \/ GetAgain(t) \/ Release(t)
         \/ Execute(t) \/ StatementFails(t) \/ BackupBegins(t) \/ BackupEnds(t)
         \/ BatchBegins(t) \/ BatchRow(t) \/ BatchRowFails(t) \/ BatchCommits(t) \/ CommitFails(t)
         \/ MigrationBegins(t) \/ MigrationRuns(t) \/ MigrationFails(t)
         \/ MigrationCommits(t) \/ MigrationCommitFails(t)

DbSpec == DbInit /\ [][DbNext]_dbvars

-----------------------------------------------------------------------------
(* Properties *)

Rows == (1..MaxCalls) \X (0..BatchRows)

DbTypeOK ==
    /\ open \in [DbSlots -> BOOLEAN] /\ in_use \in [DbSlots -> BOOLEAN]
    /\ tx \in [DbSlots -> BOOLEAN] /\ active_count \in 0..max_connections
    /\ dpc \in [DbThreads -> {"idle", "asleep", "woken", "held", "batch", "migrate", "migrated", "backup", "release"}]
    /\ dslot \in [DbThreads -> DbSlots \cup {0}]
    /\ dcall \in [DbThreads -> [n : 0..MaxCalls, rows : 0..BatchRows]]
    /\ calls \in 0..MaxCalls /\ pending \in [DbSlots -> SUBSET Rows]
    /\ committed \subseteq Rows /\ acked \subseteq Rows /\ astray \subseteq Rows
    /\ adopted \subseteq Rows

(* A connection has one holder at a time, every slot in use has one, and no
   release is lost: while threads sleep in db_get_connection, there is a woken
   one for every free slot, although a newcomer may take the slot first and
   the waiting is not in a loop (lines 245-307, 332-336). *)
ConnectionsShared ==
    /\ \A i \in DbSlots :
         in_use[i] <=> Cardinality({t \in DbThreads : dslot[t] = i}) = 1
    /\ \A s, t \in DbThreads : s # t /\ dslot[s] # 0 => dslot[s] # dslot[t]
    /\ active_count = Cardinality({i \in DbSlots : open[i]})
    /\ Asleep # {} => Cardinality(FreeSlots) <= Cardinality(Woken)

(* A batch is in the database with all of its rows or with none, even if its
   COMMIT failed and its transaction waits in the pool for whoever gets the
   connection.  One that was reported as failed, and a statement that ran into
   such a transaction, are never there, but for a migration: that ignores its
   own failing BEGIN and commits what it finds, as a whole.  What was reported
   as done is there, unless it ran into such a transaction (lines 1013-1066,
   743-783, 1603-1652). *)
BatchesAtomic ==
    /\ \A k \in 1..MaxCalls, j \in 1..BatchRows :
         <<k, j>> \in committed =>
           /\ RowsOf(k, BatchRows) \subseteq committed
           /\ RowsOf(k, BatchRows) \subseteq acked \/ RowsOf(k, BatchRows) \subseteq adopted
    /\ acked \ astray \subseteq committed
    /\ committed \cap astray \subseteq adopted
=============================================================================
