------------------------------ MODULE ServerCore ------------------------------
(***************************************************************************)
(* The life of one server instance (server/src/server_core.c): threads of  *)
(* the embedding program call server_start, server_stop, server_destroy,   *)
(* server_restore_data and server_wait_for_state, while the three threads  *)
(* of the server (accept, cleanup, maintenance) run until they see running *)
(* = false or are cancelled.                                               *)
(*                                                                         *)
(* Locks are modelled where a thread can be cancelled inside them: the     *)
(* lock of the connection pool, in which the cleanup thread closes expired *)
(* connections, and audit_mutex, in which the accept thread writes the     *)
(* audit line.  pthread_cancel takes effect at the blocking calls only     *)
(* (epoll_wait, sleep, close, write), and a cancelled thread keeps its     *)
(* mutex: nothing in the code installs a cleanup handler.                  *)
(*                                                                         *)
(* Left out: memory exhaustion, the traffic of the connections (they only  *)
(* decide how long a graceful stop waits) and the statistics.              *)
(***************************************************************************)
EXTENDS Sequences, Functions, FiniteSets, Naturals

CONSTANTS Callers,       \* threads of the embedding program
          Managers,      \* those that start, stop, restore and destroy the server
          Ops,           \* which functions they call
          Targets,       \* the target states they wait for
          Parts,         \* the components server_init builds, in its order
          Optional,      \* those whose failure is not fatal (monitoring)
          EnableAudit,   \* config.enable_audit
          Exclusive,     \* TRUE: calls that manage the server do not overlap
          None

Threads == {"accept", "cleanup", "maintenance"}
Locks == {"pool", "audit"}
States == {"INITIALIZING", "RUNNING", "SHUTTING_DOWN", "SHUTDOWN"}
LifeOps == {"start", "stop", "destroy", "restore"}
CallerOps == LifeOps \cup {"check", "timedcheck"}

ASSUME CoreAssumption ==
    /\ IsFiniteSet(Callers) /\ Managers \subseteq Callers /\ Ops \subseteq CallerOps /\ Targets \subseteq States
    /\ Parts \in Seq(STRING) /\ Optional \subseteq Range(Parts)
    /\ EnableAudit \in BOOLEAN /\ Exclusive \in BOOLEAN
    /\ None \notin Threads

VARIABLES
    state,        \* server->state
    running,      \* server->running
    comps,        \* the components whose pointer is not NULL
    audit_log,    \* the audit file is open
    database,     \* what the database file holds: "live" or "backup" data
    thr,          \* where each server thread is
    cancel,       \* threads with a pending pthread_cancel
    lock,         \* the holder of each mutex
    pc,           \* where each caller is
    at,           \* the thread a caller creates or joins next
    cont,         \* where a caller goes on after server_stop
    want,         \* the target_state of server_wait_for_state
    misjoined,    \* pthread_join was called on a thread not created or joined before
    freed         \* server_destroy has freed the instance

server == <<state, running, comps, audit_log, database>>
threads == <<thr, cancel, lock>>
args == <<at, cont, want>>
vars == <<server, threads, pc, args, misjoined, freed>>

(* server_create. *)
Init ==
    /\ state = "INITIALIZING" /\ running = FALSE
    /\ comps = {} /\ audit_log = FALSE /\ database = "live"
    /\ thr = [t \in Threads |-> "none"] /\ cancel = {}
    /\ lock = [l \in Locks |-> None]
    /\ pc = [c \in Callers |-> "idle"]
    /\ at = [c \in Callers |-> "accept"]
    /\ cont = [c \in Callers |-> "idle"]
    /\ want = [c \in Callers |-> "SHUTDOWN"]
    /\ misjoined = FALSE /\ freed = FALSE

Goto(c, where) == pc' = [pc EXCEPT ![c] = where]

(* A caller inside server_start, server_stop, server_destroy or
   server_restore_data. *)
Managing(c) == pc[c] \notin {"idle", "check", "asleep", "timedcheck", "dozing"}

Destroying(c) ==
    \/ pc[c] \in {"destroy", "destroy_wait", "destroy_clean", "destroy_free"}
    \/ cont[c] = "destroy_wait"

Live(t) == thr[t] \notin {"none", "ended", "joined"}

(* The thread server_start creates, and server_stop joins, after t. *)
Following == [accept |-> "cleanup", cleanup |-> "maintenance", maintenance |-> "accept"]

-------------------------------------------------------------------------------
(* Calls *)

Call(c, op) ==
    /\ pc[c] = "idle" /\ ~freed
    /\ op \in LifeOps => c \in Managers
    /\ (Exclusive /\ op \in LifeOps) => \A d \in Callers : ~Managing(d)
    /\ (Exclusive /\ op = "destroy") => \A d \in Callers : pc[d] = "idle"
    /\ Exclusive => \A d \in Callers : ~Destroying(d)
    /\ Goto(c, op)
    /\ want' \in IF op \in LifeOps THEN {want}
                 ELSE {[want EXCEPT ![c] = s] : s \in Targets}
    /\ UNCHANGED <<server, threads, at, cont, misjoined, freed>>

(* Mutant: pthread_cond_broadcast is forgotten. *)
UpdateStateSilently(c, new, where) ==
    state' = new /\ Goto(c, where)

(* update_server_state: the new state is set and everybody who sleeps on
   state_cond is woken; the caller goes on at where. *)
UpdateState(c, new, where) ==
    /\ state' = new
    /\ pc' = [d \in Callers |-> CASE d = c -> where
                                  [] d # c /\ pc[d] = "asleep" -> "check"
                                  [] d # c /\ pc[d] = "dozing" -> "timedcheck"
                                  [] OTHER -> pc[d]]

-------------------------------------------------------------------------------
(* server_start and server_init *)

(* A server that runs is left alone; server_init refuses any state but
   INITIALIZING. *)
StartChecks(c) ==
    /\ pc[c] = "start"
    /\ Goto(c, IF ~running /\ state = "INITIALIZING" THEN "init" ELSE "idle")
    /\ UNCHANGED <<server, threads, args, misjoined, freed>>

(* What the functions server_init_network, ..., server_init_monitoring have
   built after the first k parts, but for the optional ones that failed. *)
BuiltUpTo(k, missing) == Range(SubSeq(Parts, 1, k)) \ missing

(* A part that is not optional cannot be built: server_init returns and
   leaves what it has built so far.  The pointer of the part that failed may
   be set as well: sqlite3_open hands out a handle when it fails, and the
   connection pool exists when user_manager_create fails. *)
InitFails(c) ==
    /\ pc[c] = "init"
    /\ \E k \in 1..Len(Parts), missing \in SUBSET Optional :
           /\ Parts[k] \notin Optional
           /\ \E j \in {k - 1, k} : comps' = comps \cup BuiltUpTo(j, missing)
    /\ Goto(c, "idle")
    /\ UNCHANGED <<state, running, audit_log, database, threads, args, misjoined, freed>>

InitSucceeds(c) ==
    /\ pc[c] = "init"
    /\ \E missing \in SUBSET Optional : comps' = comps \cup BuiltUpTo(Len(Parts), missing)
    /\ audit_log' \in {audit_log, EnableAudit}
    /\ UpdateState(c, "RUNNING", "spawn")
    /\ at' = [at EXCEPT ![c] = "accept"]
    /\ UNCHANGED <<running, database, threads, cont, want, misjoined, freed>>

(* pthread_create of the accept, the cleanup and the maintenance thread. *)
Spawn(c) ==
    /\ pc[c] = "spawn"
    /\ thr' = [thr EXCEPT ![at[c]] = "test"]
    /\ at' = [at EXCEPT ![c] = Following[@]]
    /\ Goto(c, IF at[c] = "maintenance" THEN "started" ELSE "spawn")
    /\ UNCHANGED <<server, cancel, lock, cont, want, misjoined, freed>>

(* A thread cannot be created: running is cleared and the threads created
   before it are joined, the cleanup thread after a pthread_cancel. *)
SpawnFails(c) ==
    /\ pc[c] = "spawn"
    /\ running' = IF at[c] = "accept" THEN running ELSE FALSE
    /\ cancel' = IF at[c] = "maintenance" THEN cancel \cup {"cleanup"} ELSE cancel
    /\ Goto(c, CASE at[c] = "accept" -> "idle"
                 [] at[c] = "cleanup" -> "unwind_one"
                 [] at[c] = "maintenance" -> "unwind_two")
    /\ at' = [at EXCEPT ![c] = "accept"]
    /\ UNCHANGED <<state, comps, audit_log, database, thr, lock, cont, want, misjoined, freed>>

Started(c) ==
    /\ pc[c] = "started"
    /\ running' = TRUE
    /\ Goto(c, "idle")
    /\ UNCHANGED <<state, comps, audit_log, database, threads, args, misjoined, freed>>

(* pthread_join of the thread at[c]: waits for its end.  Joining a thread
   that was never created or is joined already has no defined effect. *)
Join(c) ==
    /\ ~Live(at[c])
    /\ thr' = [thr EXCEPT ![at[c]] = "joined"]
    /\ misjoined' = (misjoined \/ thr[at[c]] # "ended")

Unwind(c) ==
    /\ pc[c] \in {"unwind_one", "unwind_two"}
    /\ Join(c)
    /\ Goto(c, IF pc[c] = "unwind_two" THEN "unwind_one" ELSE "idle")
    /\ at' = [at EXCEPT ![c] = IF pc[c] = "unwind_two" THEN "cleanup" ELSE "accept"]
    /\ UNCHANGED <<server, cancel, lock, cont, want, freed>>

-------------------------------------------------------------------------------
(* server_stop *)

StopChecks(c) ==
    /\ pc[c] = "stop"
    /\ Goto(c, IF running THEN "stop_flag" ELSE cont[c])
    /\ UNCHANGED <<server, threads, args, misjoined, freed>>

StopFlags(c) ==
    /\ pc[c] = "stop_flag"
    /\ running' = FALSE
    /\ Goto(c, "stop_state")
    /\ UNCHANGED <<state, comps, audit_log, database, threads, args, misjoined, freed>>

StopAnnounces(c) ==
    /\ pc[c] = "stop_state"
    /\ UpdateState(c, "SHUTTING_DOWN", "stop_cancel")
    /\ UNCHANGED <<running, comps, audit_log, database, threads, args, misjoined, freed>>

(* A graceful stop first shuts the listening socket, broadcasts a notice
   and polls the number of connections for at most 30 seconds; none of it
   changes the life of the server.  Then the threads are cancelled. *)
StopCancels(c) ==
    /\ pc[c] = "stop_cancel"
    /\ cancel' = Threads
    /\ at' = [at EXCEPT ![c] = "accept"]
    /\ Goto(c, "stop_join")
    /\ UNCHANGED <<server, thr, lock, cont, want, misjoined, freed>>

(* Mutant: only the accept thread is joined. *)
StopJoinsAcceptOnly(c) ==
    /\ pc[c] = "stop_join"
    /\ Join(c)
    /\ Goto(c, "stop_clean")
    /\ UNCHANGED <<server, cancel, lock, at, cont, want, freed>>

StopJoins(c) ==
    /\ pc[c] = "stop_join"
    /\ Join(c)
    /\ at' = [at EXCEPT ![c] = Following[@]]
    /\ Goto(c, IF at[c] = "maintenance" THEN "stop_clean" ELSE "stop_join")
    /\ UNCHANGED <<server, cancel, lock, cont, want, freed>>

(* server_cleanup_components: connection_pool_destroy takes the lock of the
   pool; all pointers are NULL afterwards. *)
CleanupComponents ==
    /\ "conns" \in comps => lock["pool"] = None
    /\ comps' = {}

StopCleans(c) ==
    /\ pc[c] = "stop_clean"
    /\ CleanupComponents
    /\ Goto(c, "stop_done")
    /\ UNCHANGED <<state, running, audit_log, database, threads, args, misjoined, freed>>

StopDone(c) ==
    /\ pc[c] = "stop_done"
    /\ UpdateState(c, "SHUTDOWN", cont[c])
    /\ cont' = [cont EXCEPT ![c] = "idle"]
    /\ UNCHANGED <<running, comps, audit_log, database, threads, at, want, misjoined, freed>>

-------------------------------------------------------------------------------
(* server_destroy *)

DestroyStops(c) ==
    /\ pc[c] = "destroy"
    /\ IF running
         THEN Goto(c, "stop") /\ cont' = [cont EXCEPT ![c] = "destroy_wait"]
         ELSE Goto(c, "destroy_wait") /\ UNCHANGED cont
    /\ UNCHANGED <<server, threads, at, want, misjoined, freed>>

(* The state is polled for at most 10 seconds, whatever it is afterwards. *)
DestroyWaits(c) ==
    /\ pc[c] = "destroy_wait"
    /\ Goto(c, "destroy_clean")
    /\ cont' = [cont EXCEPT ![c] = "idle"]
    /\ UNCHANGED <<server, threads, at, want, misjoined, freed>>

DestroyCleans(c) ==
    /\ pc[c] = "destroy_clean"
    /\ CleanupComponents
    /\ Goto(c, "destroy_free")
    /\ UNCHANGED <<state, running, audit_log, database, threads, args, misjoined, freed>>

(* The audit log is closed under audit_mutex, then everything is freed. *)
DestroyFrees(c) ==
    /\ pc[c] = "destroy_free"
    /\ audit_log => lock["audit"] = None
    /\ audit_log' = FALSE /\ freed' = TRUE
    /\ Goto(c, "idle")
    /\ UNCHANGED <<state, running, comps, database, threads, args, misjoined>>

-------------------------------------------------------------------------------
(* server_restore_data *)

(* Mutant: a running server is not stopped first. *)
RestoreStopsNothing(c) ==
    /\ pc[c] = "restore"
    /\ Goto(c, "restore_idle")
    /\ UNCHANGED <<server, threads, args, misjoined, freed>>

RestoreStops(c) ==
    /\ pc[c] = "restore"
    /\ IF running
         THEN Goto(c, "stop") /\ cont' = [cont EXCEPT ![c] = "restore_stopped"]
         ELSE Goto(c, "restore_idle") /\ UNCHANGED cont
    /\ UNCHANGED <<server, threads, at, want, misjoined, freed>>

(* With an open database: close it, rename the backup over the file (or
   fail and return) and open it again (or fail and return; sqlite3_open
   sets the pointer in either case); without one nothing is restored.  A server that was running is started again, and
   the result of server_start is ignored. *)
RestoreDatabase(c) ==
    /\ pc[c] \in {"restore_idle", "restore_stopped"}
    /\ \/ /\ "db" \in comps
          /\ comps' = comps \ {"db"} /\ Goto(c, "idle") /\ UNCHANGED database
       \/ /\ "db" \in comps
          /\ database' = "backup" /\ UNCHANGED comps
          /\ \/ Goto(c, "idle")
             \/ Goto(c, IF pc[c] = "restore_stopped" THEN "start" ELSE "idle")
       \/ /\ "db" \notin comps
          /\ Goto(c, IF pc[c] = "restore_stopped" THEN "start" ELSE "idle")
          /\ UNCHANGED <<comps, database>>
    /\ cont' = [cont EXCEPT ![c] = "idle"]
    /\ UNCHANGED <<state, running, audit_log, threads, at, want, misjoined, freed>>

-------------------------------------------------------------------------------
(* server_wait_for_state, its argument gone on return, without ("check") and with timeout ("timedcheck") *)

WaitChecks(c) ==
    /\ pc[c] \in {"check", "timedcheck"}
    /\ Goto(c, CASE state = want[c] -> "idle"
                 [] state # want[c] /\ pc[c] = "check" -> "asleep"
                 [] OTHER -> "dozing")
    /\ want' = IF state = want[c] THEN [want EXCEPT ![c] = "SHUTDOWN"] ELSE want
    /\ UNCHANGED <<server, threads, at, cont, misjoined, freed>>

WaitTimesOut(c) ==
    /\ pc[c] = "dozing"
    /\ Goto(c, "idle")
    /\ want' = [want EXCEPT ![c] = "SHUTDOWN"]
    /\ UNCHANGED <<server, threads, at, cont, misjoined, freed>>

CallerStep(c) ==
    \/ StartChecks(c) \/ InitFails(c) \/ InitSucceeds(c) \/ Spawn(c) \/ SpawnFails(c)
    \/ Started(c) \/ Unwind(c)
    \/ StopChecks(c) \/ StopFlags(c) \/ StopAnnounces(c) \/ StopCancels(c)
    \/ StopJoins(c) \/ StopCleans(c) \/ StopDone(c)
    \/ DestroyStops(c) \/ DestroyWaits(c) \/ DestroyCleans(c) \/ DestroyFrees(c)
    \/ RestoreStops(c) \/ RestoreDatabase(c)
    \/ WaitChecks(c) \/ WaitTimesOut(c)

-------------------------------------------------------------------------------
(* The threads of the server *)

Move(t, where) == thr' = [thr EXCEPT ![t] = where]

(* The loop condition of the three thread functions. *)
LoopTest(t) ==
    /\ thr[t] = "test"
    /\ Move(t, IF running THEN "wait" ELSE "ended")
    /\ UNCHANGED <<server, cancel, lock, pc, args, misjoined, freed>>

(* accept_thread_func: epoll_wait returns with nothing, a client's event or
   a connection that is refused; or with a connection to adopt; or it fails
   because epoll_fd has been closed. *)
EpollReturns ==
    /\ thr["accept"] = "wait"
    /\ \/ "net" \in comps /\ Move("accept", "test")
       \/ "net" \in comps /\ Move("accept", "adopt")
       \/ "net" \notin comps /\ Move("accept", "ended")
    /\ UNCHANGED <<server, cancel, lock, pc, args, misjoined, freed>>

(* handle_tcp_connection adds the connection under the lock of the pool,
   then log_audit_event writes a line if the audit log is open. *)
AdoptConnection ==
    /\ thr["accept"] = "adopt"
    /\ lock["pool"] = None
    /\ Move("accept", IF audit_log THEN "audit" ELSE "test")
    /\ UNCHANGED <<server, cancel, lock, pc, args, misjoined, freed>>

LogAuditBegins ==
    /\ thr["accept"] = "audit"
    /\ lock["audit"] = None
    /\ lock' = [lock EXCEPT !["audit"] = "accept"]
    /\ Move("accept", "writing")
    /\ UNCHANGED <<server, cancel, pc, args, misjoined, freed>>

LogAuditEnds ==
    /\ thr["accept"] = "writing"
    /\ lock' = [lock EXCEPT !["audit"] = None]
    /\ Move("accept", "test")
    /\ UNCHANGED <<server, cancel, pc, args, misjoined, freed>>

(* The cleanup and the maintenance thread look at running again after
   their sleep. *)
SleepEnds(t) ==
    /\ t # "accept" /\ thr[t] = "wait"
    /\ Move(t, "recheck")
    /\ UNCHANGED <<server, cancel, lock, pc, args, misjoined, freed>>

Recheck(t) ==
    /\ thr[t] = "recheck"
    /\ Move(t, CASE ~running -> "ended"
                 [] running /\ t = "maintenance" -> "maintain"
                 [] running /\ t = "cleanup" /\ "conns" \in comps -> "expire"
                 [] OTHER -> "test")
    /\ UNCHANGED <<server, cancel, lock, pc, args, misjoined, freed>>

(* connection_pool_cleanup_expired closes connections under the pool's lock. *)
ExpireBegins ==
    /\ thr["cleanup"] = "expire"
    /\ lock["pool"] = None
    /\ lock' = [lock EXCEPT !["pool"] = "cleanup"]
    /\ Move("cleanup", "expiring")
    /\ UNCHANGED <<server, cancel, pc, args, misjoined, freed>>

(* Mutant: the lock is not released. *)
ExpireEndsLocked ==
    /\ thr["cleanup"] = "expiring"
    /\ Move("cleanup", "test")
    /\ UNCHANGED <<server, cancel, lock, pc, args, misjoined, freed>>

(* Which connections expire, and their memory, are left out. *)
ExpireEnds ==
    /\ thr["cleanup"] = "expiring"
    /\ lock' = [lock EXCEPT !["pool"] = None]
    /\ Move("cleanup", "test")
    /\ UNCHANGED <<server, cancel, pc, args, misjoined, freed>>

(* server_perform_maintenance *)
Maintain ==
    /\ thr["maintenance"] = "maintain"
    /\ Move("maintenance", "test")
    /\ UNCHANGED <<server, cancel, lock, pc, args, misjoined, freed>>

(* A pending pthread_cancel is acted upon in a blocking call; a mutex the
   thread holds stays locked. *)
ActOnCancel(t) ==
    /\ t \in cancel
    /\ thr[t] \in {"wait", "writing", "expiring", "maintain"}
    /\ Move(t, "ended")
    /\ UNCHANGED <<server, cancel, lock, pc, args, misjoined, freed>>

ThreadStep(t) ==
    \/ LoopTest(t) \/ SleepEnds(t) \/ Recheck(t) \/ ActOnCancel(t)
    \/ t = "accept" /\ (EpollReturns \/ AdoptConnection \/ LogAuditBegins \/ LogAuditEnds)
    \/ t = "cleanup" /\ (ExpireBegins \/ ExpireEnds)
    \/ t = "maintenance" /\ Maintain

Next ==
    \/ \E c \in Callers : CallerStep(c)
    \/ \E c \in Callers, op \in Ops : Call(c, op)
    \/ \E t \in Threads : ThreadStep(t)

Spec == Init /\ [][Next]_vars

(* A call in progress goes on and the server's threads are scheduled. *)
FairSpec ==
    /\ Spec
    /\ \A c \in Callers : WF_vars(CallerStep(c))
    /\ \A t \in Threads : WF_vars(ThreadStep(t))

-------------------------------------------------------------------------------
(* Properties *)

ThreadStates == {"none", "test", "wait", "adopt", "audit", "writing", "recheck", "expire",
                 "expiring", "maintain", "ended", "joined"}
CallerStates == {"idle", "start", "init", "spawn", "started", "unwind_one", "unwind_two",
                 "stop", "stop_flag", "stop_state", "stop_cancel", "stop_join", "stop_clean",
                 "stop_done", "destroy", "destroy_wait", "destroy_clean", "destroy_free",
                 "restore", "restore_idle", "restore_stopped",
                 "check", "asleep", "timedcheck", "dozing"}

(* The variables have their types.  server->state never becomes
   SERVER_STATE_ERROR, the state the main loop of main.c watches for: a
   failed server_init leaves INITIALIZING behind. *)
TypeOK ==
    /\ state \in States /\ running \in BOOLEAN /\ comps \subseteq Range(Parts)
    /\ audit_log \in BOOLEAN /\ database \in {"live", "backup"}
    /\ thr \in [Threads -> ThreadStates] /\ cancel \subseteq Threads
    /\ lock \in [Locks -> Threads \cup {None}]
    /\ pc \in [Callers -> CallerStates] /\ at \in [Callers -> Threads]
    /\ cont \in [Callers -> {"idle", "destroy_wait", "restore_stopped"}]
    /\ want \in [Callers -> States]
    /\ misjoined \in BOOLEAN /\ freed \in BOOLEAN

(* No thread of the server outlives what it works on: server_stop and
   server_destroy take the components down, and free the instance, only
   when the three threads have ended, and a failed server_start leaves no
   thread behind. *)
ThreadsHaveParts ==
    \A t \in Threads : Live(t) => Range(Parts) \ Optional \subseteq comps /\ ~freed

(* pthread_join is called once for each thread that was created, whichever
   pthread_create failed and in whatever order start, stop, restore and
   destroy are called. *)
JoinOnce == ~misjoined

(* While running is set the state is RUNNING, the three threads have been
   created and none has been cancelled or joined. *)
RunningMeansRunning ==
    running => /\ state = "RUNNING" /\ cancel = {}
               /\ \A t \in Threads : thr[t] \notin {"none", "joined"}

(* A server in state SHUTDOWN has no thread and no component left: nothing
   that server_start or server_restore_data does brings it back. *)
ShutdownIsComplete ==
    state = "SHUTDOWN" => ~running /\ comps = {} /\ \A t \in Threads : thr[t] = "joined"

(* server_restore_data replaces the database file only while no thread of
   the server can be using it. *)
DbReplacedOnlyWhenStopped ==
    [][database' # database => ~running /\ \A t \in Threads : ~Live(t)]_vars

(* A caller of server_wait_for_state(SHUTDOWN) without timeout returns once
   the server is shut down: update_server_state's broadcast is not missed
   between the test of the state and the sleep. *)
WaitersReturn ==
    \A c \in Callers :
        (pc[c] \in {"check", "asleep"} /\ want[c] = "SHUTDOWN" /\ state = "SHUTDOWN")
            ~> pc[c] = "idle"

(* A cancelled thread has ended while it held a mutex. *)
Orphaned == \E l \in Locks : lock[l] \in Threads /\ ~Live(lock[l])

(* Every server_start, server_stop, server_destroy and server_restore_data
   returns, unless a thread has been cancelled inside a critical section. *)
CallsReturnUnlessOrphaned ==
    \A c \in Callers : Managing(c) ~> (~Managing(c) \/ Orphaned)

(* Every server_start, server_stop, server_destroy and server_restore_data
   returns: server_stop waits "at most 30 seconds" for the connections
   (server_core.c:793) and then ends the threads. *)
CallsReturn == \A c \in Callers : Managing(c) ~> ~Managing(c)
===============================================================================
