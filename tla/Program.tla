------------------------------- MODULE Program -------------------------------
(***************************************************************************)
(* The server program (main.c): several processes of it are started, each  *)
(* takes the PID file, builds its modules and tears them down again.       *)
(*                                                                         *)
(* What the calls into server_core.c return follows from ServerCore:       *)
(*  - server_init leaves the instance RUNNING, so the server_start that    *)
(*    comes after it is refused, the error path is taken, and the main     *)
(*    loop with the pthread_join behind it is never entered;               *)
(*  - running was never set, so server_stop does nothing and               *)
(*    server_destroy frees the instance after its ten seconds;             *)
(*  - server_create installs its own signal handlers, which only log:      *)
(*    sig_terminate can be set before that only, the monitoring thread     *)
(*    then ends at its first test, and handle_signal_events never finds    *)
(*    it set.  g_ctx_mutex is therefore taken by one thread and left out.  *)
(*                                                                         *)
(* A process may also be killed at any time.  Left out: the banner and the *)
(* options (but --check-config), and the two forks of daemonize, whose     *)
(* last child goes on as the process.                                      *)
(***************************************************************************)
EXTENDS Naturals, FiniteSets

CONSTANT Processes   \* processes of the program, each started once

Modules == <<"database", "authentication", "transfers">>

VARIABLES
    pid_file,        \* the PID file exists
    main,            \* where main is in each process
    after,           \* where it goes on after cleanup_modules
    pid_file_path,   \* g_ctx.pid_file_path is not NULL
    config_manager,  \* g_ctx.config_manager is not NULL
    modules,         \* the modules that are initialised
    instance,        \* g_ctx.server_instance: its state, or "NULL"
    handler,         \* who installed the signal handlers
    signals,         \* the signals g_ctx has flagged
    monitor          \* where the monitoring thread is

pgvars == <<pid_file, main, after, pid_file_path, config_manager, modules, instance, handler, signals, monitor>>
context == <<pid_file_path, config_manager>>
services == <<modules, instance>>
async == <<handler, signals, monitor>>

PgInit ==
    /\ pid_file = FALSE
    /\ main = [p \in Processes |-> "new"]
    /\ after = [p \in Processes |-> "graceful"]
    /\ pid_file_path = [p \in Processes |-> FALSE]
    /\ config_manager = [p \in Processes |-> FALSE]
    /\ modules = [p \in Processes |-> {}]
    /\ instance = [p \in Processes |-> "NULL"]
    /\ handler = [p \in Processes |-> "default"]
    /\ signals = [p \in Processes |-> {}]
    /\ monitor = [p \in Processes |-> "none"]

Step(p, from, to) == main[p] = from /\ main' = [main EXCEPT ![p] = to]

(* A failed call of main's: goto cleanup. *)
Fails(p, from) == Step(p, from, "graceful")

(* A failed call of initialize_modules: its own cleanup_modules comes before
   main's. *)
FailsInside(p, from) ==
    /\ Step(p, from, "cleanup")
    /\ after' = [after EXCEPT ![p] = "graceful"]

(* The process is gone, and what it held with it; the PID file stays. *)
Gone(p) ==
    /\ main' = [main EXCEPT ![p] = "ended"]
    /\ modules' = [modules EXCEPT ![p] = {}]
    /\ instance' = [instance EXCEPT ![p] = "NULL"]
    /\ monitor' = [monitor EXCEPT ![p] = "none"]
    /\ handler' = [handler EXCEPT ![p] = "default"]
    /\ signals' = [signals EXCEPT ![p] = {}]
    /\ pid_file_path' = [pid_file_path EXCEPT ![p] = FALSE]
    /\ config_manager' = [config_manager EXCEPT ![p] = FALSE]
    /\ after' = [after EXCEPT ![p] = "graceful"]
    /\ UNCHANGED pid_file

-------------------------------------------------------------------------------
(* main, up to the start of the server *)

(* parse_arguments sets the paths; --check-config loads the configuration,
   cleans up and returns; options that are refused, and a logger that cannot
   be created, end the program. *)
ParseArguments(p) ==
    /\ \E to \in {"config", "check", "exit"} : Step(p, "new", to)
    /\ pid_file_path' = [pid_file_path EXCEPT ![p] = TRUE]
    /\ UNCHANGED <<pid_file, after, config_manager, services, async>>

CheckConfig(p) ==
    /\ Step(p, "check", "cleanup")
    /\ after' = [after EXCEPT ![p] = "exit"]
    /\ \E valid \in BOOLEAN : config_manager' = [config_manager EXCEPT ![p] = valid]
    /\ UNCHANGED <<pid_file, pid_file_path, services, async>>

LoadConfiguration(p) ==
    /\ \/ Step(p, "config", "checks") /\ config_manager' = [config_manager EXCEPT ![p] = TRUE]
       \/ Fails(p, "config") /\ UNCHANGED config_manager
    /\ UNCHANGED <<pid_file, after, pid_file_path, services, async>>

(* check_privileges and validate_environment look at the file system, which
   no other process changes. *)
CheckPrivileges(p) ==
    /\ Step(p, "checks", "environment") \/ Fails(p, "checks")
    /\ UNCHANGED <<pid_file, after, context, services, async>>

ValidateEnvironment(p) ==
    /\ Step(p, "environment", "signals") \/ Fails(p, "environment")
    /\ UNCHANGED <<pid_file, after, context, services, async>>

RegisterSignalHandlers(p) ==
    /\ Step(p, "signals", "pid")
    /\ handler' = [handler EXCEPT ![p] = "program"]
    /\ UNCHANGED <<pid_file, after, context, services, signals, monitor>>

(* open with O_EXCL: an existing file is never taken over.  When the pid
   cannot be written the call fails, and the file stays. *)
CreatePidFile(p) ==
    /\ \/ ~pid_file /\ pid_file' = TRUE /\ (Step(p, "pid", "daemon") \/ Fails(p, "pid"))
       \/ Fails(p, "pid") /\ UNCHANGED pid_file
    /\ UNCHANGED <<after, context, services, async>>

Daemonize(p) ==
    /\ Step(p, "daemon", "modules") \/ Fails(p, "daemon")
    /\ UNCHANGED <<pid_file, after, context, services, async>>

(* db_init, auth_init and ft_init, in this order. *)
InitializeModule(p) ==
    LET next == Cardinality(modules[p]) + 1
    IN  /\ \/ /\ Step(p, "modules", IF next = 3 THEN "create" ELSE "modules")
              /\ modules' = [modules EXCEPT ![p] = @ \cup {Modules[next]}]
              /\ UNCHANGED after
           \/ FailsInside(p, "modules") /\ UNCHANGED modules
        /\ UNCHANGED <<pid_file, context, instance, async>>

CreateServer(p) ==
    /\ \/ /\ Step(p, "create", "init")
          /\ instance' = [instance EXCEPT ![p] = "INITIALIZING"]
          /\ handler' = [handler EXCEPT ![p] = "server"]
          /\ UNCHANGED after
       \/ FailsInside(p, "create") /\ UNCHANGED <<instance, handler>>
    /\ UNCHANGED <<pid_file, context, modules, signals, monitor>>

InitServer(p) ==
    /\ \/ /\ Step(p, "init", "thread")
          /\ instance' = [instance EXCEPT ![p] = "RUNNING"]
          /\ UNCHANGED after
       \/ FailsInside(p, "init") /\ UNCHANGED instance
    /\ UNCHANGED <<pid_file, context, modules, async>>

StartMonitor(p) ==
    /\ \/ Step(p, "thread", "start") /\ monitor' = [monitor EXCEPT ![p] = "test"]
       \/ Fails(p, "thread") /\ UNCHANGED monitor
    /\ UNCHANGED <<pid_file, after, context, services, handler, signals>>

(* server_start calls server_init again, which refuses any state but
   INITIALIZING. *)
StartServer(p) ==
    /\ instance[p] # "INITIALIZING"
    /\ Fails(p, "start")
    /\ UNCHANGED <<pid_file, after, context, services, async>>

-------------------------------------------------------------------------------
(* graceful_shutdown and cleanup_modules *)

(* Stops the server and waits for its connections; no more than 30 seconds. *)
GracefulShutdown(p) ==
    /\ Step(p, "graceful", "cleanup")
    /\ after' = [after EXCEPT ![p] = "remove"]
    /\ UNCHANGED <<pid_file, context, services, async>>

(* server_destroy frees the instance before the pointer is reset. *)
DestroyServer(p) ==
    /\ Step(p, "cleanup", IF instance[p] = "NULL" THEN "release" ELSE "reset")
    /\ instance' = [instance EXCEPT ![p] = IF @ = "NULL" THEN @ ELSE "freed"]
    /\ UNCHANGED <<pid_file, after, context, modules, async>>

ResetServer(p) ==
    /\ Step(p, "reset", "release")
    /\ instance' = [instance EXCEPT ![p] = "NULL"]
    /\ UNCHANGED <<pid_file, after, context, modules, async>>

(* ft_cleanup, auth_cleanup, db_cleanup, the configuration and the paths. *)
ReleaseModules(p) ==
    /\ Step(p, "release", after[p])
    /\ modules' = [modules EXCEPT ![p] = {}]
    /\ config_manager' = [config_manager EXCEPT ![p] = FALSE]
    /\ pid_file_path' = [pid_file_path EXCEPT ![p] = FALSE]
    /\ UNCHANGED <<pid_file, after, instance, async>>

(* Mutant: the path is used, not the pointer cleanup_modules has reset. *)
RemovePidFileByName(p) ==
    /\ Step(p, "remove", "cleanup")
    /\ after' = [after EXCEPT ![p] = "exit"]
    /\ pid_file' = FALSE
    /\ UNCHANGED <<context, services, async>>

(* unlink of a NULL path fails and the file stays.  main then cleans up once
   more. *)
RemovePidFile(p) ==
    /\ Step(p, "remove", "cleanup")
    /\ after' = [after EXCEPT ![p] = "exit"]
    /\ pid_file' = (pid_file /\ ~pid_file_path[p])
    /\ UNCHANGED <<context, services, async>>

Exit(p) == main[p] = "exit" /\ Gone(p)

-------------------------------------------------------------------------------
(* Signals, and the monitoring thread *)

(* SIGTERM or SIGINT, and SIGHUP.  Before the handlers are installed they end
   the process; those of server_create only log.  The flags are read by the
   monitoring thread only, so one set before the process has its PID file is
   as good as one set just after. *)
Signalled(p, sig) ==
    /\ main[p] \notin {"new", "ended"}
    /\ \/ handler[p] = "default" /\ Gone(p)
       \/ /\ handler[p] = "program" /\ main[p] \in {"daemon", "modules", "create"}
          /\ signals' = [signals EXCEPT ![p] = @ \cup {sig}]
          /\ UNCHANGED <<pid_file, main, after, context, services, handler, monitor>>

Killed(p) == main[p] \notin {"new", "ended"} /\ Gone(p)

MonitorTests(p) ==
    /\ monitor[p] = "test"
    /\ monitor' = [monitor EXCEPT ![p] = CASE "terminate" \in signals[p] -> "ended"
                                           [] instance[p] # "NULL" -> "inside"
                                           [] OTHER -> "events"]
    /\ UNCHANGED <<pid_file, main, after, context, services, handler, signals>>

(* server_check_health and server_perform_maintenance on the pointer read
   before; main may have freed the instance since, and then anything may
   happen, the end of the process at the worst. *)
MonitorServer(p) ==
    /\ monitor[p] = "inside"
    /\ \/ instance[p] \in {"freed", "NULL"} /\ Gone(p)
       \/ /\ monitor' = [monitor EXCEPT ![p] = "events"]
          /\ UNCHANGED <<pid_file, main, after, context, services, handler, signals>>

(* A reload uses the configuration and the instance, whatever has become of
   them; config_reload of NULL fails, of a freed instance anything goes. *)
HandleSignalEvents(p) ==
    /\ monitor[p] = "events"
    /\ \/ "reload" \in signals[p] /\ config_manager[p] /\ instance[p] = "freed" /\ Gone(p)
       \/ /\ signals' = [signals EXCEPT ![p] = @ \ {"reload"}]
          /\ monitor' = [monitor EXCEPT ![p] = "test"]
          /\ UNCHANGED <<pid_file, main, after, context, services, handler>>

PgNext == \E p \in Processes :
    \/ ParseArguments(p) \/ CheckConfig(p) \/ LoadConfiguration(p) \/ CheckPrivileges(p)
    \/ ValidateEnvironment(p) \/ RegisterSignalHandlers(p) \/ CreatePidFile(p) \/ Daemonize(p)
    \/ InitializeModule(p) \/ CreateServer(p) \/ InitServer(p) \/ StartMonitor(p) \/ StartServer(p)
    \/ GracefulShutdown(p) \/ DestroyServer(p) \/ ResetServer(p) \/ ReleaseModules(p)
    \/ RemovePidFile(p) \/ Exit(p) \/ Killed(p)
    \/ \E sig \in {"terminate", "reload"} : Signalled(p, sig)
    \/ MonitorTests(p) \/ MonitorServer(p) \/ HandleSignalEvents(p)

PgSpec == PgInit /\ [][PgNext]_pgvars

-------------------------------------------------------------------------------
(* At most one process has the database and the other modules of the working
   directory open (main.c, create_pid_file), whichever processes are started,
   fail, are killed or clean up after a start that was refused. *)
OneInstance == \A p, q \in Processes : modules[p] # {} /\ modules[q] # {} => p = q
===============================================================================
