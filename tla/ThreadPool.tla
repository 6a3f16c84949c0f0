----------------------------- MODULE ThreadPool -----------------------------
(***************************************************************************)
(* The thread pool of server/src/threadpool.c: worker threads, client      *)
(* threads that submit tasks, wait, pause, resume and resize, and one      *)
(* thread that destroys the pool.                                          *)
(*                                                                         *)
(* A stretch of code under queue_mutex is one action; what the code reads  *)
(* before taking the mutex (the state tests) is an action of its own.      *)
(* Sleepers on queue_not_empty are workers at "waiting", sleepers on       *)
(* all_tasks_done are clients or the destroyer at "sleeping".  Nobody ever *)
(* sleeps on queue_not_full, so its signals have no effect.  Statistics    *)
(* other than queue_length and active_threads are left out: no decision of *)
(* the code reads them.                                                    *)
(***************************************************************************)
EXTENDS TaskQueues, FiniteSets

CONSTANTS Clients,        \* threads that call the pool's functions
          Ops,            \* which functions they call (see ClientOps)
          UsedLevels,     \* levels of the priorities passed to threadpool_add_task
          DestroyModes,   \* arguments of threadpool_destroy: subset of BOOLEAN
          Quiet,          \* TRUE: destroy is called with no client inside a call
          queue_size,     \* config: 0 means unbounded
          min_threads, default_threads, MaxThreads,  \* config (after clamping)
          dynamic_scaling,
          CounterRange    \* active_threads counts modulo this (2^32 in the code)

ClientOps == {"add", "urgent", "wait", "timedwait", "pause", "resume", "resize"}

ASSUME PoolAssumption ==
    /\ IsFiniteSet(Tasks) /\ Ops \subseteq ClientOps /\ UsedLevels \subseteq Levels
    /\ DestroyModes \subseteq BOOLEAN /\ Quiet \in BOOLEAN
    /\ queue_size \in Nat /\ dynamic_scaling \in BOOLEAN
    /\ min_threads \in Nat \ {0} /\ default_threads \in min_threads..MaxThreads
    /\ MaxThreads \in Nat /\ CounterRange \in Nat \ {0}

Threads == 1..MaxThreads

VARIABLES
    state,               \* "RUNNING", "STOPPING" or "STOPPED"
    shutdown_requested,
    queue_length,        \* stats.queue_length
    thread_count, max_threads, active_threads,
    wpc,                 \* where each worker is
    wtask,               \* the task a worker runs
    wtarget,             \* the thread count a scaling worker asks for
    cpc, carg,           \* where each client is, and its argument
    dpc,                 \* where the destroyer is
    status               \* what became of each task

pool == <<state, shutdown_requested, queue_length, thread_count, max_threads, active_threads>>
workers == <<wpc, wtask, wtarget>>
clients == <<cpc, carg>>
vars == <<qvars, pool, workers, clients, dpc, status>>

Idle == [op |-> "none", task |-> NULL, level |-> "normal", n |-> 0]

(* threadpool_create, all threads started. *)
Init ==
    /\ QInit
    /\ state = "RUNNING" /\ shutdown_requested = FALSE
    /\ queue_length = 0
    /\ thread_count = default_threads /\ max_threads = MaxThreads
    /\ active_threads = 0
    /\ wpc = [w \in Threads |-> IF w <= default_threads THEN "lock" ELSE "none"]
    /\ wtask = [w \in Threads |-> NULL]
    /\ wtarget = [w \in Threads |-> 0]
    /\ cpc = [c \in Clients |-> "idle"]
    /\ carg = [c \in Clients |-> Idle]
    /\ dpc = "idle"
    /\ status = [t \in Tasks |-> "new"]

alive == state # "STOPPED"
ok == alive /\ fault = "none"

(* Unsigned arithmetic on active_threads. *)
Wrap(n) == n % CounterRange

(* pthread_cond_signal(queue_not_empty) with the workers at f. *)
SignalWorker(f) ==
    IF \E w \in Threads : f[w] = "waiting"
    THEN {[f EXCEPT ![w] = "woken"] : w \in {v \in Threads : f[v] = "waiting"}}
    ELSE {f}

(* pthread_cond_broadcast(queue_not_empty) *)
WakeAllWorkers(f) == [w \in Threads |-> IF f[w] = "waiting" THEN "woken" ELSE f[w]]

(* pthread_cond_broadcast(all_tasks_done) *)
WakeAllDone ==
    /\ cpc' = [c \in Clients |-> IF cpc[c] = "sleeping" THEN "checked" ELSE cpc[c]]
    /\ dpc' = IF dpc = "sleeping" THEN "draining" ELSE dpc

-----------------------------------------------------------------------------
(* worker_thread_function.  A woken worker has the mutex again and counts  *)
(* itself active before it looks at the queues.                            *)

AtQueue(w) == ok /\ wpc[w] \in {"lock", "woken"}
Counted(w) == IF wpc[w] = "woken" THEN active_threads + 1 ELSE active_threads

WorkerWaits(w) ==
    /\ AtQueue(w) /\ ~shutdown_requested /\ AllEmpty
    /\ wpc' = [wpc EXCEPT ![w] = "waiting"]
    /\ active_threads' = Wrap(Counted(w) - 1)
    /\ UNCHANGED <<qvars, state, shutdown_requested, queue_length, thread_count, max_threads,
                   wtask, wtarget, clients, dpc, status>>

(* Mutation variant: a worker leaves as soon as shutdown is requested. *)
WorkerLeavesAtOnce(w) ==
    /\ AtQueue(w) /\ shutdown_requested
    /\ wpc' = [wpc EXCEPT ![w] = "exiting"]
    /\ active_threads' = Wrap(Counted(w))
    /\ UNCHANGED <<qvars, state, shutdown_requested, queue_length, thread_count, max_threads,
                   wtask, wtarget, clients, dpc, status>>

WorkerLeaves(w) ==
    /\ AtQueue(w) /\ shutdown_requested /\ AllEmpty
    /\ wpc' = [wpc EXCEPT ![w] = "exiting"]
    /\ active_threads' = Wrap(Counted(w))
    /\ UNCHANGED <<qvars, state, shutdown_requested, queue_length, thread_count, max_threads,
                   wtask, wtarget, clients, dpc, status>>

(* Mutation variants: the last task is taken without telling all_tasks_done; *)
(* the counter is left alone.                                              *)
WorkerTakesSilently(w) ==
    /\ AtQueue(w)
    /\ UnlinkNext
    /\ wpc' = [wpc EXCEPT ![w] = "run"]
    /\ wtask' = [wtask EXCEPT ![w] = NextTask]
    /\ status' = [status EXCEPT ![NextTask] = "running"]
    /\ active_threads' = Wrap(Counted(w))
    /\ queue_length' = queue_length - 1
    /\ UNCHANGED <<state, shutdown_requested, thread_count, max_threads, wtarget, clients, dpc>>

WorkerTakesUncounted(w) ==
    /\ AtQueue(w)
    /\ UnlinkNext
    /\ wpc' = [wpc EXCEPT ![w] = "run"]
    /\ wtask' = [wtask EXCEPT ![w] = NextTask]
    /\ status' = [status EXCEPT ![NextTask] = "running"]
    /\ active_threads' = Wrap(Counted(w))
    /\ UNCHANGED <<state, shutdown_requested, queue_length, thread_count, max_threads,
                   wtarget, clients, dpc>>

(* With get_next_task: all_tasks_done is broadcast only while STOPPING. *)
WorkerTakes(w) ==
    /\ AtQueue(w)
    /\ UnlinkNext
    /\ wpc' = [wpc EXCEPT ![w] = "run"]
    /\ wtask' = [wtask EXCEPT ![w] = NextTask]
    /\ status' = [status EXCEPT ![NextTask] = "running"]
    /\ active_threads' = Wrap(Counted(w))
    /\ queue_length' = queue_length - 1
    /\ IF queue_length' = 0 /\ state = "STOPPING" THEN WakeAllDone ELSE UNCHANGED <<cpc, dpc>>
    /\ UNCHANGED <<state, shutdown_requested, thread_count, max_threads, wtarget, carg>>

(* The task function returns, the statistics are updated, the task is      *)
(* destroyed, and now and then the worker looks at the pool's size.        *)
WorkerRuns(w) ==
    /\ ok /\ wpc[w] = "run"
    /\ status' = [status EXCEPT ![wtask[w]] = "done"]
    /\ wtask' = [wtask EXCEPT ![w] = NULL]
    /\ \E next \in IF dynamic_scaling THEN {"lock", "scale"} ELSE {"lock"} :
         wpc' = [wpc EXCEPT ![w] = next]
    /\ UNCHANGED <<qvars, pool, wtarget, clients, dpc>>

(* The thread is gone.  active_threads is decremented under stat_mutex     *)
(* only, so the decrement may be lost to a worker that updates it under    *)
(* queue_mutex at the same time.                                           *)
WorkerExits(w) ==
    /\ ok /\ wpc[w] = "exiting"
    /\ wpc' = [wpc EXCEPT ![w] = "exited"]
    /\ \/ active_threads' = Wrap(active_threads - 1)
       \/ /\ \E v \in Threads : AtQueue(v)
          /\ UNCHANGED active_threads
    /\ UNCHANGED <<qvars, state, shutdown_requested, queue_length, thread_count, max_threads,
                   wtask, wtarget, clients, dpc, status>>

-----------------------------------------------------------------------------
(* Resizing.  Load is queue_length / queue_size in floating point: above   *)
(* 0.8 is high, below 0.2 is low, and x / 0 is high unless x = 0.          *)
HighLoad == 5 * queue_length > 4 * queue_size
LowLoad == 5 * queue_length < queue_size

LeastOf(a, b) == IF a < b THEN a ELSE b
MostOf(a, b) == IF a > b THEN a ELSE b

calculate_optimal_threads ==
    IF HighLoad THEN LeastOf(thread_count * 2, max_threads)
    ELSE IF LowLoad THEN MostOf(thread_count \div 2, min_threads)
    ELSE thread_count

(* What threadpool_resize tests before it takes the mutex. *)
MayResize(n) == n \in min_threads..max_threads /\ state = "RUNNING"

(* threadpool_resize under the mutex, the workers being at f: thread       *)
(* creation may fail part way, and shrinking only lowers the maximum.      *)
ResizeTo(n, f) ==
    \/ /\ n >= thread_count
       /\ \E k \in thread_count..n :
            /\ thread_count' = k
            /\ wpc' = [w \in Threads |-> IF w \in (thread_count + 1)..k THEN "lock" ELSE f[w]]
       /\ UNCHANGED max_threads
    \/ /\ n < thread_count
       /\ max_threads' = n
       /\ wpc' = WakeAllWorkers(f)
       /\ UNCHANGED thread_count

(* check_and_adjust_pool_size *)
WorkerScales(w) ==
    /\ ok /\ wpc[w] = "scale"
    /\ LET n == calculate_optimal_threads
           asks == n # thread_count /\ MayResize(n)
       IN  /\ wpc' = [wpc EXCEPT ![w] = IF asks THEN "resize" ELSE "lock"]
           /\ wtarget' = [wtarget EXCEPT ![w] = IF asks THEN n ELSE 0]
    /\ UNCHANGED <<qvars, pool, wtask, clients, dpc, status>>

WorkerResizes(w) ==
    /\ ok /\ wpc[w] = "resize"
    /\ ResizeTo(wtarget[w], [wpc EXCEPT ![w] = "lock"])
    /\ wtarget' = [wtarget EXCEPT ![w] = 0]
    /\ UNCHANGED <<qvars, state, shutdown_requested, queue_length, active_threads,
                   wtask, clients, dpc, status>>

-----------------------------------------------------------------------------
(* Client calls.  Each tests state without the mutex and goes on "checked".*)

Enters(c, op) == ok /\ op \in Ops /\ cpc[c] = "idle" /\ (Quiet => dpc = "idle")

Goes(c, a) ==
    /\ state = "RUNNING"
    /\ cpc' = [cpc EXCEPT ![c] = "checked"]
    /\ carg' = [carg EXCEPT ![c] = a]
    /\ UNCHANGED <<qvars, pool, workers, dpc>>

CallAdd(c, t, l) ==
    /\ Enters(c, "add") /\ status[t] = "new"
    /\ Goes(c, [Idle EXCEPT !.op = "add", !.task = t, !.level = l])
    /\ status' = [status EXCEPT ![t] = "offered"]

CallUrgent(c, t) ==
    /\ Enters(c, "urgent") /\ status[t] = "new"
    /\ Goes(c, [Idle EXCEPT !.op = "urgent", !.task = t])
    /\ status' = [status EXCEPT ![t] = "offered"]

CallWait(c, op) ==
    /\ Enters(c, op)
    /\ Goes(c, [Idle EXCEPT !.op = op])
    /\ UNCHANGED status

CallResize(c, n) ==
    /\ Enters(c, "resize") /\ MayResize(n)
    /\ Goes(c, [Idle EXCEPT !.op = "resize", !.n = n])
    /\ UNCHANGED status

(* threadpool_pause and threadpool_resume take no mutex and test nothing. *)
Pause(c) ==
    /\ Enters(c, "pause")
    /\ state' = "STOPPING"
    /\ UNCHANGED <<qvars, shutdown_requested, queue_length, thread_count, max_threads,
                   active_threads, workers, clients, dpc, status>>

Resume(c) ==
    /\ Enters(c, "resume")
    /\ state' = "RUNNING"
    /\ wpc' \in SignalWorker(wpc)
    /\ UNCHANGED <<qvars, shutdown_requested, queue_length, thread_count, max_threads,
                   active_threads, wtask, wtarget, clients, dpc, status>>

Inside(c, ops) == ok /\ cpc[c] = "checked" /\ carg[c].op \in ops

Returns(c) == /\ cpc' = [cpc EXCEPT ![c] = "idle"]
              /\ carg' = [carg EXCEPT ![c] = Idle]

QueueFull == queue_size > 0 /\ queue_length >= queue_size

(* THREADPOOL_ERROR_QUEUE_FULL, or THREADPOOL_ERROR_MEMORY: not accepted. *)
AddFails(c) ==
    /\ Inside(c, {"add", "urgent"})
    /\ Returns(c)
    /\ status' = [status EXCEPT ![carg[c].task] = "new"]
    /\ UNCHANGED <<qvars, pool, workers, dpc>>

Accepted(c) ==
    /\ Returns(c)
    /\ status' = [status EXCEPT ![carg[c].task] = "queued"]
    /\ queue_length' = queue_length + 1
    /\ UNCHANGED <<state, shutdown_requested, thread_count, max_threads, active_threads,
                   wtask, wtarget, dpc>>

(* Mutation variant: a submission that wakes no worker. *)
AddTaskSilently(c) ==
    /\ Inside(c, {"add"}) /\ ~QueueFull
    /\ Link(carg[c].task, carg[c].level)
    /\ Accepted(c)
    /\ UNCHANGED wpc

(* threadpool_add_task under the mutex *)
AddTask(c) ==
    /\ Inside(c, {"add"}) /\ ~QueueFull
    /\ Link(carg[c].task, carg[c].level)
    /\ Accepted(c)
    /\ wpc' \in SignalWorker(wpc)

(* threadpool_add_urgent_task does not look at queue_size. *)
AddUrgentTask(c) ==
    /\ Inside(c, {"urgent"})
    /\ LinkUrgent(carg[c].task)
    /\ Accepted(c)
    /\ wpc' \in SignalWorker(wpc)

WaitSleeps(c) ==
    /\ Inside(c, {"wait", "timedwait"}) /\ queue_length > 0
    /\ cpc' = [cpc EXCEPT ![c] = "sleeping"]
    /\ UNCHANGED <<qvars, pool, workers, carg, dpc, status>>

WaitReturns(c) ==
    /\ Inside(c, {"wait", "timedwait"}) /\ queue_length = 0
    /\ Returns(c)
    /\ UNCHANGED <<qvars, pool, workers, dpc, status>>

WaitTimesOut(c) ==
    /\ ok /\ cpc[c] = "sleeping" /\ carg[c].op = "timedwait"
    /\ Returns(c)
    /\ UNCHANGED <<qvars, pool, workers, dpc, status>>

Resize(c) ==
    /\ Inside(c, {"resize"})
    /\ ResizeTo(carg[c].n, wpc)
    /\ Returns(c)
    /\ UNCHANGED <<qvars, state, shutdown_requested, queue_length, active_threads,
                   wtask, wtarget, dpc, status>>

(* A call that was past its state test, or asleep, when the pool was freed. *)
UseAfterFree(c) ==
    /\ ~alive /\ fault = "none" /\ cpc[c] # "idle"
    /\ fault' = "use_after_free"
    /\ UNCHANGED <<lists, task_queue_tail, pool, workers, clients, dpc, status>>

-----------------------------------------------------------------------------
(* threadpool_destroy(pool, wait).  wait = FALSE only skips the wait on    *)
(* all_tasks_done: immediate_shutdown is written and never read.           *)

DestroyBegins(wait) ==
    /\ ok /\ dpc = "idle" /\ (Quiet => \A c \in Clients : cpc[c] = "idle")
    /\ shutdown_requested' = TRUE
    /\ state' = "STOPPING"
    /\ wpc' = WakeAllWorkers(wpc)
    /\ dpc' = IF wait /\ queue_length > 0 THEN "sleeping" ELSE "joining"
    /\ UNCHANGED <<qvars, queue_length, thread_count, max_threads, active_threads,
                   wtask, wtarget, clients, status>>

DestroyChecks ==
    /\ ok /\ dpc = "draining"
    /\ dpc' = IF queue_length > 0 THEN "sleeping" ELSE "joining"
    /\ UNCHANGED <<qvars, pool, workers, clients, status>>

DestroyJoins ==
    /\ ok /\ dpc = "joining" /\ \A w \in 1..thread_count : wpc[w] = "exited"
    /\ dpc' = "cleaning"
    /\ UNCHANGED <<qvars, pool, workers, clients, status>>

DestroyFrees ==
    /\ ok /\ dpc = "cleaning"
    /\ UnlinkAll
    /\ status' = [t \in Tasks |-> IF t \in Queued THEN "dropped" ELSE status[t]]
    /\ queue_length' = 0
    /\ state' = "STOPPED"
    /\ dpc' = "done"
    /\ UNCHANGED <<shutdown_requested, thread_count, max_threads, active_threads,
                   workers, clients>>

(* POSIX lets condition variables wake sleepers for no reason. *)
SpuriousWakeup ==
    /\ ok
    /\ \/ /\ \E w \in Threads : wpc[w] = "waiting" /\ wpc' = [wpc EXCEPT ![w] = "woken"]
          /\ UNCHANGED <<cpc, dpc>>
       \/ /\ \E c \in Clients : cpc[c] = "sleeping" /\ cpc' = [cpc EXCEPT ![c] = "checked"]
          /\ UNCHANGED <<wpc, dpc>>
       \/ /\ dpc = "sleeping" /\ dpc' = "draining"
          /\ UNCHANGED <<wpc, cpc>>
    /\ UNCHANGED <<qvars, pool, wtask, wtarget, carg, status>>

-----------------------------------------------------------------------------
WorkerStep(w) ==
    \/ WorkerWaits(w)
    \/ WorkerLeaves(w)
    \/ WorkerTakes(w)
    \/ WorkerRuns(w)
    \/ WorkerExits(w)
    \/ WorkerScales(w)
    \/ WorkerResizes(w)

ClientCall(c) ==
    \/ \E t \in Tasks, l \in UsedLevels : CallAdd(c, t, l)
    \/ \E t \in Tasks : CallUrgent(c, t)
    \/ \E op \in {"wait", "timedwait"} : CallWait(c, op)
    \/ \E n \in Threads : CallResize(c, n)
    \/ Pause(c)
    \/ Resume(c)

ClientStep(c) ==
    \/ AddFails(c)
    \/ AddTask(c)
    \/ AddUrgentTask(c)
    \/ WaitSleeps(c)
    \/ WaitReturns(c)
    \/ Resize(c)
    \/ UseAfterFree(c)

DestroyStep == DestroyChecks \/ DestroyJoins \/ DestroyFrees

Next ==
    \/ \E w \in Threads : WorkerStep(w)
    \/ \E c \in Clients : ClientCall(c) \/ ClientStep(c) \/ WaitTimesOut(c)
    \/ \E wait \in DestroyModes : DestroyBegins(wait)
    \/ DestroyStep
    \/ SpuriousWakeup

Spec == Init /\ [][Next]_vars

(* Threads get the processor and the mutex in the end and task functions   *)
(* return.  Nothing is assumed of calls, timeouts and spurious wakeups.    *)
Fairness ==
    /\ \A w \in Threads : WF_vars(WorkerStep(w))
    /\ \A c \in Clients : WF_vars(ClientStep(c))
    /\ WF_vars(DestroyStep)

FairSpec == Spec /\ Fairness
-----------------------------------------------------------------------------
(* Properties *)

WorkerPlaces == {"none", "lock", "waiting", "woken", "run", "scale", "resize", "exiting", "exited"}

CallArgs == [op : Ops \cup {"none"}, task : Tasks \cup {NULL},
             level : Levels, n : 0..MaxThreads]

(* Every variable has its type; in particular queue_length never wraps     *)
(* below zero and thread_count stays between the configured bounds.        *)
TypeOK ==
    /\ lists \in [Levels -> Seq(Tasks)]
    /\ task_queue_tail \in Tasks \cup {NULL}
    /\ fault \in {"none", "null_dereference", "use_after_free"}
    /\ state \in {"RUNNING", "STOPPING", "STOPPED"}
    /\ shutdown_requested \in BOOLEAN
    /\ queue_length \in Nat
    /\ thread_count \in default_threads..MaxThreads
    /\ max_threads \in min_threads..MaxThreads
    /\ active_threads \in 0..(CounterRange - 1)
    /\ wpc \in [Threads -> WorkerPlaces]
    /\ wtask \in [Threads -> Tasks \cup {NULL}]
    /\ wtarget \in [Threads -> 0..MaxThreads]
    /\ cpc \in [Clients -> {"idle", "checked", "sleeping"}]
    /\ carg \in [Clients -> CallArgs]
    /\ dpc \in {"idle", "sleeping", "draining", "joining", "cleaning", "done"}
    /\ status \in [Tasks -> {"new", "offered", "queued", "running", "done", "dropped"}]

AtRest(w) == wpc[w] \in {"none", "exited"}
Heading == {w \in Threads : wpc[w] \in {"lock", "woken"}}

(* stats.queue_length, which full, wait and destroy decide by, is the      *)
(* number of tasks that are linked on the three lists.                     *)
QueueLengthExact ==
    fault = "none" =>
        queue_length = Len(lists["high"]) + Len(lists["normal"]) + Len(lists["low"])

(* A task is in one place: queued tasks are the linked ones, a running     *)
(* task is held by exactly one worker.                                     *)
OneOwner ==
    fault = "none" =>
        /\ Queued = {t \in Tasks : status[t] = "queued"}
        /\ \A t \in Tasks :
             status[t] = "running" <=> \E w \in Threads : wtask[w] = t
        /\ \A v, w \in Threads : wtask[v] = wtask[w] /\ wtask[v] # NULL => v = w

(* As long as a worker sleeps, enough workers are on their way to the      *)
(* queues to take everything that is linked: no task waits beside a        *)
(* sleeping worker.                                                        *)
NoTaskStranded ==
    fault = "none" /\ (\E w \in Threads : wpc[w] = "waiting") =>
        queue_length <= Cardinality(Heading)

(* threadpool_destroy frees the pool when every thread ever started has    *)
(* gone, the ones a concurrent resize added included.                      *)
NoWorkerOutlivesPool == ~alive => \A w \in Threads : AtRest(w)

(* threadpool_destroy runs every task that was accepted before it.         *)
NothingDropped == \A t \in Tasks : status[t] # "dropped"

(* Submissions of one level, urgent ones aside, never meet a NULL tail.    *)
NoNullTail == fault # "null_dereference"

(* An accepted task is executed.                                           *)
AcceptedTaskRuns == \A t \in Tasks : status[t] = "queued" ~> status[t] = "done"

(* threadpool_destroy returns.                                             *)
DestroyFinishes == dpc # "idle" ~> dpc = "done"
=============================================================================
