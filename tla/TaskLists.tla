----------------------------- MODULE TaskLists ------------------------------
(***************************************************************************)
(* The linked task records of the thread pool (server/src/threadpool.c):   *)
(* three head pointers, a next pointer per task and the single             *)
(* task_queue_tail.  Callers hold queue_mutex, so an operation is a step.  *)
(***************************************************************************)
EXTENDS Integers, Sequences, FiniteSets

CONSTANTS Tasks, NULL,
          Priorities,   \* the priorities callers pass to threadpool_add_task
          Urgent        \* TRUE iff threadpool_add_urgent_task is called too

ASSUME ListTasksAssumption == IsFiniteSet(Tasks) /\ NULL \notin Tasks
ASSUME PrioritiesAssumption ==
    Priorities \subseteq {"low", "normal", "high", "critical"} /\ Urgent \in BOOLEAN

VARIABLES head,             \* task_queue_high, task_queue_normal, task_queue_low
          next,             \* task->next
          task_queue_tail,
          prio,             \* task->priority of the tasks handed in
          allocated,        \* the records that exist
          fault

lvars == <<head, next, task_queue_tail, prio, allocated, fault>>

Levels == {"high", "normal", "low"}

(* The switch of threadpool_add_task: critical tasks share the high list. *)
LevelOf(p) == IF p \in {"high", "critical"} THEN "high" ELSE p

Init ==
    /\ head = [l \in Levels |-> NULL]
    /\ next = [t \in Tasks |-> NULL]
    /\ task_queue_tail = NULL
    /\ prio = [t \in Tasks |-> "low"]
    /\ allocated = {}
    /\ fault = "none"

(* create_task *)
CreateTask(t, p) ==
    /\ t \notin allocated
    /\ allocated' = allocated \cup {t}
    /\ prio' = [prio EXCEPT ![t] = p]

AddTask(t, p) ==
    LET l == LevelOf(p) IN
    /\ CreateTask(t, p)
    /\ \/ /\ head[l] = NULL
          /\ head' = [head EXCEPT ![l] = t]
          /\ next' = [next EXCEPT ![t] = NULL]
          /\ task_queue_tail' = t
          /\ UNCHANGED fault
       \/ /\ head[l] # NULL /\ task_queue_tail # NULL
          /\ next' = [next EXCEPT ![t] = NULL, ![task_queue_tail] = t]
          /\ task_queue_tail' = t
          /\ UNCHANGED <<head, fault>>
       \/ /\ head[l] # NULL /\ task_queue_tail = NULL
          /\ fault' = "null_dereference"
          /\ UNCHANGED <<head, next, task_queue_tail>>

AddUrgentTask(t) ==
    /\ CreateTask(t, "critical")
    /\ next' = [next EXCEPT ![t] = head["high"]]
    /\ head' = [head EXCEPT !["high"] = t]
    /\ task_queue_tail' = IF task_queue_tail = NULL THEN t ELSE task_queue_tail
    /\ UNCHANGED fault

(* The list get_next_task takes from: high before normal before low. *)
Served == IF head["high"] # NULL THEN "high"
          ELSE IF head["normal"] # NULL THEN "normal" ELSE "low"

(* destroy_task: what a freed record held is forgotten. *)
Release(S) ==
    /\ allocated' = allocated \ S
    /\ next' = [t \in Tasks |-> IF t \in S THEN NULL ELSE next[t]]
    /\ prio' = [t \in Tasks |-> IF t \in S THEN "low" ELSE prio[t]]

(* Mutation variant: the tail is left pointing at the record taken. *)
GetNextTaskKeepsTail ==
    /\ head[Served] # NULL
    /\ head' = [head EXCEPT ![Served] = next[head[Served]]]
    /\ Release({head[Served]})
    /\ UNCHANGED <<task_queue_tail, fault>>

(* get_next_task; the worker frees the record after running it. *)
GetNextTask ==
    /\ head[Served] # NULL
    /\ head' = [head EXCEPT ![Served] = next[head[Served]]]
    /\ task_queue_tail' = IF task_queue_tail = head[Served] THEN NULL ELSE task_queue_tail
    /\ Release({head[Served]})
    /\ UNCHANGED fault

(* The end of threadpool_destroy: every list is walked and freed. *)
DropAll ==
    /\ head' = [l \in Levels |-> NULL]
    /\ task_queue_tail' = NULL
    /\ Release(allocated)
    /\ UNCHANGED fault

Next ==
    /\ fault = "none"
    /\ \/ \E t \in Tasks, p \in Priorities : AddTask(t, p)
       \/ Urgent /\ \E t \in Tasks : AddUrgentTask(t)
       \/ GetNextTask
       \/ DropAll

Spec == Init /\ [][Next]_lvars

-----------------------------------------------------------------------------
(* The records met on the way from t along the pointers nx; it ends at NULL,
   and at the latest with as many records as there are. *)
Onward(nx, t, q) ==
    LET e == IF q = <<>> THEN t ELSE nx[q[Len(q)]]
    IN  IF e = NULL THEN q ELSE Append(q, e)
ListFrom(nx, t) ==
    LET met[n \in 0..Cardinality(Tasks)] ==
            IF n = 0 THEN <<>> ELSE Onward(nx, t, met[n - 1])
    IN  met[Cardinality(Tasks)]

Lists == [l \in Levels |-> ListFrom(next, head[l])]

(* The linked records implement the lists of TaskQueues: every record     *)
(* handed in and not yet taken hangs on one list, at one place, and no     *)
(* freed record is reached, although the three lists share one tail        *)
(* (threadpool.c:365-368, 446-454, 504-510).                               *)
Queues == INSTANCE TaskQueues WITH lists <- Lists
ImplementsQueues == Queues!QSpec
=============================================================================
