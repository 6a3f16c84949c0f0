----------------------------- MODULE TaskQueues -----------------------------
(***************************************************************************)
(* The task queues of the thread pool (server/src/threadpool.c) as lists:  *)
(* one list per priority level and ONE tail pointer, task_queue_tail,      *)
(* shared by the three of them.  TaskLists has the linked records and is   *)
(* shown to implement this module; ThreadPool builds on it.                *)
(***************************************************************************)
EXTENDS Integers, Sequences

CONSTANTS Tasks,   \* the tasks that may be submitted, each once
          NULL

ASSUME TasksAssumption == NULL \notin Tasks

VARIABLES lists,            \* level |-> tasks in the order they are linked
          task_queue_tail,  \* a task or NULL
          fault             \* "none", or the memory error that ended the run

qvars == <<lists, task_queue_tail, fault>>

Levels == {"high", "normal", "low"}
Queued == {t \in Tasks : \E l \in Levels : \E i \in 1..Len(lists[l]) : lists[l][i] = t}
AllEmpty == \A l \in Levels : lists[l] = <<>>

QInit == /\ lists = [l \in Levels |-> <<>>]
         /\ task_queue_tail = NULL
         /\ fault = "none"

(* threadpool_add_task, the list of the level is empty. *)
LinkFirst(t, l) ==
    /\ lists[l] = <<>>
    /\ lists' = [lists EXCEPT ![l] = <<t>>]
    /\ task_queue_tail' = t
    /\ UNCHANGED fault

(* ... and otherwise: tail->next = task, whichever list the tail is on. *)
LinkAfterTail(t, l) ==
    /\ lists[l] # <<>> /\ task_queue_tail # NULL
    /\ \E k \in Levels :
         /\ lists[k] # <<>> /\ lists[k][Len(lists[k])] = task_queue_tail
         /\ lists' = [lists EXCEPT ![k] = Append(lists[k], t)]
    /\ task_queue_tail' = t
    /\ UNCHANGED fault

LinkAfterNull(t, l) ==
    /\ lists[l] # <<>> /\ task_queue_tail = NULL
    /\ fault' = "null_dereference"
    /\ UNCHANGED <<lists, task_queue_tail>>

Link(t, l) == LinkFirst(t, l) \/ LinkAfterTail(t, l) \/ LinkAfterNull(t, l)

(* threadpool_add_urgent_task: in front of the high list. *)
LinkUrgent(t) ==
    /\ lists' = [lists EXCEPT !["high"] = <<t>> \o lists["high"]]
    /\ task_queue_tail' = IF task_queue_tail = NULL THEN t ELSE task_queue_tail
    /\ UNCHANGED fault

(* The level get_next_task serves. *)
NextLevel == IF lists["high"] # <<>> THEN "high"
             ELSE IF lists["normal"] # <<>> THEN "normal" ELSE "low"
NextTask == Head(lists[NextLevel])

(* Mutation variant: the head is not advanced. *)
UnlinkNextPeeks ==
    /\ ~AllEmpty
    /\ UNCHANGED qvars

(* get_next_task *)
UnlinkNext ==
    /\ ~AllEmpty
    /\ lists' = [lists EXCEPT ![NextLevel] = Tail(lists[NextLevel])]
    /\ task_queue_tail' = IF task_queue_tail = NextTask THEN NULL ELSE task_queue_tail
    /\ UNCHANGED fault

(* threadpool_destroy drops whatever is left. *)
UnlinkAll ==
    /\ lists' = [l \in Levels |-> <<>>]
    /\ task_queue_tail' = NULL
    /\ UNCHANGED fault

QNext ==
    \/ /\ fault = "none"
       /\ \/ \E t \in Tasks \ Queued :
               (\E l \in Levels : Link(t, l)) \/ LinkUrgent(t)
          \/ UnlinkNext
          \/ UnlinkAll
    \/ UNCHANGED qvars

QSpec == QInit /\ [][QNext]_qvars
=============================================================================
