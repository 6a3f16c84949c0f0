------------------------- MODULE ThreadPool_proofs --------------------------
(***************************************************************************)
(* Proofs about ThreadPool for every number of tasks, clients and threads. *)
(***************************************************************************)
EXTENDS ThreadPool, FiniteSetTheorems, SequenceTheorems, TLAPS

(* A pending resize asks for a size within the configured bounds, and a    *)
(* pending submission has a task.                                          *)
Asked ==
    /\ \A w \in Threads : wpc[w] = "resize" => wtarget[w] \in min_threads..MaxThreads
    /\ \A c \in Clients : carg[c].op = "resize" => carg[c].n \in min_threads..MaxThreads
    /\ \A c \in Clients : carg[c].op \in {"add", "urgent"} => carg[c].task \in Tasks

BaseInv == TypeOK /\ QueueLengthExact /\ Asked

-----------------------------------------------------------------------------
(* What the list operations do to the types and to the number of linked tasks. *)

Linked(f) == Len(f["high"]) + Len(f["normal"]) + Len(f["low"])

(* Replacing one list by a list d longer changes the number of linked tasks by d. *)
LEMMA Relinked ==
    ASSUME NEW f \in [Levels -> Seq(Tasks)], NEW l \in Levels, NEW s \in Seq(Tasks),
           NEW d \in Int, Len(s) = Len(f[l]) + d
    PROVE  Linked([f EXCEPT ![l] = s]) = Linked(f) + d
<1> DEFINE g == [f EXCEPT ![l] = s]
<1>1. f["high"] \in Seq(Tasks) /\ f["normal"] \in Seq(Tasks) /\ f["low"] \in Seq(Tasks)
  BY DEF Levels
<1>2. PICK x \in Nat, y \in Nat, z \in Nat :
        Len(f["high"]) = x /\ Len(f["normal"]) = y /\ Len(f["low"]) = z
  BY <1>1, LenProperties
<1>3. Linked(f) = x + y + z
  BY <1>2, Zenon DEF Linked
<1>4. CASE l = "high"
  <2>1. /\ g["high"] = s
        /\ g["normal"] = f["normal"]
        /\ g["low"] = f["low"]
    BY <1>4 DEF Levels
  <2>2. Linked(g) = (x + d) + y + z
    BY <1>2, <1>4, <2>1, Zenon DEF Linked
  <2>3. QED
    BY <1>3, <2>2
<1>5. CASE l = "normal"
  <2>1. /\ g["high"] = f["high"]
        /\ g["normal"] = s
        /\ g["low"] = f["low"]
    BY <1>5 DEF Levels
  <2>2. Linked(g) = x + (y + d) + z
    BY <1>2, <1>5, <2>1, Zenon DEF Linked
  <2>3. QED
    BY <1>3, <2>2
<1>6. CASE l = "low"
  <2>1. /\ g["high"] = f["high"]
        /\ g["normal"] = f["normal"]
        /\ g["low"] = s
    BY <1>6 DEF Levels
  <2>2. Linked(g) = x + y + (z + d)
    BY <1>2, <1>6, <2>1, Zenon DEF Linked
  <2>3. QED
    BY <1>3, <2>2
<1>7. QED
  BY <1>4, <1>5, <1>6 DEF Levels

(* The number of linked tasks is a natural number, at least that of any list. *)
LEMMA LinkedType ==
    ASSUME NEW f \in [Levels -> Seq(Tasks)], NEW l \in Levels
    PROVE  Linked(f) \in Nat /\ Len(f[l]) <= Linked(f)
<1>1. f["high"] \in Seq(Tasks) /\ f["normal"] \in Seq(Tasks) /\ f["low"] \in Seq(Tasks)
  BY DEF Levels
<1>2. PICK x \in Nat, y \in Nat, z \in Nat :
        Len(f["high"]) = x /\ Len(f["normal"]) = y /\ Len(f["low"]) = z
  BY <1>1, LenProperties
<1>3. Linked(f) = x + y + z
  BY <1>2, Zenon DEF Linked
<1>4. Len(f[l]) = x \/ Len(f[l]) = y \/ Len(f[l]) = z
  BY <1>2, Zenon DEF Levels
<1>5. QED
  BY <1>3, <1>4

QType == /\ lists \in [Levels -> Seq(Tasks)]
         /\ task_queue_tail \in Tasks \cup {NULL}
         /\ fault \in {"none", "null_dereference", "use_after_free"}

(* Linking a task adds one to the number of linked tasks, unless it faults. *)
LEMMA LinkEffect ==
    ASSUME QType, NEW t \in Tasks, NEW l \in Levels, Link(t, l), fault = "none"
    PROVE  /\ QType'
           /\ fault' = "none" => Linked(lists') = Linked(lists) + 1
<1>1. CASE LinkFirst(t, l)
  <2>1. <<t>> \in Seq(Tasks) /\ Len(<<t>>) = Len(lists[l]) + 1
    BY <1>1 DEF LinkFirst
  <2>2. Linked([lists EXCEPT ![l] = <<t>>]) = Linked(lists) + 1
    BY <2>1, Relinked, 1 \in Int DEF QType
  <2>3. QED
    BY <1>1, <2>2 DEF LinkFirst, QType
<1>2. CASE LinkAfterTail(t, l)
  <2>1. PICK k \in Levels : lists' = [lists EXCEPT ![k] = Append(lists[k], t)]
    BY <1>2 DEF LinkAfterTail
  <2>2. lists[k] \in Seq(Tasks)
    BY DEF QType
  <2>3. Append(lists[k], t) \in Seq(Tasks) /\ Len(Append(lists[k], t)) = Len(lists[k]) + 1
    BY <2>2
  <2>4. Linked([lists EXCEPT ![k] = Append(lists[k], t)]) = Linked(lists) + 1
    BY <2>3, Relinked, 1 \in Int DEF QType
  <2>5. QED
    BY <1>2, <2>1, <2>3, <2>4 DEF LinkAfterTail, QType
<1>3. CASE LinkAfterNull(t, l)
  BY <1>3 DEF LinkAfterNull, QType
<1>4. QED
  BY <1>1, <1>2, <1>3 DEF Link

(* threadpool_add_urgent_task links the task at the head of the high list and
   leaves every task already queued in place. *)
LEMMA LinkUrgentEffect ==
    ASSUME QType, NEW t \in Tasks, LinkUrgent(t)
    PROVE  /\ QType' /\ fault' = fault
           /\ Linked(lists') = Linked(lists) + 1
<1>1. lists["high"] \in Seq(Tasks) /\ <<t>> \in Seq(Tasks) /\ Len(<<t>>) = 1
  BY DEF QType, Levels
<1>2. /\ <<t>> \o lists["high"] \in Seq(Tasks)
      /\ Len(<<t>> \o lists["high"]) = Len(lists["high"]) + 1
  BY <1>1, ConcatProperties, LenProperties
<1>3. Linked([lists EXCEPT !["high"] = <<t>> \o lists["high"]]) = Linked(lists) + 1
  BY <1>2, Relinked, 1 \in Int, "high" \in Levels DEF QType, Levels
<1>4. QED
  BY <1>2, <1>3 DEF LinkUrgent, QType, Levels

(* get_next_task takes a linked task and the number decreases by one. *)
LEMMA UnlinkEffect ==
    ASSUME QType, UnlinkNext
    PROVE  /\ QType' /\ fault' = fault
           /\ NextLevel \in Levels /\ lists[NextLevel] # <<>>
           /\ NextTask \in Tasks
           /\ Linked(lists') = Linked(lists) - 1
           /\ Linked(lists) \in Nat \ {0}
<1>1. NextLevel \in Levels /\ lists[NextLevel] # <<>>
  BY DEF UnlinkNext, NextLevel, AllEmpty, Levels
<1>2. lists[NextLevel] \in Seq(Tasks)
  BY <1>1 DEF QType
<1>3. /\ NextTask \in Tasks
      /\ Tail(lists[NextLevel]) \in Seq(Tasks)
      /\ Len(Tail(lists[NextLevel])) = Len(lists[NextLevel]) - 1
      /\ Len(lists[NextLevel]) \in Nat \ {0}
  BY <1>1, <1>2, HeadTailProperties, LenProperties, EmptySeq DEF NextTask
<1>4. Linked([lists EXCEPT ![NextLevel] = Tail(lists[NextLevel])]) = Linked(lists) + (-1)
  BY <1>1, <1>3, Relinked, -1 \in Int DEF QType
<1>5. Linked(lists) \in Nat /\ Len(lists[NextLevel]) <= Linked(lists)
  BY <1>1, LinkedType DEF QType
<1>6. Linked(lists) \in Nat \ {0}
  BY <1>3, <1>5
<1>7. Linked(lists') = Linked(lists) - 1
  BY <1>4, <1>5 DEF UnlinkNext
<1>8. QED
  BY <1>1, <1>3, <1>6, <1>7 DEF UnlinkNext, QType
-----------------------------------------------------------------------------
(* Types and accounting *)

(* The arguments of calls have their type. *)
LEMMA ArgTypes ==
    /\ Idle \in CallArgs
    /\ "add" \in Ops => \A t \in Tasks, l \in Levels :
         [Idle EXCEPT !.op = "add", !.task = t, !.level = l] \in CallArgs
    /\ "urgent" \in Ops => \A t \in Tasks :
         [Idle EXCEPT !.op = "urgent", !.task = t] \in CallArgs
    /\ \A op \in Ops : [Idle EXCEPT !.op = op] \in CallArgs
    /\ "resize" \in Ops => \A n \in Threads :
         [Idle EXCEPT !.op = "resize", !.n = n] \in CallArgs
<1>1. /\ NULL \in Tasks \cup {NULL} /\ "normal" \in Levels /\ 0 \in 0..MaxThreads
      /\ "none" \in Ops \cup {"none"} /\ Threads \subseteq 0..MaxThreads
  BY PoolAssumption DEF Levels, Threads
<1>2. Idle \in CallArgs
  BY <1>1 DEF Idle, CallArgs
<1>3. \A op \in Ops : [Idle EXCEPT !.op = op] \in CallArgs
  BY <1>1 DEF Idle, CallArgs
<1>4. "add" \in Ops => \A t \in Tasks, l \in Levels :
         [Idle EXCEPT !.op = "add", !.task = t, !.level = l] \in CallArgs
  BY <1>1 DEF Idle, CallArgs
<1>5. "urgent" \in Ops => \A t \in Tasks :
         [Idle EXCEPT !.op = "urgent", !.task = t] \in CallArgs
  BY <1>1 DEF Idle, CallArgs
<1>6. "resize" \in Ops => \A n \in Threads :
         [Idle EXCEPT !.op = "resize", !.n = n] \in CallArgs
  BY <1>1 DEF Idle, CallArgs
<1>7. QED
  BY <1>2, <1>3, <1>4, <1>5, <1>6

(* Both hold of the pool threadpool_create returns. *)
LEMMA BaseInit == Init => BaseInv
<1> SUFFICES ASSUME Init PROVE BaseInv
  OBVIOUS
<1>1. Linked(lists) = 0
  BY DEF Init, QInit, Linked, Levels
<1>2. QueueLengthExact
  BY <1>1 DEF QueueLengthExact, Linked, Init
<1>3. TypeOK
  <2>1. lists \in [Levels -> Seq(Tasks)]
    BY DEF Init, QInit
  <2>2. carg \in [Clients -> CallArgs]
    BY ArgTypes DEF Init
  <2>3. /\ thread_count \in default_threads..MaxThreads /\ max_threads \in min_threads..MaxThreads
        /\ active_threads \in 0..(CounterRange - 1) /\ wtarget \in [Threads -> 0..MaxThreads]
    BY PoolAssumption DEF Init, Threads
  <2>4. QED
    BY <2>1, <2>2, <2>3 DEF Init, QInit, TypeOK, WorkerPlaces
<1>4. Asked
  BY DEF Init, Asked, Idle, Threads
<1>5. QED
  BY <1>2, <1>3, <1>4 DEF BaseInv

(* A thread counter stays within its range. *)
LEMMA WrapType == \A n \in Int : Wrap(n) \in 0..(CounterRange - 1)
  BY PoolAssumption DEF Wrap

(* Signalling moves workers between two places. *)
LEMMA SignalWorkerType ==
    ASSUME NEW f \in [Threads -> WorkerPlaces], NEW g \in SignalWorker(f)
    PROVE  g \in [Threads -> WorkerPlaces] /\ \A w \in Threads : g[w] = "resize" => f[w] = "resize"
  BY DEF SignalWorker, WorkerPlaces

(* So does a broadcast. *)
LEMMA WakeAllWorkersType ==
    ASSUME NEW f \in [Threads -> WorkerPlaces]
    PROVE  /\ WakeAllWorkers(f) \in [Threads -> WorkerPlaces]
           /\ \A w \in Threads : WakeAllWorkers(f)[w] = "resize" => f[w] = "resize"
  BY DEF WakeAllWorkers, WorkerPlaces

(* No step disturbs the types or makes queue_length differ from the number *)
(* of linked tasks.                                                        *)
LEMMA BaseNext == BaseInv /\ [Next]_vars => BaseInv'
<1> SUFFICES ASSUME BaseInv, [Next]_vars
             PROVE  BaseInv'
  OBVIOUS
<1> USE PoolAssumption
<1>q. QType
  BY DEF BaseInv, TypeOK, QType
<1>a. /\ \A w \in Threads : /\ Wrap(Counted(w)) \in 0..(CounterRange - 1)
                           /\ Wrap(Counted(w) - 1) \in 0..(CounterRange - 1)
      /\ Wrap(active_threads - 1) \in 0..(CounterRange - 1)
  <2>1. active_threads \in Int
    BY DEF BaseInv, TypeOK
  <2>2. \A w \in Threads : Counted(w) \in Int /\ Counted(w) - 1 \in Int
    BY <2>1 DEF Counted
  <2>3. QED
    BY <2>1, <2>2, WrapType
<1>i. Idle.op = "none" /\ Idle \in CallArgs
  BY ArgTypes DEF Idle
<1>f. ASSUME UNCHANGED <<lists, queue_length, fault>>
      PROVE  QueueLengthExact'
  BY <1>f DEF BaseInv, QueueLengthExact
<1>1. ASSUME NEW w \in Threads, WorkerWaits(w)
      PROVE  BaseInv'
  <2>1. QueueLengthExact'
    BY <1>1, <1>f DEF WorkerWaits, AtQueue, ok, vars, qvars, pool, workers, clients
  <2>2. TypeOK'
    BY <1>1, <1>a DEF WorkerWaits, AtQueue, ok, vars, qvars, pool, workers, clients, BaseInv, TypeOK, Asked,
       WorkerPlaces, Threads
  <2>3. Asked'
    BY <1>1, <1>a DEF WorkerWaits, AtQueue, ok, vars, qvars, pool, workers, clients, BaseInv, TypeOK, Asked,
       WorkerPlaces, Threads
  <2>4. QED
    BY <2>1, <2>2, <2>3 DEF BaseInv
<1>2. ASSUME NEW w \in Threads, WorkerLeaves(w)
      PROVE  BaseInv'
  <2>1. QueueLengthExact'
    BY <1>2, <1>f DEF WorkerLeaves, AtQueue, ok, vars, qvars, pool, workers, clients
  <2>2. TypeOK'
    BY <1>2, <1>a DEF WorkerLeaves, AtQueue, ok, vars, qvars, pool, workers, clients, BaseInv, TypeOK, Asked,
       WorkerPlaces, Threads
  <2>3. Asked'
    BY <1>2, <1>a DEF WorkerLeaves, AtQueue, ok, vars, qvars, pool, workers, clients, BaseInv, TypeOK, Asked,
       WorkerPlaces, Threads
  <2>4. QED
    BY <2>1, <2>2, <2>3 DEF BaseInv
<1>3. ASSUME NEW w \in Threads, WorkerTakes(w)
      PROVE  BaseInv'
  <2>1. /\ QType' /\ fault' = fault /\ NextTask \in Tasks
        /\ Linked(lists') = Linked(lists) - 1 /\ Linked(lists) \in Nat \ {0}
    BY <1>3, <1>q, UnlinkEffect DEF WorkerTakes
  <2>2. queue_length = Linked(lists) /\ fault = "none"
    BY <1>3 DEF WorkerTakes, AtQueue, ok, BaseInv, QueueLengthExact, Linked
  <2>3. queue_length' \in Nat /\ queue_length' = Linked(lists')
    BY <1>3, <2>1, <2>2 DEF WorkerTakes
  <2>4. QueueLengthExact'
    BY <2>3 DEF QueueLengthExact, Linked
  <2>5. /\ cpc' \in [Clients -> {"idle", "checked", "sleeping"}]
        /\ dpc' \in {"idle", "sleeping", "draining", "joining", "cleaning", "done"}
    BY <1>3 DEF WorkerTakes, WakeAllDone, BaseInv, TypeOK
  <2>6. active_threads' \in 0..(CounterRange - 1)
    BY <1>3, <1>a DEF WorkerTakes
  <2>7. TypeOK'
    BY <1>3, <2>1, <2>3, <2>5, <2>6 DEF WorkerTakes, QType, BaseInv, TypeOK, Asked, WorkerPlaces, Threads
  <2>8. Asked'
    BY <1>3 DEF WorkerTakes, BaseInv, TypeOK, Asked, WorkerPlaces, Threads
  <2>9. QED
    BY <2>4, <2>7, <2>8 DEF BaseInv
<1>4. ASSUME NEW w \in Threads, WorkerRuns(w)
      PROVE  BaseInv'
  <2>1. QueueLengthExact'
    BY <1>4, <1>f DEF WorkerRuns, ok, vars, qvars, pool, workers, clients
  <2>2. TypeOK'
    BY <1>4 DEF WorkerRuns, ok, vars, qvars, pool, workers, clients, BaseInv, TypeOK, Asked, WorkerPlaces,
       Threads
  <2>3. Asked'
    BY <1>4 DEF WorkerRuns, ok, vars, qvars, pool, workers, clients, BaseInv, TypeOK, Asked, WorkerPlaces,
       Threads
  <2>4. QED
    BY <2>1, <2>2, <2>3 DEF BaseInv
<1>5. ASSUME NEW w \in Threads, WorkerExits(w)
      PROVE  BaseInv'
  <2>1. QueueLengthExact'
    BY <1>5, <1>f DEF WorkerExits, ok, vars, qvars, pool, workers, clients
  <2>2. TypeOK'
    BY <1>5, <1>a DEF WorkerExits, ok, vars, qvars, pool, workers, clients, BaseInv, TypeOK, Asked,
       WorkerPlaces, Threads
  <2>3. Asked'
    BY <1>5, <1>a DEF WorkerExits, ok, vars, qvars, pool, workers, clients, BaseInv, TypeOK, Asked,
       WorkerPlaces, Threads
  <2>4. QED
    BY <2>1, <2>2, <2>3 DEF BaseInv
<1>6. ASSUME NEW w \in Threads, WorkerScales(w)
      PROVE  BaseInv'
  <2>1. QueueLengthExact'
    BY <1>6, <1>f DEF WorkerScales, vars, qvars, pool, workers, clients
  <2>2. PICK n : \/ wpc' = [wpc EXCEPT ![w] = "resize"] /\ wtarget' = [wtarget EXCEPT ![w] = n]
                    /\ n \in min_threads..max_threads
                 \/ wpc' = [wpc EXCEPT ![w] = "lock"] /\ wtarget' = [wtarget EXCEPT ![w] = 0]
    BY <1>6 DEF WorkerScales, MayResize
  <2>3. TypeOK'
    BY <1>6, <2>2 DEF WorkerScales, vars, qvars, pool, workers, clients, BaseInv, TypeOK, Asked,
       WorkerPlaces, Threads
  <2>4. Asked'
    BY <1>6, <2>2 DEF WorkerScales, vars, qvars, pool, workers, clients, BaseInv, TypeOK, Asked,
       WorkerPlaces, Threads
  <2>5. QED
    BY <2>1, <2>3, <2>4 DEF BaseInv
<1>r. ASSUME NEW n \in min_threads..MaxThreads, NEW f \in [Threads -> WorkerPlaces], ResizeTo(n, f)
      PROVE  /\ thread_count' \in default_threads..MaxThreads
             /\ max_threads' \in min_threads..MaxThreads
             /\ wpc' \in [Threads -> WorkerPlaces]
             /\ \A v \in Threads : wpc'[v] = "resize" => f[v] = "resize"
  BY <1>r, WakeAllWorkersType DEF ResizeTo, BaseInv, TypeOK, Asked, WorkerPlaces, Threads
<1>7. ASSUME NEW w \in Threads, WorkerResizes(w)
      PROVE  BaseInv'
  <2>1. QueueLengthExact'
    BY <1>7, <1>f DEF WorkerResizes, vars, qvars, pool, workers, clients
  <2>2. wtarget[w] \in min_threads..MaxThreads /\ [wpc EXCEPT ![w] = "lock"] \in [Threads -> WorkerPlaces]
    BY <1>7 DEF WorkerResizes, BaseInv, TypeOK, Asked, WorkerPlaces, Threads
  <2>3. /\ thread_count' \in default_threads..MaxThreads
        /\ max_threads' \in min_threads..MaxThreads
        /\ wpc' \in [Threads -> WorkerPlaces]
        /\ \A v \in Threads : wpc'[v] = "resize" => [wpc EXCEPT ![w] = "lock"][v] = "resize"
    BY <1>7, <1>r, <2>2 DEF WorkerResizes
  <2>4. TypeOK'
    BY <1>7, <2>3 DEF WorkerResizes, vars, qvars, pool, workers, clients, BaseInv, TypeOK, Asked,
       WorkerPlaces, Threads
  <2>5. Asked'
    BY <1>7, <2>3 DEF WorkerResizes, vars, qvars, pool, workers, clients, BaseInv, TypeOK, Asked,
       WorkerPlaces, Threads
  <2>6. QED
    BY <2>1, <2>4, <2>5 DEF BaseInv
<1>8. ASSUME NEW c \in Clients, NEW t \in Tasks, NEW l \in UsedLevels, CallAdd(c, t, l)
      PROVE  BaseInv'
  <2>1. QueueLengthExact'
    BY <1>8, <1>f DEF CallAdd, Goes, vars, qvars, pool, workers, clients
  <2> DEFINE a == [Idle EXCEPT !.op = "add", !.task = t, !.level = l]
  <2>2. a \in CallArgs
    BY <1>8, ArgTypes DEF CallAdd, Enters
  <2>3. /\ a.op = "resize" => a.n \in min_threads..MaxThreads
        /\ a.op \in {"add", "urgent"} => a.task \in Tasks
    BY <1>8 DEF CallAdd, MayResize, Idle, BaseInv, TypeOK
  <2>4. Goes(c, a) /\ status' \in [Tasks -> {"new", "offered", "queued", "running", "done", "dropped"}]
    BY <1>8 DEF CallAdd, BaseInv, TypeOK
  <2> HIDE DEF a
  <2>5. TypeOK'
    BY <2>2, <2>4 DEF Goes, vars, qvars, pool, workers, clients, BaseInv, TypeOK
  <2>6. Asked'
    BY <2>3, <2>4 DEF Goes, vars, qvars, pool, workers, clients, BaseInv, TypeOK, Asked
  <2>7. QED
    BY <2>1, <2>5, <2>6 DEF BaseInv
<1>9. ASSUME NEW c \in Clients, NEW t \in Tasks, CallUrgent(c, t)
      PROVE  BaseInv'
  <2>1. QueueLengthExact'
    BY <1>9, <1>f DEF CallUrgent, Goes, vars, qvars, pool, workers, clients
  <2> DEFINE a == [Idle EXCEPT !.op = "urgent", !.task = t]
  <2>2. a \in CallArgs
    BY <1>9, ArgTypes DEF CallUrgent, Enters
  <2>3. /\ a.op = "resize" => a.n \in min_threads..MaxThreads
        /\ a.op \in {"add", "urgent"} => a.task \in Tasks
    BY <1>9 DEF CallUrgent, MayResize, Idle, BaseInv, TypeOK
  <2>4. Goes(c, a) /\ status' \in [Tasks -> {"new", "offered", "queued", "running", "done", "dropped"}]
    BY <1>9 DEF CallUrgent, BaseInv, TypeOK
  <2> HIDE DEF a
  <2>5. TypeOK'
    BY <2>2, <2>4 DEF Goes, vars, qvars, pool, workers, clients, BaseInv, TypeOK
  <2>6. Asked'
    BY <2>3, <2>4 DEF Goes, vars, qvars, pool, workers, clients, BaseInv, TypeOK, Asked
  <2>7. QED
    BY <2>1, <2>5, <2>6 DEF BaseInv
<1>10. ASSUME NEW c \in Clients, NEW op \in {"wait", "timedwait"}, CallWait(c, op)
      PROVE  BaseInv'
  <2>1. QueueLengthExact'
    BY <1>10, <1>f DEF CallWait, Goes, vars, qvars, pool, workers, clients
  <2> DEFINE a == [Idle EXCEPT !.op = op]
  <2>2. a \in CallArgs
    BY <1>10, ArgTypes DEF CallWait, Enters
  <2>3. /\ a.op = "resize" => a.n \in min_threads..MaxThreads
        /\ a.op \in {"add", "urgent"} => a.task \in Tasks
    BY <1>10 DEF CallWait, MayResize, Idle, BaseInv, TypeOK
  <2>4. Goes(c, a) /\ status' \in [Tasks -> {"new", "offered", "queued", "running", "done", "dropped"}]
    BY <1>10 DEF CallWait, BaseInv, TypeOK
  <2> HIDE DEF a
  <2>5. TypeOK'
    BY <2>2, <2>4 DEF Goes, vars, qvars, pool, workers, clients, BaseInv, TypeOK
  <2>6. Asked'
    BY <2>3, <2>4 DEF Goes, vars, qvars, pool, workers, clients, BaseInv, TypeOK, Asked
  <2>7. QED
    BY <2>1, <2>5, <2>6 DEF BaseInv
<1>11. ASSUME NEW c \in Clients, NEW n \in Threads, CallResize(c, n)
      PROVE  BaseInv'
  <2>1. QueueLengthExact'
    BY <1>11, <1>f DEF CallResize, Goes, vars, qvars, pool, workers, clients
  <2> DEFINE a == [Idle EXCEPT !.op = "resize", !.n = n]
  <2>2. a \in CallArgs
    BY <1>11, ArgTypes DEF CallResize, Enters
  <2>3. /\ a.op = "resize" => a.n \in min_threads..MaxThreads
        /\ a.op \in {"add", "urgent"} => a.task \in Tasks
    BY <1>11 DEF CallResize, MayResize, Idle, BaseInv, TypeOK
  <2>4. Goes(c, a) /\ status' \in [Tasks -> {"new", "offered", "queued", "running", "done", "dropped"}]
    BY <1>11 DEF CallResize, BaseInv, TypeOK
  <2> HIDE DEF a
  <2>5. TypeOK'
    BY <2>2, <2>4 DEF Goes, vars, qvars, pool, workers, clients, BaseInv, TypeOK
  <2>6. Asked'
    BY <2>3, <2>4 DEF Goes, vars, qvars, pool, workers, clients, BaseInv, TypeOK, Asked
  <2>7. QED
    BY <2>1, <2>5, <2>6 DEF BaseInv
<1>12. ASSUME NEW c \in Clients, Pause(c)
      PROVE  BaseInv'
  <2>1. QueueLengthExact'
    BY <1>12, <1>f DEF Pause, vars, qvars, pool, workers, clients
  <2>2. TypeOK'
    BY <1>12 DEF Pause, vars, qvars, pool, workers, clients, BaseInv, TypeOK, Asked, WorkerPlaces, Threads
  <2>3. Asked'
    BY <1>12 DEF Pause, vars, qvars, pool, workers, clients, BaseInv, TypeOK, Asked, WorkerPlaces, Threads
  <2>4. QED
    BY <2>1, <2>2, <2>3 DEF BaseInv
<1>13. ASSUME NEW c \in Clients, Resume(c)
      PROVE  BaseInv'
  <2>1. QueueLengthExact'
    BY <1>13, <1>f DEF Resume, vars, qvars, pool, workers, clients
  <2>2. wpc' \in [Threads -> WorkerPlaces] /\ \A w \in Threads : wpc'[w] = "resize" => wpc[w] = "resize"
    BY <1>13, SignalWorkerType DEF Resume, BaseInv, TypeOK
  <2>3. TypeOK' /\ Asked'
    BY <1>13, <2>2 DEF Resume, vars, qvars, pool, workers, clients, BaseInv, TypeOK, Asked
  <2>4. QED
    BY <2>1, <2>3 DEF BaseInv
<1>14. ASSUME NEW c \in Clients, AddFails(c)
      PROVE  BaseInv'
  <2>1. QueueLengthExact'
    BY <1>14, <1>f DEF AddFails, Inside, Returns, vars, qvars, pool, workers, clients
  <2>2. TypeOK'
    BY <1>14, <1>i DEF AddFails, Inside, Returns, vars, qvars, pool, workers, clients, BaseInv, TypeOK,
       Asked, WorkerPlaces, Threads
  <2>3. Asked'
    BY <1>14, <1>i DEF AddFails, Inside, Returns, vars, qvars, pool, workers, clients, BaseInv, TypeOK,
       Asked, WorkerPlaces, Threads
  <2>4. QED
    BY <2>1, <2>2, <2>3 DEF BaseInv
<1>15. ASSUME NEW c \in Clients, AddTask(c)
      PROVE  BaseInv'
  <2>0. carg[c].task \in Tasks /\ carg[c].level \in Levels
    BY <1>15 DEF AddTask, Inside, BaseInv, TypeOK, Asked, CallArgs
  <2>w. wpc' \in [Threads -> WorkerPlaces] /\ \A w \in Threads : wpc'[w] = "resize" => wpc[w] = "resize"
    BY <1>15, SignalWorkerType DEF AddTask, BaseInv, TypeOK
  <2>1. /\ QType' /\ fault = "none"
        /\ fault' = "none" => Linked(lists') = Linked(lists) + 1
    BY <1>15, <1>q, <2>0, LinkEffect DEF AddTask, Inside, ok
  <2>2. queue_length = Linked(lists)
    BY <2>1 DEF BaseInv, QueueLengthExact, Linked
  <2>3. QueueLengthExact'
    BY <1>15, <2>1, <2>2 DEF AddTask, Accepted, QueueLengthExact, Linked
  <2>4. TypeOK'
    <3>1. /\ cpc' \in [Clients -> {"idle", "checked", "sleeping"}]
          /\ carg' \in [Clients -> CallArgs]
          /\ status' \in [Tasks -> {"new", "offered", "queued", "running", "done", "dropped"}]
          /\ queue_length' \in Nat
      BY <1>15, <1>i, <2>0 DEF AddTask, Accepted, Returns, BaseInv, TypeOK
    <3>2. QED
      BY <1>15, <2>1, <2>w, <3>1 DEF AddTask, Accepted, QType, BaseInv, TypeOK
  <2>5. Asked'
    BY <1>15, <1>i, <2>w DEF AddTask, Accepted, Returns, BaseInv, TypeOK, Asked
  <2>6. QED
    BY <2>3, <2>4, <2>5 DEF BaseInv
<1>16. ASSUME NEW c \in Clients, AddUrgentTask(c)
      PROVE  BaseInv'
  <2>0. carg[c].task \in Tasks /\ carg[c].level \in Levels
    BY <1>16 DEF AddUrgentTask, Inside, BaseInv, TypeOK, Asked, CallArgs
  <2>w. wpc' \in [Threads -> WorkerPlaces] /\ \A w \in Threads : wpc'[w] = "resize" => wpc[w] = "resize"
    BY <1>16, SignalWorkerType DEF AddUrgentTask, BaseInv, TypeOK
  <2>1. /\ QType' /\ fault = "none"
        /\ fault' = "none" => Linked(lists') = Linked(lists) + 1
    BY <1>16, <1>q, <2>0, LinkUrgentEffect DEF AddUrgentTask, Inside, ok
  <2>2. queue_length = Linked(lists)
    BY <2>1 DEF BaseInv, QueueLengthExact, Linked
  <2>3. QueueLengthExact'
    BY <1>16, <2>1, <2>2 DEF AddUrgentTask, Accepted, QueueLengthExact, Linked
  <2>4. TypeOK'
    <3>1. /\ cpc' \in [Clients -> {"idle", "checked", "sleeping"}]
          /\ carg' \in [Clients -> CallArgs]
          /\ status' \in [Tasks -> {"new", "offered", "queued", "running", "done", "dropped"}]
          /\ queue_length' \in Nat
      BY <1>16, <1>i, <2>0 DEF AddUrgentTask, Accepted, Returns, BaseInv, TypeOK
    <3>2. QED
      BY <1>16, <2>1, <2>w, <3>1 DEF AddUrgentTask, Accepted, QType, BaseInv, TypeOK
  <2>5. Asked'
    BY <1>16, <1>i, <2>w DEF AddUrgentTask, Accepted, Returns, BaseInv, TypeOK, Asked
  <2>6. QED
    BY <2>3, <2>4, <2>5 DEF BaseInv
<1>17. ASSUME NEW c \in Clients, WaitSleeps(c)
      PROVE  BaseInv'
  <2>1. QueueLengthExact'
    BY <1>17, <1>f DEF WaitSleeps, Inside, vars, qvars, pool, workers, clients
  <2>2. TypeOK'
    BY <1>17 DEF WaitSleeps, Inside, vars, qvars, pool, workers, clients, BaseInv, TypeOK, Asked,
       WorkerPlaces, Threads
  <2>3. Asked'
    BY <1>17 DEF WaitSleeps, Inside, vars, qvars, pool, workers, clients, BaseInv, TypeOK, Asked,
       WorkerPlaces, Threads
  <2>4. QED
    BY <2>1, <2>2, <2>3 DEF BaseInv
<1>18. ASSUME NEW c \in Clients, WaitReturns(c)
      PROVE  BaseInv'
  <2>1. QueueLengthExact'
    BY <1>18, <1>f DEF WaitReturns, Inside, Returns, vars, qvars, pool, workers, clients
  <2>2. TypeOK'
    BY <1>18, <1>i DEF WaitReturns, Inside, Returns, vars, qvars, pool, workers, clients, BaseInv, TypeOK,
       Asked, WorkerPlaces, Threads
  <2>3. Asked'
    BY <1>18, <1>i DEF WaitReturns, Inside, Returns, vars, qvars, pool, workers, clients, BaseInv, TypeOK,
       Asked, WorkerPlaces, Threads
  <2>4. QED
    BY <2>1, <2>2, <2>3 DEF BaseInv
<1>19. ASSUME NEW c \in Clients, WaitTimesOut(c)
      PROVE  BaseInv'
  <2>1. QueueLengthExact'
    BY <1>19, <1>f DEF WaitTimesOut, Returns, vars, qvars, pool, workers, clients
  <2>2. TypeOK'
    BY <1>19, <1>i DEF WaitTimesOut, Returns, vars, qvars, pool, workers, clients, BaseInv, TypeOK, Asked,
       WorkerPlaces, Threads
  <2>3. Asked'
    BY <1>19, <1>i DEF WaitTimesOut, Returns, vars, qvars, pool, workers, clients, BaseInv, TypeOK, Asked,
       WorkerPlaces, Threads
  <2>4. QED
    BY <2>1, <2>2, <2>3 DEF BaseInv
<1>20. ASSUME NEW c \in Clients, Resize(c)
      PROVE  BaseInv'
  <2>1. QueueLengthExact'
    BY <1>20, <1>f DEF Resize, vars, qvars, pool, workers, clients
  <2>2. carg[c].n \in min_threads..MaxThreads /\ wpc \in [Threads -> WorkerPlaces]
    BY <1>20 DEF Resize, Inside, BaseInv, TypeOK, Asked, WorkerPlaces, Threads
  <2>3. /\ thread_count' \in default_threads..MaxThreads
        /\ max_threads' \in min_threads..MaxThreads
        /\ wpc' \in [Threads -> WorkerPlaces]
        /\ \A v \in Threads : wpc'[v] = "resize" => wpc[v] = "resize"
    BY <1>20, <1>r, <2>2 DEF Resize
  <2>4. TypeOK'
    BY <1>20, <1>i, <2>3 DEF Resize, Returns, vars, qvars, pool, workers, clients, BaseInv, TypeOK, Asked,
       WorkerPlaces, Threads
  <2>5. Asked'
    BY <1>20, <1>i, <2>3 DEF Resize, Returns, vars, qvars, pool, workers, clients, BaseInv, TypeOK, Asked,
       WorkerPlaces, Threads
  <2>6. QED
    BY <2>1, <2>4, <2>5 DEF BaseInv
<1>21. ASSUME NEW c \in Clients, UseAfterFree(c)
      PROVE  BaseInv'
  <2>1. QueueLengthExact'
    BY <1>21 DEF UseAfterFree, QueueLengthExact
  <2>2. TypeOK' /\ Asked'
    BY <1>21 DEF UseAfterFree, vars, qvars, pool, workers, clients, BaseInv, TypeOK, Asked, WorkerPlaces,
       Threads
  <2>3. QED
    BY <2>1, <2>2 DEF BaseInv
<1>22. ASSUME NEW wait \in DestroyModes, DestroyBegins(wait)
      PROVE  BaseInv'
  <2>1. QueueLengthExact'
    BY <1>22, <1>f DEF DestroyBegins, vars, qvars, pool, workers, clients
  <2>2. TypeOK'
    BY <1>22, WakeAllWorkersType DEF DestroyBegins, vars, qvars, pool, workers, clients, BaseInv, TypeOK,
       Asked, WorkerPlaces, Threads
  <2>3. Asked'
    BY <1>22, WakeAllWorkersType DEF DestroyBegins, vars, qvars, pool, workers, clients, BaseInv, TypeOK,
       Asked, WorkerPlaces, Threads
  <2>4. QED
    BY <2>1, <2>2, <2>3 DEF BaseInv
<1>23. ASSUME DestroyChecks
      PROVE  BaseInv'
  <2>1. QueueLengthExact'
    BY <1>23, <1>f DEF DestroyChecks, vars, qvars, pool, workers, clients
  <2>2. TypeOK'
    BY <1>23 DEF DestroyChecks, vars, qvars, pool, workers, clients, BaseInv, TypeOK, Asked, WorkerPlaces,
       Threads
  <2>3. Asked'
    BY <1>23 DEF DestroyChecks, vars, qvars, pool, workers, clients, BaseInv, TypeOK, Asked, WorkerPlaces,
       Threads
  <2>4. QED
    BY <2>1, <2>2, <2>3 DEF BaseInv
<1>24. ASSUME DestroyJoins
      PROVE  BaseInv'
  <2>1. QueueLengthExact'
    BY <1>24, <1>f DEF DestroyJoins, vars, qvars, pool, workers, clients
  <2>2. TypeOK'
    BY <1>24 DEF DestroyJoins, vars, qvars, pool, workers, clients, BaseInv, TypeOK, Asked, WorkerPlaces,
       Threads
  <2>3. Asked'
    BY <1>24 DEF DestroyJoins, vars, qvars, pool, workers, clients, BaseInv, TypeOK, Asked, WorkerPlaces,
       Threads
  <2>4. QED
    BY <2>1, <2>2, <2>3 DEF BaseInv
<1>25. ASSUME DestroyFrees
      PROVE  BaseInv'
  <2>1. lists' \in [Levels -> Seq(Tasks)]
    BY <1>25 DEF DestroyFrees, UnlinkAll
  <2>2. Linked(lists') = 0
    BY <1>25 DEF DestroyFrees, UnlinkAll, Linked, Levels
  <2>3. QueueLengthExact'
    BY <1>25, <2>2 DEF DestroyFrees, QueueLengthExact, Linked
  <2>4. TypeOK' /\ Asked'
    BY <1>25, <2>1 DEF DestroyFrees, UnlinkAll, vars, qvars, pool, workers, clients, BaseInv, TypeOK, Asked,
       WorkerPlaces, Threads
  <2>5. QED
    BY <2>3, <2>4 DEF BaseInv
<1>26. ASSUME SpuriousWakeup
      PROVE  BaseInv'
  <2>1. QueueLengthExact'
    BY <1>26, <1>f DEF SpuriousWakeup, vars, qvars, pool, workers, clients
  <2>2. TypeOK'
    BY <1>26 DEF SpuriousWakeup, vars, qvars, pool, workers, clients, BaseInv, TypeOK, Asked, WorkerPlaces,
       Threads
  <2>3. Asked'
    BY <1>26 DEF SpuriousWakeup, vars, qvars, pool, workers, clients, BaseInv, TypeOK, Asked, WorkerPlaces,
       Threads
  <2>4. QED
    BY <2>1, <2>2, <2>3 DEF BaseInv
<1>27. CASE UNCHANGED vars
  <2>1. QueueLengthExact'
    BY <1>27, <1>f DEF vars, qvars, pool, workers, clients
  <2>2. TypeOK' /\ Asked'
    BY <1>27 DEF vars, qvars, pool, workers, clients, BaseInv, TypeOK, Asked, WorkerPlaces, Threads
  <2>3. QED
    BY <2>1, <2>2 DEF BaseInv
<1>99. QED
  BY <1>1, <1>2, <1>3, <1>4, <1>5, <1>6, <1>7, <1>8, <1>9, <1>10, <1>11, <1>12, <1>13, <1>14, <1>15, <1>16,
     <1>17, <1>18, <1>19, <1>20, <1>21, <1>22, <1>23, <1>24, <1>25, <1>26, <1>27
     DEF Next, WorkerStep, ClientCall, ClientStep, DestroyStep
-----------------------------------------------------------------------------
(* Destruction *)

(* The pool is well typed and stats.queue_length is the number of linked   *)
(* tasks, whatever clients, workers and the destroyer do.                  *)
THEOREM PoolAccounting == Spec => [](TypeOK /\ QueueLengthExact)
<1>1. BaseInv => TypeOK /\ QueueLengthExact
  BY DEF BaseInv
<1>2. QED
  BY BaseInit, BaseNext, <1>1, PTL DEF Spec

(* How far the destruction of a pool no client is using has come: a thread *)
(* has left only when shutdown was requested and nothing was linked, from  *)
(* when on nothing can be; and the pool is freed only when all have left.  *)
DestroyInv ==
    /\ shutdown_requested <=> dpc # "idle"
    /\ dpc # "idle" => \A c \in Clients : cpc[c] = "idle"
    /\ \A w \in Threads : w > thread_count => wpc[w] = "none"
    /\ \A w \in Threads : wpc[w] \in {"exiting", "exited"} => dpc # "idle" /\ AllEmpty
    /\ dpc \in {"cleaning", "done"} => \A w \in 1..thread_count : wpc[w] = "exited"
    /\ ~alive => dpc = "done"
    /\ NothingDropped

(* It holds when threadpool_create returns. *)
LEMMA DestroyInit == Init => DestroyInv
  BY PoolAssumption DEF Init, DestroyInv, alive, NothingDropped, Threads

(* A signal wakes sleepers and nobody else. *)
LEMMA SignalOnlyWakes ==
    ASSUME NEW f \in [Threads -> WorkerPlaces],
           NEW g, g \in SignalWorker(f) \/ g = WakeAllWorkers(f)
    PROVE  \A w \in Threads : g[w] = f[w] \/ (f[w] = "waiting" /\ g[w] = "woken")
  BY DEF SignalWorker, WakeAllWorkers, WorkerPlaces

(* Every step of a pool whose destroyer has it to itself keeps it. *)
LEMMA DestroyNext == Quiet /\ BaseInv /\ DestroyInv /\ [Next]_vars => DestroyInv'
<1> SUFFICES ASSUME Quiet, BaseInv, DestroyInv, [Next]_vars
             PROVE  DestroyInv'
  OBVIOUS
<1> USE PoolAssumption
<1>t. TypeOK /\ Asked
  BY DEF BaseInv
<1>e. ASSUME UNCHANGED lists PROVE AllEmpty' <=> AllEmpty
  BY <1>e DEF AllEmpty
<1>1. ASSUME NEW w \in Threads, WorkerWaits(w)
      PROVE  DestroyInv'
  BY <1>1, <1>t, <1>e DEF WorkerWaits, AtQueue, ok, vars, qvars, pool, workers, clients, DestroyInv, alive,
     NothingDropped, TypeOK, WorkerPlaces, Threads
<1>2. ASSUME NEW w \in Threads, WorkerLeaves(w)
      PROVE  DestroyInv'
  BY <1>2, <1>t, <1>e DEF WorkerLeaves, AtQueue, ok, vars, qvars, pool, workers, clients, DestroyInv, alive,
     NothingDropped, TypeOK, WorkerPlaces, Threads
<1>3. ASSUME NEW w \in Threads, WorkerTakes(w)
      PROVE  DestroyInv'
  <2>1. /\ ~AllEmpty /\ \A v \in Threads : wpc'[v] \in {"exiting", "exited"} => wpc[v] \in {"exiting", "exited"}
        /\ \A v \in Threads : wpc'[v] = wpc[v] \/ (v = w /\ wpc'[v] = "run")
    BY <1>3, <1>t DEF WorkerTakes, UnlinkNext, TypeOK, WorkerPlaces, Threads
  <2>2. \A v \in Threads : wpc[v] \notin {"exiting", "exited"}
    BY <2>1 DEF DestroyInv
  <2>3. /\ dpc \notin {"cleaning", "done"} /\ w \in 1..thread_count
    BY <1>3, <1>t, <2>2 DEF WorkerTakes, AtQueue, DestroyInv, alive, NothingDropped, TypeOK, WorkerPlaces,
       Threads
  <2>4. NothingDropped'
    BY <1>3, <1>t DEF WorkerTakes, DestroyInv, alive, NothingDropped, TypeOK
  <2>5. \/ UNCHANGED <<cpc, dpc>>
        \/ WakeAllDone
    BY <1>3 DEF WorkerTakes
  <2>6. /\ dpc' # "idle" <=> dpc # "idle"
        /\ dpc' \notin {"cleaning", "done"}
        /\ dpc # "idle" => \A c \in Clients : cpc'[c] = "idle"
    BY <2>3, <2>5, <1>t DEF WakeAllDone, DestroyInv, TypeOK
  <2>7. QED
    BY <1>3, <1>t, <2>1, <2>2, <2>3, <2>4, <2>6 DEF WorkerTakes, AtQueue, ok, DestroyInv, alive,
       NothingDropped, Threads
<1>4. ASSUME NEW w \in Threads, WorkerRuns(w)
      PROVE  DestroyInv'
  BY <1>4, <1>t, <1>e DEF WorkerRuns, ok, vars, qvars, pool, workers, clients, DestroyInv, alive,
     NothingDropped, TypeOK, WorkerPlaces, Threads
<1>5. ASSUME NEW w \in Threads, WorkerExits(w)
      PROVE  DestroyInv'
  BY <1>5, <1>t, <1>e DEF WorkerExits, ok, vars, qvars, pool, workers, clients, DestroyInv, alive,
     NothingDropped, TypeOK, WorkerPlaces, Threads
<1>6. ASSUME NEW w \in Threads, WorkerScales(w)
      PROVE  DestroyInv'
  <2>1. \E p \in {"resize", "lock"} : wpc' = [wpc EXCEPT ![w] = p]
    BY <1>6 DEF WorkerScales
  <2>2. QED
    BY <1>6, <1>t, <1>e, <2>1 DEF WorkerScales, ok, vars, qvars, pool, workers, clients, DestroyInv, alive,
       NothingDropped, TypeOK, WorkerPlaces, Threads
<1>r. ASSUME NEW n \in min_threads..MaxThreads, NEW f \in [Threads -> WorkerPlaces], ResizeTo(n, f),
             \A v \in Threads : v > thread_count => f[v] = "none"
      PROVE  /\ thread_count' \in Nat /\ thread_count' >= thread_count
             /\ \A v \in Threads : v > thread_count' => wpc'[v] = "none"
             /\ \A v \in Threads : wpc'[v] \in {"exiting", "exited"} => f[v] \in {"exiting", "exited"}
  <2>1. CASE n >= thread_count
    BY <1>r, <1>t, <2>1 DEF ResizeTo, TypeOK, WorkerPlaces, Threads
  <2>2. CASE n < thread_count
    <3>1. wpc' = WakeAllWorkers(f) /\ thread_count' = thread_count
      BY <1>r, <1>t, <2>2 DEF ResizeTo, TypeOK
    <3>2. \A v \in Threads : wpc'[v] = f[v] \/ (f[v] = "waiting" /\ wpc'[v] = "woken")
      BY <1>r, <3>1, SignalOnlyWakes
    <3>3. QED
      BY <1>r, <1>t, <3>1, <3>2 DEF TypeOK, WorkerPlaces, Threads
  <2>3. QED
    BY <1>t, <2>1, <2>2 DEF TypeOK
<1>7. ASSUME NEW w \in Threads, WorkerResizes(w)
      PROVE  DestroyInv'
  <2>1. /\ wtarget[w] \in min_threads..MaxThreads
        /\ [wpc EXCEPT ![w] = "lock"] \in [Threads -> WorkerPlaces]
        /\ w \in 1..thread_count
        /\ \A v \in Threads : v > thread_count => [wpc EXCEPT ![w] = "lock"][v] = "none"
    BY <1>7, <1>t DEF WorkerResizes, Asked, DestroyInv, TypeOK, WorkerPlaces, Threads
  <2>2. /\ thread_count' \in Nat /\ thread_count' >= thread_count
        /\ \A v \in Threads : v > thread_count' => wpc'[v] = "none"
        /\ \A v \in Threads : wpc'[v] \in {"exiting", "exited"} =>
             [wpc EXCEPT ![w] = "lock"][v] \in {"exiting", "exited"}
    BY <1>7, <2>1, <1>r DEF WorkerResizes
  <2>3. dpc \notin {"cleaning", "done"}
    BY <1>7, <2>1 DEF WorkerResizes, DestroyInv
  <2>4. QED
    BY <1>7, <1>t, <1>e, <2>2, <2>3 DEF WorkerResizes, ok, vars, qvars, pool, workers, clients, DestroyInv,
       alive, NothingDropped, TypeOK, WorkerPlaces, Threads
<1>8. ASSUME NEW c \in Clients, NEW t \in Tasks, NEW l \in UsedLevels, CallAdd(c, t, l)
      PROVE  DestroyInv'
  BY <1>8, <1>t, <1>e DEF CallAdd, Enters, Goes, ok, vars, qvars, pool, workers, clients, DestroyInv, alive,
     NothingDropped, TypeOK, WorkerPlaces, Threads
<1>9. ASSUME NEW c \in Clients, NEW t \in Tasks, CallUrgent(c, t)
      PROVE  DestroyInv'
  BY <1>9, <1>t, <1>e DEF CallUrgent, Enters, Goes, ok, vars, qvars, pool, workers, clients, DestroyInv,
     alive, NothingDropped, TypeOK, WorkerPlaces, Threads
<1>10. ASSUME NEW c \in Clients, NEW op \in {"wait", "timedwait"}, CallWait(c, op)
      PROVE  DestroyInv'
  BY <1>10, <1>t, <1>e DEF CallWait, Enters, Goes, ok, vars, qvars, pool, workers, clients, DestroyInv,
     alive, NothingDropped, TypeOK, WorkerPlaces, Threads
<1>11. ASSUME NEW c \in Clients, NEW n \in Threads, CallResize(c, n)
      PROVE  DestroyInv'
  BY <1>11, <1>t, <1>e DEF CallResize, Enters, Goes, ok, vars, qvars, pool, workers, clients, DestroyInv,
     alive, NothingDropped, TypeOK, WorkerPlaces, Threads
<1>12. ASSUME NEW c \in Clients, Pause(c)
      PROVE  DestroyInv'
  BY <1>12, <1>t, <1>e DEF Pause, Enters, ok, vars, qvars, pool, workers, clients, DestroyInv, alive,
     NothingDropped, TypeOK, WorkerPlaces, Threads
<1>13. ASSUME NEW c \in Clients, Resume(c)
      PROVE  DestroyInv'
  <2>1. \A w \in Threads : wpc'[w] = wpc[w] \/ (wpc[w] = "waiting" /\ wpc'[w] = "woken")
    <3>1. wpc \in [Threads -> WorkerPlaces] /\ (wpc' \in SignalWorker(wpc) \/ wpc' = WakeAllWorkers(wpc))
      BY <1>13, <1>t DEF Resume, TypeOK
    <3>2. QED
      BY <3>1, SignalOnlyWakes
  <2>2. QED
    BY <1>13, <1>t, <1>e, <2>1 DEF Resume, Enters, ok, vars, qvars, pool, workers, clients, DestroyInv,
       alive, NothingDropped, TypeOK, WorkerPlaces, Threads
<1>14. ASSUME NEW c \in Clients, AddFails(c)
      PROVE  DestroyInv'
  BY <1>14, <1>t, <1>e DEF AddFails, Inside, Returns, ok, vars, qvars, pool, workers, clients, DestroyInv,
     alive, NothingDropped, TypeOK, WorkerPlaces, Threads
<1>15. ASSUME NEW c \in Clients, AddTask(c)
      PROVE  DestroyInv'
  <2>1. dpc = "idle"
    BY <1>15 DEF AddTask, Inside, DestroyInv
  <2>2. \A w \in Threads : wpc[w] \notin {"exiting", "exited"}
    BY <2>1 DEF DestroyInv
  <2>3. \A w \in Threads : wpc'[w] = wpc[w] \/ (wpc[w] = "waiting" /\ wpc'[w] = "woken")
    <3>1. wpc \in [Threads -> WorkerPlaces] /\ (wpc' \in SignalWorker(wpc) \/ wpc' = WakeAllWorkers(wpc))
      BY <1>15, <1>t DEF AddTask, TypeOK
    <3>2. QED
      BY <3>1, SignalOnlyWakes
  <2>4. NothingDropped'
    BY <1>15, <1>t DEF AddTask, Accepted, NothingDropped, DestroyInv, TypeOK
  <2>5. QED
    BY <1>15, <1>t, <2>1, <2>2, <2>3, <2>4 DEF AddTask, Accepted, Inside, ok, DestroyInv, alive,
       NothingDropped, TypeOK, WorkerPlaces, Threads
<1>16. ASSUME NEW c \in Clients, AddUrgentTask(c)
      PROVE  DestroyInv'
  <2>1. dpc = "idle"
    BY <1>16 DEF AddUrgentTask, Inside, DestroyInv
  <2>2. \A w \in Threads : wpc[w] \notin {"exiting", "exited"}
    BY <2>1 DEF DestroyInv
  <2>3. \A w \in Threads : wpc'[w] = wpc[w] \/ (wpc[w] = "waiting" /\ wpc'[w] = "woken")
    <3>1. wpc \in [Threads -> WorkerPlaces] /\ (wpc' \in SignalWorker(wpc) \/ wpc' = WakeAllWorkers(wpc))
      BY <1>16, <1>t DEF AddUrgentTask, TypeOK
    <3>2. QED
      BY <3>1, SignalOnlyWakes
  <2>4. NothingDropped'
    BY <1>16, <1>t DEF AddUrgentTask, Accepted, NothingDropped, DestroyInv, TypeOK
  <2>5. QED
    BY <1>16, <1>t, <2>1, <2>2, <2>3, <2>4 DEF AddUrgentTask, Accepted, Inside, ok, DestroyInv, alive,
       NothingDropped, TypeOK, WorkerPlaces, Threads
<1>17. ASSUME NEW c \in Clients, WaitSleeps(c)
      PROVE  DestroyInv'
  BY <1>17, <1>t, <1>e DEF WaitSleeps, Inside, ok, vars, qvars, pool, workers, clients, DestroyInv, alive,
     NothingDropped, TypeOK, WorkerPlaces, Threads
<1>18. ASSUME NEW c \in Clients, WaitReturns(c)
      PROVE  DestroyInv'
  BY <1>18, <1>t, <1>e DEF WaitReturns, Inside, Returns, ok, vars, qvars, pool, workers, clients, DestroyInv,
     alive, NothingDropped, TypeOK, WorkerPlaces, Threads
<1>19. ASSUME NEW c \in Clients, WaitTimesOut(c)
      PROVE  DestroyInv'
  BY <1>19, <1>t, <1>e DEF WaitTimesOut, Returns, ok, vars, qvars, pool, workers, clients, DestroyInv, alive,
     NothingDropped, TypeOK, WorkerPlaces, Threads
<1>20. ASSUME NEW c \in Clients, Resize(c)
      PROVE  DestroyInv'
  <2>1. dpc = "idle" /\ carg[c].n \in min_threads..MaxThreads /\ wpc \in [Threads -> WorkerPlaces]
    BY <1>20, <1>t DEF Resize, Inside, DestroyInv, Asked, TypeOK
  <2>2. /\ thread_count' \in Nat /\ thread_count' >= thread_count
        /\ \A v \in Threads : v > thread_count' => wpc'[v] = "none"
        /\ \A v \in Threads : wpc'[v] \in {"exiting", "exited"} => wpc[v] \in {"exiting", "exited"}
    BY <1>20, <2>1, <1>r DEF Resize, DestroyInv
  <2>3. QED
    BY <1>20, <1>t, <1>e, <2>1, <2>2 DEF Resize, Inside, ok, vars, qvars, pool, workers, clients, DestroyInv,
       alive, NothingDropped, TypeOK, WorkerPlaces, Threads
<1>21. ASSUME NEW c \in Clients, UseAfterFree(c)
      PROVE  DestroyInv'
  BY <1>21, <1>t, <1>e DEF UseAfterFree, vars, qvars, pool, workers, clients, DestroyInv, alive,
     NothingDropped, TypeOK, WorkerPlaces, Threads
<1>22. ASSUME NEW wait \in DestroyModes, DestroyBegins(wait)
      PROVE  DestroyInv'
  <2>1. \A w \in Threads : wpc'[w] = wpc[w] \/ (wpc[w] = "waiting" /\ wpc'[w] = "woken")
    <3>1. wpc \in [Threads -> WorkerPlaces] /\ (wpc' \in SignalWorker(wpc) \/ wpc' = WakeAllWorkers(wpc))
      BY <1>22, <1>t DEF DestroyBegins, TypeOK
    <3>2. QED
      BY <3>1, SignalOnlyWakes
  <2>2. QED
    BY <1>22, <1>t, <1>e, <2>1 DEF DestroyBegins, ok, vars, qvars, pool, workers, clients, DestroyInv, alive,
       NothingDropped, TypeOK, WorkerPlaces, Threads
<1>23. ASSUME DestroyChecks
      PROVE  DestroyInv'
  BY <1>23, <1>t, <1>e DEF DestroyChecks, ok, vars, qvars, pool, workers, clients, DestroyInv, alive,
     NothingDropped, TypeOK, WorkerPlaces, Threads
<1>24. ASSUME DestroyJoins
      PROVE  DestroyInv'
  BY <1>24, <1>t, <1>e DEF DestroyJoins, ok, vars, qvars, pool, workers, clients, DestroyInv, alive,
     NothingDropped, TypeOK, WorkerPlaces, Threads
<1>25. ASSUME DestroyFrees
      PROVE  DestroyInv'
  <2>1. wpc[1] = "exited" /\ 1 \in Threads
    BY <1>25, <1>t DEF DestroyFrees, DestroyInv, TypeOK, WorkerPlaces, Threads
  <2>2. Queued = {}
    BY <2>1 DEF DestroyInv, AllEmpty, Queued
  <2>3. status' = status
    BY <1>25, <1>t, <2>2 DEF DestroyFrees, TypeOK
  <2>4. AllEmpty'
    BY <1>25 DEF DestroyFrees, UnlinkAll, AllEmpty
  <2>5. QED
    BY <1>25, <1>t, <2>3, <2>4 DEF DestroyFrees, vars, qvars, pool, workers, clients, DestroyInv, alive,
       NothingDropped, TypeOK, WorkerPlaces, Threads
<1>26. ASSUME SpuriousWakeup
      PROVE  DestroyInv'
  BY <1>26, <1>t, <1>e DEF SpuriousWakeup, ok, vars, qvars, pool, workers, clients, DestroyInv, alive,
     NothingDropped, TypeOK, WorkerPlaces, Threads
<1>27. CASE UNCHANGED vars
  BY <1>27, <1>e DEF vars, qvars, pool, workers, clients, DestroyInv, alive, NothingDropped
<1>99. QED
  BY <1>1, <1>2, <1>3, <1>4, <1>5, <1>6, <1>7, <1>8, <1>9, <1>10, <1>11, <1>12, <1>13, <1>14, <1>15, <1>16,
     <1>17, <1>18, <1>19, <1>20, <1>21, <1>22, <1>23, <1>24, <1>25, <1>26, <1>27
     DEF Next, WorkerStep, ClientCall, ClientStep, DestroyStep

(* threadpool_destroy, called when no other call is in progress, runs every *)
(* task accepted before, and frees the pool when every worker has left, the *)
(* ones dynamic scaling added meanwhile included.                           *)
THEOREM GracefulDestroy == Quiet /\ Spec => [](NothingDropped /\ NoWorkerOutlivesPool)
<1>1. BaseInv /\ DestroyInv => NothingDropped /\ NoWorkerOutlivesPool
  BY PoolAssumption DEF BaseInv, DestroyInv, NoWorkerOutlivesPool, AtRest, TypeOK, Threads
<1>2. CASE Quiet
  BY <1>1, <1>2, BaseInit, BaseNext, DestroyInit, DestroyNext, PTL DEF Spec
<1>3. CASE ~Quiet
  BY <1>3
<1>4. QED
  BY <1>2, <1>3
-----------------------------------------------------------------------------
(* Ownership *)

(* No task is linked twice. *)
Once == \A l, m \in Levels : \A i \in 1..Len(lists[l]), j \in 1..Len(lists[m]) :
          lists[l][i] = lists[m][j] => l = m /\ i = j

IsLinked(t) == \E l \in Levels : \E i \in 1..Len(lists[l]) : lists[l][i] = t

(* The last task of a level that has one is the tail. *)
TailIsLast(l) == lists[l] # <<>> => task_queue_tail = lists[l][Len(lists[l])]

(* Appending a task at the end of list k. *)
LEMMA Appended ==
    ASSUME QType, NEW t \in Tasks, NEW k \in Levels, Once, ~IsLinked(t),
           lists' = [lists EXCEPT ![k] = Append(lists[k], t)]
    PROVE  /\ Once'
           /\ \A x \in Tasks : IsLinked(x)' <=> IsLinked(x) \/ x = t
           /\ lists'[k] # <<>> /\ lists'[k][Len(lists'[k])] = t
           /\ \A m \in Levels : m # k => lists'[m] = lists[m]
<1>1. \A m \in Levels : lists[m] \in Seq(Tasks) /\ Len(lists[m]) \in Nat
  BY LenProperties DEF QType
<1>2. /\ Len(lists'[k]) = Len(lists[k]) + 1
      /\ \A i \in 1..Len(lists[k]) : lists'[k][i] = lists[k][i]
      /\ lists'[k][Len(lists[k]) + 1] = t
  BY <1>1, AppendProperties DEF QType
<1>3. \A m \in Levels : m # k => lists'[m] = lists[m]
  BY DEF QType
<1>4. \A m \in Levels : \A i \in 1..Len(lists'[m]) :
         \/ i \in 1..Len(lists[m]) /\ lists'[m][i] = lists[m][i]
         \/ m = k /\ i = Len(lists[k]) + 1 /\ lists'[m][i] = t
  BY <1>1, <1>2, <1>3
<1>5. Once'
  BY <1>1, <1>4 DEF Once, IsLinked
<1>6. \A m \in Levels : \A i \in 1..Len(lists[m]) : i \in 1..Len(lists'[m]) /\ lists'[m][i] = lists[m][i]
  BY <1>1, <1>2, <1>3
<1>7. Len(lists[k]) + 1 \in 1..Len(lists'[k])
  BY <1>1, <1>2
<1>8. \A x \in Tasks : IsLinked(x)' <=> IsLinked(x) \/ x = t
  BY <1>2, <1>4, <1>6, <1>7 DEF IsLinked
<1>9. lists'[k] # <<>>
  BY <1>7
<1>10. QED
  BY <1>2, <1>3, <1>5, <1>8, <1>9

(* Putting a task in front of list k. *)
LEMMA Prepended ==
    ASSUME QType, NEW t \in Tasks, NEW k \in Levels, Once, ~IsLinked(t),
           lists' = [lists EXCEPT ![k] = <<t>> \o lists[k]]
    PROVE  /\ Once'
           /\ \A x \in Tasks : IsLinked(x)' <=> IsLinked(x) \/ x = t
           /\ lists[k] # <<>> => lists'[k][Len(lists'[k])] = lists[k][Len(lists[k])]
           /\ lists[k] = <<>> => lists'[k][Len(lists'[k])] = t
           /\ \A m \in Levels : m # k => lists'[m] = lists[m]
<1>1. \A m \in Levels : lists[m] \in Seq(Tasks) /\ Len(lists[m]) \in Nat
  BY LenProperties DEF QType
<1>2. <<t>> \in Seq(Tasks) /\ Len(<<t>>) = 1 /\ <<t>>[1] = t
  OBVIOUS
<1>3. /\ Len(lists'[k]) = Len(lists[k]) + 1
      /\ \A i \in 1..(Len(lists[k]) + 1) :
           lists'[k][i] = IF i <= 1 THEN <<t>>[i] ELSE lists[k][i - 1]
  BY <1>1, <1>2, ConcatProperties DEF QType
<1>4. \A m \in Levels : m # k => lists'[m] = lists[m]
  BY DEF QType
<1>5. \A m \in Levels : \A i \in 1..Len(lists'[m]) :
         \/ m # k /\ i \in 1..Len(lists[m]) /\ lists'[m][i] = lists[m][i]
         \/ m = k /\ i - 1 \in 1..Len(lists[m]) /\ lists'[m][i] = lists[m][i - 1]
         \/ m = k /\ i = 1 /\ lists'[m][i] = t
  BY <1>1, <1>2, <1>3, <1>4
<1>6. Once'
  <2> SUFFICES ASSUME NEW l \in Levels, NEW m \in Levels, NEW i \in 1..Len(lists'[l]),
                      NEW j \in 1..Len(lists'[m]), lists'[l][i] = lists'[m][j]
               PROVE  l = m /\ i = j
    BY DEF Once
  <2>1. i \in Int /\ j \in Int
    OBVIOUS
  <2>2. \A n \in Levels : \A h \in 1..Len(lists[n]) : lists[n][h] # t
    BY DEF IsLinked
  <2>3. CASE i = 1 /\ l = k
    BY <1>5, <1>1, <2>1, <2>2, <2>3
  <2>4. CASE j = 1 /\ m = k
    BY <1>5, <1>1, <2>1, <2>2, <2>4
  <2>5. CASE ~(i = 1 /\ l = k) /\ ~(j = 1 /\ m = k)
    BY <1>5, <2>1, <2>5 DEF Once
  <2>6. QED
    BY <2>3, <2>4, <2>5
<1>7. \A m \in Levels : \A i \in 1..Len(lists[m]) :
         \/ m # k /\ i \in 1..Len(lists'[m]) /\ lists'[m][i] = lists[m][i]
         \/ m = k /\ i + 1 \in 1..Len(lists'[m]) /\ lists'[m][i + 1] = lists[m][i]
  BY <1>1, <1>3, <1>4
<1>8. 1 \in 1..Len(lists'[k]) /\ lists'[k][1] = t
  BY <1>1, <1>2, <1>3
<1>9. \A x \in Tasks : IsLinked(x)' <=> IsLinked(x) \/ x = t
  BY <1>5, <1>7, <1>8 DEF IsLinked
<1>10. lists[k] # <<>> => lists'[k][Len(lists'[k])] = lists[k][Len(lists[k])]
  <2> SUFFICES ASSUME lists[k] # <<>> PROVE lists'[k][Len(lists'[k])] = lists[k][Len(lists[k])]
    OBVIOUS
  <2>1. Len(lists[k]) \in 1..Len(lists[k])
    BY <1>1, EmptySeq
  <2>2. QED
    BY <1>1, <1>3, <1>7, <2>1
<1>11. lists[k] = <<>> => lists'[k][Len(lists'[k])] = t
  BY <1>3, <1>8
<1>12. QED
  BY <1>4, <1>6, <1>9, <1>10, <1>11

(* Taking the first task of list k. *)
LEMMA Taken ==
    ASSUME QType, NEW k \in Levels, Once, lists[k] # <<>>,
           lists' = [lists EXCEPT ![k] = Tail(lists[k])]
    PROVE  /\ Once'
           /\ \A x \in Tasks : IsLinked(x)' <=> IsLinked(x) /\ x # Head(lists[k])
           /\ lists'[k] # <<>> => /\ lists'[k][Len(lists'[k])] = lists[k][Len(lists[k])]
                                  /\ lists[k][Len(lists[k])] # Head(lists[k])
           /\ \A m \in Levels : m # k /\ lists[m] # <<>> =>
                /\ lists'[m] = lists[m]
                /\ lists[m][Len(lists[m])] # Head(lists[k])
           /\ \A m \in Levels : m # k => lists'[m] = lists[m]
           /\ IsLinked(Head(lists[k]))
<1>1. \A m \in Levels : lists[m] \in Seq(Tasks) /\ Len(lists[m]) \in Nat
  BY LenProperties DEF QType
<1>2. Len(lists[k]) \in Nat \ {0} /\ Head(lists[k]) = lists[k][1]
  BY <1>1, EmptySeq
<1>3. /\ Len(lists'[k]) = Len(lists[k]) - 1
      /\ \A i \in 1..(Len(lists[k]) - 1) : lists'[k][i] = lists[k][i + 1]
  BY <1>1, HeadTailProperties DEF QType
<1>4. \A m \in Levels : m # k => lists'[m] = lists[m]
  BY DEF QType
<1>5. \A m \in Levels : \A i \in 1..Len(lists'[m]) :
         \/ m # k /\ i \in 1..Len(lists[m]) /\ lists'[m][i] = lists[m][i]
         \/ m = k /\ i + 1 \in 1..Len(lists[m]) /\ lists'[m][i] = lists[m][i + 1]
  BY <1>1, <1>3, <1>4
<1>6. Once'
  <2> SUFFICES ASSUME NEW l \in Levels, NEW m \in Levels, NEW i \in 1..Len(lists'[l]),
                      NEW j \in 1..Len(lists'[m]), lists'[l][i] = lists'[m][j]
               PROVE  l = m /\ i = j
    BY DEF Once
  <2>1. i \in Int /\ j \in Int
    OBVIOUS
  <2>2. QED
    BY <1>1, <1>5, <2>1 DEF Once
<1>7. \A m \in Levels : \A i \in 1..Len(lists[m]) :
         \/ m # k /\ i \in 1..Len(lists'[m]) /\ lists'[m][i] = lists[m][i]
         \/ m = k /\ i = 1
         \/ m = k /\ i - 1 \in 1..Len(lists'[m]) /\ lists'[m][i - 1] = lists[m][i]
  BY <1>1, <1>3, <1>4
<1>8. 1 \in 1..Len(lists[k])
  BY <1>2
<1>9. \A m \in Levels : \A i \in 1..Len(lists[m]) : lists[m][i] = Head(lists[k]) => m = k /\ i = 1
  BY <1>2, <1>8 DEF Once
<1>10. \A x \in Tasks : IsLinked(x)' <=> IsLinked(x) /\ x # Head(lists[k])
  <2>1. \A x \in Tasks : IsLinked(x)' => IsLinked(x) /\ x # Head(lists[k])
    <3> SUFFICES ASSUME NEW x \in Tasks, NEW m \in Levels, NEW i \in 1..Len(lists'[m]), lists'[m][i] = x
                 PROVE  IsLinked(x) /\ x # Head(lists[k])
      BY DEF IsLinked
    <3>1. i \in Nat \ {0}
      OBVIOUS
    <3>2. QED
      BY <1>1, <1>5, <1>9, <3>1 DEF IsLinked
  <2>2. \A x \in Tasks : IsLinked(x) /\ x # Head(lists[k]) => IsLinked(x)'
    <3> SUFFICES ASSUME NEW x \in Tasks, NEW m \in Levels, NEW i \in 1..Len(lists[m]), lists[m][i] = x,
                        x # Head(lists[k])
                 PROVE  IsLinked(x)'
      BY DEF IsLinked
    <3>1. \/ i \in 1..Len(lists'[m]) /\ lists'[m][i] = x
          \/ i - 1 \in 1..Len(lists'[m]) /\ lists'[m][i - 1] = x
      BY <1>2, <1>7
    <3>2. QED
      BY <3>1 DEF IsLinked
  <2>3. QED
    BY <2>1, <2>2
<1>11. lists'[k] # <<>> => /\ lists'[k][Len(lists'[k])] = lists[k][Len(lists[k])]
                           /\ lists[k][Len(lists[k])] # Head(lists[k])
  <2> SUFFICES ASSUME lists'[k] # <<>>
               PROVE  /\ lists'[k][Len(lists'[k])] = lists[k][Len(lists[k])]
                      /\ lists[k][Len(lists[k])] # Head(lists[k])
    OBVIOUS
  <2>1. lists'[k] \in Seq(Tasks)
    BY <1>1, HeadTailProperties DEF QType
  <2>2. Len(lists'[k]) \in Nat \ {0}
    BY <2>1, EmptySeq, LenProperties
  <2>3. Len(lists'[k]) \in 1..(Len(lists[k]) - 1) /\ Len(lists[k]) \in 1..Len(lists[k]) /\ Len(lists[k]) # 1
    BY <1>2, <1>3, <2>2
  <2>4. lists'[k][Len(lists'[k])] = lists[k][Len(lists[k])]
    BY <1>2, <1>3, <2>3
  <2>5. QED
    BY <1>9, <2>3, <2>4
<1>12. \A m \in Levels : m # k /\ lists[m] # <<>> => lists[m][Len(lists[m])] # Head(lists[k])
  <2> SUFFICES ASSUME NEW m \in Levels, m # k, lists[m] # <<>>
               PROVE  lists[m][Len(lists[m])] # Head(lists[k])
    OBVIOUS
  <2>1. Len(lists[m]) \in 1..Len(lists[m])
    BY <1>1, EmptySeq
  <2>2. QED
    BY <1>9, <2>1
<1>13. QED
  BY <1>2, <1>4, <1>6, <1>8, <1>10, <1>11, <1>12 DEF IsLinked

(* Who holds which task: linked tasks are the queued ones, a submission in       *)
(* progress and a worker hold a task of their own.                         *)
Submits(c) == carg[c].op \in {"add", "urgent"}

OwnerInv ==
    /\ Once
    /\ \A t \in Tasks : IsLinked(t) => status[t] = "queued"
    /\ fault # "null_dereference" => \A t \in Tasks : status[t] = "queued" => IsLinked(t)
    /\ \A c \in Clients : Submits(c) => status[carg[c].task] = "offered"
    /\ \A c, d \in Clients : Submits(c) /\ Submits(d) /\ carg[c].task = carg[d].task => c = d
    /\ \A w \in Threads : wpc[w] = "run" <=> wtask[w] # NULL
    /\ \A w \in Threads : wtask[w] # NULL => status[wtask[w]] = "running"
    /\ \A t \in Tasks : status[t] = "running" => \E w \in Threads : wtask[w] = t
    /\ \A v, w \in Threads : wtask[v] = wtask[w] /\ wtask[v] # NULL => v = w
    /\ \A w \in Threads : w > thread_count => wpc[w] = "none"

(* In a new pool nobody holds anything. *)
LEMMA OwnerInit == Init => OwnerInv
<1> SUFFICES ASSUME Init PROVE OwnerInv
  OBVIOUS
<1>1. \A l \in Levels : lists[l] = <<>> /\ Len(lists[l]) = 0
  BY DEF Init, QInit
<1>2. Once /\ \A t \in Tasks : ~IsLinked(t)
  BY <1>1 DEF Once, IsLinked
<1>3. QED
  BY <1>2, PoolAssumption DEF Init, OwnerInv, Submits, Idle, Threads

(* Steps that move no task. *)
LEMMA OwnerFrame ==
    ASSUME OwnerInv, UNCHANGED <<lists, status, wtask>>,
           \A c \in Clients : carg'[c] = carg[c] \/ carg'[c].op \notin {"add", "urgent"},
           fault = "null_dereference" => fault' = "null_dereference",
           \A w \in Threads : wpc'[w] = "run" <=> wpc[w] = "run",
           \A w \in Threads : w > thread_count' => wpc'[w] = "none"
    PROVE  OwnerInv'
<1>1. Once' /\ \A t \in Tasks : IsLinked(t)' <=> IsLinked(t)
  BY DEF OwnerInv, Once, IsLinked
<1>2. \A c \in Clients : Submits(c)' => Submits(c) /\ carg'[c] = carg[c]
  BY DEF Submits
<1>3. QED
  BY <1>1, <1>2 DEF OwnerInv

(* No step gives a task a second owner or loses it. *)
LEMMA OwnerNext == BaseInv /\ OwnerInv /\ [Next]_vars => OwnerInv'
<1> SUFFICES ASSUME BaseInv, OwnerInv, [Next]_vars
             PROVE  OwnerInv'
  OBVIOUS
<1> USE PoolAssumption, TasksAssumption
<1>t. TypeOK /\ Asked /\ QType
  BY DEF BaseInv, TypeOK, QType
<1>i. Idle.op = "none"
  BY DEF Idle
<1>l. ASSUME UNCHANGED lists PROVE Once' /\ \A t \in Tasks : IsLinked(t)' <=> IsLinked(t)
  BY <1>l DEF OwnerInv, Once, IsLinked
<1>1. ASSUME NEW w \in Threads, WorkerWaits(w)
      PROVE  OwnerInv'
  <2>1. /\ UNCHANGED <<lists, status, wtask>>
        /\ \A d \in Clients : carg'[d] = carg[d] \/ carg'[d].op \notin {"add", "urgent"}
        /\ fault = "null_dereference" => fault' = "null_dereference"
        /\ \A v \in Threads : wpc'[v] = "run" <=> wpc[v] = "run"
        /\ \A v \in Threads : v > thread_count' => wpc'[v] = "none"
    BY <1>1, <1>t DEF WorkerWaits, AtQueue, ok, vars, qvars, pool, workers, clients, OwnerInv, TypeOK, Threads
  <2>2. QED
    BY <2>1, OwnerFrame
<1>2. ASSUME NEW w \in Threads, WorkerLeaves(w)
      PROVE  OwnerInv'
  <2>1. /\ UNCHANGED <<lists, status, wtask>>
        /\ \A d \in Clients : carg'[d] = carg[d] \/ carg'[d].op \notin {"add", "urgent"}
        /\ fault = "null_dereference" => fault' = "null_dereference"
        /\ \A v \in Threads : wpc'[v] = "run" <=> wpc[v] = "run"
        /\ \A v \in Threads : v > thread_count' => wpc'[v] = "none"
    BY <1>2, <1>t DEF WorkerLeaves, AtQueue, ok, vars, qvars, pool, workers, clients, OwnerInv, TypeOK, Threads
  <2>2. QED
    BY <2>1, OwnerFrame
<1>3. ASSUME NEW w \in Threads, WorkerTakes(w)
      PROVE  OwnerInv'
  <2>1. /\ NextLevel \in Levels /\ lists[NextLevel] # <<>> /\ NextTask \in Tasks
        /\ lists' = [lists EXCEPT ![NextLevel] = Tail(lists[NextLevel])]
    BY <1>3, <1>t, UnlinkEffect DEF WorkerTakes, UnlinkNext
  <2>2. /\ Once' /\ IsLinked(NextTask)
        /\ \A x \in Tasks : IsLinked(x)' <=> IsLinked(x) /\ x # NextTask
    BY <1>t, <2>1, Taken DEF OwnerInv, NextTask
  <2>3. /\ status[NextTask] = "queued"
        /\ status' = [status EXCEPT ![NextTask] = "running"]
        /\ wtask' = [wtask EXCEPT ![w] = NextTask]
        /\ wpc' = [wpc EXCEPT ![w] = "run"]
        /\ wpc[w] \in {"lock", "woken"} /\ fault' = fault
        /\ UNCHANGED <<carg, thread_count>>
    BY <1>3, <2>1, <2>2 DEF WorkerTakes, AtQueue, UnlinkNext, OwnerInv
  <2> HIDE DEF NextTask
  <2>4. wtask[w] = NULL
    BY <2>3 DEF OwnerInv
  <2>5. \A v \in Threads : wtask[v] # NextTask
    BY <2>1, <2>3 DEF OwnerInv
  <2>6. \A c \in Clients : Submits(c)' = Submits(c) /\ (Submits(c) => carg[c].task # NextTask)
    BY <2>3 DEF OwnerInv, Submits
  <2>7. /\ \A v \in Threads : wpc'[v] = "run" <=> wtask'[v] # NULL
        /\ \A v \in Threads : wtask'[v] # NULL => status'[wtask'[v]] = "running"
        /\ \A u, v \in Threads : wtask'[u] = wtask'[v] /\ wtask'[u] # NULL => u = v
        /\ \A v \in Threads : v > thread_count' => wpc'[v] = "none"
    BY <1>t, <2>1, <2>3, <2>4, <2>5 DEF OwnerInv, TypeOK
  <2>8. \A x \in Tasks : status'[x] = "running" => \E v \in Threads : wtask'[v] = x
    BY <1>t, <2>1, <2>3, <2>4 DEF OwnerInv, TypeOK
  <2>9. /\ \A x \in Tasks : IsLinked(x)' => status'[x] = "queued"
        /\ fault' # "null_dereference" => \A x \in Tasks : status'[x] = "queued" => IsLinked(x)'
    BY <1>t, <2>1, <2>2, <2>3 DEF OwnerInv, TypeOK
  <2>10. \A c \in Clients : Submits(c)' => status'[carg'[c].task] = "offered"
    BY <1>t, <2>3, <2>6 DEF OwnerInv, TypeOK, Submits, Asked
  <2>11. QED
    BY <2>2, <2>3, <2>6, <2>7, <2>8, <2>9, <2>10 DEF OwnerInv
<1>4. ASSUME NEW w \in Threads, WorkerRuns(w)
      PROVE  OwnerInv'
  <2>1. PICK p \in {"lock", "scale"} : wpc' = [wpc EXCEPT ![w] = p]
    BY <1>4 DEF WorkerRuns
  <2>2. /\ status' = [status EXCEPT ![wtask[w]] = "done"]
        /\ wtask' = [wtask EXCEPT ![w] = NULL]
        /\ wtask[w] \in Tasks /\ status[wtask[w]] = "running"
        /\ UNCHANGED <<lists, carg, fault, thread_count>> /\ wpc[w] = "run"
    BY <1>4, <1>t DEF WorkerRuns, vars, qvars, pool, workers, clients, OwnerInv, TypeOK
  <2>3. Once' /\ \A t \in Tasks : IsLinked(t)' <=> IsLinked(t)
    BY <1>l, <2>2
  <2>4. \A c \in Clients : Submits(c)' = Submits(c)
    BY <2>2 DEF Submits
  <2>5. /\ \A v \in Threads : wpc'[v] = "run" <=> wtask'[v] # NULL
        /\ \A v \in Threads : wtask'[v] # NULL => status'[wtask'[v]] = "running"
        /\ \A u, v \in Threads : wtask'[u] = wtask'[v] /\ wtask'[u] # NULL => u = v
        /\ \A v \in Threads : v > thread_count' => wpc'[v] = "none"
    BY <1>t, <2>1, <2>2 DEF OwnerInv, TypeOK
  <2>6. \A x \in Tasks : status'[x] = "running" => \E v \in Threads : wtask'[v] = x
    BY <1>t, <2>2 DEF OwnerInv, TypeOK
  <2>7. \A c \in Clients : Submits(c)' => status'[carg'[c].task] = "offered"
    BY <1>t, <2>2, <2>4 DEF OwnerInv, TypeOK, Asked, Submits
  <2>8. QED
    BY <1>t, <2>2, <2>3, <2>4, <2>5, <2>6, <2>7 DEF OwnerInv, TypeOK
<1>5. ASSUME NEW w \in Threads, WorkerExits(w)
      PROVE  OwnerInv'
  <2>1. /\ UNCHANGED <<lists, status, wtask>>
        /\ \A d \in Clients : carg'[d] = carg[d] \/ carg'[d].op \notin {"add", "urgent"}
        /\ fault = "null_dereference" => fault' = "null_dereference"
        /\ \A v \in Threads : wpc'[v] = "run" <=> wpc[v] = "run"
        /\ \A v \in Threads : v > thread_count' => wpc'[v] = "none"
    BY <1>5, <1>t DEF WorkerExits, ok, vars, qvars, pool, workers, clients, OwnerInv, TypeOK, Threads
  <2>2. QED
    BY <2>1, OwnerFrame
<1>6. ASSUME NEW w \in Threads, WorkerScales(w)
      PROVE  OwnerInv'
  <2>0. \E p \in {"resize", "lock"} : wpc' = [wpc EXCEPT ![w] = p]
    BY <1>6 DEF WorkerScales
  <2>1. /\ UNCHANGED <<lists, status, wtask>>
        /\ \A d \in Clients : carg'[d] = carg[d] \/ carg'[d].op \notin {"add", "urgent"}
        /\ fault = "null_dereference" => fault' = "null_dereference"
        /\ \A v \in Threads : wpc'[v] = "run" <=> wpc[v] = "run"
        /\ \A v \in Threads : v > thread_count' => wpc'[v] = "none"
    BY <1>6, <1>t, <2>0 DEF WorkerScales, ok, vars, qvars, pool, workers, clients, OwnerInv, TypeOK, Threads
  <2>2. QED
    BY <2>1, OwnerFrame
<1>r. ASSUME NEW n \in min_threads..MaxThreads, NEW f \in [Threads -> WorkerPlaces], ResizeTo(n, f),
             \A v \in Threads : v > thread_count => f[v] = "none"
      PROVE  /\ \A v \in Threads : v > thread_count' => wpc'[v] = "none"
             /\ \A v \in Threads : wpc'[v] = "run" <=> f[v] = "run"
  <2>1. CASE n >= thread_count
    BY <1>r, <1>t, <2>1 DEF ResizeTo, TypeOK, Threads
  <2>2. CASE n < thread_count
    <3>1. wpc' = WakeAllWorkers(f) /\ thread_count' = thread_count
      BY <1>r, <1>t, <2>2 DEF ResizeTo, TypeOK
    <3>2. \A v \in Threads : wpc'[v] = f[v] \/ (f[v] = "waiting" /\ wpc'[v] = "woken")
      BY <1>r, <3>1, SignalOnlyWakes
    <3>3. QED
      BY <1>r, <3>1, <3>2
  <2>3. QED
    BY <1>t, <2>1, <2>2 DEF TypeOK
<1>7. ASSUME NEW w \in Threads, WorkerResizes(w)
      PROVE  OwnerInv'
  <2>0. /\ wtarget[w] \in min_threads..MaxThreads
        /\ [wpc EXCEPT ![w] = "lock"] \in [Threads -> WorkerPlaces]
        /\ \A v \in Threads : v > thread_count => [wpc EXCEPT ![w] = "lock"][v] = "none"
        /\ \A v \in Threads : [wpc EXCEPT ![w] = "lock"][v] = "run" <=> wpc[v] = "run"
    BY <1>7, <1>t DEF WorkerResizes, Asked, OwnerInv, TypeOK, WorkerPlaces, Threads
  <2>r. /\ \A v \in Threads : v > thread_count' => wpc'[v] = "none"
        /\ \A v \in Threads : wpc'[v] = "run" <=> [wpc EXCEPT ![w] = "lock"][v] = "run"
    BY <1>7, <2>0, <1>r DEF WorkerResizes
  <2>1. /\ UNCHANGED <<lists, status, wtask>>
        /\ \A d \in Clients : carg'[d] = carg[d] \/ carg'[d].op \notin {"add", "urgent"}
        /\ fault = "null_dereference" => fault' = "null_dereference"
        /\ \A v \in Threads : wpc'[v] = "run" <=> wpc[v] = "run"
        /\ \A v \in Threads : v > thread_count' => wpc'[v] = "none"
    BY <1>7, <1>t, <2>0, <2>r DEF WorkerResizes, ok, vars, qvars, pool, workers, clients, OwnerInv, TypeOK,
       Threads
  <2>2. QED
    BY <2>1, OwnerFrame
<1>8. ASSUME NEW c \in Clients, NEW t \in Tasks, NEW l \in UsedLevels, CallAdd(c, t, l)
      PROVE  OwnerInv'
  <2> DEFINE a == [Idle EXCEPT !.op = "add", !.task = t, !.level = l]
  <2>0. a.task = t
    BY DEF Idle
  <2>1. /\ carg' = [carg EXCEPT ![c] = a]
        /\ status[t] = "new" /\ status' = [status EXCEPT ![t] = "offered"]
        /\ UNCHANGED <<lists, fault, wpc, wtask, thread_count>>
    BY <1>8 DEF CallAdd, Goes, vars, qvars, pool, workers, clients
  <2> HIDE DEF a
  <2>2. Once' /\ \A x \in Tasks : IsLinked(x)' <=> IsLinked(x)
    BY <1>l, <2>1
  <2>3. \A d \in Clients : d # c => Submits(d)' = Submits(d) /\ carg'[d] = carg[d]
    BY <1>t, <2>1 DEF Submits, TypeOK
  <2>4. carg'[c].task = t /\ \A d \in Clients : Submits(d) => carg[d].task # t
    BY <1>t, <2>0, <2>1 DEF OwnerInv, TypeOK
  <2>5. \A d \in Clients : Submits(d)' => status'[carg'[d].task] = "offered"
    BY <1>t, <2>1, <2>3, <2>4 DEF OwnerInv, TypeOK, Submits, Asked
  <2>6. \A d, e \in Clients : Submits(d)' /\ Submits(e)' /\ carg'[d].task = carg'[e].task => d = e
    BY <2>3, <2>4 DEF OwnerInv
  <2>7. /\ \A x \in Tasks : status'[x] # status[x] => x = t
        /\ status'[t] = "offered" /\ status[t] = "new"
    BY <1>t, <2>1 DEF TypeOK
  <2>8. \A v \in Threads : wtask[v] # NULL => wtask[v] \in Tasks /\ wtask[v] # t
    BY <1>t, <2>7 DEF OwnerInv, TypeOK
  <2>9. QED
    BY <2>1, <2>2, <2>5, <2>6, <2>7, <2>8 DEF OwnerInv
<1>9. ASSUME NEW c \in Clients, NEW t \in Tasks, CallUrgent(c, t)
      PROVE  OwnerInv'
  <2> DEFINE a == [Idle EXCEPT !.op = "urgent", !.task = t]
  <2>0. a.task = t
    BY DEF Idle
  <2>1. /\ carg' = [carg EXCEPT ![c] = a]
        /\ status[t] = "new" /\ status' = [status EXCEPT ![t] = "offered"]
        /\ UNCHANGED <<lists, fault, wpc, wtask, thread_count>>
    BY <1>9 DEF CallUrgent, Goes, vars, qvars, pool, workers, clients
  <2> HIDE DEF a
  <2>2. Once' /\ \A x \in Tasks : IsLinked(x)' <=> IsLinked(x)
    BY <1>l, <2>1
  <2>3. \A d \in Clients : d # c => Submits(d)' = Submits(d) /\ carg'[d] = carg[d]
    BY <1>t, <2>1 DEF Submits, TypeOK
  <2>4. carg'[c].task = t /\ \A d \in Clients : Submits(d) => carg[d].task # t
    BY <1>t, <2>0, <2>1 DEF OwnerInv, TypeOK
  <2>5. \A d \in Clients : Submits(d)' => status'[carg'[d].task] = "offered"
    BY <1>t, <2>1, <2>3, <2>4 DEF OwnerInv, TypeOK, Submits, Asked
  <2>6. \A d, e \in Clients : Submits(d)' /\ Submits(e)' /\ carg'[d].task = carg'[e].task => d = e
    BY <2>3, <2>4 DEF OwnerInv
  <2>7. /\ \A x \in Tasks : status'[x] # status[x] => x = t
        /\ status'[t] = "offered" /\ status[t] = "new"
    BY <1>t, <2>1 DEF TypeOK
  <2>8. \A v \in Threads : wtask[v] # NULL => wtask[v] \in Tasks /\ wtask[v] # t
    BY <1>t, <2>7 DEF OwnerInv, TypeOK
  <2>9. QED
    BY <2>1, <2>2, <2>5, <2>6, <2>7, <2>8 DEF OwnerInv
<1>10. ASSUME NEW c \in Clients, NEW op \in {"wait", "timedwait"}, CallWait(c, op)
      PROVE  OwnerInv'
  <2>1. /\ UNCHANGED <<lists, status, wtask>>
        /\ \A d \in Clients : carg'[d] = carg[d] \/ carg'[d].op \notin {"add", "urgent"}
        /\ fault = "null_dereference" => fault' = "null_dereference"
        /\ \A v \in Threads : wpc'[v] = "run" <=> wpc[v] = "run"
        /\ \A v \in Threads : v > thread_count' => wpc'[v] = "none"
    BY <1>10, <1>t DEF CallWait, Goes, Idle, vars, qvars, pool, workers, clients, OwnerInv, TypeOK, Threads
  <2>2. QED
    BY <2>1, OwnerFrame
<1>11. ASSUME NEW c \in Clients, NEW n \in Threads, CallResize(c, n)
      PROVE  OwnerInv'
  <2>1. /\ UNCHANGED <<lists, status, wtask>>
        /\ \A d \in Clients : carg'[d] = carg[d] \/ carg'[d].op \notin {"add", "urgent"}
        /\ fault = "null_dereference" => fault' = "null_dereference"
        /\ \A v \in Threads : wpc'[v] = "run" <=> wpc[v] = "run"
        /\ \A v \in Threads : v > thread_count' => wpc'[v] = "none"
    BY <1>11, <1>t DEF CallResize, Goes, Idle, vars, qvars, pool, workers, clients, OwnerInv, TypeOK, Threads
  <2>2. QED
    BY <2>1, OwnerFrame
<1>12. ASSUME NEW c \in Clients, Pause(c)
      PROVE  OwnerInv'
  <2>1. /\ UNCHANGED <<lists, status, wtask>>
        /\ \A d \in Clients : carg'[d] = carg[d] \/ carg'[d].op \notin {"add", "urgent"}
        /\ fault = "null_dereference" => fault' = "null_dereference"
        /\ \A v \in Threads : wpc'[v] = "run" <=> wpc[v] = "run"
        /\ \A v \in Threads : v > thread_count' => wpc'[v] = "none"
    BY <1>12, <1>t DEF Pause, vars, qvars, pool, workers, clients, OwnerInv, TypeOK, Threads
  <2>2. QED
    BY <2>1, OwnerFrame
<1>13. ASSUME NEW c \in Clients, Resume(c)
      PROVE  OwnerInv'
  <2>0. \A v \in Threads : wpc'[v] = wpc[v] \/ (wpc[v] = "waiting" /\ wpc'[v] = "woken")
    <3>1. wpc \in [Threads -> WorkerPlaces] /\ (wpc' \in SignalWorker(wpc) \/ wpc' = WakeAllWorkers(wpc))
      BY <1>13, <1>t DEF Resume, TypeOK
    <3>2. QED
      BY <3>1, SignalOnlyWakes
  <2>1. /\ UNCHANGED <<lists, status, wtask>>
        /\ \A d \in Clients : carg'[d] = carg[d] \/ carg'[d].op \notin {"add", "urgent"}
        /\ fault = "null_dereference" => fault' = "null_dereference"
        /\ \A v \in Threads : wpc'[v] = "run" <=> wpc[v] = "run"
        /\ \A v \in Threads : v > thread_count' => wpc'[v] = "none"
    BY <1>13, <1>t, <2>0 DEF Resume, vars, qvars, pool, workers, clients, OwnerInv, TypeOK, Threads
  <2>2. QED
    BY <2>1, OwnerFrame
<1>14. ASSUME NEW c \in Clients, AddFails(c)
      PROVE  OwnerInv'
  <2> DEFINE t == carg[c].task
  <2>1. /\ t \in Tasks /\ Submits(c) /\ status[t] = "offered"
        /\ carg' = [carg EXCEPT ![c] = Idle]
        /\ status' = [status EXCEPT ![t] = "new"]
        /\ UNCHANGED <<lists, fault, wpc, wtask, thread_count>>
    BY <1>14, <1>t DEF AddFails, Inside, Returns, Submits, Asked, OwnerInv, vars, qvars, pool, workers, clients
  <2>2. Once' /\ \A x \in Tasks : IsLinked(x)' <=> IsLinked(x)
    BY <1>l, <2>1
  <2>3. \A d \in Clients : Submits(d)' => /\ d # c /\ Submits(d) /\ carg'[d] = carg[d]
                                           /\ carg[d].task \in Tasks \ {t}
    BY <1>t, <1>i, <2>1 DEF Submits, TypeOK, OwnerInv, Asked
  <2> HIDE DEF t
  <2>4. /\ \A x \in Tasks : status'[x] # status[x] => x = t
        /\ status'[t] = "new"
    BY <1>t, <2>1 DEF TypeOK
  <2>5. \A v \in Threads : wtask[v] # NULL => wtask[v] \in Tasks /\ wtask[v] # t
    BY <1>t, <2>1 DEF OwnerInv, TypeOK
  <2>6. QED
    BY <2>1, <2>2, <2>3, <2>4, <2>5 DEF OwnerInv
<1>15. ASSUME NEW c \in Clients, AddTask(c)
      PROVE  OwnerInv'
  <2> DEFINE t == carg[c].task
  <2>1. /\ t \in Tasks /\ Submits(c) /\ status[t] = "offered"
        /\ carg' = [carg EXCEPT ![c] = Idle]
        /\ status' = [status EXCEPT ![t] = "queued"]
        /\ UNCHANGED <<wtask, thread_count>> /\ fault = "none"
    BY <1>15, <1>t DEF AddTask, Accepted, Inside, ok, Returns, Submits, Asked, OwnerInv
  <2>n. ~IsLinked(t)
    BY <2>1 DEF OwnerInv
  <2>2. /\ Once'
        /\ \/ \A x \in Tasks : IsLinked(x)' <=> IsLinked(x) \/ x = t
           \/ fault' = "null_dereference" /\ \A x \in Tasks : IsLinked(x)' <=> IsLinked(x)
    <3>1. CASE LinkFirst(t, carg[c].level)
      <4>1. /\ carg[c].level \in Levels
            /\ lists' = [lists EXCEPT ![carg[c].level] = Append(lists[carg[c].level], t)]
        BY <3>1, <1>t DEF LinkFirst, TypeOK, CallArgs
      <4>2. QED
        BY <1>t, <2>1, <2>n, <4>1, Appended DEF OwnerInv
    <3>2. CASE LinkAfterTail(t, carg[c].level)
      <4>1. PICK k \in Levels : lists' = [lists EXCEPT ![k] = Append(lists[k], t)]
        BY <3>2 DEF LinkAfterTail
      <4>2. QED
        BY <1>t, <2>1, <2>n, <4>1, Appended DEF OwnerInv
    <3>3. CASE LinkAfterNull(t, carg[c].level)
      BY <3>3, <1>l DEF LinkAfterNull
    <3>4. QED
      BY <1>15, <3>1, <3>2, <3>3 DEF AddTask, Link
  <2>0. \A v \in Threads : wpc'[v] = wpc[v] \/ (wpc[v] = "waiting" /\ wpc'[v] = "woken")
    <3>1. wpc \in [Threads -> WorkerPlaces] /\ (wpc' \in SignalWorker(wpc) \/ wpc' = WakeAllWorkers(wpc))
      BY <1>15, <1>t DEF AddTask, TypeOK
    <3>2. QED
      BY <3>1, SignalOnlyWakes
  <2>3. \A d \in Clients : Submits(d)' => /\ d # c /\ Submits(d) /\ carg'[d] = carg[d]
                                           /\ carg[d].task \in Tasks \ {t}
    BY <1>t, <1>i, <2>1 DEF Submits, TypeOK, OwnerInv, Asked
  <2> HIDE DEF t
  <2>4. /\ \A x \in Tasks : status'[x] # status[x] => x = t
        /\ status'[t] = "queued"
    BY <1>t, <2>1 DEF TypeOK
  <2>5. \A v \in Threads : wtask[v] # NULL => wtask[v] \in Tasks /\ wtask[v] # t
    BY <1>t, <2>1 DEF OwnerInv, TypeOK
  <2>6. QED
    BY <2>0, <2>1, <2>2, <2>3, <2>4, <2>5 DEF OwnerInv
<1>16. ASSUME NEW c \in Clients, AddUrgentTask(c)
      PROVE  OwnerInv'
  <2> DEFINE t == carg[c].task
  <2>1. /\ t \in Tasks /\ Submits(c) /\ status[t] = "offered"
        /\ carg' = [carg EXCEPT ![c] = Idle]
        /\ status' = [status EXCEPT ![t] = "queued"]
        /\ UNCHANGED <<wtask, thread_count>> /\ fault = "none"
    BY <1>16, <1>t DEF AddUrgentTask, Accepted, Inside, ok, Returns, Submits, Asked, OwnerInv
  <2>n. ~IsLinked(t)
    BY <2>1 DEF OwnerInv
  <2>2. /\ Once'
        /\ \/ \A x \in Tasks : IsLinked(x)' <=> IsLinked(x) \/ x = t
           \/ fault' = "null_dereference" /\ \A x \in Tasks : IsLinked(x)' <=> IsLinked(x)
    <3>1. "high" \in Levels /\ lists' = [lists EXCEPT !["high"] = <<t>> \o lists["high"]]
      BY <1>16 DEF AddUrgentTask, LinkUrgent, Levels
    <3>2. QED
      BY <1>t, <2>1, <2>n, <3>1, Prepended DEF OwnerInv
  <2>0. \A v \in Threads : wpc'[v] = wpc[v] \/ (wpc[v] = "waiting" /\ wpc'[v] = "woken")
    <3>1. wpc \in [Threads -> WorkerPlaces] /\ (wpc' \in SignalWorker(wpc) \/ wpc' = WakeAllWorkers(wpc))
      BY <1>16, <1>t DEF AddUrgentTask, TypeOK
    <3>2. QED
      BY <3>1, SignalOnlyWakes
  <2>3. \A d \in Clients : Submits(d)' => /\ d # c /\ Submits(d) /\ carg'[d] = carg[d]
                                           /\ carg[d].task \in Tasks \ {t}
    BY <1>t, <1>i, <2>1 DEF Submits, TypeOK, OwnerInv, Asked
  <2> HIDE DEF t
  <2>4. /\ \A x \in Tasks : status'[x] # status[x] => x = t
        /\ status'[t] = "queued"
    BY <1>t, <2>1 DEF TypeOK
  <2>5. \A v \in Threads : wtask[v] # NULL => wtask[v] \in Tasks /\ wtask[v] # t
    BY <1>t, <2>1 DEF OwnerInv, TypeOK
  <2>6. QED
    BY <2>0, <2>1, <2>2, <2>3, <2>4, <2>5 DEF OwnerInv
<1>17. ASSUME NEW c \in Clients, WaitSleeps(c)
      PROVE  OwnerInv'
  <2>1. /\ UNCHANGED <<lists, status, wtask>>
        /\ \A d \in Clients : carg'[d] = carg[d] \/ carg'[d].op \notin {"add", "urgent"}
        /\ fault = "null_dereference" => fault' = "null_dereference"
        /\ \A v \in Threads : wpc'[v] = "run" <=> wpc[v] = "run"
        /\ \A v \in Threads : v > thread_count' => wpc'[v] = "none"
    BY <1>17, <1>t DEF WaitSleeps, Inside, vars, qvars, pool, workers, clients, OwnerInv, TypeOK, Threads
  <2>2. QED
    BY <2>1, OwnerFrame
<1>18. ASSUME NEW c \in Clients, WaitReturns(c)
      PROVE  OwnerInv'
  <2>1. /\ UNCHANGED <<lists, status, wtask>>
        /\ \A d \in Clients : carg'[d] = carg[d] \/ carg'[d].op \notin {"add", "urgent"}
        /\ fault = "null_dereference" => fault' = "null_dereference"
        /\ \A v \in Threads : wpc'[v] = "run" <=> wpc[v] = "run"
        /\ \A v \in Threads : v > thread_count' => wpc'[v] = "none"
    BY <1>18, <1>t, <1>i DEF WaitReturns, Inside, Returns, vars, qvars, pool, workers, clients, OwnerInv,
       TypeOK, Threads
  <2>2. QED
    BY <2>1, OwnerFrame
<1>19. ASSUME NEW c \in Clients, WaitTimesOut(c)
      PROVE  OwnerInv'
  <2>1. /\ UNCHANGED <<lists, status, wtask>>
        /\ \A d \in Clients : carg'[d] = carg[d] \/ carg'[d].op \notin {"add", "urgent"}
        /\ fault = "null_dereference" => fault' = "null_dereference"
        /\ \A v \in Threads : wpc'[v] = "run" <=> wpc[v] = "run"
        /\ \A v \in Threads : v > thread_count' => wpc'[v] = "none"
    BY <1>19, <1>t, <1>i DEF WaitTimesOut, Returns, vars, qvars, pool, workers, clients, OwnerInv, TypeOK,
       Threads
  <2>2. QED
    BY <2>1, OwnerFrame
<1>20. ASSUME NEW c \in Clients, Resize(c)
      PROVE  OwnerInv'
  <2>0. carg[c].n \in min_threads..MaxThreads /\ wpc \in [Threads -> WorkerPlaces]
    BY <1>20, <1>t DEF Resize, Inside, Asked, TypeOK
  <2>r. /\ \A v \in Threads : v > thread_count' => wpc'[v] = "none"
        /\ \A v \in Threads : wpc'[v] = "run" <=> wpc[v] = "run"
    BY <1>20, <2>0, <1>r DEF Resize, OwnerInv
  <2>1. /\ UNCHANGED <<lists, status, wtask>>
        /\ \A d \in Clients : carg'[d] = carg[d] \/ carg'[d].op \notin {"add", "urgent"}
        /\ fault = "null_dereference" => fault' = "null_dereference"
        /\ \A v \in Threads : wpc'[v] = "run" <=> wpc[v] = "run"
        /\ \A v \in Threads : v > thread_count' => wpc'[v] = "none"
    BY <1>20, <1>t, <1>i, <2>r DEF Resize, Returns, vars, qvars, pool, workers, clients, OwnerInv, TypeOK,
       Threads
  <2>2. QED
    BY <2>1, OwnerFrame
<1>21. ASSUME NEW c \in Clients, UseAfterFree(c)
      PROVE  OwnerInv'
  <2>1. /\ UNCHANGED <<lists, status, wtask>>
        /\ \A d \in Clients : carg'[d] = carg[d] \/ carg'[d].op \notin {"add", "urgent"}
        /\ fault = "null_dereference" => fault' = "null_dereference"
        /\ \A v \in Threads : wpc'[v] = "run" <=> wpc[v] = "run"
        /\ \A v \in Threads : v > thread_count' => wpc'[v] = "none"
    BY <1>21, <1>t DEF UseAfterFree, vars, qvars, pool, workers, clients, OwnerInv, TypeOK, Threads
  <2>2. QED
    BY <2>1, OwnerFrame
<1>22. ASSUME NEW wait \in DestroyModes, DestroyBegins(wait)
      PROVE  OwnerInv'
  <2>0. \A v \in Threads : wpc'[v] = wpc[v] \/ (wpc[v] = "waiting" /\ wpc'[v] = "woken")
    <3>1. wpc \in [Threads -> WorkerPlaces] /\ (wpc' \in SignalWorker(wpc) \/ wpc' = WakeAllWorkers(wpc))
      BY <1>22, <1>t DEF DestroyBegins, TypeOK
    <3>2. QED
      BY <3>1, SignalOnlyWakes
  <2>1. /\ UNCHANGED <<lists, status, wtask>>
        /\ \A d \in Clients : carg'[d] = carg[d] \/ carg'[d].op \notin {"add", "urgent"}
        /\ fault = "null_dereference" => fault' = "null_dereference"
        /\ \A v \in Threads : wpc'[v] = "run" <=> wpc[v] = "run"
        /\ \A v \in Threads : v > thread_count' => wpc'[v] = "none"
    BY <1>22, <1>t, <2>0 DEF DestroyBegins, vars, qvars, pool, workers, clients, OwnerInv, TypeOK, Threads
  <2>2. QED
    BY <2>1, OwnerFrame
<1>23. ASSUME DestroyChecks
      PROVE  OwnerInv'
  <2>1. /\ UNCHANGED <<lists, status, wtask>>
        /\ \A d \in Clients : carg'[d] = carg[d] \/ carg'[d].op \notin {"add", "urgent"}
        /\ fault = "null_dereference" => fault' = "null_dereference"
        /\ \A v \in Threads : wpc'[v] = "run" <=> wpc[v] = "run"
        /\ \A v \in Threads : v > thread_count' => wpc'[v] = "none"
    BY <1>23, <1>t DEF DestroyChecks, vars, qvars, pool, workers, clients, OwnerInv, TypeOK, Threads
  <2>2. QED
    BY <2>1, OwnerFrame
<1>24. ASSUME DestroyJoins
      PROVE  OwnerInv'
  <2>1. /\ UNCHANGED <<lists, status, wtask>>
        /\ \A d \in Clients : carg'[d] = carg[d] \/ carg'[d].op \notin {"add", "urgent"}
        /\ fault = "null_dereference" => fault' = "null_dereference"
        /\ \A v \in Threads : wpc'[v] = "run" <=> wpc[v] = "run"
        /\ \A v \in Threads : v > thread_count' => wpc'[v] = "none"
    BY <1>24, <1>t DEF DestroyJoins, vars, qvars, pool, workers, clients, OwnerInv, TypeOK, Threads
  <2>2. QED
    BY <2>1, OwnerFrame
<1>25. ASSUME DestroyFrees
      PROVE  OwnerInv'
  <2>1. \A l \in Levels : lists'[l] = <<>> /\ Len(lists'[l]) = 0
    BY <1>25 DEF DestroyFrees, UnlinkAll
  <2>2. Once' /\ \A t \in Tasks : ~IsLinked(t)'
    BY <2>1 DEF Once, IsLinked
  <2>3. /\ \A t \in Tasks : status'[t] = IF IsLinked(t) THEN "dropped" ELSE status[t]
        /\ UNCHANGED <<carg, wpc, wtask, thread_count, fault>> /\ fault = "none"
    BY <1>25 DEF DestroyFrees, UnlinkAll, ok, Queued, IsLinked, vars, qvars, pool, workers, clients
  <2>4. \A c \in Clients : Submits(c)' = Submits(c) /\ (Submits(c) => carg[c].task \in Tasks)
    BY <1>t, <2>3 DEF Submits, Asked
  <2>5. \A v \in Threads : wtask[v] # NULL => wtask[v] \in Tasks
    BY <1>t DEF TypeOK
  <2>6. QED
    BY <2>2, <2>3, <2>4, <2>5 DEF OwnerInv
<1>26. ASSUME SpuriousWakeup
      PROVE  OwnerInv'
  <2>1. /\ UNCHANGED <<lists, status, wtask>>
        /\ \A d \in Clients : carg'[d] = carg[d] \/ carg'[d].op \notin {"add", "urgent"}
        /\ fault = "null_dereference" => fault' = "null_dereference"
        /\ \A v \in Threads : wpc'[v] = "run" <=> wpc[v] = "run"
        /\ \A v \in Threads : v > thread_count' => wpc'[v] = "none"
    BY <1>26, <1>t DEF SpuriousWakeup, vars, qvars, pool, workers, clients, OwnerInv, TypeOK, Threads
  <2>2. QED
    BY <2>1, OwnerFrame
<1>27. CASE UNCHANGED vars
  BY <1>27, OwnerFrame DEF vars, qvars, pool, workers, clients, OwnerInv
<1>99. QED
  BY <1>1, <1>2, <1>3, <1>4, <1>5, <1>6, <1>7, <1>8, <1>9, <1>10, <1>11, <1>12, <1>13, <1>14, <1>15, <1>16,
     <1>17, <1>18, <1>19, <1>20, <1>21, <1>22, <1>23, <1>24, <1>25, <1>26, <1>27
     DEF Next, WorkerStep, ClientCall, ClientStep, DestroyStep

(* Every task has one owner: the client submitting it, the list it hangs   *)
(* on, or the worker executing it.                                         *)
THEOREM TaskOwnership == Spec => []OneOwner
<1>1. OwnerInv => OneOwner
  <2> SUFFICES ASSUME OwnerInv, fault = "none"
               PROVE  /\ Queued = {t \in Tasks : status[t] = "queued"}
                      /\ \A t \in Tasks : status[t] = "running" <=> \E w \in Threads : wtask[w] = t
                      /\ \A v, w \in Threads : wtask[v] = wtask[w] /\ wtask[v] # NULL => v = w
    BY DEF OneOwner
  <2>1. \A t \in Tasks : IsLinked(t) <=> status[t] = "queued"
    BY DEF OwnerInv
  <2>2. Queued = {t \in Tasks : IsLinked(t)}
    BY DEF Queued, IsLinked
  <2>3. \A t \in Tasks : status[t] = "running" <=> \E w \in Threads : wtask[w] = t
    <3>1. \A t \in Tasks : t # NULL
      BY TasksAssumption
    <3>2. \A t \in Tasks, w \in Threads : wtask[w] = t => status[t] = "running"
      BY <3>1 DEF OwnerInv
    <3>3. QED
      BY <3>2 DEF OwnerInv
  <2>4. QED
    BY <2>1, <2>2, <2>3 DEF OwnerInv
<1>2. QED
  BY BaseInit, BaseNext, OwnerInit, OwnerNext, <1>1, PTL DEF Spec
-----------------------------------------------------------------------------
(* One level *)

(* When all ordinary submissions have level L, only that list and the one  *)
(* of urgent tasks are in use, and the tail is the last task of level L as *)
(* long as there is one.                                                   *)
TailInv(L) == /\ fault # "null_dereference"
              /\ TailIsLast(L)
              /\ task_queue_tail # NULL => IsLinked(task_queue_tail)
              /\ \A m \in Levels \ {L, "high"} : lists[m] = <<>>
              /\ \A c \in Clients : carg[c].op = "add" => carg[c].level = L

(* Steps that leave the lists alone keep it, *)
LEMMA TailFrame ==
    ASSUME NEW L \in Levels, TailInv(L), UNCHANGED <<lists, task_queue_tail>>,
           fault' # "null_dereference",
           \A c \in Clients : carg'[c] = carg[c] \/ carg'[c].op # "add" \/ carg'[c].level = L
    PROVE  TailInv(L)'
  BY DEF TailInv, TailIsLast, IsLinked

(* and so do the ones that link and take tasks.                            *)
LEMMA TailNext ==
    ASSUME NEW L \in Levels, UsedLevels = {L}
    PROVE  BaseInv /\ OwnerInv /\ TailInv(L) /\ [Next]_vars => TailInv(L)'
<1> SUFFICES ASSUME BaseInv, OwnerInv, TailInv(L), [Next]_vars
             PROVE  TailInv(L)'
  OBVIOUS
<1> USE TasksAssumption
<1>t. TypeOK /\ Asked /\ QType
  BY DEF BaseInv, TypeOK, QType
<1>i. Idle.op = "none" /\ Idle.level = "normal"
  BY DEF Idle
<1>l. \A l \in Levels : lists[l] \in Seq(Tasks) /\ (lists[l] # <<>> => lists[l][Len(lists[l])] \in Tasks)
  <2> SUFFICES ASSUME NEW l \in Levels
               PROVE  lists[l] \in Seq(Tasks) /\ (lists[l] # <<>> => lists[l][Len(lists[l])] \in Tasks)
    OBVIOUS
  <2>1. lists[l] \in Seq(Tasks)
    BY <1>t DEF QType
  <2>2. lists[l] # <<>> => Len(lists[l]) \in 1..Len(lists[l])
    BY <2>1, EmptySeq, LenProperties
  <2>3. QED
    BY <2>1, <2>2, ElementOfSeq
<1>1. ASSUME NEW w \in Threads, WorkerTakes(w)
      PROVE  TailInv(L)'
  <2>1. /\ NextLevel \in Levels /\ lists[NextLevel] # <<>>
        /\ lists' = [lists EXCEPT ![NextLevel] = Tail(lists[NextLevel])]
        /\ task_queue_tail' = IF task_queue_tail = NextTask THEN NULL ELSE task_queue_tail
        /\ fault' = fault /\ carg' = carg
    BY <1>1, <1>t, UnlinkEffect DEF WorkerTakes, UnlinkNext
  <2>2. /\ lists'[NextLevel] # <<>> =>
             /\ lists'[NextLevel][Len(lists'[NextLevel])] = lists[NextLevel][Len(lists[NextLevel])]
             /\ lists[NextLevel][Len(lists[NextLevel])] # NextTask
        /\ \A m \in Levels : m # NextLevel /\ lists[m] # <<>> =>
             /\ lists'[m] = lists[m]
             /\ lists[m][Len(lists[m])] # NextTask
        /\ \A m \in Levels : m # NextLevel => lists'[m] = lists[m]
        /\ \A x \in Tasks : IsLinked(x)' <=> IsLinked(x) /\ x # NextTask
    BY <1>t, <2>1, Taken DEF OwnerInv, NextTask
  <2>3. TailIsLast(L)'
    <3>1. CASE NextLevel = L
      BY <2>1, <2>2, <3>1 DEF TailInv, TailIsLast
    <3>2. CASE NextLevel # L
      BY <2>1, <2>2, <3>2 DEF TailInv, TailIsLast
    <3>3. QED
      BY <3>1, <3>2
  <2>4. task_queue_tail' # NULL => IsLinked(task_queue_tail)'
    <3>2. task_queue_tail' # NULL =>
            task_queue_tail' \in Tasks /\ IsLinked(task_queue_tail) /\ task_queue_tail' = task_queue_tail
            /\ task_queue_tail # NextTask
      BY <1>t, <2>1 DEF TailInv, QType
    <3>3. QED
      BY <2>2, <3>2 DEF IsLinked
  <2>5. \A m \in Levels \ {L, "high"} : lists'[m] = <<>>
    BY <2>1, <2>2 DEF TailInv
  <2>6. QED
    BY <2>1, <2>3, <2>4, <2>5 DEF TailInv
<1>2. ASSUME NEW c \in Clients, AddTask(c)
      PROVE  TailInv(L)'
  <2>0. PICK t : t = carg[c].task
    OBVIOUS
  <2>1. /\ carg[c].level = L /\ t \in Tasks /\ ~IsLinked(t)
        /\ Link(t, L) /\ fault = "none" /\ carg' = [carg EXCEPT ![c] = Idle]
    BY <1>2, <1>t, <2>0 DEF AddTask, Inside, ok, Accepted, Returns, TailInv, Asked, OwnerInv, Submits
  <2>2. ~LinkAfterNull(t, L)
    BY <1>l DEF LinkAfterNull, TailInv, TailIsLast
  <2>3. lists' = [lists EXCEPT ![L] = Append(lists[L], t)] /\ task_queue_tail' = t /\ fault' = fault
    <3>1. CASE LinkFirst(t, L)
      BY <3>1, <1>t DEF LinkFirst
    <3>2. CASE LinkAfterTail(t, L)
      <4>1. PICK k \in Levels : /\ lists[k] # <<>> /\ lists[k][Len(lists[k])] = task_queue_tail
                                /\ lists' = [lists EXCEPT ![k] = Append(lists[k], t)]
        BY <3>2 DEF LinkAfterTail
      <4>2. lists[L] # <<>> /\ lists[L][Len(lists[L])] = task_queue_tail
        BY <3>2 DEF LinkAfterTail, TailInv, TailIsLast
      <4>3. Len(lists[k]) \in 1..Len(lists[k]) /\ Len(lists[L]) \in 1..Len(lists[L])
        BY <1>l, <4>1, <4>2, EmptySeq, LenProperties
      <4>4. k = L
        BY <4>1, <4>2, <4>3 DEF OwnerInv, Once
      <4>5. QED
        BY <3>2, <4>1, <4>4 DEF LinkAfterTail
    <3>3. QED
      BY <2>1, <2>2, <3>1, <3>2 DEF Link
  <2>4. /\ lists'[L] # <<>> /\ lists'[L][Len(lists'[L])] = t
        /\ \A x \in Tasks : IsLinked(x)' <=> IsLinked(x) \/ x = t
        /\ \A m \in Levels : m # L => lists'[m] = lists[m]
    <3>1. QType /\ Once /\ ~IsLinked(t) /\ t \in Tasks
      BY <1>t, <2>1 DEF OwnerInv
    <3>2. QED
      BY <2>3, <3>1, Appended, Zenon
  <2>5. task_queue_tail' # NULL => IsLinked(task_queue_tail)'
    <3>1. IsLinked(t)'
      BY <2>1, <2>4
    <3>2. QED
      BY <2>3, <3>1 DEF IsLinked
  <2>6. QED
    BY <1>t, <1>i, <2>1, <2>3, <2>4, <2>5 DEF TailInv, TailIsLast, TypeOK
<1>3. ASSUME NEW c \in Clients, AddUrgentTask(c)
      PROVE  TailInv(L)'
  <2>0. PICK t : t = carg[c].task
    OBVIOUS
  <2>1. /\ t \in Tasks /\ ~IsLinked(t) /\ "high" \in Levels
        /\ lists' = [lists EXCEPT !["high"] = <<t>> \o lists["high"]]
        /\ task_queue_tail' = (IF task_queue_tail = NULL THEN t ELSE task_queue_tail)
        /\ fault' = fault /\ carg' = [carg EXCEPT ![c] = Idle]
    BY <1>3, <1>t, <2>0 DEF AddUrgentTask, LinkUrgent, Inside, Accepted, Returns, Asked, OwnerInv, Submits,
       Levels
  <2>2. /\ lists["high"] # <<>> =>
             lists'["high"][Len(lists'["high"])] = lists["high"][Len(lists["high"])]
        /\ lists["high"] = <<>> => lists'["high"][Len(lists'["high"])] = t
        /\ \A m \in Levels : m # "high" => lists'[m] = lists[m]
        /\ \A x \in Tasks : IsLinked(x)' <=> IsLinked(x) \/ x = t
    <3>1. QType /\ Once /\ ~IsLinked(t) /\ t \in Tasks /\ "high" \in Levels
      BY <1>t, <2>1 DEF OwnerInv
    <3>2. QED
      BY <2>1, <3>1, Prepended, Zenon
  <2>k. task_queue_tail' # NULL => IsLinked(task_queue_tail)'
    <3>1. task_queue_tail' \in Tasks /\ (IsLinked(task_queue_tail') \/ task_queue_tail' = t)
      BY <1>t, <2>1 DEF TailInv, QType
    <3>2. QED
      BY <2>2, <3>1 DEF IsLinked
  <2>3. CASE L # "high"
    BY <1>t, <1>i, <1>l, <2>1, <2>2, <2>3, <2>k DEF TailInv, TailIsLast, TypeOK
  <2>4. CASE L = "high" /\ lists["high"] # <<>>
    BY <1>t, <1>i, <1>l, <2>1, <2>2, <2>4, <2>k DEF TailInv, TailIsLast, TypeOK
  <2>5. CASE L = "high" /\ lists["high"] = <<>>
    <3>1. task_queue_tail = NULL
      <4>1. \A m \in Levels : lists[m] = <<>> /\ Len(lists[m]) = 0
        BY <2>5 DEF TailInv
      <4>2. QED
        BY <4>1 DEF TailInv, IsLinked
    <3>2. QED
      BY <1>t, <1>i, <2>1, <2>2, <2>5, <2>k, <3>1 DEF TailInv, TailIsLast, TypeOK
  <2>6. QED
    BY <2>3, <2>4, <2>5
<1>4. ASSUME NEW w \in Threads, WorkerWaits(w) \/ WorkerLeaves(w) \/ WorkerExits(w)
      PROVE  TailInv(L)'
  <2>1. /\ UNCHANGED <<lists, task_queue_tail>> /\ fault' # "null_dereference"
        /\ \A d \in Clients : carg'[d] = carg[d] \/ carg'[d].op # "add" \/ carg'[d].level = L
    BY <1>4, <1>t, <1>i DEF WorkerWaits, WorkerLeaves, WorkerExits, vars, qvars, pool, workers, clients,
       TailInv, TypeOK
  <2>2. QED
    BY <2>1, TailFrame
<1>5. ASSUME NEW w \in Threads, WorkerRuns(w)
      PROVE  TailInv(L)'
  <2>1. /\ UNCHANGED <<lists, task_queue_tail>> /\ fault' # "null_dereference"
        /\ \A d \in Clients : carg'[d] = carg[d] \/ carg'[d].op # "add" \/ carg'[d].level = L
    BY <1>5, <1>t, <1>i DEF WorkerRuns, vars, qvars, pool, workers, clients, TailInv, TypeOK
  <2>2. QED
    BY <2>1, TailFrame
<1>6. ASSUME NEW w \in Threads, WorkerScales(w)
      PROVE  TailInv(L)'
  <2>1. /\ UNCHANGED <<lists, task_queue_tail>> /\ fault' # "null_dereference"
        /\ \A d \in Clients : carg'[d] = carg[d] \/ carg'[d].op # "add" \/ carg'[d].level = L
    BY <1>6, <1>t, <1>i DEF WorkerScales, vars, qvars, pool, workers, clients, TailInv, TypeOK
  <2>2. QED
    BY <2>1, TailFrame
<1>7. ASSUME NEW w \in Threads, WorkerResizes(w)
      PROVE  TailInv(L)'
  <2>1. /\ UNCHANGED <<lists, task_queue_tail>> /\ fault' # "null_dereference"
        /\ \A d \in Clients : carg'[d] = carg[d] \/ carg'[d].op # "add" \/ carg'[d].level = L
    BY <1>7, <1>t, <1>i DEF WorkerResizes, vars, qvars, pool, workers, clients, TailInv, TypeOK
  <2>2. QED
    BY <2>1, TailFrame
<1>8. ASSUME NEW c \in Clients, NEW t \in Tasks, NEW l \in UsedLevels, CallAdd(c, t, l)
      PROVE  TailInv(L)'
  <2>1. /\ UNCHANGED <<lists, task_queue_tail>> /\ fault' # "null_dereference"
        /\ \A d \in Clients : carg'[d] = carg[d] \/ carg'[d].op # "add" \/ carg'[d].level = L
    BY <1>8, <1>t, <1>i DEF CallAdd, Goes, Idle, vars, qvars, pool, workers, clients, TailInv, TypeOK
  <2>2. QED
    BY <2>1, TailFrame
<1>9. ASSUME NEW c \in Clients, NEW t \in Tasks, CallUrgent(c, t)
      PROVE  TailInv(L)'
  <2>1. /\ UNCHANGED <<lists, task_queue_tail>> /\ fault' # "null_dereference"
        /\ \A d \in Clients : carg'[d] = carg[d] \/ carg'[d].op # "add" \/ carg'[d].level = L
    BY <1>9, <1>t, <1>i DEF CallUrgent, Goes, Idle, vars, qvars, pool, workers, clients, TailInv, TypeOK
  <2>2. QED
    BY <2>1, TailFrame
<1>10. ASSUME NEW c \in Clients, NEW op \in {"wait", "timedwait"}, CallWait(c, op)
      PROVE  TailInv(L)'
  <2>1. /\ UNCHANGED <<lists, task_queue_tail>> /\ fault' # "null_dereference"
        /\ \A d \in Clients : carg'[d] = carg[d] \/ carg'[d].op # "add" \/ carg'[d].level = L
    BY <1>10, <1>t, <1>i DEF CallWait, Goes, Idle, vars, qvars, pool, workers, clients, TailInv, TypeOK
  <2>2. QED
    BY <2>1, TailFrame
<1>11. ASSUME NEW c \in Clients, NEW n \in Threads, CallResize(c, n)
      PROVE  TailInv(L)'
  <2>1. /\ UNCHANGED <<lists, task_queue_tail>> /\ fault' # "null_dereference"
        /\ \A d \in Clients : carg'[d] = carg[d] \/ carg'[d].op # "add" \/ carg'[d].level = L
    BY <1>11, <1>t, <1>i DEF CallResize, Goes, Idle, vars, qvars, pool, workers, clients, TailInv, TypeOK
  <2>2. QED
    BY <2>1, TailFrame
<1>12. ASSUME NEW c \in Clients, Pause(c) \/ Resume(c)
      PROVE  TailInv(L)'
  <2>1. /\ UNCHANGED <<lists, task_queue_tail>> /\ fault' # "null_dereference"
        /\ \A d \in Clients : carg'[d] = carg[d] \/ carg'[d].op # "add" \/ carg'[d].level = L
    BY <1>12, <1>t, <1>i DEF Pause, Resume, vars, qvars, pool, workers, clients, TailInv, TypeOK
  <2>2. QED
    BY <2>1, TailFrame
<1>13. ASSUME NEW c \in Clients, AddFails(c)
      PROVE  TailInv(L)'
  <2>1. /\ UNCHANGED <<lists, task_queue_tail>> /\ fault' # "null_dereference"
        /\ \A d \in Clients : carg'[d] = carg[d] \/ carg'[d].op # "add" \/ carg'[d].level = L
    BY <1>13, <1>t, <1>i DEF AddFails, Returns, vars, qvars, pool, workers, clients, TailInv, TypeOK
  <2>2. QED
    BY <2>1, TailFrame
<1>14. ASSUME NEW c \in Clients, WaitSleeps(c) \/ WaitReturns(c) \/ WaitTimesOut(c)
      PROVE  TailInv(L)'
  <2>1. /\ UNCHANGED <<lists, task_queue_tail>> /\ fault' # "null_dereference"
        /\ \A d \in Clients : carg'[d] = carg[d] \/ carg'[d].op # "add" \/ carg'[d].level = L
    BY <1>14, <1>t, <1>i DEF WaitSleeps, WaitReturns, WaitTimesOut, Returns, vars, qvars, pool, workers,
       clients, TailInv, TypeOK
  <2>2. QED
    BY <2>1, TailFrame
<1>15. ASSUME NEW c \in Clients, Resize(c)
      PROVE  TailInv(L)'
  <2>1. /\ UNCHANGED <<lists, task_queue_tail>> /\ fault' # "null_dereference"
        /\ \A d \in Clients : carg'[d] = carg[d] \/ carg'[d].op # "add" \/ carg'[d].level = L
    BY <1>15, <1>t, <1>i DEF Resize, Returns, vars, qvars, pool, workers, clients, TailInv, TypeOK
  <2>2. QED
    BY <2>1, TailFrame
<1>16. ASSUME NEW c \in Clients, UseAfterFree(c)
      PROVE  TailInv(L)'
  <2>1. /\ UNCHANGED <<lists, task_queue_tail>> /\ fault' # "null_dereference"
        /\ \A d \in Clients : carg'[d] = carg[d] \/ carg'[d].op # "add" \/ carg'[d].level = L
    BY <1>16, <1>t, <1>i DEF UseAfterFree, vars, qvars, pool, workers, clients, TailInv, TypeOK
  <2>2. QED
    BY <2>1, TailFrame
<1>17. ASSUME NEW wait \in DestroyModes, DestroyBegins(wait)
      PROVE  TailInv(L)'
  <2>1. /\ UNCHANGED <<lists, task_queue_tail>> /\ fault' # "null_dereference"
        /\ \A d \in Clients : carg'[d] = carg[d] \/ carg'[d].op # "add" \/ carg'[d].level = L
    BY <1>17, <1>t, <1>i DEF DestroyBegins, vars, qvars, pool, workers, clients, TailInv, TypeOK
  <2>2. QED
    BY <2>1, TailFrame
<1>18. ASSUME DestroyChecks \/ DestroyJoins
      PROVE  TailInv(L)'
  <2>1. /\ UNCHANGED <<lists, task_queue_tail>> /\ fault' # "null_dereference"
        /\ \A d \in Clients : carg'[d] = carg[d] \/ carg'[d].op # "add" \/ carg'[d].level = L
    BY <1>18, <1>t, <1>i DEF DestroyChecks, DestroyJoins, vars, qvars, pool, workers, clients, TailInv, TypeOK
  <2>2. QED
    BY <2>1, TailFrame
<1>19. ASSUME DestroyFrees
      PROVE  TailInv(L)'
  BY <1>19 DEF DestroyFrees, UnlinkAll, vars, qvars, pool, workers, clients, TailInv, TailIsLast
<1>20. ASSUME SpuriousWakeup
      PROVE  TailInv(L)'
  <2>1. /\ UNCHANGED <<lists, task_queue_tail>> /\ fault' # "null_dereference"
        /\ \A d \in Clients : carg'[d] = carg[d] \/ carg'[d].op # "add" \/ carg'[d].level = L
    BY <1>20, <1>t, <1>i DEF SpuriousWakeup, vars, qvars, pool, workers, clients, TailInv, TypeOK
  <2>2. QED
    BY <2>1, TailFrame
<1>21. CASE UNCHANGED vars
  BY <1>21, TailFrame DEF vars, qvars, pool, workers, clients, TailInv
<1>99. QED
  BY <1>1, <1>2, <1>3, <1>4, <1>5, <1>6, <1>7, <1>8, <1>9, <1>10, <1>11, <1>12, <1>13, <1>14, <1>15, <1>16,
     <1>17, <1>18, <1>19, <1>20, <1>21
     DEF Next, WorkerStep, ClientCall, ClientStep, DestroyStep

(* As long as threadpool_add_task is called with one priority level, as the *)
(* server does, urgent tasks aside, it never dereferences a NULL tail.      *)
THEOREM OneLevelIsSafe ==
    ASSUME NEW L \in Levels, UsedLevels = {L}
    PROVE  Spec => []NoNullTail
<1>1. Init => TailInv(L)
  BY DEF Init, QInit, TailInv, TailIsLast, Idle
<1>2. BaseInv /\ OwnerInv /\ TailInv(L) /\ [Next]_vars => TailInv(L)'
  BY TailNext
<1>3. TailInv(L) => NoNullTail
  BY DEF TailInv, NoNullTail
<1>4. QED
  BY BaseInit, BaseNext, OwnerInit, OwnerNext, <1>1, <1>2, <1>3, PTL DEF Spec

-----------------------------------------------------------------------------
(* No task beside a sleeping worker.  The workers that sleep on queue_not_empty. *)
Waiting == {w \in Threads : wpc[w] = "waiting"}

(* The sets that are counted are finite. *)
LEMMA HeadingFinite == IsFiniteSet(Heading) /\ Cardinality(Heading) \in Nat /\ IsFiniteSet(Threads)
<1>1. MaxThreads \in Int /\ 1 \in Int
  BY PoolAssumption
<1>2. IsFiniteSet(Threads)
  BY <1>1, FS_Interval DEF Threads
<1>3. Heading \subseteq Threads
  BY DEF Heading
<1>4. QED
  BY <1>2, <1>3, FS_Subset, FS_CardinalityType

(* A subset has no more elements, *)
LEMMA MoreHeading ==
    ASSUME NEW S, IsFiniteSet(S), NEW T, T \subseteq S
    PROVE  IsFiniteSet(T) /\ Cardinality(T) \in Nat /\ Cardinality(S) \in Nat /\ Cardinality(T) <= Cardinality(S)
  BY FS_Subset, FS_CardinalityType

(* and one less if it lacks an element. *)
LEMMA OneMoreHeading ==
    ASSUME NEW S, IsFiniteSet(S), NEW T, T \subseteq S, NEW x \in S, x \notin T
    PROVE  Cardinality(T) + 1 <= Cardinality(S)
<1>1. IsFiniteSet(T) /\ Cardinality(T) \in Nat
  BY MoreHeading
<1>2. Cardinality(T \cup {x}) = Cardinality(T) + 1
  BY <1>1, FS_AddElement
<1>3. T \cup {x} \subseteq S
  OBVIOUS
<1>4. Cardinality(T \cup {x}) <= Cardinality(S)
  BY <1>3, MoreHeading
<1>5. QED
  BY <1>2, <1>4

(* A step that adds no task, lets no worker fall asleep and turns none away
   from the queues strands nothing. *)
LEMMA NothingNewStranded ==
    ASSUME NoTaskStranded, BaseInv, queue_length' \in Nat, queue_length' <= queue_length, Heading \subseteq Heading',
           Waiting' \subseteq Waiting, fault' = fault
    PROVE  NoTaskStranded'
<1> SUFFICES ASSUME fault' = "none", NEW v \in Threads, wpc'[v] = "waiting"
             PROVE  queue_length' <= Cardinality(Heading')
  BY DEF NoTaskStranded
<1>1. queue_length <= Cardinality(Heading)
  BY DEF NoTaskStranded, Waiting
<1>2. IsFiniteSet(Heading')
  <2>1. Heading' \subseteq Threads
    BY DEF Heading, Threads
  <2>2. QED
    BY <2>1, HeadingFinite, FS_Subset
<1>3. /\ Cardinality(Heading) \in Nat /\ Cardinality(Heading') \in Nat
      /\ Cardinality(Heading) <= Cardinality(Heading')
  BY <1>2, MoreHeading
<1>4. queue_length \in Nat
  BY DEF BaseInv, TypeOK
<1>5. QED
  BY <1>1, <1>3, <1>4

(* Nothing linked, nothing stranded. *)
LEMMA EmptyStrandsNothing == ASSUME queue_length' = 0 PROVE NoTaskStranded'
<1>1. IsFiniteSet(Heading')
  <2>1. Heading' \subseteq Threads
    BY DEF Heading, Threads
  <2>2. QED
    BY <2>1, HeadingFinite, FS_Subset
<1>2. Cardinality(Heading') \in Nat
  BY <1>1, FS_CardinalityType
<1>3. QED
  BY <1>2 DEF NoTaskStranded

(* queue_length is zero when a worker finds the lists empty. *)
LEMMA AllEmptyIsZero == ASSUME BaseInv, fault = "none", AllEmpty PROVE queue_length = 0
<1>1. lists["high"] = <<>> /\ lists["normal"] = <<>> /\ lists["low"] = <<>>
  BY DEF AllEmpty, Levels
<1>2. Len(<<>>) = 0
  OBVIOUS
<1>3. queue_length = Len(lists["high"]) + Len(lists["normal"]) + Len(lists["low"])
  BY DEF BaseInv, QueueLengthExact
<1>4. QED
  BY <1>1, <1>2, <1>3

(* A task more and a signal: one more worker is on its way, or none sleeps. *)
LEMMA SignalWakesOne ==
    ASSUME BaseInv, NoTaskStranded, queue_length' \in {queue_length, queue_length + 1}, fault' = fault,
           wpc' \in SignalWorker(wpc)
    PROVE  NoTaskStranded'
<1>0. wpc \in [Threads -> WorkerPlaces] /\ queue_length \in Nat
  BY DEF BaseInv, TypeOK
<1>1. CASE Waiting = {}
  <2>1. wpc' = wpc
    BY <1>1 DEF SignalWorker, Waiting
  <2>2. QED
    BY <1>1, <2>1 DEF NoTaskStranded, Waiting
<1>2. CASE Waiting # {}
  <2>1. PICK v \in Waiting : wpc' = [wpc EXCEPT ![v] = "woken"]
    BY <1>2 DEF SignalWorker, Waiting
  <2>2. Heading \subseteq Heading' /\ v \in Heading' /\ v \notin Heading /\ Waiting' \subseteq Waiting
    BY <1>0, <2>1 DEF Heading, Waiting
  <2>3. SUFFICES ASSUME fault' = "none", NEW x \in Threads, wpc'[x] = "waiting"
                 PROVE  queue_length' <= Cardinality(Heading')
    BY DEF NoTaskStranded
  <2>4. queue_length <= Cardinality(Heading)
    BY <2>1, <2>3 DEF NoTaskStranded, Waiting
  <2>5. IsFiniteSet(Heading')
    <3>1. Heading' \subseteq Threads
      BY DEF Heading, Threads
    <3>2. QED
      BY <3>1, HeadingFinite, FS_Subset
  <2>6. Cardinality(Heading) + 1 <= Cardinality(Heading') /\ Cardinality(Heading) \in Nat /\ Cardinality(Heading') \in Nat
    BY <2>2, <2>5, OneMoreHeading, FS_CardinalityType, HeadingFinite
  <2>7. QED
    BY <1>0, <2>4, <2>6
<1>3. QED
  BY <1>1, <1>2

(* Every step keeps it: workers fall asleep and leave only when nothing is
   linked, and a task is taken by one that was on its way. *)
LEMMA StrandedNext == BaseInv /\ NoTaskStranded /\ [Next]_vars => NoTaskStranded'
<1> SUFFICES ASSUME BaseInv, NoTaskStranded, [Next]_vars PROVE NoTaskStranded'
  OBVIOUS
<1>0. wpc \in [Threads -> WorkerPlaces] /\ queue_length \in Nat
  BY DEF BaseInv, TypeOK
<1>q. QType
  BY DEF BaseInv, TypeOK, QType
<1>1. ASSUME NEW w \in Threads, WorkerWaits(w) \/ WorkerLeaves(w) PROVE NoTaskStranded'
  <2>1. queue_length' = 0
    BY <1>1, AllEmptyIsZero DEF WorkerWaits, WorkerLeaves, AtQueue, ok
  <2>2. QED
    BY <2>1, EmptyStrandsNothing
<1>2. ASSUME NEW w \in Threads, WorkerTakes(w) PROVE NoTaskStranded'
  <2>1. /\ wpc[w] \in {"lock", "woken"} /\ wpc' = [wpc EXCEPT ![w] = "run"] /\ UnlinkNext
        /\ queue_length' = queue_length - 1 /\ fault = "none"
    BY <1>2 DEF WorkerTakes, AtQueue, ok
  <2>2. fault' = "none" /\ queue_length \in Nat \ {0}
    BY <1>0, <1>q, <2>1, UnlinkEffect DEF BaseInv, QueueLengthExact, Linked
  <2>3. Heading' = Heading \ {w} /\ w \in Heading
    BY <1>0, <2>1 DEF Heading
  <2>4. Waiting' = Waiting
    BY <1>0, <2>1 DEF Waiting
  <2>5. Cardinality(Heading') = Cardinality(Heading) - 1 /\ Cardinality(Heading) \in Nat
    BY <2>3, HeadingFinite, FS_RemoveElement
  <2>6. QED
    BY <2>1, <2>2, <2>4, <2>5 DEF NoTaskStranded, Waiting
<1>3. ASSUME NEW w \in Threads, WorkerRuns(w) \/ WorkerExits(w) \/ WorkerScales(w) PROVE NoTaskStranded'
  <2>1. /\ UNCHANGED <<queue_length, fault>>
        /\ \E p : wpc' = [wpc EXCEPT ![w] = p] /\ p \in {"lock", "scale", "exited", "resize"}
        /\ wpc[w] \notin {"lock", "woken", "waiting"}
    BY <1>3 DEF WorkerRuns, WorkerExits, WorkerScales, qvars, pool
  <2>2. Heading \subseteq Heading' /\ Waiting' \subseteq Waiting
    BY <1>0, <2>1 DEF Heading, Waiting
  <2>3. QED
    BY <1>0, <2>1, <2>2, NothingNewStranded
<1>4. ASSUME NEW n, NEW f \in [Threads -> WorkerPlaces], ResizeTo(n, f), UNCHANGED <<queue_length, fault>>,
             \A w \in Threads : /\ wpc[w] \in {"lock", "woken"} => f[w] \in {"lock", "woken"}
                                /\ f[w] = "waiting" => wpc[w] = "waiting"
      PROVE  NoTaskStranded'
  <2>1. Heading \subseteq Heading' /\ Waiting' \subseteq Waiting
    BY <1>4 DEF ResizeTo, WakeAllWorkers, Heading, Waiting
  <2>2. QED
    BY <1>0, <1>4, <2>1, NothingNewStranded
<1>5. ASSUME NEW w \in Threads, WorkerResizes(w) PROVE NoTaskStranded'
  <2>1. [wpc EXCEPT ![w] = "lock"] \in [Threads -> WorkerPlaces]
    BY <1>0 DEF WorkerPlaces
  <2>2. ResizeTo(wtarget[w], [wpc EXCEPT ![w] = "lock"]) /\ UNCHANGED <<queue_length, fault>>
    BY <1>5 DEF WorkerResizes, qvars
  <2>3. \A v \in Threads : /\ wpc[v] \in {"lock", "woken"} => [wpc EXCEPT ![w] = "lock"][v] \in {"lock", "woken"}
                           /\ [wpc EXCEPT ![w] = "lock"][v] = "waiting" => wpc[v] = "waiting"
    BY <1>0
  <2>4. QED
    BY <1>4, <2>1, <2>2, <2>3
<1>6. ASSUME NEW c \in Clients, Resize(c) PROVE NoTaskStranded'
  <2>1. ResizeTo(carg[c].n, wpc) /\ UNCHANGED <<queue_length, fault>>
    BY <1>6 DEF Resize, qvars
  <2>2. QED
    BY <1>0, <1>4, <2>1
<1>7. ASSUME NEW c \in Clients, AddTask(c) \/ AddUrgentTask(c) \/ Resume(c) PROVE NoTaskStranded'
  <2>1. queue_length' \in {queue_length, queue_length + 1} /\ wpc' \in SignalWorker(wpc)
    BY <1>7 DEF AddTask, AddUrgentTask, Resume, Accepted
  <2>2. CASE fault' = fault
    BY <2>1, <2>2, SignalWakesOne
  <2>3. CASE fault' # fault
    <3>1. fault' = "null_dereference"
      BY <1>7, <2>3 DEF AddTask, AddUrgentTask, Resume, Link, LinkFirst, LinkAfterTail, LinkAfterNull,
         LinkUrgent, qvars
    <3>2. QED
      BY <3>1 DEF NoTaskStranded
  <2>4. QED
    BY <2>2, <2>3
<1>8. ASSUME UNCHANGED <<wpc, queue_length, fault>> PROVE NoTaskStranded'
  BY <1>8 DEF NoTaskStranded, Heading
<1>9. ASSUME NEW c \in Clients, ClientCall(c), ~Resume(c) PROVE NoTaskStranded'
  BY <1>8, <1>9 DEF ClientCall, CallAdd, CallUrgent, CallWait, CallResize, Goes, Pause, qvars, pool, workers
<1>10. ASSUME NEW c \in Clients, AddFails(c) \/ WaitSleeps(c) \/ WaitReturns(c) \/ WaitTimesOut(c) PROVE NoTaskStranded'
  BY <1>8, <1>10 DEF AddFails, WaitSleeps, WaitReturns, WaitTimesOut, qvars, pool, workers
<1>11. ASSUME NEW c \in Clients, UseAfterFree(c) PROVE NoTaskStranded'
  BY <1>11 DEF UseAfterFree, NoTaskStranded
<1>12. ASSUME NEW wait, DestroyBegins(wait) PROVE NoTaskStranded'
  <2>1. Waiting' = {}
    BY <1>12 DEF DestroyBegins, WakeAllWorkers, Waiting
  <2>2. QED
    BY <2>1 DEF NoTaskStranded, Waiting
<1>13. CASE DestroyChecks \/ DestroyJoins
  BY <1>8, <1>13 DEF DestroyChecks, DestroyJoins, qvars, pool, workers
<1>14. CASE DestroyFrees
  BY <1>14, EmptyStrandsNothing DEF DestroyFrees
<1>15. CASE SpuriousWakeup
  <2>1. UNCHANGED <<queue_length, fault>>
    BY <1>15 DEF SpuriousWakeup, qvars, pool
  <2>2. CASE UNCHANGED wpc
    BY <1>8, <2>1, <2>2
  <2>3. ASSUME NEW w \in Threads, wpc[w] = "waiting", wpc' = [wpc EXCEPT ![w] = "woken"] PROVE NoTaskStranded'
    <3>1. Heading \subseteq Heading' /\ Waiting' \subseteq Waiting
      BY <1>0, <2>3 DEF Heading, Waiting
    <3>2. QED
      BY <1>0, <2>1, <3>1, NothingNewStranded
  <2>4. QED
    BY <1>15, <2>2, <2>3 DEF SpuriousWakeup
<1>16. CASE UNCHANGED vars
  BY <1>8, <1>16 DEF vars, qvars, pool, workers
<1>17. QED
  BY <1>1, <1>2, <1>3, <1>5, <1>6, <1>7, <1>9, <1>10, <1>11, <1>12, <1>13, <1>14, <1>15, <1>16
     DEF Next, WorkerStep, ClientStep, DestroyStep

(* While a worker sleeps, as many are on their way to the queues as tasks are
   linked, so that no signal is lost although submissions, urgent ones, resume,
   resize and destruction all wake workers in their own way (threadpool.c,
   worker_thread_function and the callers of pthread_cond_signal on
   queue_not_empty), for any number of tasks, clients and threads. *)
THEOREM NothingStranded == Spec => []NoTaskStranded
<1>1. Init => NoTaskStranded
  BY DEF Init, NoTaskStranded
<1>2. QED
  BY <1>1, BaseInit, BaseNext, StrandedNext, PTL DEF Spec
=============================================================================
