---------------------------- MODULE MessageQueue ----------------------------
(***************************************************************************)
(* The bounded message queue of server/src/connection.c: a ring buffer     *)
(* behind one mutex and two condition variables, not_empty (consumers      *)
(* sleep on it) and not_full (producers sleep on it).                      *)
(*                                                                         *)
(* Every stretch of code between taking the mutex and releasing it (by     *)
(* unlocking or by sleeping on a condition variable) is one action, so     *)
(* the mutex is not a variable.  A thread is "ready" from its call, or     *)
(* from being woken, until it gets the mutex; it is "waiting" while it     *)
(* sleeps.  Producers sleep only on not_full and consumers only on         *)
(* not_empty, so the two wait sets are read off pc.                        *)
(***************************************************************************)
EXTENDS Integers, Sequences, FiniteSets

CONSTANTS Producers,  \* threads that call message_queue_push
          Consumers,  \* threads that call message_queue_pop
          Clearers,   \* threads that call message_queue_clear and _destroy
          Messages,   \* the heap objects that travel through the queue
          Capacity,   \* the argument of message_queue_create
          NULL

ASSUME CapacityAssumption == Capacity \in Nat \ {0}
ASSUME ThreadsAssumption ==
    /\ IsFiniteSet(Producers) /\ IsFiniteSet(Consumers)
    /\ Producers \cap Consumers = {}
ASSUME MessagesAssumption == NULL \notin Messages

VARIABLES messages,  \* the ring: index |-> message
          head, tail, count,
          alive,     \* FALSE once message_queue_destroy has freed the queue
          pc,        \* "idle", "ready" or "waiting", per thread
          timed,     \* did the thread pass timeout_ms > 0
          arg,       \* the message a producer is pushing
          owner      \* who may touch a message: "app", "call", "queue",
                     \* "popped", or nobody ("freed")

ring == <<messages, head, tail, count>>
vars == <<messages, head, tail, count, alive, pc, timed, arg, owner>>

Threads == Producers \cup Consumers
Index == 0..(Capacity - 1)

Waiting(S) == {t \in S : pc[t] = "waiting"}
Ready(S) == {t \in S : pc[t] = "ready"}

(* The messages inside, oldest first: what the ring stands for. *)
Contents == [i \in 1..count |-> messages[(head + i - 1) % Capacity]]

(* message_queue_create: an empty ring of zeroed slots. *)
Init ==
    /\ messages = [i \in Index |-> NULL]
    /\ head = 0 /\ tail = 0 /\ count = 0
    /\ alive = TRUE
    /\ pc = [t \in Threads |-> "idle"]
    /\ timed = [t \in Threads |-> FALSE]
    /\ arg = [p \in Producers |-> NULL]
    /\ owner = [m \in Messages |-> "app"]

(* pthread_cond_signal for the threads of S sleeping in state f: one of    *)
(* them, if any, has to compete for the mutex again.                       *)
Signal(S, f) ==
    IF \E t \in S : f[t] = "waiting"
    THEN {[f EXCEPT ![t] = "ready"] : t \in {u \in S : f[u] = "waiting"}}
    ELSE {f}

-----------------------------------------------------------------------------
(* message_queue_push(queue, message, timeout_ms) *)

CallPush(p, m, t) ==
    /\ alive /\ pc[p] = "idle" /\ owner[m] = "app"
    /\ pc' = [pc EXCEPT ![p] = "ready"]
    /\ timed' = [timed EXCEPT ![p] = t]
    /\ arg' = [arg EXCEPT ![p] = m]
    /\ owner' = [owner EXCEPT ![m] = "call"]
    /\ UNCHANGED <<ring, alive>>

(* The test of the wait loop fails: sleep on not_full. *)
PushWaits(p) ==
    /\ alive /\ pc[p] = "ready" /\ count >= Capacity
    /\ pc' = [pc EXCEPT ![p] = "waiting"]
    /\ UNCHANGED <<ring, alive, timed, arg, owner>>

(* Variants the mutation checks substitute: the bound tested one too late, *)
(* and a store that wakes nobody.                                          *)
PushStoresPastBound(p) ==
    /\ alive /\ pc[p] = "ready" /\ count <= Capacity
    /\ messages' = [messages EXCEPT ![tail] = arg[p]]
    /\ tail' = (tail + 1) % Capacity
    /\ count' = count + 1
    /\ owner' = [owner EXCEPT ![arg[p]] = "queue"]
    /\ arg' = [arg EXCEPT ![p] = NULL]
    /\ pc' \in Signal(Consumers, [pc EXCEPT ![p] = "idle"])
    /\ UNCHANGED <<head, alive, timed>>

PushStoresSilently(p) ==
    /\ alive /\ pc[p] = "ready" /\ count < Capacity
    /\ messages' = [messages EXCEPT ![tail] = arg[p]]
    /\ tail' = (tail + 1) % Capacity
    /\ count' = count + 1
    /\ owner' = [owner EXCEPT ![arg[p]] = "queue"]
    /\ arg' = [arg EXCEPT ![p] = NULL]
    /\ pc' = [pc EXCEPT ![p] = "idle"]
    /\ UNCHANGED <<head, alive, timed>>

PushStores(p) ==
    /\ alive /\ pc[p] = "ready" /\ count < Capacity
    /\ messages' = [messages EXCEPT ![tail] = arg[p]]
    /\ tail' = (tail + 1) % Capacity
    /\ count' = count + 1
    /\ owner' = [owner EXCEPT ![arg[p]] = "queue"]
    /\ arg' = [arg EXCEPT ![p] = NULL]
    /\ pc' \in Signal(Consumers, [pc EXCEPT ![p] = "idle"])
    /\ UNCHANGED <<head, alive, timed>>

(* pthread_cond_timedwait gives up: the caller keeps its message. *)
PushTimesOut(p) ==
    /\ alive /\ pc[p] = "waiting" /\ timed[p]
    /\ pc' = [pc EXCEPT ![p] = "idle"]
    /\ owner' = [owner EXCEPT ![arg[p]] = "app"]
    /\ arg' = [arg EXCEPT ![p] = NULL]
    /\ UNCHANGED <<ring, alive, timed>>

-----------------------------------------------------------------------------
(* message_queue_pop(queue, timeout_ms) *)

CallPop(c, t) ==
    /\ alive /\ pc[c] = "idle"
    /\ pc' = [pc EXCEPT ![c] = "ready"]
    /\ timed' = [timed EXCEPT ![c] = t]
    /\ UNCHANGED <<ring, alive, arg, owner>>

PopWaits(c) ==
    /\ alive /\ pc[c] = "ready" /\ count = 0
    /\ pc' = [pc EXCEPT ![c] = "waiting"]
    /\ UNCHANGED <<ring, alive, timed, arg, owner>>

(* Mutation variants: a pop that wakes no producer, and one that does not  *)
(* move on to the next slot.                                               *)
PopTakesSilently(c) ==
    /\ alive /\ pc[c] = "ready" /\ count # 0
    /\ owner' = [owner EXCEPT ![messages[head]] = "popped"]
    /\ head' = (head + 1) % Capacity
    /\ count' = count - 1
    /\ pc' = [pc EXCEPT ![c] = "idle"]
    /\ UNCHANGED <<messages, tail, alive, timed, arg>>

PopTakesInPlace(c) ==
    /\ alive /\ pc[c] = "ready" /\ count # 0
    /\ owner' = [owner EXCEPT ![messages[head]] = "popped"]
    /\ count' = count - 1
    /\ pc' \in Signal(Producers, [pc EXCEPT ![c] = "idle"])
    /\ UNCHANGED <<messages, head, tail, alive, timed, arg>>

(* The slot keeps its stale pointer. *)
PopTakes(c) ==
    /\ alive /\ pc[c] = "ready" /\ count # 0
    /\ owner' = [owner EXCEPT ![messages[head]] = "popped"]
    /\ head' = (head + 1) % Capacity
    /\ count' = count - 1
    /\ pc' \in Signal(Producers, [pc EXCEPT ![c] = "idle"])
    /\ UNCHANGED <<messages, tail, alive, timed, arg>>

PopTimesOut(c) ==
    /\ alive /\ pc[c] = "waiting" /\ timed[c]
    /\ pc' = [pc EXCEPT ![c] = "idle"]
    /\ UNCHANGED <<ring, alive, timed, arg, owner>>

(* POSIX lets a condition variable wake a sleeper for no reason. *)
SpuriousWakeup(t) ==
    /\ alive /\ pc[t] = "waiting"
    /\ pc' = [pc EXCEPT ![t] = "ready"]
    /\ UNCHANGED <<ring, alive, timed, arg, owner>>

-----------------------------------------------------------------------------
(* The slots message_queue_clear walks over. *)
Occupied == {(head + i) % Capacity : i \in 0..(count - 1)}

(* message_queue_clear: free what is inside and reset the ring.  No one is *)
(* signalled.                                                              *)
ClearRing ==
    /\ owner' = [m \in Messages |->
                   IF \E i \in Occupied : messages[i] = m THEN "freed" ELSE owner[m]]
    /\ messages' = [i \in Index |-> IF i \in Occupied THEN NULL ELSE messages[i]]
    /\ count' = 0 /\ head' = 0 /\ tail' = 0

Clear(k) ==
    /\ alive
    /\ ClearRing
    /\ UNCHANGED <<alive, pc, timed, arg>>

(* message_queue_destroy, called once the threads that used the queue have *)
(* been joined (server_core.c, cleanup of the components).                 *)
Destroy(k) ==
    /\ alive /\ \A t \in Threads : pc[t] = "idle"
    /\ ClearRing
    /\ alive' = FALSE
    /\ UNCHANGED <<pc, timed, arg>>

(* The application frees a message it popped, and malloc may hand the same *)
(* address out again.                                                      *)
Reallocate(m) ==
    /\ alive /\ owner[m] \in {"popped", "freed"}
    /\ owner' = [owner EXCEPT ![m] = "app"]
    /\ UNCHANGED <<ring, alive, pc, timed, arg>>

-----------------------------------------------------------------------------
Push(p) == PushWaits(p) \/ PushStores(p)
Pop(c) == PopWaits(c) \/ PopTakes(c)

Next ==
    \/ \E p \in Producers :
         \/ \E m \in Messages, t \in BOOLEAN : CallPush(p, m, t)
         \/ PushWaits(p)
         \/ PushStores(p)
         \/ PushTimesOut(p)
    \/ \E c \in Consumers :
         \/ \E t \in BOOLEAN : CallPop(c, t)
         \/ PopWaits(c)
         \/ PopTakes(c)
         \/ PopTimesOut(c)
    \/ \E t \in Threads : SpuriousWakeup(t)
    \/ \E k \in Clearers : Clear(k) \/ Destroy(k)
    \/ \E m \in Messages : Reallocate(m)

Spec == Init /\ [][Next]_vars

(* A thread that competes for the mutex gets it in the end, and consumers  *)
(* keep calling pop.  Nothing is assumed of producers' calls, of timeouts  *)
(* or of which sleeper a signal picks.                                     *)
Fairness ==
    /\ \A p \in Producers : WF_vars(Push(p))
    /\ \A c \in Consumers : WF_vars(Pop(c)) /\ WF_vars(\E t \in BOOLEAN : CallPop(c, t))

FairSpec == Spec /\ Fairness

-----------------------------------------------------------------------------
TypeOK ==
    /\ messages \in [Index -> Messages \cup {NULL}]
    /\ head \in Index /\ tail \in Index /\ count \in 0..Capacity
    /\ alive \in BOOLEAN
    /\ pc \in [Threads -> {"idle", "ready", "waiting"}]
    /\ timed \in [Threads -> BOOLEAN]
    /\ arg \in [Producers -> Messages \cup {NULL}]
    /\ owner \in [Messages -> {"app", "call", "queue", "popped", "freed"}]

(* The producer's index is where the occupied stretch ends: push never     *)
(* overwrites a message that is still inside (connection.c:1384-1386).     *)
RingInv == tail = (head + count) % Capacity

(* The queue owns exactly the messages of its occupied stretch, each in    *)
(* one slot: no stale slot is taken for a message, and a message pushed    *)
(* once comes out once (push, pop and clear of connection.c together).     *)
OwnershipInv ==
    /\ \A i \in 1..count : Contents[i] \in Messages /\ owner[Contents[i]] = "queue"
    /\ \A i, j \in 1..count : Contents[i] = Contents[j] => i = j
    /\ \A m \in Messages : owner[m] = "queue" => \E i \in 1..count : Contents[i] = m

(* A call in progress holds its message: what PushStores relies on when it *)
(* reads arg after having slept.                                           *)
CallInv ==
    /\ \A p \in Producers :
         IF pc[p] = "idle" THEN arg[p] = NULL
         ELSE arg[p] \in Messages /\ owner[arg[p]] = "call"
    /\ \A p, q \in Producers : (arg[p] = arg[q] /\ arg[p] # NULL) => p = q

(* No lost wakeup: while a thread sleeps, every slot (message) it could    *)
(* use is already spoken for by a thread on its way to the mutex.  This is *)
(* what the two signals at connection.c:1389 and 1429 are for.             *)
NoLostWakeup ==
    /\ Waiting(Producers) # {} => Capacity - count <= Cardinality(Ready(Producers))
    /\ Waiting(Consumers) # {} => count <= Cardinality(Ready(Consumers))

(* Never is every thread asleep: producers and consumers cannot end up     *)
(* waiting for each other through the two condition variables.             *)
NotAllAsleep ==
    Producers # {} /\ Consumers # {} => Waiting(Threads) # Threads

(* Every message that gets into the queue leaves it, as long as consumers  *)
(* keep calling pop: no wakeup is lost on the way.                         *)
EveryMessageLeaves == \A m \in Messages : owner[m] = "queue" ~> owner[m] # "queue"

(* The ring, the mutex and the condition variables implement the bounded   *)
(* FIFO queue of FifoQueue.                                                *)
Fifo == INSTANCE FifoQueue WITH queue <- Contents
ImplementsFifo == Fifo!Spec
=============================================================================
