------------------------ MODULE MessageQueue_proofs ------------------------
(***************************************************************************)
(* Proofs about MessageQueue for every number of threads, messages and     *)
(* slots.                                                                  *)
(***************************************************************************)
EXTENDS MessageQueue, FiniteSetTheorems, TLAPS

(* How far an index that ran past the end of the ring wraps. *)
LEMMA Wrap ==
    /\ \A x \in Index : x % Capacity = x
    /\ \A x \in Capacity..(2 * Capacity - 1) : x % Capacity = x - Capacity
    /\ \A x \in Nat : x % Capacity \in Index
  BY CapacityAssumption DEF Index

(* The inductive invariant: TypeOK alone is not inductive, because a store *)
(* writes arg[p] and a pop changes the owner of what it finds in a slot.   *)
IInv == TypeOK /\ RingInv /\ OwnershipInv /\ CallInv

(* What a signal may do to pc. *)
LEMMA SignalType ==
    ASSUME NEW S \in SUBSET Threads,
           NEW f \in [Threads -> {"idle", "ready", "waiting"}],
           NEW g \in Signal(S, f)
    PROVE  /\ g \in [Threads -> {"idle", "ready", "waiting"}]
           /\ \A t \in Threads : g[t] = f[t] \/ (t \in S /\ f[t] = "waiting" /\ g[t] = "ready")
  BY DEF Signal

(* Two positions of the ring are different slots. *)
LEMMA SlotsDiffer ==
    \A h \in Index : \A i, j \in Index :
      (h + i) % Capacity = (h + j) % Capacity => i = j
  BY CapacityAssumption, Wrap DEF Index

(* Dropping the oldest message shifts every position by one. *)
LEMMA Shift ==
    \A h \in Index : \A i \in Index :
      (((h + 1) % Capacity) + i) % Capacity = (h + i + 1) % Capacity
  BY CapacityAssumption, Wrap DEF Index

(* Moving one end of the occupied stretch keeps tail where it ends. *)
LEMMA EndMoves ==
    \A h \in Index : \A n \in 0..Capacity :
      /\ (((h + n) % Capacity) + 1) % Capacity = (h + (n + 1)) % Capacity
      /\ n > 0 => (((h + 1) % Capacity) + (n - 1)) % Capacity = (h + n) % Capacity
<1> SUFFICES ASSUME NEW h \in Index, NEW n \in 0..Capacity
             PROVE  /\ (((h + n) % Capacity) + 1) % Capacity = (h + (n + 1)) % Capacity
                    /\ n > 0 => (((h + 1) % Capacity) + (n - 1)) % Capacity = (h + n) % Capacity
  OBVIOUS
<1>1. CASE h + n < Capacity
  BY <1>1, CapacityAssumption, Wrap DEF Index
<1>2. CASE h + n >= Capacity
  BY <1>2, CapacityAssumption, Wrap DEF Index
<1> QED BY <1>1, <1>2, CapacityAssumption DEF Index

(* An index stays in the ring. *)
LEMMA SlotType == \A h \in Index : \A n \in 0..Capacity :
    (h + n) % Capacity \in Index /\ (h + 1) % Capacity \in Index
  BY CapacityAssumption, Wrap DEF Index

(* A queue that message_queue_create has just built satisfies the inductive
   invariant. *)
LEMMA InitIInv == Init => IInv
  BY CapacityAssumption, MessagesAssumption, Wrap
     DEF Init, IInv, TypeOK, RingInv, OwnershipInv, CallInv, Contents, Index, Threads

(* A store appends to what the ring stands for. *)
LEMMA StoreContents ==
    ASSUME NEW p \in Producers, IInv, PushStores(p)
    PROVE  /\ \A i \in 1..count : Contents'[i] = Contents[i]
           /\ Contents'[count + 1] = arg[p]
           /\ count' = count + 1
<1> USE CapacityAssumption
<1>a. count \in Index /\ arg[p] \in Messages
  BY DEF PushStores, IInv, TypeOK, CallInv, Index
<1>0. head \in Nat /\ count \in Nat /\ count' = count + 1
      /\ \A i \in 1..count : i - 1 \in Index /\ head + i - 1 = head + (i - 1) /\ i - 1 # count
  BY <1>a DEF PushStores, IInv, TypeOK, Index
<1>1. \A i \in 1..count : (head + i - 1) % Capacity \in Index \ {tail}
  <2> SUFFICES ASSUME NEW i \in 1..count
               PROVE (head + (i - 1)) % Capacity \in Index \ {tail}
    BY <1>0
  <2>1. (head + (i - 1)) % Capacity \in Index
    BY <1>0, Wrap DEF Index
  <2>2. (head + (i - 1)) % Capacity # (head + count) % Capacity
    BY <1>a, <1>0, SlotsDiffer DEF IInv, TypeOK
  <2> QED BY <2>1, <2>2 DEF IInv, RingInv
<1>2. head + (count + 1) - 1 = head + count
  BY <1>0
<1>3. /\ \A x \in Index \ {tail} : messages'[x] = messages[x]
      /\ messages'[tail] = arg[p]
  BY DEF PushStores, IInv, TypeOK
<1>4. /\ \A i \in 1..(count + 1) : Contents'[i] = messages'[(head + i - 1) % Capacity]
      /\ \A i \in 1..count : Contents[i] = messages[(head + i - 1) % Capacity]
  BY DEF PushStores, Contents
<1>5. \A i \in 1..count : Contents'[i] = Contents[i]
  <2>1. \A i \in 1..count : i \in 1..(count + 1)
    BY <1>0
  <2> QED BY <1>1, <1>3, <1>4, <2>1
<1>6. Contents'[count + 1] = messages'[(head + (count + 1) - 1) % Capacity]
  <2>1. count + 1 \in 1..(count + 1)
    BY <1>0
  <2> QED BY <1>4, <2>1
<1>7. messages'[(head + (count + 1) - 1) % Capacity] = messages'[tail]
  BY <1>2 DEF IInv, RingInv
<1> QED BY <1>0, <1>3, <1>5, <1>6, <1>7

(* A pop drops the oldest message of what the ring stands for. *)
LEMMA TakeContents ==
    ASSUME NEW c \in Consumers, IInv, PopTakes(c)
    PROVE  \A i \in 1..(count - 1) : Contents'[i] = Contents[i + 1]
<1> USE CapacityAssumption
<1>a. count \in 1..Capacity /\ count' = count - 1 /\ head' \in Index
  BY SlotType DEF PopTakes, IInv, TypeOK, Index
<1>1. \A i \in 1..(count - 1) :
        (((head + 1) % Capacity) + (i - 1)) % Capacity = (head + (i - 1) + 1) % Capacity
  <2>1. \A i \in 1..(count - 1) : i - 1 \in Index
    BY <1>a DEF Index
  <2> QED BY <2>1, Shift DEF IInv, TypeOK
<1>2. head \in Int /\ head' \in Int /\ count \in Int
  BY <1>a DEF IInv, TypeOK, Index
<1>3. \A i \in 1..(count - 1) : head' + i - 1 = ((head + 1) % Capacity) + (i - 1)
                                /\ head + (i + 1) - 1 = head + (i - 1) + 1
  BY <1>2 DEF PopTakes
<1>4. /\ \A i \in 1..(count - 1) : Contents'[i] = messages[(head' + i - 1) % Capacity]
      /\ \A i \in 1..count : Contents[i] = messages[(head + i - 1) % Capacity]
  BY <1>a DEF PopTakes, Contents
<1>5. \A i \in 1..(count - 1) : i + 1 \in 1..count
  BY <1>a
<1> QED BY <1>1, <1>3, <1>4, <1>5

(* Every step of push, pop, clear and the timeouts preserves the inductive
   invariant. *)
LEMMA NextIInv == IInv /\ [Next]_vars => IInv'
<1> SUFFICES ASSUME IInv, [Next]_vars PROVE IInv'
  OBVIOUS
<1> USE CapacityAssumption, MessagesAssumption
<1>0. Producers \subseteq Threads /\ Consumers \subseteq Threads
  BY DEF Threads
<1>1. ASSUME NEW p \in Producers, NEW m \in Messages, NEW t \in BOOLEAN, CallPush(p, m, t)
      PROVE  IInv'
  <2>1. TypeOK'
    BY <1>0, <1>1 DEF CallPush, ring, IInv, TypeOK
  <2>2. Contents' = Contents /\ RingInv'
    BY <1>1 DEF CallPush, ring, IInv, RingInv, Contents
  <2>3. OwnershipInv'
    BY <1>1, <2>2 DEF CallPush, ring, IInv, OwnershipInv, TypeOK
  <2>4. CallInv'
    BY <1>0, <1>1, ThreadsAssumption DEF CallPush, IInv, CallInv, TypeOK
  <2> QED BY <2>1, <2>2, <2>3, <2>4 DEF IInv
<1>2. ASSUME NEW p \in Producers, PushWaits(p)
      PROVE  IInv'
  BY <1>0, <1>2 DEF PushWaits, ring, IInv, TypeOK, RingInv, OwnershipInv, Contents, CallInv
<1>3. ASSUME NEW p \in Producers, PushStores(p)
      PROVE  IInv'
  <2> DEFINE f == [pc EXCEPT ![p] = "idle"]
  <2>0. /\ count \in Index /\ arg[p] \in Messages /\ owner[arg[p]] = "call"
        /\ f \in [Threads -> {"idle", "ready", "waiting"}]
        /\ pc' \in Signal(Consumers, f)
    BY <1>0, <1>3 DEF PushStores, IInv, TypeOK, CallInv, Index
  <2>1. /\ pc' \in [Threads -> {"idle", "ready", "waiting"}]
        /\ \A q \in Producers : pc'[q] = f[q]
        /\ pc'[p] = "idle"
    <3>1. Consumers \in SUBSET Threads /\ p \in Threads /\ f[p] = "idle"
      BY <1>0 DEF IInv, TypeOK
    <3>2. /\ pc' \in [Threads -> {"idle", "ready", "waiting"}]
          /\ \A t \in Threads : pc'[t] = f[t] \/ (t \in Consumers /\ f[t] = "waiting" /\ pc'[t] = "ready")
      <4> HIDE DEF f
      <4> QED BY <2>0, <3>1, SignalType
    <3> QED BY <1>0, <3>1, <3>2, ThreadsAssumption
  <2>2. TypeOK'
    <3>1. tail' \in Index /\ count' \in 0..Capacity
      BY <1>3, <2>0, SlotType DEF PushStores, IInv, TypeOK, Index
    <3> QED BY <1>3, <2>0, <2>1, <3>1 DEF PushStores, IInv, TypeOK
  <2>3. RingInv'
    BY <1>3, EndMoves DEF PushStores, IInv, TypeOK, RingInv
  <2>4. /\ \A i \in 1..count : Contents'[i] = Contents[i]
        /\ Contents'[count + 1] = arg[p]
        /\ count' = count + 1
    BY <1>3, StoreContents
  <2>5. OwnershipInv'
    <3>1. \A i \in 1..count : Contents[i] # arg[p]
      BY <2>0 DEF IInv, OwnershipInv
    <3>2. /\ 1..count' = (1..count) \cup {count + 1}
          /\ count + 1 \notin 1..count
      BY <2>4 DEF IInv, TypeOK
    <3>3. \A m \in Messages : owner'[m] = IF m = arg[p] THEN "queue" ELSE owner[m]
      BY <1>3, <2>0 DEF PushStores, IInv, TypeOK
    <3>4. \A i \in 1..count' : Contents'[i] \in Messages /\ owner'[Contents'[i]] = "queue"
      BY <2>0, <2>4, <3>1, <3>2, <3>3 DEF IInv, OwnershipInv
    <3>5. \A i, j \in 1..count' : Contents'[i] = Contents'[j] => i = j
      BY <2>0, <2>4, <3>1, <3>2 DEF IInv, OwnershipInv
    <3>6. \A m \in Messages : owner'[m] = "queue" => \E i \in 1..count' : Contents'[i] = m
      BY <2>0, <2>4, <3>1, <3>2, <3>3 DEF IInv, OwnershipInv
    <3> QED BY <3>4, <3>5, <3>6 DEF OwnershipInv
  <2>6. CallInv'
    <3>1. \A q \in Producers : arg'[q] = IF q = p THEN NULL ELSE arg[q]
      BY <1>3 DEF PushStores, IInv, TypeOK
    <3>2. \A m \in Messages : owner'[m] = IF m = arg[p] THEN "queue" ELSE owner[m]
      BY <1>3, <2>0 DEF PushStores, IInv, TypeOK
    <3>3. \A q \in Producers : q # p => pc'[q] = pc[q]
      BY <1>0, <2>1 DEF IInv, TypeOK
    <3> QED BY <1>3, <2>0, <2>1, <3>1, <3>2, <3>3 DEF CallInv, IInv
  <2> QED BY <2>2, <2>3, <2>5, <2>6 DEF IInv
<1>4. ASSUME NEW p \in Producers, PushTimesOut(p)
      PROVE  IInv'
  <2>0. arg[p] \in Messages /\ owner[arg[p]] = "call"
    BY <1>4 DEF PushTimesOut, IInv, CallInv
  <2>1. TypeOK'
    BY <1>0, <1>4 DEF PushTimesOut, ring, IInv, TypeOK
  <2>2. Contents' = Contents /\ RingInv'
    BY <1>4 DEF PushTimesOut, ring, IInv, RingInv, Contents
  <2>3. OwnershipInv'
    BY <1>4, <2>0, <2>2 DEF PushTimesOut, ring, IInv, OwnershipInv, TypeOK
  <2>4. CallInv'
    BY <1>0, <1>4, <2>0 DEF PushTimesOut, IInv, CallInv, TypeOK
  <2> QED BY <2>1, <2>2, <2>3, <2>4 DEF IInv
<1>5. ASSUME NEW c \in Consumers, NEW t \in BOOLEAN, CallPop(c, t)
      PROVE  IInv'
  <2>1. TypeOK' /\ RingInv' /\ OwnershipInv'
    BY <1>0, <1>5 DEF CallPop, ring, IInv, TypeOK, RingInv, OwnershipInv, Contents
  <2>2. \A q \in Producers : pc'[q] = pc[q]
    BY <1>0, <1>5, ThreadsAssumption DEF CallPop, IInv, TypeOK
  <2> QED BY <1>5, <2>1, <2>2 DEF CallPop, IInv, CallInv
<1>6. ASSUME NEW c \in Consumers, PopWaits(c) \/ PopTimesOut(c)
      PROVE  IInv'
  <2>0. TypeOK'
    BY <1>0, <1>6 DEF PopWaits, PopTimesOut, ring, IInv, TypeOK
  <2>1. TypeOK' /\ RingInv' /\ OwnershipInv'
    BY <1>6, <2>0 DEF PopWaits, PopTimesOut, ring, IInv, RingInv, OwnershipInv, Contents
  <2>2. \A q \in Producers : pc'[q] = pc[q]
    BY <1>0, <1>6, ThreadsAssumption DEF PopWaits, PopTimesOut, IInv, TypeOK
  <2> QED BY <1>6, <2>1, <2>2 DEF PopWaits, PopTimesOut, IInv, CallInv
<1>7. ASSUME NEW c \in Consumers, PopTakes(c)
      PROVE  IInv'
  <2> DEFINE f == [pc EXCEPT ![c] = "idle"]
             m0 == messages[head]
  <2>0. /\ count \in 1..Capacity /\ count' = count - 1
        /\ f \in [Threads -> {"idle", "ready", "waiting"}]
        /\ pc' \in Signal(Producers, f)
    BY <1>0, <1>7 DEF PopTakes, IInv, TypeOK, Index
  <2>1. /\ pc' \in [Threads -> {"idle", "ready", "waiting"}]
        /\ \A q \in Producers : pc'[q] = pc[q] \/ (pc[q] = "waiting" /\ pc'[q] = "ready")
    <3>1. Producers \in SUBSET Threads /\ \A q \in Producers : q \in Threads /\ f[q] = pc[q]
      BY <1>0, ThreadsAssumption DEF IInv, TypeOK
    <3>2. /\ pc' \in [Threads -> {"idle", "ready", "waiting"}]
          /\ \A t \in Threads : pc'[t] = f[t] \/ (t \in Producers /\ f[t] = "waiting" /\ pc'[t] = "ready")
      <4> HIDE DEF f
      <4> QED BY <2>0, <3>1, SignalType
    <3> QED BY <3>1, <3>2
  <2>2. Contents[1] = m0 /\ m0 \in Messages /\ owner[m0] = "queue"
    <3>0. 1 \in 1..count /\ head + 1 - 1 = head
      BY <2>0 DEF IInv, TypeOK, Index
    <3>1. 1 \in 1..count /\ head + 1 - 1 = head /\ head % Capacity = head
      BY <3>0, Wrap DEF IInv, TypeOK
    <3>2. Contents[1] = m0
      BY <3>1 DEF Contents
    <3> QED BY <3>1, <3>2 DEF IInv, OwnershipInv
  <2>3. TypeOK'
    <3>1. head' \in Index /\ count' \in 0..Capacity
      BY <1>7, <2>0, SlotType DEF PopTakes, IInv, TypeOK, Index
    <3> QED BY <1>7, <2>1, <2>2, <3>1 DEF PopTakes, IInv, TypeOK
  <2>4. RingInv'
    BY <1>7, <2>0, EndMoves DEF PopTakes, IInv, TypeOK, RingInv
  <2>5. \A i \in 1..(count - 1) : Contents'[i] = Contents[i + 1]
    BY <1>7, TakeContents
  <2>6. OwnershipInv'
    <3>1. \A i \in 1..(count - 1) : i + 1 \in 1..count /\ Contents[i + 1] # m0
      BY <2>0, <2>2 DEF IInv, OwnershipInv
    <3>2. \A m \in Messages : owner'[m] = IF m = m0 THEN "popped" ELSE owner[m]
      BY <1>7, <2>2 DEF PopTakes, IInv, TypeOK
    <3>3. \A i \in 1..count' : Contents'[i] \in Messages /\ owner'[Contents'[i]] = "queue"
      BY <2>0, <2>5, <3>1, <3>2 DEF IInv, OwnershipInv
    <3>4. \A i, j \in 1..count' : Contents'[i] = Contents'[j] => i = j
      BY <2>0, <2>5, <3>1 DEF IInv, OwnershipInv
    <3>5. ASSUME NEW m \in Messages, owner'[m] = "queue"
          PROVE  \E i \in 1..count' : Contents'[i] = m
      <4>1. PICK i \in 1..count : Contents[i] = m
        BY <3>2, <3>5 DEF IInv, OwnershipInv
      <4>2. i # 1
        BY <2>2, <3>2, <3>5, <4>1
      <4>3. i - 1 \in 1..(count - 1) /\ Contents'[i - 1] = Contents[(i - 1) + 1]
        BY <2>0, <2>5, <4>2
      <4> QED BY <2>0, <4>1, <4>3
    <3> QED BY <3>3, <3>4, <3>5 DEF OwnershipInv
  <2>7. CallInv'
    BY <1>7, <2>1, <2>2 DEF PopTakes, IInv, CallInv, TypeOK
  <2> QED BY <2>3, <2>4, <2>6, <2>7 DEF IInv
<1>8. ASSUME NEW t \in Threads, SpuriousWakeup(t)
      PROVE  IInv'
  BY <1>0, <1>8 DEF SpuriousWakeup, ring, IInv, TypeOK, RingInv, OwnershipInv, Contents, CallInv
<1>9. ASSUME ClearRing, UNCHANGED <<pc, timed, arg>>, alive' \in BOOLEAN
      PROVE  IInv'
  <2>1. TypeOK'
    BY <1>9 DEF ClearRing, IInv, TypeOK, Index
  <2>2. RingInv'
    BY <1>9, Wrap DEF ClearRing, RingInv, Index
  <2>3. \A m \in Messages : owner'[m] = IF owner[m] = "queue" THEN "freed" ELSE owner[m]
    <3>1. \A i \in 0..(count - 1) : i + 1 \in 1..count /\ Contents[i + 1] = messages[(head + i) % Capacity]
      BY DEF Contents, IInv, TypeOK, Index
    <3>2. \A m \in Messages : (\E i \in Occupied : messages[i] = m) => owner[m] = "queue"
      BY <3>1 DEF Occupied, IInv, OwnershipInv
    <3>3. \A i \in 1..count : i - 1 \in 0..(count - 1) /\ Contents[i] = messages[(head + (i - 1)) % Capacity]
      BY DEF Contents, IInv, TypeOK, Index
    <3>4. \A m \in Messages : owner[m] = "queue" => \E i \in Occupied : messages[i] = m
      BY <3>3 DEF Occupied, IInv, OwnershipInv
    <3> QED BY <1>9, <3>2, <3>4 DEF ClearRing
  <2>4. OwnershipInv'
    BY <1>9, <2>3 DEF ClearRing, OwnershipInv, Contents, IInv, TypeOK
  <2>5. CallInv'
    BY <1>9, <2>3 DEF IInv, CallInv, TypeOK
  <2> QED BY <2>1, <2>2, <2>4, <2>5 DEF IInv
<1>10. ASSUME NEW k \in Clearers, Clear(k) \/ Destroy(k)
       PROVE  IInv'
  BY <1>9, <1>10 DEF Clear, Destroy, IInv, TypeOK
<1>11. ASSUME NEW m \in Messages, Reallocate(m)
       PROVE  IInv'
  <2>1. TypeOK' /\ RingInv' /\ Contents' = Contents
    BY <1>11 DEF Reallocate, ring, IInv, TypeOK, RingInv, Contents
  <2>2. OwnershipInv'
    BY <1>11, <2>1 DEF Reallocate, ring, IInv, OwnershipInv, TypeOK
  <2>3. CallInv'
    BY <1>11 DEF Reallocate, IInv, CallInv, TypeOK
  <2> QED BY <2>1, <2>2, <2>3 DEF IInv
<1>12. CASE UNCHANGED vars
  BY <1>12 DEF vars, IInv, TypeOK, RingInv, OwnershipInv, Contents, CallInv
<1> QED
  BY <1>1, <1>2, <1>3, <1>4, <1>5, <1>6, <1>7, <1>8, <1>10, <1>11, <1>12 DEF Next

(* The ring and its messages are consistent in every reachable state:      *)
(* indices in range, the occupied stretch ends at tail, every message has  *)
(* exactly one owner (push, pop, clear, destroy of connection.c).          *)
THEOREM RingConsistent == Spec => [](TypeOK /\ RingInv /\ OwnershipInv)
<1>1. IInv => TypeOK /\ RingInv /\ OwnershipInv
  BY DEF IInv
<1> QED BY <1>1, InitIInv, NextIInv, PTL DEF Spec

-----------------------------------------------------------------------------
(* Lost wakeups *)

(* What a signal does to the two sets that NoLostWakeup counts. *)
LEMMA SignalSets ==
    ASSUME NEW S \in SUBSET Threads,
           NEW f \in [Threads -> {"idle", "ready", "waiting"}],
           NEW g \in Signal(S, f)
    PROVE  \/ {t \in S : g[t] = "waiting"} = {} /\ {t \in S : f[t] = "waiting"} = {}
           \/ \E t \in S : /\ f[t] = "waiting"
                           /\ {u \in S : g[u] = "ready"} = {u \in S : f[u] = "ready"} \cup {t}
  BY DEF Signal

(* Counting with one thread more or less. *)
LEMMA CountOneMore ==
    ASSUME NEW S, IsFiniteSet(S), NEW t
    PROVE  /\ IsFiniteSet(S \cup {t}) /\ Cardinality(S) \in Nat
           /\ Cardinality(S \cup {t}) \in Nat
           /\ Cardinality(S \cup {t}) >= Cardinality(S)
           /\ t \notin S => Cardinality(S \cup {t}) = Cardinality(S) + 1
           /\ t \in S => Cardinality(S \ {t}) = Cardinality(S) - 1
  BY FS_AddElement, FS_RemoveElement, FS_CardinalityType

(* The number of threads on their way never falls when none leaves. *)
LEMMA CountMonotone ==
    ASSUME NEW T, IsFiniteSet(T), NEW A \in SUBSET T, NEW B \in SUBSET T, A \subseteq B
    PROVE  Cardinality(A) \in Nat /\ Cardinality(B) \in Nat /\ Cardinality(A) <= Cardinality(B)
  BY FS_Subset, FS_CardinalityType

(* One half of NoLostWakeup, for threads S that can use n slots. *)
Covered(S, n) == Waiting(S) # {} => n <= Cardinality(Ready(S))

(* One step of any thread, with nobody clearing the queue. *)
LEMMA NextNoLostWakeup ==
    ASSUME Clearers = {}, IInv, IInv', NoLostWakeup, [Next]_vars
    PROVE  NoLostWakeup'
<1> DEFINE PC == {"idle", "ready", "waiting"}
<1>0. /\ Producers \in SUBSET Threads /\ Consumers \in SUBSET Threads
      /\ Producers \cap Consumers = {}
      /\ IsFiniteSet(Producers) /\ IsFiniteSet(Consumers)
      /\ count \in 0..Capacity /\ count' \in 0..Capacity /\ Capacity \in Nat
      /\ pc \in [Threads -> PC]
      /\ pc' \in [Threads -> PC]
  BY CapacityAssumption, ThreadsAssumption DEF IInv, TypeOK, Threads
<1>1. /\ Ready(Producers) \in SUBSET Producers /\ Ready(Producers)' \in SUBSET Producers
      /\ Ready(Consumers) \in SUBSET Consumers /\ Ready(Consumers)' \in SUBSET Consumers
  BY DEF Ready
<1>2. /\ IsFiniteSet(Ready(Producers)) /\ IsFiniteSet(Ready(Producers)')
      /\ IsFiniteSet(Ready(Consumers)) /\ IsFiniteSet(Ready(Consumers)')
      /\ Cardinality(Ready(Producers)) \in Nat /\ Cardinality(Ready(Producers)') \in Nat
      /\ Cardinality(Ready(Consumers)) \in Nat /\ Cardinality(Ready(Consumers)') \in Nat
  BY <1>0, <1>1, FS_Subset, FS_CardinalityType
(* A step that only lets threads of S arrive or stop sleeping. *)
<1>3. ASSUME NEW S \in SUBSET Threads, IsFiniteSet(S), NEW n \in Nat, Covered(S, n),
             Waiting(S)' \subseteq Waiting(S), Ready(S) \subseteq Ready(S)'
      PROVE  Covered(S, n)'
  <2>1. Ready(S) \in SUBSET S /\ Ready(S)' \in SUBSET S
    BY DEF Ready
  <2>2. /\ Cardinality(Ready(S)) \in Nat /\ Cardinality(Ready(S)') \in Nat
        /\ Cardinality(Ready(S)) <= Cardinality(Ready(S)')
    BY <1>3, <2>1, CountMonotone
  <2> QED BY <1>3, <2>2 DEF Covered
<1>4. /\ Covered(Producers, Capacity - count) /\ Covered(Consumers, count)
      /\ Capacity - count \in Nat /\ count \in Nat
  BY <1>0 DEF NoLostWakeup, Covered
<1>5. ASSUME count' = count,
             Waiting(Producers)' \subseteq Waiting(Producers), Ready(Producers) \subseteq Ready(Producers)',
             Waiting(Consumers)' \subseteq Waiting(Consumers), Ready(Consumers) \subseteq Ready(Consumers)'
      PROVE  NoLostWakeup'
  <2>1. Covered(Producers, Capacity - count)' /\ Covered(Consumers, count)'
    BY <1>0, <1>3, <1>4, <1>5 DEF Covered
  <2> QED BY <1>5, <2>1 DEF NoLostWakeup, Covered
<1>6. ASSUME NEW p \in Producers, NEW m \in Messages, NEW t \in BOOLEAN, CallPush(p, m, t)
      PROVE  NoLostWakeup'
  BY <1>0, <1>5, <1>6 DEF CallPush, ring, Waiting, Ready
<1>7. ASSUME NEW c \in Consumers, NEW t \in BOOLEAN, CallPop(c, t)
      PROVE  NoLostWakeup'
  BY <1>0, <1>5, <1>7 DEF CallPop, ring, Waiting, Ready
<1>8. ASSUME NEW t \in Threads, SpuriousWakeup(t)
      PROVE  NoLostWakeup'
  BY <1>0, <1>5, <1>8 DEF SpuriousWakeup, ring, Waiting, Ready
<1>9. ASSUME NEW p \in Producers, PushTimesOut(p)
      PROVE  NoLostWakeup'
  BY <1>0, <1>5, <1>9 DEF PushTimesOut, ring, Waiting, Ready
<1>10. ASSUME NEW c \in Consumers, PopTimesOut(c)
       PROVE  NoLostWakeup'
  BY <1>0, <1>5, <1>10 DEF PopTimesOut, ring, Waiting, Ready
<1>11. ASSUME NEW p \in Producers, PushWaits(p)
       PROVE  NoLostWakeup'
  <2>1. Waiting(Consumers)' = Waiting(Consumers) /\ Ready(Consumers)' = Ready(Consumers)
    BY <1>0, <1>11 DEF PushWaits, Waiting, Ready
  <2>2. count' = count /\ Capacity - count' <= 0
    BY <1>0, <1>11 DEF PushWaits, ring
  <2> QED BY <1>0, <1>2, <2>1, <2>2 DEF NoLostWakeup
<1>12. ASSUME NEW c \in Consumers, PopWaits(c)
       PROVE  NoLostWakeup'
  <2>1. Waiting(Producers)' = Waiting(Producers) /\ Ready(Producers)' = Ready(Producers)
    BY <1>0, <1>12 DEF PopWaits, Waiting, Ready
  <2>2. count' = count /\ count' <= 0
    BY <1>0, <1>12 DEF PopWaits, ring
  <2> QED BY <1>0, <1>2, <2>1, <2>2 DEF NoLostWakeup
<1>13. ASSUME NEW p \in Producers, PushStores(p)
       PROVE  NoLostWakeup'
  <2> DEFINE f == [pc EXCEPT ![p] = "idle"]
  <2>1. /\ f \in [Threads -> PC] /\ pc' \in Signal(Consumers, f) /\ count' = count + 1
        /\ \A q \in Producers : f[q] = IF q = p THEN "idle" ELSE pc[q]
        /\ \A c \in Consumers : f[c] = pc[c]
        /\ pc[p] = "ready"
    BY <1>0, <1>13 DEF PushStores
  <2> HIDE DEF f
  <2>2. \A q \in Producers : pc'[q] = f[q]
    BY <1>0, <2>1, SignalType
  <2>3. Waiting(Producers)' = Waiting(Producers) /\ Ready(Producers)' = Ready(Producers) \ {p}
        /\ p \in Ready(Producers)
    BY <2>1, <2>2 DEF Waiting, Ready
  <2>4. Cardinality(Ready(Producers)') = Cardinality(Ready(Producers)) - 1
    BY <1>2, <2>3, CountOneMore
  <2>5. \/ {t \in Consumers : pc'[t] = "waiting"} = {}
        \/ \E t \in Consumers : /\ f[t] = "waiting"
                                /\ {u \in Consumers : pc'[u] = "ready"} = {u \in Consumers : f[u] = "ready"} \cup {t}
    BY <1>0, <2>1, SignalSets
  <2>6. CASE Waiting(Consumers)' = {}
    BY <1>0, <1>2, <2>1, <2>3, <2>4, <2>6 DEF NoLostWakeup
  <2>7. ASSUME NEW t \in Consumers, t \notin Ready(Consumers),
               Ready(Consumers)' = Ready(Consumers) \cup {t}, Waiting(Consumers) # {}
        PROVE  NoLostWakeup'
    <3>1. Cardinality(Ready(Consumers)') = Cardinality(Ready(Consumers)) + 1
      BY <1>2, <2>7, CountOneMore
    <3> QED BY <1>0, <1>2, <2>1, <2>3, <2>4, <2>7, <3>1 DEF NoLostWakeup
  <2> QED BY <2>1, <2>5, <2>6, <2>7 DEF Waiting, Ready
<1>14. ASSUME NEW c \in Consumers, PopTakes(c)
       PROVE  NoLostWakeup'
  <2> DEFINE f == [pc EXCEPT ![c] = "idle"]
  <2>1. /\ f \in [Threads -> PC] /\ pc' \in Signal(Producers, f) /\ count' = count - 1
        /\ \A q \in Consumers : f[q] = IF q = c THEN "idle" ELSE pc[q]
        /\ \A p \in Producers : f[p] = pc[p]
        /\ pc[c] = "ready"
    BY <1>0, <1>14 DEF PopTakes
  <2> HIDE DEF f
  <2>2. \A q \in Consumers : pc'[q] = f[q]
    BY <1>0, <2>1, SignalType
  <2>3. Waiting(Consumers)' = Waiting(Consumers) /\ Ready(Consumers)' = Ready(Consumers) \ {c}
        /\ c \in Ready(Consumers)
    BY <2>1, <2>2 DEF Waiting, Ready
  <2>4. Cardinality(Ready(Consumers)') = Cardinality(Ready(Consumers)) - 1
    BY <1>2, <2>3, CountOneMore
  <2>5. \/ {t \in Producers : pc'[t] = "waiting"} = {}
        \/ \E t \in Producers : /\ f[t] = "waiting"
                                /\ {u \in Producers : pc'[u] = "ready"} = {u \in Producers : f[u] = "ready"} \cup {t}
    BY <1>0, <2>1, SignalSets
  <2>6. CASE Waiting(Producers)' = {}
    BY <1>0, <1>2, <2>1, <2>3, <2>4, <2>6 DEF NoLostWakeup
  <2>7. ASSUME NEW t \in Producers, t \notin Ready(Producers),
               Ready(Producers)' = Ready(Producers) \cup {t}, Waiting(Producers) # {}
        PROVE  NoLostWakeup'
    <3>1. Cardinality(Ready(Producers)') = Cardinality(Ready(Producers)) + 1
      BY <1>2, <2>7, CountOneMore
    <3> QED BY <1>0, <1>2, <2>1, <2>3, <2>4, <2>7, <3>1 DEF NoLostWakeup
  <2> QED BY <2>1, <2>5, <2>6, <2>7 DEF Waiting, Ready
<1>15. ASSUME UNCHANGED pc, count' = count
       PROVE  NoLostWakeup'
  BY <1>15 DEF NoLostWakeup, Waiting, Ready
<1>16. ASSUME NEW m \in Messages, Reallocate(m)
       PROVE  NoLostWakeup'
  BY <1>15, <1>16 DEF Reallocate, ring
<1>17. CASE UNCHANGED vars
  BY <1>15, <1>17 DEF vars
<1> QED
  BY <1>6, <1>7, <1>8, <1>9, <1>10, <1>11, <1>12, <1>13, <1>14, <1>16, <1>17 DEF Next

(* As long as nobody clears the queue, no wakeup is lost, whatever the     *)
(* number of threads, messages and slots (the signals of message_queue_push*)
(* and message_queue_pop).                                                 *)
THEOREM WakeupsAreNotLost == Clearers = {} /\ Spec => []NoLostWakeup
<1>1. Init => NoLostWakeup
  BY DEF Init, NoLostWakeup, Waiting, Threads
<1>2. Clearers = {} /\ IInv /\ IInv' /\ NoLostWakeup /\ [Next]_vars => NoLostWakeup'
  BY NextNoLostWakeup
<1>3. CASE Clearers = {}
  BY <1>1, <1>2, <1>3, InitIInv, NextIInv, PTL DEF Spec
<1>4. CASE Clearers # {}
  BY <1>4
<1> QED BY <1>3, <1>4

(* Producers and consumers never all sleep at once.                        *)
THEOREM SomeoneIsAwake == Clearers = {} /\ Spec => []NotAllAsleep
<1>1. IInv /\ NoLostWakeup => NotAllAsleep
  <2> SUFFICES ASSUME IInv, NoLostWakeup, Producers # {}, Consumers # {},
                      Waiting(Threads) = Threads
               PROVE  FALSE
    BY DEF NotAllAsleep
  <2>1. /\ Waiting(Producers) # {} /\ Waiting(Consumers) # {}
        /\ Ready(Producers) = {} /\ Ready(Consumers) = {}
    BY DEF Waiting, Ready, Threads
  <2>2. Cardinality({}) = 0
    BY FS_EmptySet
  <2> QED BY <2>1, <2>2, CapacityAssumption DEF NoLostWakeup, IInv, TypeOK
<1>2. CASE Clearers = {}
  BY <1>1, <1>2, WakeupsAreNotLost, InitIInv, NextIInv, PTL DEF Spec
<1>3. CASE Clearers # {}
  BY <1>3
<1> QED BY <1>2, <1>3

-----------------------------------------------------------------------------
(* Refinement *)

(* The cells from head on, read round the ring, are a sequence of count
   messages: what the refinement shows as the abstract queue. *)
LEMMA ContentsSeq == IInv => Contents \in Seq(Messages) /\ Len(Contents) = count
<1> SUFFICES ASSUME IInv PROVE Contents \in Seq(Messages) /\ Len(Contents) = count
  OBVIOUS
<1>1. Contents \in [1..count -> Messages] /\ count \in Nat
  BY DEF IInv, TypeOK, OwnershipInv, Contents
<1> QED BY <1>1

(* The ring implements the bounded FIFO queue: every push that stores is   *)
(* an Enqueue, every pop that takes is a Dequeue, clear and destroy are a  *)
(* Clear, and every other step leaves the abstract queue alone.            *)
THEOREM Refinement == Spec => ImplementsFifo
<1>1. Init => Fifo!Init
  BY DEF Init, Fifo!Init, Contents
<1>2. ASSUME IInv, IInv', [Next]_vars PROVE [Fifo!Next]_Contents
  <2>0. /\ Contents \in Seq(Messages) /\ Len(Contents) = count
        /\ Contents' \in Seq(Messages) /\ Len(Contents') = count'
        /\ count \in 0..Capacity
    <3>1. (Contents \in Seq(Messages) /\ Len(Contents) = count)'
      BY <1>2, ContentsSeq, PTL
    <3> QED BY <1>2, <3>1, ContentsSeq DEF IInv, TypeOK
  <2>1. ASSUME UNCHANGED ring PROVE Contents' = Contents
    BY <2>1 DEF ring, Contents
  <2>2. ASSUME NEW p \in Producers, PushStores(p) PROVE Fifo!Next
    <3>1. /\ arg[p] \in Messages /\ count < Capacity
      BY <1>2, <2>2 DEF PushStores, IInv, CallInv
    <3>2. /\ \A i \in 1..count : Contents'[i] = Contents[i]
          /\ Contents'[count + 1] = arg[p]
          /\ count' = count + 1
      BY <1>2, <2>2, StoreContents
    <3>3. Contents' = Append(Contents, arg[p])
      BY <2>0, <3>1, <3>2
    <3> QED BY <2>0, <3>1, <3>3 DEF Fifo!Next, Fifo!Enqueue
  <2>3. ASSUME NEW c \in Consumers, PopTakes(c) PROVE Fifo!Next
    <3>1. count > 0 /\ count' = count - 1
      BY <2>0, <2>3 DEF PopTakes
    <3>2. \A i \in 1..(count - 1) : Contents'[i] = Contents[i + 1]
      BY <1>2, <2>3, TakeContents
    <3>3. Contents' = Tail(Contents) /\ Contents # <<>>
      BY <2>0, <3>1, <3>2
    <3> QED BY <3>3 DEF Fifo!Next, Fifo!Dequeue
  <2>4. ASSUME ClearRing PROVE Fifo!Next
    <3>1. Contents' = <<>>
      BY <2>0, <2>4 DEF ClearRing
    <3> QED BY <3>1 DEF Fifo!Next, Fifo!Clear
  <2>5. CASE UNCHANGED vars
    BY <2>1, <2>5 DEF vars, ring
  <2> QED
    BY <1>2, <2>1, <2>2, <2>3, <2>4, <2>5
       DEF Next, CallPush, PushWaits, PushTimesOut, CallPop, PopWaits, PopTimesOut,
           SpuriousWakeup, Clear, Destroy, Reallocate
<1> QED
  BY <1>1, <1>2, InitIInv, NextIInv, PTL DEF Spec, ImplementsFifo, Fifo!Spec
=============================================================================
