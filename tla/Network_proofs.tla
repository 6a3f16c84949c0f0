--------------------------- MODULE Network_proofs ---------------------------
(***************************************************************************)
(* Proofs about the connection pool, the WebSocket server and monitoring,  *)
(* each for its own specification and for every value of its constants.    *)
(***************************************************************************)
EXTENDS ConnectionPool, WebSocketServer, Monitoring, FiniteSetTheorems, SequenceTheorems, WellFoundedInduction,
        TLAPS

-----------------------------------------------------------------------------
(* The connection pool.  Ids are not used twice, and a slot in use has one of
   its own. *)
PoolShape ==
    /\ DOMAIN conns = Slot /\ DOMAIN held = CpThreads /\ next_id \in Nat \ {0} /\ abandoned \in Nat
    /\ adding \in Slot \cup {-1}
    /\ \A i \in Slot : conns[i] = [id |-> conns[i].id, state |-> conns[i].state] /\ conns[i].id \in Nat
    /\ \A i \in Slot : conns[i].id < next_id
    /\ \A i, j \in Occupied : conns[i].id = conns[j].id => i = j
    /\ \A t \in CpThreads : held[t].slot \in Slot

(* Connections that are made and those given up add up to the count. *)
PoolCount == count = Cardinality(Occupied \ {adding}) + abandoned

(* The sets that are counted are finite. *)
LEMMA SlotsFinite == /\ IsFiniteSet(Slot) /\ Cardinality(Slot) = InitialCapacity
                     /\ IsFiniteSet(Occupied) /\ Cardinality(Occupied) \in Nat
                     /\ -1 \notin Slot /\ -1 \notin Occupied
  <1>1. InitialCapacity - 1 \in Int /\ 0 \in Int
    BY CpAssumption
  <1>2. IsFiniteSet(Slot) /\ Cardinality(Slot) = IF 0 > InitialCapacity - 1 THEN 0 ELSE InitialCapacity - 1 - 0 + 1
    BY <1>1, FS_Interval DEF Slot
  <1>3. Cardinality(Slot) = InitialCapacity
    BY <1>2, CpAssumption
  <1>4. Occupied \subseteq Slot
    BY DEF Occupied
  <1>5. -1 \notin Slot
    BY CpAssumption DEF Slot
  <1>6. QED
    BY <1>2, <1>3, <1>4, <1>5, FS_Subset, FS_CardinalityType

(* A slot that is cleared leaves the slots in use, and no other does. *)
LEMMA Clears ==
    ASSUME PoolShape, NEW i \in Slot, conns' = [conns EXCEPT ![i] = FreeSlot]
    PROVE  /\ Occupied' = Occupied \ {i} /\ DOMAIN conns' = Slot
           /\ \A j \in Slot : j # i => conns'[j] = conns[j]
           /\ conns'[i] = [id |-> 0, state |-> "free"]
           /\ \A j \in Slot : conns'[j] = [id |-> conns'[j].id, state |-> conns'[j].state] /\ conns'[j].id \in Nat
                               /\ conns'[j].id < next_id
           /\ \A j, k \in Occupied' : conns'[j].id = conns'[k].id => j = k
  <1>1. /\ \A j \in Slot : j # i => conns'[j] = conns[j]
        /\ conns'[i] = [id |-> 0, state |-> "free"] /\ DOMAIN conns' = Slot
    BY DEF PoolShape, FreeSlot
  <1>2. Occupied' = Occupied \ {i}
    BY <1>1 DEF Occupied, InUse
  <1>3. \A j \in Slot : conns'[j] = [id |-> conns'[j].id, state |-> conns'[j].state] /\ conns'[j].id \in Nat
                         /\ conns'[j].id < next_id
    BY <1>1 DEF PoolShape
  <1>4. \A j, k \in Occupied' : conns'[j].id = conns'[k].id => j = k
    <2>1. \A j \in Occupied' : j \in Occupied /\ conns'[j] = conns[j]
      BY <1>1, <1>2 DEF Occupied
    <2>2. QED
      BY <2>1 DEF PoolShape
  <1>5. QED
    BY <1>1, <1>2, <1>3, <1>4

(* Adding a connection takes a slot that was free. *)
LEMMA Takes ==
    ASSUME PoolShape, Add
    PROVE  \E i \in Slot :
             /\ i \notin Occupied /\ Occupied' = Occupied \cup {i} /\ adding' = i
             /\ \A j \in Slot : j # i => conns'[j] = conns[j]
             /\ conns'[i] = [id |-> next_id, state |-> "NEW"]
  <1>1. PICK i \in Slot : /\ ~InUse(i) /\ adding' = i
                          /\ conns' = [conns EXCEPT ![i] = [id |-> next_id, state |-> "NEW"]]
    BY DEF Add
  <1>2. (\A j \in Slot : j # i => conns'[j] = conns[j]) /\ conns'[i] = [id |-> next_id, state |-> "NEW"]
    BY <1>1 DEF PoolShape
  <1>3. Occupied' = Occupied \cup {i} /\ i \notin Occupied
    BY <1>1, <1>2 DEF Occupied, InUse
  <1>4. QED
    BY <1>1, <1>2, <1>3

(* A login or logout changes no slot. *)
LEMMA Renames ==
    ASSUME PoolShape, NEW t \in CpThreads, NEW state \in {"AUTHENTICATED", "NEW"}, SetUser(t, state)
    PROVE  /\ Occupied' = Occupied /\ DOMAIN conns' = Slot
           /\ \A j \in Slot : conns'[j].id = conns[j].id /\ conns'[j] = [id |-> conns'[j].id, state |-> conns'[j].state]
  <1>1. PICK i \in Slot : i = held[t].slot
    BY DEF PoolShape
  <1>2. conns' = [conns EXCEPT ![i].state = state] /\ InUse(i)
    BY <1>1 DEF SetUser
  <1>3. PICK r : r = [conns[i] EXCEPT !.state = state]
    OBVIOUS
  <1>4. r = [id |-> conns[i].id, state |-> state]
    BY <1>3 DEF PoolShape
  <1>5. conns' = [conns EXCEPT ![i] = r]
    BY <1>2, <1>3
  <1>6. (\A j \in Slot : j # i => conns'[j] = conns[j]) /\ conns'[i] = r /\ DOMAIN conns' = Slot
    BY <1>5 DEF PoolShape
  <1>7. Occupied' = Occupied
    BY <1>2, <1>4, <1>6 DEF Occupied, InUse
  <1>8. QED
    BY <1>4, <1>6, <1>7 DEF PoolShape

(* Every step keeps the ids apart. *)
LEMMA PoolShapeStep == PoolShape /\ [CpNext]_cpvars => PoolShape'
  <1> SUFFICES ASSUME PoolShape, [CpNext]_cpvars PROVE PoolShape'
    OBVIOUS
  <1>1. ASSUME UNCHANGED poolvars PROVE PoolShape'
    BY <1>1 DEF poolvars, PoolShape, Occupied, InUse
  <1>2. CASE UNCHANGED cpvars \/ FrameNext
    BY <1>1, <1>2 DEF cpvars, FrameNext
  <1>3. CASE Add
    <2>1. DOMAIN conns' = Slot /\ UNCHANGED <<held, abandoned>> /\ next_id' = next_id + 1
      BY <1>3 DEF Add, PoolShape
    <2>2. PICK i \in Slot :
           /\ i \notin Occupied /\ Occupied' = Occupied \cup {i} /\ adding' = i
           /\ \A j \in Slot : j # i => conns'[j] = conns[j]
           /\ conns'[i] = [id |-> next_id, state |-> "NEW"]
      BY <1>3, Takes
    <2>3. \A j \in Slot : conns'[j] = [id |-> conns'[j].id, state |-> conns'[j].state] /\ conns'[j].id \in Nat
                          /\ conns'[j].id < next_id'
      BY <2>1, <2>2 DEF PoolShape
    <2>4. \A j, k \in Occupied' : conns'[j].id = conns'[k].id => j = k
      <3>1. \A j \in Occupied : j \in Slot /\ conns[j].id < next_id
        BY DEF PoolShape, Occupied
      <3>2. next_id \in Nat
        BY DEF PoolShape
      <3>3. \A j \in Occupied : conns'[j].id = conns[j].id /\ conns[j].id # next_id
        BY <2>2, <3>1, <3>2
      <3>4. QED
        BY <2>2, <3>3 DEF PoolShape
    <2>5. QED
      BY <2>1, <2>2, <2>3, <2>4 DEF PoolShape
  <1>4. CASE AddCounts \/ AddAtCapacity \/ \E i \in Slot : Remove(i)
    <2>1. UNCHANGED <<conns, next_id, held>> /\ abandoned' \in Nat /\ adding' \in Slot \cup {-1}
      BY <1>4 DEF AddCounts, AddAtCapacity, Remove, PoolShape
    <2>2. QED
      BY <2>1 DEF PoolShape, Occupied, InUse
  <1>9. CASE AddFails
    <2>1. adding \in Slot /\ adding' = -1 /\ UNCHANGED <<next_id, abandoned, held>> /\ conns' = [conns EXCEPT ![adding] = FreeSlot]
      BY <1>9 DEF AddFails, PoolShape
    <2>2. QED
      BY <2>1, Clears DEF PoolShape
  <1>5. ASSUME NEW t \in CpThreads, NEW i \in Slot, Lookup(t, i) PROVE PoolShape'
    <2>1. UNCHANGED <<conns, next_id, adding, abandoned>> /\ held' = [held EXCEPT ![t] = [slot |-> i, id |-> conns[i].id]]
      BY <1>5 DEF Lookup
    <2>2. DOMAIN held' = CpThreads /\ \A u \in CpThreads : held'[u].slot \in Slot
      BY <2>1 DEF PoolShape
    <2>3. QED
      BY <2>1, <2>2 DEF PoolShape, Occupied, InUse
  <1>6. ASSUME NEW t \in CpThreads, NEW state \in {"AUTHENTICATED", "NEW"}, SetUser(t, state) PROVE PoolShape'
    <2>1. /\ Occupied' = Occupied /\ DOMAIN conns' = Slot
          /\ \A j \in Slot : conns'[j].id = conns[j].id /\ conns'[j] = [id |-> conns'[j].id, state |-> conns'[j].state]
      BY <1>6, Renames
    <2>2. UNCHANGED <<next_id, adding, abandoned, held>>
      BY <1>6 DEF SetUser
    <2>3. \A j \in Occupied : j \in Slot
      BY DEF Occupied
    <2>4. \A j, k \in Occupied' : conns'[j].id = conns'[k].id => j = k
      BY <2>1, <2>3 DEF PoolShape
    <2>5. QED
      BY <2>1, <2>2, <2>4 DEF PoolShape
  <1>7. ASSUME NEW t \in CpThreads, Close(t) PROVE PoolShape'
    <2>1. PICK i \in Slot : i = held[t].slot
      BY DEF PoolShape
    <2>2. /\ conns' = [conns EXCEPT ![i] = FreeSlot] /\ abandoned' \in Nat /\ UNCHANGED <<next_id, adding>>
          /\ held' = [held EXCEPT ![t] = NoPointer]
      BY <1>7, <2>1 DEF Close, PoolShape
    <2>3. 0 \in Slot
      BY CpAssumption DEF Slot
    <2>4. DOMAIN held' = CpThreads /\ \A u \in CpThreads : held'[u].slot \in Slot
      BY <2>2, <2>3 DEF PoolShape, NoPointer
    <2>5. QED
      BY <2>2, <2>4, Clears DEF PoolShape
  <1>8. QED
    BY <1>2, <1>3, <1>4, <1>5, <1>6, <1>7, <1>9 DEF CpNext, PoolNext

(* Every step keeps the count. *)
LEMMA PoolCountStep == PoolShape /\ PoolCount /\ [CpNext]_cpvars => PoolCount'
  <1> SUFFICES ASSUME PoolShape, PoolCount, [CpNext]_cpvars PROVE PoolCount'
    OBVIOUS
  <1>0. /\ IsFiniteSet(Occupied) /\ Cardinality(Occupied) \in Nat /\ abandoned \in Nat
        /\ IsFiniteSet(Occupied \ {adding}) /\ Cardinality(Occupied \ {adding}) \in Nat
        /\ Occupied \ {-1} = Occupied
    BY SlotsFinite, FS_Subset, FS_CardinalityType DEF PoolShape
  <1>1. ASSUME UNCHANGED <<conns, count, adding, abandoned>> PROVE PoolCount'
    BY <1>1 DEF PoolCount, Occupied, InUse
  <1>2. CASE UNCHANGED cpvars \/ FrameNext
    BY <1>1, <1>2 DEF cpvars, FrameNext, poolvars
  <1>3. CASE Add
    <2>1. PICK i \in Slot : i \notin Occupied /\ Occupied' = Occupied \cup {i} /\ adding' = i
      BY <1>3, Takes
    <2>2. Occupied' \ {adding'} = Occupied \ {adding} /\ UNCHANGED <<count, abandoned>>
      BY <1>0, <1>3, <2>1 DEF Add
    <2>3. QED
      BY <2>2 DEF PoolCount
  <1>4. CASE AddAtCapacity \/ \E i \in Slot : Remove(i) \/ \E t \in CpThreads : Lookup(t, i)
    BY <1>1, <1>4 DEF AddAtCapacity, Remove, Lookup
  <1>5. ASSUME NEW t \in CpThreads, NEW state \in {"AUTHENTICATED", "NEW"}, SetUser(t, state) PROVE PoolCount'
    BY <1>5, Renames DEF SetUser, PoolCount
  <1>6. ASSUME NEW t \in CpThreads, Close(t) PROVE PoolCount'
    <2>1. PICK i \in Slot : i = held[t].slot
      BY DEF PoolShape
    <2>2. /\ conns' = [conns EXCEPT ![i] = FreeSlot] /\ UNCHANGED <<count, adding>> /\ i \in Occupied
          /\ abandoned' = IF i = adding THEN abandoned ELSE abandoned + 1
      BY <1>6, <2>1 DEF Close, Occupied
    <2>3. Occupied' = Occupied \ {i}
      BY <2>2, Clears
    <2>4. CASE i = adding
      BY <2>2, <2>3, <2>4 DEF PoolCount
    <2>5. CASE i # adding
      <3>1. Occupied' \ {adding'} = (Occupied \ {adding}) \ {i} /\ i \in Occupied \ {adding}
        BY <2>2, <2>3, <2>5
      <3>2. Cardinality((Occupied \ {adding}) \ {i}) = Cardinality(Occupied \ {adding}) - 1
        BY <1>0, <3>1, FS_RemoveElement
      <3>3. QED
        BY <1>0, <2>2, <2>5, <3>1, <3>2 DEF PoolCount
    <2>6. QED
      BY <2>4, <2>5
  <1>10. count = Cardinality(Occupied \ {adding}) + abandoned
    BY DEF PoolCount
  <1>7. CASE AddCounts
    <2>1. Occupied' = Occupied /\ adding' = -1 /\ count' = count + 1 /\ adding \in Slot
      BY <1>7 DEF AddCounts, Occupied, InUse, PoolShape
    <2>0. Occupied' \ {adding'} = Occupied
      BY <1>0, <2>1
    <2>6. count' = count + 1 /\ (PoolCount' <=> count' = Cardinality(Occupied) + abandoned')
      BY <2>0, <2>1 DEF PoolCount
    <2>2. CASE adding \in Occupied
      <3>1. Cardinality(Occupied \ {adding}) = Cardinality(Occupied) - 1
        BY <1>0, <2>2, FS_RemoveElement
      <3>2. abandoned' = abandoned
        BY <1>7, <2>2 DEF AddCounts, Occupied
      <3>3. Cardinality(Occupied \ {adding}) + 1 = Cardinality(Occupied)
        BY <1>0, <3>1
      <3>4. QED
        BY <1>0, <1>10, <2>6, <3>2, <3>3
    <2>3. CASE adding \notin Occupied
      <3>1. Occupied \ {adding} = Occupied
        BY <2>3
      <3>2. abandoned' = abandoned + 1
        BY <1>7, <2>1, <2>3 DEF AddCounts, Occupied
      <3>3. QED
        BY <1>0, <1>10, <2>6, <3>1, <3>2
    <2>4. QED
      BY <2>2, <2>3
  <1>8. CASE AddFails
    <2>1. /\ adding \in Slot /\ adding' = -1 /\ UNCHANGED <<count, abandoned>>
          /\ conns' = [conns EXCEPT ![adding] = FreeSlot]
      BY <1>8 DEF AddFails, PoolShape
    <2>2. Occupied' \ {adding'} = Occupied \ {adding}
      BY <1>0, <2>1, Clears
    <2>3. QED
      BY <2>1, <2>2 DEF PoolCount
  <1>9. QED
    BY <1>2, <1>3, <1>4, <1>5, <1>6, <1>7, <1>8 DEF CpNext, PoolNext

(* The count of the pool is the connections in it and the ones given up, no
   two slots hold the same connection, and an add below capacity finds a slot,
   with closes and lookups at any moment of an add that may fail
   (connection_pool_add and connection_close), for any capacity and threads. *)
THEOREM PoolIsAccounted == CpSpec => []PoolAccounts
  <1>1. CpInit => PoolShape /\ PoolCount
    <2> SUFFICES ASSUME CpInit PROVE PoolShape /\ PoolCount
      OBVIOUS
    <2>1. Occupied = {}
      BY DEF CpInit, Occupied, InUse
    <2>2. 0 \in Slot
      BY CpAssumption DEF Slot
    <2>3. PoolShape
      BY <2>1, <2>2 DEF CpInit, PoolShape, NoPointer
    <2>4. Occupied \ {adding} = {}
      BY <2>1
    <2>5. Cardinality(Occupied \ {adding}) = 0 /\ count = 0 /\ abandoned = 0
      BY <2>4, FS_EmptySet DEF CpInit
    <2>6. QED
      BY <2>3, <2>5 DEF PoolCount
  <1>2. PoolShape /\ PoolCount => PoolAccounts
    <2> SUFFICES ASSUME PoolShape, PoolCount PROVE PoolAccounts
      OBVIOUS
    <2>1. adding = -1 /\ count < InitialCapacity => Occupied # Slot
      <3>1. abandoned \in Nat /\ Slot \ {-1} = Slot
        BY SlotsFinite DEF PoolShape
      <3>2. QED
        BY <3>1, SlotsFinite, CpAssumption DEF PoolCount
    <2>2. QED
      BY <2>1 DEF PoolShape, PoolCount, PoolAccounts
  <1>3. QED
    BY <1>1, <1>2, PoolShapeStep, PoolCountStep, PTL DEF CpSpec

-----------------------------------------------------------------------------
(* Frames.  The stream: what the reader has not cut into messages yet, and what
   is on its way. *)
Msgs == [n : Nat, empty : BOOLEAN]
Cells == [msg : Msgs, kind : {"header", "body"}]
Stream == recv_buffer \o wire

(* A body follows its header, a header that announces a body is followed by
   it, and no header comes twice. *)
Framed(c) ==
    /\ \A k \in 1..Len(c) : c[k].kind = "body" =>
         k > 1 /\ c[k - 1] = Cell(c[k].msg, "header") /\ ~c[k].msg.empty
    /\ \A k \in 1..(Len(c) - 1) : c[k].kind = "header" /\ ~c[k].msg.empty =>
         c[k + 1] = Cell(c[k].msg, "body")
    /\ \A j, k \in 1..Len(c) : j # k /\ c[j].kind = "header" /\ c[k].kind = "header" => c[j].msg # c[k].msg

(* Two messages on their way are not the same. *)
FrShape ==
    /\ recv_buffer \in Seq(Cells) /\ wire \in Seq(Cells) /\ got \in Seq(Seq(Cells))
    /\ sent \in Nat /\ DOMAIN spc = Senders /\ DOMAIN smsg = Senders
    /\ \A s \in Senders : spc[s] # "idle" => smsg[s] \in Msgs /\ smsg[s].n <= sent
    /\ \A s \in Senders : spc[s] = "body" => ~smsg[s].empty
    /\ \A r, s \in Senders : r # s /\ spc[r] # "idle" /\ spc[s] # "idle" => smsg[r] # smsg[s]

(* A sender owes a body exactly when the stream ends with its header. *)
Announces(s) == spc[s] \in {"counting_header", "body"} /\ ~smsg[s].empty
Opened(c) ==
    /\ \A s \in Senders : Announces(s) => Len(c) > 0 /\ c[Len(c)] = Cell(smsg[s], "header")
    /\ Len(c) > 0 /\ c[Len(c)].kind = "header" /\ ~c[Len(c)].msg.empty =>
         \E s \in Senders : Announces(s) /\ smsg[s] = c[Len(c)].msg

(* What the reader holds: a header, its own body, each once. *)
Frame(m) == /\ Len(m) > 0 /\ m[1].kind = "header"
            /\ Len(m) = 2 => m[2] = Cell(m[1].msg, "body")
Whole(out) == /\ \A k \in 1..Len(out) : Frame(out[k])
              /\ \A j, k \in 1..Len(out) : j # k => out[j][1].msg # out[k][1].msg
(* Numbers below the last one given, and no message in two places. *)
Known(c, g) ==
    /\ \A k \in 1..Len(c) : c[k].msg.n <= sent
    /\ \A k \in 1..Len(g) : g[k][1].msg.n <= sent
    /\ \A k \in 1..Len(c), j \in 1..Len(g) : c[k].kind = "header" => c[k].msg # g[j][1].msg
    /\ \A s \in Senders : spc[s] = "header" =>
         /\ \A k \in 1..Len(c) : c[k].msg # smsg[s]
         /\ \A j \in 1..Len(g) : g[j][1].msg # smsg[s]
(* The inductive invariant. *)
InOrder(c, g) == Framed(c) /\ Opened(c) /\ Whole(g) /\ Known(c, g)
FrInv == FrShape /\ (~torn => InOrder(Stream, got))

(* One round of the loop of connection_process_data. *)
Consume(l) ==
    IF ~(l.rest # <<>> /\ FrameLength(l.rest) <= Len(l.rest)) THEN l
    ELSE [rest |-> SubSeq(l.rest, FrameLength(l.rest) + 1, Len(l.rest)),
          out |-> Append(l.out, SubSeq(l.rest, 1, FrameLength(l.rest)))]

(* A set of natural numbers has a least one. *)
LEMMA LeastOf == ASSUME NEW S, S \in SUBSET Nat, S # {} PROVE \E m \in S : \A y \in S : m <= y
  <1>1. ASSUME NEW x \in Nat, NEW y \in Nat, x < y PROVE <<x, y>> \in OpToRel(<, Nat)
    BY <1>1 DEF OpToRel
  <1>2. PICK R : IsWellFoundedOn(R, Nat) /\ \A x, y \in Nat : x < y => <<x, y>> \in R
    BY <1>1, NatLessThanWellFounded, Zenon
  <1>3. PICK m \in S : \A y \in S : ~(<<y, m>> \in R)
    <2>1. IsWellFoundedOn(R, Nat) /\ S \subseteq Nat /\ S # {}
      BY <1>2, Zenon
    <2>2. QED
      BY ONLY <2>1, WFMin
  <1>4. ASSUME NEW y \in S PROVE m <= y
    <2>1. m \in Nat /\ y \in Nat
      OBVIOUS
    <2>2. ~(y < m)
      BY <1>2, <1>3, <2>1, Zenon
    <2>3. QED
      BY <2>1, <2>2
  <1>5. QED
    BY <1>4

(* The loop as a function of the number of rounds exists: were there a least
   number of rounds without one, the function for one round fewer would extend. *)
LEMMA RoundsExist ==
    ASSUME NEW b, NEW N \in Nat
    PROVE  \E f : f = [n \in 0..N |-> IF n = 0 THEN [rest |-> b, out |-> <<>>] ELSE Consume(f[n - 1])]
  <1> DEFINE Is(f, m) == f = [n \in 0..m |-> IF n = 0 THEN [rest |-> b, out |-> <<>>] ELSE Consume(f[n - 1])]
             T == {m \in Nat : ~\E f : Is(f, m)}
  <1>1. SUFFICES ASSUME T # {} PROVE FALSE
    OBVIOUS
  <1>2. PICK m \in T : \A y \in T : m <= y
    BY <1>1, LeastOf
  <1>3. m # 0
    <2>1. ASSUME m = 0 PROVE FALSE
      <3> DEFINE g == [n \in 0..0 |-> [rest |-> b, out |-> <<>>]]
      <3>1. Is(g, 0)
        OBVIOUS
      <3> QED
        BY <2>1, <3>1
    <2> QED
      BY <2>1
  <1>4. PICK f : Is(f, m - 1)
    <2>1. m - 1 \in Nat /\ ~(m <= m - 1)
      BY <1>3
    <2> QED
      BY <1>2, <2>1
  <1> DEFINE g == [n \in 0..m |-> IF n = 0 THEN [rest |-> b, out |-> <<>>] ELSE Consume(f[n - 1])]
  <1>5. ASSUME NEW n \in 1..m PROVE g[n - 1] = f[n - 1]
    BY <1>3, <1>4
  <1>6. Is(g, m)
    <2>1. ASSUME NEW n \in 0..m
          PROVE  g[n] = IF n = 0 THEN [rest |-> b, out |-> <<>>] ELSE Consume(g[n - 1])
      <3>1. g[n] = IF n = 0 THEN [rest |-> b, out |-> <<>>] ELSE Consume(f[n - 1])
        OBVIOUS
      <3>2. CASE n = 0
        BY <3>1, <3>2
      <3>3. CASE n # 0
        <4>1. n \in 1..m
          BY <3>3
        <4>2. g[n - 1] = f[n - 1]
          BY <4>1, <1>5
        <4> HIDE DEF g
        <4> QED
          BY <3>1, <3>3, <4>2
      <3> QED
        BY <3>2, <3>3
    <2> HIDE DEF g
    <2> QED
      BY <2>1 DEF g
  <1> QED
    BY <1>6

(* connection_process_data does as many rounds as the buffer has cells. *)
LEMMA ProcessIs ==
    ASSUME NEW b, Len(b) \in Nat
    PROVE  \E f : /\ ProcessData(b) = f[Len(b)] /\ f[0] = [rest |-> b, out |-> <<>>]
                  /\ \A n \in 1..Len(b) : f[n] = Consume(f[n - 1])
  <1>1. PICK f : f = [n \in 0..Len(b) |-> IF n = 0 THEN [rest |-> b, out |-> <<>>] ELSE Consume(f[n - 1])]
    BY RoundsExist
  <1>2. PICK g : /\ g = [n \in 0..Len(b) |-> IF n = 0 THEN [rest |-> b, out |-> <<>>] ELSE Consume(g[n - 1])]
                 /\ ProcessData(b) = g[Len(b)]
    BY <1>1 DEF ProcessData, Consume
  <1>3. g[0] = [rest |-> b, out |-> <<>>]
    BY <1>2
  <1>4. \A n \in 1..Len(b) : g[n] = Consume(g[n - 1])
    BY <1>2
  <1> QED
    BY <1>2, <1>3, <1>4

(* A whole frame goes from the head of the stream to the messages read. *)
LEMMA FrameMoves ==
    ASSUME NEW c, NEW g, c \in Seq(Cells), g \in Seq(Seq(Cells)), InOrder(c, g), sent \in Nat,
           Len(c) > 0, FrameLength(c) <= Len(c)
    PROVE  InOrder(SubSeq(c, FrameLength(c) + 1, Len(c)), Append(g, SubSeq(c, 1, FrameLength(c))))
  <1> DEFINE f == FrameLength(c)
             d == SubSeq(c, f + 1, Len(c))
             m == SubSeq(c, 1, f)
             h == Append(g, m)
  <1>1. /\ \A k \in 1..Len(c) : c[k] \in Cells
        /\ f \in {1, 2} /\ f <= Len(c) /\ Len(c) \in Nat
        /\ (f = 2 <=> ~c[1].msg.empty)
    <2>1. Len(c) \in Nat /\ \A k \in 1..Len(c) : c[k] \in Cells
      OBVIOUS
    <2>2. (f = 1 /\ c[1].msg.empty) \/ (f = 2 /\ ~c[1].msg.empty)
      BY DEF FrameLength
    <2> QED
      BY <2>1, <2>2
  <1>2. /\ d \in Seq(Cells) /\ Len(d) = Len(c) - f
        /\ \A k \in 1..Len(d) : d[k] = c[k + f]
    <2>1. f + 1 \in 1..(Len(c) + 1) /\ Len(c) \in 0..Len(c)
      BY <1>1
    <2>2. /\ d \in Seq(Cells) /\ Len(d) = IF f + 1 <= Len(c) THEN Len(c) - (f + 1) + 1 ELSE 0
          /\ \A i \in 1..(Len(c) - (f + 1) + 1) : d[i] = c[f + 1 + i - 1]
      <3> HIDE DEF f
      <3> QED
        BY <2>1, SubSeqProperties
    <2> HIDE DEF f, d
    <2>3. Len(d) = Len(c) - f
      BY <1>1, <2>2
    <2>4. ASSUME NEW k \in 1..Len(d) PROVE d[k] = c[k + f]
      <3>1. k \in 1..(Len(c) - (f + 1) + 1) /\ f + 1 + k - 1 = k + f
        BY <1>1, <2>3
      <3> QED
        BY <2>2, <3>1
    <2> QED
      BY <2>2, <2>3, <2>4
  <1>3. /\ m \in Seq(Cells) /\ Len(m) = f /\ m[1] = c[1] /\ (f = 2 => m[2] = c[2])
    <2>1. 1 \in 1..(Len(c) + 1) /\ f \in 0..Len(c) /\ 1 <= f
      BY <1>1
    <2> HIDE DEF f
    <2>2. /\ m \in Seq(Cells) /\ Len(m) = IF 1 <= f THEN f - 1 + 1 ELSE 0
          /\ \A i \in 1..(f - 1 + 1) : m[i] = c[1 + i - 1]
      BY <2>1, SubSeqProperties
    <2> HIDE DEF m
    <2>3. Len(m) = f
      BY <1>1, <2>1, <2>2
    <2>4. m[1] = c[1]
      <3>1. 1 \in 1..(f - 1 + 1) /\ 1 + 1 - 1 = 1
        BY <1>1
      <3> QED
        BY <2>2, <3>1
    <2>5. ASSUME f = 2 PROVE m[2] = c[2]
      <3>1. 2 \in 1..(f - 1 + 1) /\ 1 + 2 - 1 = 2
        BY <2>5
      <3> QED
        BY <2>2, <3>1
    <2> QED
      BY <2>2, <2>3, <2>4, <2>5
  <1>4. /\ h \in Seq(Seq(Cells)) /\ Len(h) = Len(g) + 1 /\ h[Len(h)] = m
        /\ \A k \in 1..Len(g) : h[k] = g[k]
    BY <1>3
  <1>5. c[1].kind = "header" /\ (f = 2 => c[2] = Cell(c[1].msg, "body"))
    <2>1. c[1].kind # "body"
      BY <1>1 DEF InOrder, Framed
    <2>2. c[1].kind = "header"
      <3>1. c[1] \in Cells
        BY <1>1
      <3> QED
        BY <2>1, <3>1 DEF Cells
    <2>3. ASSUME f = 2 PROVE c[2] = Cell(c[1].msg, "body")
      <3>1. 1 \in 1..(Len(c) - 1) /\ ~c[1].msg.empty
        BY <1>1, <2>3
      <3> QED
        BY <2>2, <3>1 DEF InOrder, Framed
    <2> QED
      BY <2>2, <2>3
  <1> HIDE DEF f, d, m, h
  <1>6. \A k \in 1..Len(d) : k + f \in 2..Len(c) /\ k + f \in 1..Len(c)
    BY <1>1, <1>2
  <1>7. f = 2 => c[2].kind = "body"
    BY <1>5 DEF Cell
  <1>8. Len(d) > 0 => d[1].kind = "header"
    <2>1. SUFFICES ASSUME Len(d) > 0, d[1].kind # "header" PROVE FALSE
      OBVIOUS
    <2>2. 1 \in 1..Len(d) /\ 1 + f \in 1..Len(c) /\ d[1] = c[1 + f]
      BY <1>1, <1>2, <1>6, <2>1
    <2>3. c[1 + f].kind = "body"
      BY <1>1, <2>1, <2>2 DEF Cells
    <2>4. c[f] = Cell(c[1 + f].msg, "header") /\ ~c[1 + f].msg.empty
      <3>1. (1 + f) - 1 = f
        BY <1>1
      <3> QED
        BY <2>2, <2>3, <3>1 DEF InOrder, Framed
    <2>5. CASE f = 2
      BY <1>7, <2>4, <2>5 DEF Cell
    <2>6. CASE f = 1
      BY <1>1, <2>4, <2>6 DEF Cell
    <2> QED
      BY <1>1, <2>5, <2>6
  <1>9. Framed(d)
    <2>1. ASSUME NEW k \in 1..Len(d), d[k].kind = "body"
          PROVE  k > 1 /\ d[k - 1] = Cell(d[k].msg, "header") /\ ~d[k].msg.empty
      <3>1. k > 1 /\ k - 1 \in 1..Len(d)
        BY <1>2, <1>8, <2>1
      <3>2. d[k] = c[k + f] /\ d[k - 1] = c[(k + f) - 1] /\ k + f \in 1..Len(c)
        <4>1. (k - 1) + f = (k + f) - 1
          BY <1>1, <1>2
        <4> QED
          BY <1>2, <1>6, <3>1, <4>1
      <3> QED
        BY <2>1, <3>1, <3>2 DEF InOrder, Framed
    <2>2. ASSUME NEW k \in 1..(Len(d) - 1), d[k].kind = "header", ~d[k].msg.empty
          PROVE  d[k + 1] = Cell(d[k].msg, "body")
      <3>1. k \in 1..Len(d) /\ k + 1 \in 1..Len(d) /\ k + f \in 1..(Len(c) - 1)
        BY <1>1, <1>2
      <3>2. d[k] = c[k + f] /\ d[k + 1] = c[(k + f) + 1]
        <4>1. (k + 1) + f = (k + f) + 1
          BY <1>1, <1>2
        <4> QED
          BY <1>2, <3>1, <4>1
      <3> QED
        BY <2>2, <3>1, <3>2 DEF InOrder, Framed
    <2>3. ASSUME NEW j \in 1..Len(d), NEW k \in 1..Len(d), j # k, d[j].kind = "header", d[k].kind = "header"
          PROVE  d[j].msg # d[k].msg
      <3>1. d[j] = c[j + f] /\ d[k] = c[k + f] /\ j + f \in 1..Len(c) /\ k + f \in 1..Len(c)
        BY <1>2, <1>6
      <3>2. j + f # k + f
        BY <1>1, <2>3
      <3> QED
        BY <2>3, <3>1, <3>2 DEF InOrder, Framed
    <2> QED
      BY <2>1, <2>2, <2>3 DEF Framed
  <1>10. Opened(d)
    <2>1. CASE Len(d) > 0
      <3>1. Len(c) > 0 /\ d[Len(d)] = c[Len(c)]
        <4>1. Len(d) \in 1..Len(d) /\ Len(d) + f = Len(c)
          BY <1>1, <1>2, <2>1
        <4> QED
          BY <1>2, <4>1
      <3> QED
        BY <2>1, <3>1 DEF InOrder, Opened
    <2>2. CASE ~(Len(d) > 0)
      <3>1. Len(c) = f
        BY <1>1, <1>2, <2>2
      <3>2. ASSUME NEW s \in Senders, Announces(s) PROVE FALSE
        <4>1. c[f] = Cell(smsg[s], "header") /\ ~smsg[s].empty
          BY <3>1, <3>2 DEF InOrder, Opened, Announces
        <4>2. f = 1
          BY <1>1, <1>7, <4>1 DEF Cell
        <4> QED
          BY <1>1, <4>1, <4>2 DEF Cell
      <3> QED
        BY <2>2, <3>2 DEF Opened
    <2> QED
      BY <2>1, <2>2
  <1>11. Whole(h)
    <2>1. Frame(m)
      BY <1>1, <1>3, <1>5 DEF Frame
    <2>2. ASSUME NEW k \in 1..Len(h) PROVE Frame(h[k])
      <3>1. k \in 1..Len(g) \/ k = Len(h)
        BY <1>4
      <3> QED
        BY <1>4, <2>1, <3>1 DEF InOrder, Whole
    <2>3. \A j \in 1..Len(g) : g[j][1].msg # m[1].msg
      <3>1. 1 \in 1..Len(c)
        BY <1>1
      <3> QED
        BY <1>3, <1>5, <3>1 DEF InOrder, Known
    <2>4. ASSUME NEW j \in 1..Len(h), NEW k \in 1..Len(h), j # k PROVE h[j][1].msg # h[k][1].msg
      <3>1. (j \in 1..Len(g) \/ j = Len(h)) /\ (k \in 1..Len(g) \/ k = Len(h))
        BY <1>4
      <3>2. CASE j \in 1..Len(g) /\ k \in 1..Len(g)
        BY <1>4, <2>4, <3>2 DEF InOrder, Whole
      <3>3. CASE j \in 1..Len(g) /\ k = Len(h)
        BY <1>4, <2>3, <3>3
      <3>4. CASE j = Len(h) /\ k \in 1..Len(g)
        BY <1>4, <2>3, <3>4
      <3> QED
        BY <2>4, <3>1, <3>2, <3>3, <3>4
    <2> QED
      BY <2>2, <2>4 DEF Whole
  <1>12. Known(d, h)
    <2>1. 1 \in 1..Len(c)
      BY <1>1
    <2>2. ASSUME NEW k \in 1..Len(d) PROVE d[k].msg.n <= sent
      BY <1>2, <1>6 DEF InOrder, Known
    <2>3. ASSUME NEW k \in 1..Len(h) PROVE h[k][1].msg.n <= sent
      <3>1. k \in 1..Len(g) \/ k = Len(h)
        BY <1>4
      <3> QED
        BY <1>3, <1>4, <2>1, <3>1 DEF InOrder, Known
    <2>4. ASSUME NEW k \in 1..Len(d), NEW j \in 1..Len(h), d[k].kind = "header"
          PROVE  d[k].msg # h[j][1].msg
      <3>1. (j \in 1..Len(g) \/ j = Len(h)) /\ k + f \in 1..Len(c) /\ d[k] = c[k + f] /\ k + f # 1
        <4>1. j \in 1..Len(g) \/ j = Len(h)
          BY <1>4
        <4>2. k + f \in 1..Len(c) /\ k + f \in 2..Len(c) /\ d[k] = c[k + f]
          BY <1>2, <1>6
        <4>3. k + f # 1
          BY <4>2
        <4> QED
          BY <4>1, <4>2, <4>3
      <3>2. CASE j \in 1..Len(g)
        BY <1>4, <2>4, <3>1, <3>2 DEF InOrder, Known
      <3>3. CASE j = Len(h)
        <4>1. c[k + f].msg # c[1].msg
          BY <1>5, <2>1, <2>4, <3>1 DEF InOrder, Framed
        <4> QED
          BY <1>3, <1>4, <3>1, <3>3, <4>1
      <3> QED
        BY <3>1, <3>2, <3>3
    <2>5. ASSUME NEW s \in Senders, spc[s] = "header"
          PROVE  /\ \A k \in 1..Len(d) : d[k].msg # smsg[s]
                 /\ \A j \in 1..Len(h) : h[j][1].msg # smsg[s]
      <3>1. ASSUME NEW k \in 1..Len(d) PROVE d[k].msg # smsg[s]
        BY <1>2, <1>6, <2>5 DEF InOrder, Known
      <3>2. ASSUME NEW j \in 1..Len(h) PROVE h[j][1].msg # smsg[s]
        <4>1. j \in 1..Len(g) \/ j = Len(h)
          BY <1>4
        <4>2. CASE j \in 1..Len(g)
          <5>1. g[j][1].msg # smsg[s]
            BY <2>5, <4>2 DEF InOrder, Known
          <5> QED
            BY <1>4, <4>2, <5>1
        <4>3. CASE j = Len(h)
          <5>1. c[1].msg # smsg[s]
            BY <2>1, <2>5 DEF InOrder, Known
          <5> QED
            BY <1>3, <1>4, <4>3, <5>1
        <4> QED
          BY <4>1, <4>2, <4>3
      <3> QED
        BY <3>1, <3>2
    <2> QED
      BY <2>2, <2>3, <2>4, <2>5 DEF Known
  <1> QED
    BY <1>9, <1>10, <1>11, <1>12 DEF InOrder, f, d, m, h

(* Dropping the head of a concatenation. *)
LEMMA TailOfConcat ==
    ASSUME NEW S, NEW r \in Seq(S), NEW w \in Seq(S), NEW f \in {1, 2}, f <= Len(r)
    PROVE  SubSeq(r \o w, f + 1, Len(r \o w)) = SubSeq(r, f + 1, Len(r)) \o w
  <1> DEFINE c == r \o w
             d == SubSeq(r, f + 1, Len(r))
             u == SubSeq(c, f + 1, Len(c))
             v == d \o w
  <1>1. /\ c \in Seq(S) /\ Len(c) = Len(r) + Len(w) /\ Len(r) \in Nat /\ Len(w) \in Nat
        /\ \A i \in 1..Len(c) : c[i] = IF i <= Len(r) THEN r[i] ELSE w[i - Len(r)]
    BY ConcatProperties
  <1>2. /\ d \in Seq(S) /\ Len(d) = Len(r) - f
        /\ \A i \in 1..Len(d) : d[i] = r[i + f]
    BY <1>1
  <1> HIDE DEF d, c
  <1>3. /\ u \in Seq(S) /\ Len(u) = Len(c) - f
        /\ \A i \in 1..Len(u) : u[i] = c[i + f]
    BY <1>1
  <1>4. /\ v \in Seq(S) /\ Len(v) = Len(d) + Len(w)
        /\ \A i \in 1..Len(v) : v[i] = IF i <= Len(d) THEN d[i] ELSE w[i - Len(d)]
    <2>1. /\ v \in Seq(S) /\ Len(v) = Len(d) + Len(w)
          /\ \A i \in 1..(Len(d) + Len(w)) : v[i] = IF i <= Len(d) THEN d[i] ELSE w[i - Len(d)]
      <3>1. d \in Seq(S) /\ w \in Seq(S)
        BY <1>2
      <3> QED
        BY <3>1, ConcatProperties
    <2> HIDE DEF v
    <2> QED
      BY <2>1
  <1> HIDE DEF u, v
  <1>5. Len(u) = Len(v)
    BY <1>1, <1>2, <1>3, <1>4
  <1>6. ASSUME NEW i \in 1..Len(u) PROVE u[i] = v[i]
    <2>1. i \in 1..Len(v) /\ i + f \in 1..Len(c) /\ u[i] = c[i + f]
      BY <1>1, <1>2, <1>3, <1>4
    <2>2. CASE i <= Len(d)
      <3>1. i + f <= Len(r) /\ i \in 1..Len(d)
        BY <1>1, <1>2, <2>2
      <3> QED
        BY <1>1, <1>2, <1>4, <2>1, <2>2, <3>1
    <2>3. CASE ~(i <= Len(d))
      <3>1. ~(i + f <= Len(r)) /\ i - Len(d) = (i + f) - Len(r)
        BY <1>1, <1>2, <2>3
      <3>2. u[i] = w[(i + f) - Len(r)]
        BY <1>1, <2>1, <3>1
      <3>3. v[i] = w[i - Len(d)]
        BY <1>4, <2>1, <2>3
      <3> QED
        BY <3>1, <3>2, <3>3
    <2> QED
      BY <2>2, <2>3
  <1>7. u = v
    BY <1>3, <1>4, <1>5, <1>6, SeqEqual
  <1> QED
    BY <1>7 DEF u, v, c, d

(* What a round of the loop keeps, w being what is still on the wire and g what
   was read before. *)
Carried(l, b, w, g) ==
    /\ l.rest \in Seq(Cells) /\ l.out \in Seq(Seq(Cells))
    /\ InOrder(b \o w, g) => InOrder(l.rest \o w, g \o l.out)

(* One round keeps it. *)
LEMMA RoundKeeps ==
    ASSUME NEW l, NEW b, NEW w, NEW g, w \in Seq(Cells), g \in Seq(Seq(Cells)), sent \in Nat, Carried(l, b, w, g)
    PROVE  Carried(Consume(l), b, w, g)
  <1> DEFINE r == l.rest
             f == FrameLength(r)
             z == [rest |-> SubSeq(r, f + 1, Len(r)), out |-> Append(l.out, SubSeq(r, 1, f))]
  <1>1. r \in Seq(Cells) /\ l.out \in Seq(Seq(Cells))
    BY DEF Carried
  <1>2. CASE ~(r # <<>> /\ f <= Len(r))
    BY <1>2 DEF Consume
  <1>3. CASE r # <<>> /\ f <= Len(r)
    <2>1. Consume(l) = z
      BY <1>3 DEF Consume
    <2>2. Len(r) > 0 /\ Len(r) \in Nat /\ f \in {1, 2}
      BY <1>1, <1>3 DEF FrameLength
    <2>3. z.rest \in Seq(Cells) /\ z.out \in Seq(Seq(Cells))
      BY <1>1, <1>3, <2>2
    <2>4. ASSUME InOrder(b \o w, g) PROVE InOrder(z.rest \o w, g \o z.out)
      <3> DEFINE c == r \o w
                 h == g \o l.out
      <3>1. c \in Seq(Cells) /\ h \in Seq(Seq(Cells)) /\ Len(c) = Len(r) + Len(w) /\ Len(w) \in Nat
        BY <1>1
      <3>2. InOrder(c, h)
        BY <2>4 DEF Carried
      <3>3. c[1] = r[1]
        BY <1>1, <2>2
      <3>4. FrameLength(c) = f
        BY <3>3 DEF FrameLength
      <3>5. SubSeq(c, 1, f) = SubSeq(r, 1, f)
        BY <1>1, <1>3, <2>2, <3>1
      <3>6. SubSeq(c, f + 1, Len(c)) = z.rest \o w
        BY <1>1, <1>3, <2>2, TailOfConcat
      <3>7. Append(h, SubSeq(r, 1, f)) = g \o z.out
        <4> DEFINE x == SubSeq(r, 1, f)
        <4>1. x \in Seq(Cells)
          BY <1>1, <1>3, <2>2
        <4> HIDE DEF x
        <4>2. Append(g \o l.out, x) = g \o Append(l.out, x)
          <5> DEFINE C == Seq(Cells)
          <5>1. g \in Seq(C) /\ l.out \in Seq(C) /\ x \in C
            BY <1>1, <4>1
          <5> HIDE DEF C
          <5>2. g \o l.out \in Seq(C) /\ <<x>> \in Seq(C)
            BY <5>1
          <5>3. Append(g \o l.out, x) = (g \o l.out) \o <<x>>
            BY <5>1, <5>2, AppendIsConcat
          <5>4. Append(l.out, x) = l.out \o <<x>>
            BY <5>1, AppendIsConcat
          <5>5. (g \o l.out) \o <<x>> = g \o (l.out \o <<x>>)
            <6> DEFINE o == l.out
                       y == <<x>>
            <6>1. g \in Seq(C) /\ o \in Seq(C) /\ y \in Seq(C)
              BY <5>1, <5>2
            <6> HIDE DEF o, y
            <6>2. (g \o o) \o y = g \o (o \o y)
              BY <6>1, ConcatAssociative
            <6> QED
              BY <6>2 DEF o, y
          <5> QED
            BY <5>3, <5>4, <5>5
        <4> QED
          BY <4>2 DEF x
      <3>8. Len(c) > 0 /\ f <= Len(c)
        BY <1>3, <2>2, <3>1
      <3> HIDE DEF c, h, z, f
      <3>9. InOrder(SubSeq(c, FrameLength(c) + 1, Len(c)), Append(h, SubSeq(c, 1, FrameLength(c))))
        BY ONLY <3>1, <3>2, <3>4, <3>8, FrameMoves, sent \in Nat
      <3> QED
        BY ONLY <3>4, <3>5, <3>6, <3>7, <3>9
    <2> HIDE DEF z
    <2> QED
      BY <2>1, <2>3, <2>4 DEF Carried
  <1> QED
    BY <1>2, <1>3

(* connection_process_data, by induction on the rounds. *)
LEMMA ProcessKeeps ==
    ASSUME NEW b, NEW w, NEW g, b \in Seq(Cells), w \in Seq(Cells), g \in Seq(Seq(Cells)), sent \in Nat
    PROVE  Carried(ProcessData(b), b, w, g)
  <1>1. Len(b) \in Nat
    OBVIOUS
  <1>2. PICK f : /\ ProcessData(b) = f[Len(b)] /\ f[0] = [rest |-> b, out |-> <<>>]
                 /\ \A n \in 1..Len(b) : f[n] = Consume(f[n - 1])
    BY <1>1, ProcessIs
  <1> DEFINE T == {n \in 0..Len(b) : ~Carried(f[n], b, w, g)}
  <1>3. Carried(f[0], b, w, g)
    <2>1. f[0].rest = b /\ f[0].out = <<>> /\ g \o <<>> = g /\ <<>> \in Seq(Seq(Cells))
      BY <1>2
    <2> QED
      BY <2>1 DEF Carried
  <1>4. ASSUME NEW n \in 1..Len(b), Carried(f[n - 1], b, w, g) PROVE Carried(f[n], b, w, g)
    BY <1>2, <1>4, RoundKeeps
  <1>5. T = {}
    <2>1. SUFFICES ASSUME T # {} PROVE FALSE
      OBVIOUS
    <2>2. T \in SUBSET Nat
      BY <1>1
    <2> HIDE DEF T
    <2>3. PICK m \in T : \A y \in T : m <= y
      BY <2>1, <2>2, LeastOf
    <2>4. m \in 0..Len(b) /\ ~Carried(f[m], b, w, g)
      BY <2>3 DEF T
    <2>5. m # 0
      BY <1>3, <2>4
    <2>6. m \in 1..Len(b) /\ m - 1 \in 0..Len(b) /\ ~(m <= m - 1)
      BY <1>1, <2>4, <2>5
    <2>7. Carried(f[m - 1], b, w, g)
      BY <2>3, <2>6 DEF T
    <2> QED
      BY <1>4, <2>4, <2>6, <2>7
  <1>6. Len(b) \in 0..Len(b)
    BY <1>1
  <1> QED
    BY <1>2, <1>5, <1>6

(* Initially nothing is on its way. *)
LEMMA FrInit == ASSUME CpInit PROVE FrInv
  <1>1. /\ recv_buffer = <<>> /\ wire = <<>> /\ got = <<>> /\ sent = 0
        /\ DOMAIN spc = Senders /\ DOMAIN smsg = Senders /\ \A s \in Senders : spc[s] = "idle"
    BY DEF CpInit
  <1>2. FrShape
    BY <1>1 DEF FrShape
  <1>3. Stream = <<>> /\ Len(Stream) = 0
    BY <1>1 DEF Stream
  <1> DEFINE c == Stream
  <1> HIDE DEF c
  <1>4. c = Stream
    BY DEF c
  <1>5. Framed(c) /\ Opened(c) /\ Whole(got) /\ Known(c, got)
    BY <1>1, <1>3, <1>4 DEF Framed, Opened, Announces, Whole, Known
  <1> QED
    BY <1>2, <1>4, <1>5 DEF FrInv, InOrder

(* The stream and the messages read are sequences of cells. *)
LEMMA StreamCells ==
    ASSUME FrShape
    PROVE  /\ Stream \in Seq(Cells) /\ Len(Stream) \in Nat /\ Len(got) \in Nat
           /\ \A k \in 1..Len(Stream) : Stream[k] \in Cells /\ Stream[k].msg.n \in Nat
           /\ Whole(got) => \A k \in 1..Len(got) : got[k][1] \in Cells /\ got[k][1].msg.n \in Nat
  <1>1. Stream \in Seq(Cells) /\ Len(Stream) \in Nat /\ Len(got) \in Nat
    BY DEF FrShape, Stream
  <1> DEFINE c == Stream
  <1> HIDE DEF c
  <1>2. c \in Seq(Cells)
    BY <1>1 DEF c
  <1>3. ASSUME NEW k \in 1..Len(c) PROVE c[k] \in Cells /\ c[k].msg.n \in Nat
    <2>1. c[k] \in Cells
      BY <1>2
    <2> QED
      BY <2>1 DEF Cells, Msgs
  <1>4. ASSUME Whole(got), NEW k \in 1..Len(got) PROVE got[k][1] \in Cells /\ got[k][1].msg.n \in Nat
    <2>1. got[k] \in Seq(Cells)
      BY DEF FrShape
    <2>2. Len(got[k]) > 0
      BY <1>4 DEF Whole, Frame
    <2>3. got[k][1] \in Cells
      BY <2>1, <2>2
    <2> QED
      BY <2>3 DEF Cells, Msgs
  <1> QED
    BY <1>1, <1>3, <1>4 DEF c

(* A new message has a number of its own. *)
LEMMA SendFr == ASSUME NEW s \in Senders, NEW e \in BOOLEAN, FrInv, Send(s, e) PROVE FrInv'
  <1> DEFINE m == [n |-> sent + 1, empty |-> e]
  <1>1. /\ spc[s] = "idle" /\ sent' = sent + 1 /\ sent \in Nat
        /\ DOMAIN spc = Senders /\ DOMAIN smsg = Senders
        /\ DOMAIN spc' = Senders /\ DOMAIN smsg' = Senders
        /\ spc'[s] = "header" /\ smsg'[s] = m
        /\ \A r \in Senders : r # s => spc'[r] = spc[r] /\ smsg'[r] = smsg[r]
        /\ wire' = wire /\ recv_buffer' = recv_buffer /\ got' = got /\ torn' = torn
    BY DEF FrInv, FrShape, Send
  <1>2. m \in Msgs /\ m.n = sent + 1
    BY <1>1 DEF Msgs
  <1> HIDE DEF m
  <1>3. ASSUME NEW r \in Senders, r # s, spc[r] # "idle"
        PROVE smsg[r] \in Msgs /\ smsg[r].n <= sent /\ smsg[r].n \in Nat /\ smsg[r] # m
    <2>1. smsg[r] \in Msgs /\ smsg[r].n <= sent
      BY <1>3 DEF FrInv, FrShape
    <2>2. smsg[r].n \in Nat
      BY <2>1 DEF Msgs
    <2>3. smsg[r].n # m.n
      BY <1>1, <1>2, <2>1, <2>2
    <2> QED
      BY <2>1, <2>2, <2>3
  <1>4. FrShape'
    <2>1. recv_buffer' \in Seq(Cells) /\ wire' \in Seq(Cells) /\ got' \in Seq(Seq(Cells)) /\ sent' \in Nat
      BY <1>1 DEF FrInv, FrShape
    <2>2. ASSUME NEW r \in Senders, spc'[r] # "idle" PROVE smsg'[r] \in Msgs /\ smsg'[r].n <= sent'
      <3>1. CASE r = s
        BY <1>1, <1>2, <3>1
      <3>2. CASE r # s
        <4>1. smsg[r] \in Msgs /\ smsg[r].n <= sent /\ smsg[r].n \in Nat /\ smsg'[r] = smsg[r]
          BY <1>1, <1>3, <2>2, <3>2
        <4> QED
          BY <1>1, <4>1
      <3> QED
        BY <3>1, <3>2
    <2>3. ASSUME NEW r \in Senders, spc'[r] = "body" PROVE ~smsg'[r].empty
      BY <1>1, <2>3 DEF FrInv, FrShape
    <2>4. ASSUME NEW r \in Senders, NEW t \in Senders, r # t, spc'[r] # "idle", spc'[t] # "idle"
          PROVE  smsg'[r] # smsg'[t]
      BY <1>1, <1>3, <2>4 DEF FrInv, FrShape
    <2> QED
      BY <1>1, <2>1, <2>2, <2>3, <2>4 DEF FrShape
  <1>5. ASSUME ~torn' PROVE InOrder(Stream, got)'
    <2> DEFINE c == Stream
    <2>1. Stream' = Stream
      BY <1>1 DEF Stream
    <2>2. InOrder(c, got)
      BY <1>1, <1>5 DEF FrInv
    <2>3. /\ Len(c) \in Nat /\ Len(got) \in Nat
          /\ \A k \in 1..Len(c) : c[k].msg.n \in Nat
          /\ \A k \in 1..Len(got) : got[k][1].msg.n \in Nat
      BY <2>2, StreamCells DEF FrInv, InOrder
    <2>4. \A r \in Senders : (Announces(r))' = Announces(r) /\ (Announces(r) => smsg'[r] = smsg[r])
      BY <1>1 DEF Announces
    <2> HIDE DEF c
    <2>5. Framed(c) /\ Whole(got)
      BY <2>2 DEF InOrder
    <2>6. /\ \A r \in Senders : (Announces(r))' => Len(c) > 0 /\ c[Len(c)] = Cell(smsg'[r], "header")
          /\ Len(c) > 0 /\ c[Len(c)].kind = "header" /\ ~c[Len(c)].msg.empty =>
               \E r \in Senders : (Announces(r))' /\ smsg'[r] = c[Len(c)].msg
      <3>1. Opened(c)
        BY <2>2 DEF InOrder
      <3> QED
        BY <2>4, <3>1 DEF Opened
    <2>7. Known(c, got)
      BY <2>2 DEF InOrder
    <2>8. ASSUME NEW k \in 1..Len(c) PROVE c[k].msg.n <= sent' /\ c[k].msg # m
      <3>1. c[k].msg.n <= sent
        BY <2>7 DEF Known
      <3>2. c[k].msg.n <= sent' /\ c[k].msg.n # m.n
        BY <1>1, <1>2, <2>3, <3>1
      <3> QED
        BY <3>2
    <2>9. ASSUME NEW k \in 1..Len(got) PROVE got[k][1].msg.n <= sent' /\ got[k][1].msg # m
      <3>1. got[k][1].msg.n <= sent
        BY <2>7 DEF Known
      <3>2. got[k][1].msg.n <= sent' /\ got[k][1].msg.n # m.n
        BY <1>1, <1>2, <2>3, <3>1
      <3> QED
        BY <3>2
    <2>10. ASSUME NEW r \in Senders, spc'[r] = "header"
           PROVE  /\ \A k \in 1..Len(c) : c[k].msg # smsg'[r]
                  /\ \A j \in 1..Len(got) : got[j][1].msg # smsg'[r]
      <3>1. CASE r = s
        BY <1>1, <2>8, <2>9, <3>1
      <3>2. CASE r # s
        BY <1>1, <2>7, <2>10, <3>2 DEF Known
      <3> QED
        BY <3>1, <3>2
    <2>11. \A k \in 1..Len(c), j \in 1..Len(got) : c[k].kind = "header" => c[k].msg # got[j][1].msg
      BY <2>7 DEF Known
    <2>12. Stream' = c /\ got' = got
      BY <1>1, <2>1 DEF c
    <2>13. Framed(Stream)' /\ Whole(got)'
      BY <2>5, <2>12 DEF Framed, Whole, Frame
    <2>14. Opened(Stream)'
      BY <2>6, <2>12 DEF Opened
    <2>15. Known(Stream, got)'
      BY <2>8, <2>9, <2>10, <2>11, <2>12 DEF Known
    <2> QED
      BY <2>13, <2>14, <2>15 DEF InOrder
  <1> QED
    BY <1>4, <1>5 DEF FrInv

(* A step that leaves the stream alone and announces nothing new. *)
LEMMA QuietFr ==
    ASSUME FrInv, wire' = wire, recv_buffer' = recv_buffer, got' = got, sent' = sent, ~torn' => ~torn,
           DOMAIN spc' = Senders, DOMAIN smsg' = Senders,
           \A s \in Senders : spc'[s] # "idle" =>
              /\ smsg'[s] = smsg[s] /\ spc[s] # "idle" /\ (spc'[s] = "header" => spc[s] = "header")
              /\ (spc'[s] = "body" => ~smsg[s].empty),
           ~torn' => \A s \in Senders : (Announces(s))' = Announces(s) /\ (Announces(s) => smsg'[s] = smsg[s])
    PROVE  FrInv'
  <1>1. FrShape'
    <2>1. recv_buffer' \in Seq(Cells) /\ wire' \in Seq(Cells) /\ got' \in Seq(Seq(Cells)) /\ sent' \in Nat
      BY DEF FrInv, FrShape
    <2>2. \A r \in Senders : spc'[r] # "idle" => smsg'[r] \in Msgs /\ smsg'[r].n <= sent'
      BY DEF FrInv, FrShape
    <2>3. \A r \in Senders : spc'[r] = "body" => ~smsg'[r].empty
      OBVIOUS
    <2>4. ASSUME NEW r \in Senders, NEW t \in Senders, r # t, spc'[r] # "idle", spc'[t] # "idle"
          PROVE  smsg'[r] # smsg'[t]
      BY <2>4 DEF FrInv, FrShape
    <2> QED
      BY <2>1, <2>2, <2>3, <2>4 DEF FrShape
  <1>2. ASSUME ~torn' PROVE InOrder(Stream, got)'
    <2> DEFINE c == Stream
    <2>1. Stream' = Stream
      BY DEF Stream
    <2>2. InOrder(c, got)
      BY <1>2 DEF FrInv
    <2> HIDE DEF c
    <2>3. Stream' = c
      BY <2>1 DEF c
    <2>4. Framed(Stream)' /\ Whole(got)'
      BY <2>2, <2>3 DEF InOrder, Framed, Whole, Frame
    <2>5. Opened(Stream)'
      <3>1. Opened(c)
        BY <2>2 DEF InOrder
      <3>2. /\ \A r \in Senders : (Announces(r))' => Len(c) > 0 /\ c[Len(c)] = Cell(smsg'[r], "header")
            /\ Len(c) > 0 /\ c[Len(c)].kind = "header" /\ ~c[Len(c)].msg.empty =>
                 \E r \in Senders : (Announces(r))' /\ smsg'[r] = c[Len(c)].msg
        BY <1>2, <3>1 DEF Opened
      <3> QED
        BY <2>3, <3>2 DEF Opened
    <2>6. Known(Stream, got)'
      <3>1. Known(c, got)
        BY <2>2 DEF InOrder
      <3>2. ASSUME NEW r \in Senders, spc'[r] = "header"
            PROVE  /\ \A k \in 1..Len(c) : c[k].msg # smsg'[r]
                   /\ \A j \in 1..Len(got) : got[j][1].msg # smsg'[r]
        BY <3>1, <3>2 DEF Known
      <3>3. /\ \A k \in 1..Len(c) : c[k].msg.n <= sent'
            /\ \A k \in 1..Len(got) : got[k][1].msg.n <= sent'
            /\ \A k \in 1..Len(c), j \in 1..Len(got) : c[k].kind = "header" => c[k].msg # got[j][1].msg
        BY <3>1 DEF Known
      <3> QED
        BY <2>3, <3>2, <3>3 DEF Known
    <2> QED
      BY <2>4, <2>5, <2>6 DEF InOrder
  <1> QED
    BY <1>1, <1>2 DEF FrInv

(* The limit before a header loses nothing; before a body it tears the frame. *)
LEMMA SendRefusedFr == ASSUME NEW s \in Senders, FrInv, SendRefused(s) PROVE FrInv'
  <1>1. /\ spc[s] \in {"header", "body"} /\ torn' = (torn \/ spc[s] = "body")
        /\ DOMAIN spc' = Senders /\ DOMAIN smsg' = Senders /\ spc'[s] = "idle"
        /\ \A r \in Senders : r # s => spc'[r] = spc[r] /\ smsg'[r] = smsg[r]
        /\ wire' = wire /\ recv_buffer' = recv_buffer /\ got' = got /\ sent' = sent
    BY DEF FrInv, FrShape, SendRefused, GivesUp
  <1>2. \A r \in Senders : spc[r] = "body" => ~smsg[r].empty
    BY DEF FrInv, FrShape
  <1>3. ASSUME ~torn', NEW r \in Senders
        PROVE (Announces(r))' = Announces(r) /\ (Announces(r) => smsg'[r] = smsg[r])
    <2>1. CASE r = s
      BY <1>1, <1>3, <2>1 DEF Announces
    <2>2. CASE r # s
      BY <1>1, <2>2 DEF Announces
    <2> QED
      BY <2>1, <2>2
  <1>4. \A r \in Senders : spc'[r] # "idle" =>
           /\ smsg'[r] = smsg[r] /\ spc[r] # "idle" /\ (spc'[r] = "header" => spc[r] = "header")
           /\ (spc'[r] = "body" => ~smsg[r].empty)
    BY <1>1, <1>2
  <1> QED
    BY <1>1, <1>3, <1>4, QuietFr

(* Between a header and its body the message stays announced. *)
LEMMA CountCellFr == ASSUME NEW s \in Senders, FrInv, CountCell(s) PROVE FrInv'
  <1>1. /\ spc[s] \in {"counting_header", "counting_body", "counting_part"} /\ torn' = torn
        /\ DOMAIN spc' = Senders /\ DOMAIN smsg' = Senders
        /\ \A r \in Senders : r # s => spc'[r] = spc[r] /\ smsg'[r] = smsg[r]
        /\ \/ spc[s] = "counting_header" /\ ~smsg[s].empty /\ spc'[s] = "body" /\ smsg'[s] = smsg[s]
           \/ ~(spc[s] = "counting_header" /\ ~smsg[s].empty) /\ spc'[s] = "idle"
        /\ wire' = wire /\ recv_buffer' = recv_buffer /\ got' = got /\ sent' = sent
    BY DEF FrInv, FrShape, CountCell, GivesUp
  <1>2. \A r \in Senders : spc[r] = "body" => ~smsg[r].empty
    BY DEF FrInv, FrShape
  <1>3. ASSUME NEW r \in Senders
        PROVE (Announces(r))' = Announces(r) /\ (Announces(r) => smsg'[r] = smsg[r])
    <2>1. CASE r = s
      BY <1>1, <2>1 DEF Announces
    <2>2. CASE r # s
      BY <1>1, <2>2 DEF Announces
    <2> QED
      BY <2>1, <2>2
  <1>4. \A r \in Senders : spc'[r] # "idle" =>
           /\ smsg'[r] = smsg[r] /\ spc[r] # "idle" /\ (spc'[r] = "header" => spc[r] = "header")
           /\ (spc'[r] = "body" => ~smsg[r].empty)
    BY <1>1, <1>2
  <1> QED
    BY <1>1, <1>3, <1>4, QuietFr

(* Steps of the pool and of the clock. *)
LEMMA SameFr ==
    ASSUME FrInv, UNCHANGED <<spc, smsg, sent, wire, recv_buffer, got, torn>> PROVE FrInv'
  <1>1. /\ spc' = spc /\ smsg' = smsg /\ sent' = sent /\ wire' = wire /\ recv_buffer' = recv_buffer
        /\ got' = got /\ torn' = torn
    OBVIOUS
  <1>2. Stream' = Stream /\ \A s \in Senders : (Announces(s))' = Announces(s)
    BY <1>1 DEF Stream, Announces
  <1>3. \A s \in Senders : spc[s] = "body" => ~smsg[s].empty
    BY DEF FrInv, FrShape
  <1>4. DOMAIN spc = Senders /\ DOMAIN smsg = Senders
    BY DEF FrInv, FrShape
  <1> QED
    BY <1>1, <1>2, <1>3, <1>4, QuietFr

(* A cell goes to the end of the stream: while nobody else is within a frame,
   a header opens one and a body closes its own. *)
LEMMA SendCellFr == ASSUME NEW s \in Senders, FrInv, SendCell(s) PROVE FrInv'
  <1> DEFINE m == smsg[s]
             x == Cell(m, spc[s])
  <1>1. /\ spc[s] \in {"header", "body"} /\ torn' = (torn \/ MidFrame(s))
        /\ DOMAIN spc' = Senders /\ DOMAIN smsg' = Senders /\ smsg' = smsg
        /\ spc'[s] = IF spc[s] = "header" THEN "counting_header" ELSE "counting_body"
        /\ \A r \in Senders : r # s => spc'[r] = spc[r]
        /\ wire' = Append(wire, x) /\ recv_buffer' = recv_buffer /\ got' = got /\ sent' = sent
    BY DEF FrInv, FrShape, SendCell
  <1>2. m \in Msgs /\ m.n <= sent /\ m.n \in Nat /\ (spc[s] = "body" => ~m.empty) /\ sent \in Nat
    BY <1>1 DEF FrInv, FrShape, Msgs
  <1>3. x \in Cells /\ x.msg = m /\ x.kind = spc[s]
    BY <1>1, <1>2 DEF Cells, Cell
  <1>4. recv_buffer \in Seq(Cells) /\ wire \in Seq(Cells)
    BY DEF FrInv, FrShape
  <1> HIDE DEF m, x
  <1>5. FrShape'
    <2>1. wire' \in Seq(Cells) /\ recv_buffer' \in Seq(Cells) /\ got' \in Seq(Seq(Cells)) /\ sent' \in Nat
      BY <1>1, <1>3, <1>4 DEF FrInv, FrShape
    <2>2. \A r \in Senders : spc'[r] # "idle" => smsg'[r] \in Msgs /\ smsg'[r].n <= sent'
      <3>1. \A r \in Senders : spc'[r] # "idle" => spc[r] # "idle"
        BY <1>1
      <3> QED
        BY <1>1, <3>1 DEF FrInv, FrShape
    <2>3. \A r \in Senders : spc'[r] = "body" => ~smsg'[r].empty
      BY <1>1 DEF FrInv, FrShape
    <2>4. ASSUME NEW r \in Senders, NEW t \in Senders, r # t, spc'[r] # "idle", spc'[t] # "idle"
          PROVE  smsg'[r] # smsg'[t]
      <3>1. spc[r] # "idle" /\ spc[t] # "idle"
        BY <1>1, <2>4
      <3> QED
        BY <1>1, <2>4, <3>1 DEF FrInv, FrShape
    <2> QED
      BY <1>1, <2>1, <2>2, <2>3, <2>4 DEF FrShape
  <1>6. ASSUME ~torn' PROVE InOrder(Stream, got)'
    <2> DEFINE c == Stream
               d == Append(c, x)
    <2>1. Stream' = d
      <3>1. Append(recv_buffer \o wire, x) = recv_buffer \o Append(wire, x)
        BY <1>3, <1>4
      <3> QED
        BY <1>1, <3>1 DEF Stream
    <2>2. InOrder(c, got)
      BY <1>1, <1>6 DEF FrInv
    <2>3. c \in Seq(Cells) /\ Len(c) \in Nat
      BY StreamCells DEF FrInv
    <2> HIDE DEF c
    <2>4. /\ d \in Seq(Cells) /\ Len(d) = Len(c) + 1 /\ d[Len(d)] = x
          /\ \A k \in 1..Len(c) : d[k] = c[k]
      BY <1>3, <2>3
    <2> HIDE DEF d
    <2>5. \A r \in Senders : r # s => ~Announces(r) /\ ~(Announces(r))'
      BY <1>1, <1>6 DEF MidFrame, Announces
    <2>6. Framed(c) /\ Opened(c) /\ Known(c, got) /\ Whole(got)
      BY <2>2 DEF InOrder
    <2>7. \A k \in 1..Len(d) : k \in 1..Len(c) \/ k = Len(d)
      BY <2>3, <2>4
    <2>8. \A r \in Senders : spc'[r] = "header" => r # s /\ spc[r] = "header" /\ smsg[r] # m
      BY <1>1 DEF FrInv, FrShape, m
    <2>9. Known(Stream, got)'
      <3>1. ASSUME NEW k \in 1..Len(d) PROVE d[k].msg.n <= sent
        BY <1>2, <1>3, <2>4, <2>6, <2>7 DEF Known
      <3>2. ASSUME NEW k \in 1..Len(d), NEW j \in 1..Len(got), d[k].kind = "header"
            PROVE  d[k].msg # got[j][1].msg
        <4>1. CASE k \in 1..Len(c)
          BY <2>4, <2>6, <3>2, <4>1 DEF Known
        <4>2. CASE k = Len(d)
          BY <1>1, <1>3, <2>4, <2>6, <3>2, <4>2 DEF Known, m
        <4> QED
          BY <2>7, <4>1, <4>2
      <3>3. ASSUME NEW r \in Senders, spc'[r] = "header"
            PROVE  /\ \A k \in 1..Len(d) : d[k].msg # smsg[r]
                   /\ \A j \in 1..Len(got) : got[j][1].msg # smsg[r]
        <4>1. r # s /\ spc[r] = "header" /\ smsg[r] # m
          BY <2>8, <3>3
        <4>2. ASSUME NEW k \in 1..Len(d) PROVE d[k].msg # smsg[r]
          BY <1>3, <2>4, <2>6, <2>7, <4>1 DEF Known
        <4>3. \A j \in 1..Len(got) : got[j][1].msg # smsg[r]
          BY <2>6, <4>1 DEF Known
        <4> QED
          BY <4>2, <4>3
      <3>4. \A k \in 1..Len(got) : got[k][1].msg.n <= sent
        BY <2>6 DEF Known
      <3> QED
        BY <1>1, <2>1, <3>1, <3>2, <3>3, <3>4 DEF Known
    <2>10. Framed(d)
      <3>1. ASSUME NEW k \in 1..Len(d), d[k].kind = "body"
            PROVE  k > 1 /\ d[k - 1] = Cell(d[k].msg, "header") /\ ~d[k].msg.empty
        <4>1. CASE k \in 1..Len(c)
          <5>1. k > 1 /\ c[k - 1] = Cell(c[k].msg, "header") /\ ~c[k].msg.empty
            BY <2>4, <2>6, <3>1, <4>1 DEF Framed
          <5>2. k - 1 \in 1..Len(c)
            BY <2>3, <4>1, <5>1
          <5> QED
            BY <2>4, <4>1, <5>1, <5>2
        <4>2. CASE k = Len(d)
          <5>1. spc[s] = "body" /\ ~m.empty /\ d[k] = x
            BY <1>2, <1>3, <2>4, <3>1, <4>2
          <5>2. Announces(s)
            BY <5>1 DEF Announces, m
          <5>3. Len(c) > 0 /\ c[Len(c)] = Cell(m, "header")
            BY <2>6, <5>2 DEF Opened, m
          <5>4. k - 1 = Len(c) /\ k > 1 /\ Len(c) \in 1..Len(c)
            BY <2>3, <2>4, <4>2, <5>3
          <5> QED
            BY <1>3, <2>4, <5>1, <5>3, <5>4
        <4> QED
          BY <2>7, <4>1, <4>2
      <3>2. ASSUME NEW k \in 1..(Len(d) - 1), d[k].kind = "header", ~d[k].msg.empty
            PROVE  d[k + 1] = Cell(d[k].msg, "body")
        <4>1. k \in 1..Len(c) /\ d[k] = c[k]
          BY <2>3, <2>4
        <4>2. CASE k = Len(c)
          <5>1. PICK r \in Senders : Announces(r) /\ smsg[r] = c[k].msg
            BY <2>3, <2>6, <3>2, <4>1, <4>2 DEF Opened
          <5>2. r = s /\ spc[s] = "body" /\ m = c[k].msg
            BY <1>1, <2>5, <5>1 DEF Announces, m
          <5>3. x = Cell(m, "body")
            BY <5>2 DEF x
          <5>4. d[k + 1] = x
            BY <2>4, <4>2
          <5> QED
            BY <4>1, <5>2, <5>3, <5>4
        <4>3. CASE k # Len(c)
          <5>1. k \in 1..(Len(c) - 1) /\ k + 1 \in 1..Len(c)
            BY <2>3, <4>1, <4>3
          <5>2. c[k + 1] = Cell(c[k].msg, "body")
            BY <2>6, <3>2, <4>1, <5>1 DEF Framed
          <5> QED
            BY <2>4, <4>1, <5>1, <5>2
        <4> QED
          BY <4>2, <4>3
      <3>3. \A k \in 1..Len(c) : x.kind = "header" => c[k].msg # x.msg
        BY <1>3, <2>6 DEF Known, m
      <3>4. ASSUME NEW j \in 1..Len(d), NEW k \in 1..Len(d), j # k, d[j].kind = "header", d[k].kind = "header"
            PROVE  d[j].msg # d[k].msg
        <4>1. CASE j \in 1..Len(c) /\ k \in 1..Len(c)
          BY <2>4, <2>6, <3>4, <4>1 DEF Framed
        <4>2. CASE j \in 1..Len(c) /\ k = Len(d)
          BY <2>4, <3>3, <3>4, <4>2
        <4>3. CASE j = Len(d) /\ k \in 1..Len(c)
          BY <2>4, <3>3, <3>4, <4>3
        <4> QED
          BY <2>7, <3>4, <4>1, <4>2, <4>3
      <3> QED
        BY <3>1, <3>2, <3>4 DEF Framed
    <2>11. Framed(Stream)' /\ Whole(got)'
      BY <1>1, <2>1, <2>6, <2>10 DEF Framed, Whole, Frame
    <2>12. Opened(Stream)'
      <3>1. ASSUME NEW r \in Senders, (Announces(r))'
            PROVE  Len(d) > 0 /\ d[Len(d)] = Cell(smsg[r], "header")
        <4>1. r = s
          BY <2>5, <3>1
        <4>2. spc[s] = "header"
          BY <1>1, <3>1, <4>1 DEF Announces
        <4>3. x = Cell(smsg[r], "header")
          BY <4>1, <4>2 DEF x, m
        <4> QED
          BY <2>3, <2>4, <4>3
      <3>2. ASSUME d[Len(d)].kind = "header", ~d[Len(d)].msg.empty
            PROVE  \E r \in Senders : (Announces(r))' /\ smsg[r] = d[Len(d)].msg
        <4>1. spc[s] = "header" /\ ~m.empty /\ m = d[Len(d)].msg
          BY <1>3, <2>4, <3>2
        <4>2. (Announces(s))'
          BY <1>1, <4>1 DEF Announces, m
        <4> QED
          BY <4>1, <4>2 DEF m
      <3> QED
        BY <1>1, <2>1, <3>1, <3>2 DEF Opened
    <2> QED
      BY <2>9, <2>11, <2>12 DEF InOrder
  <1> QED
    BY <1>5, <1>6 DEF FrInv

(* A write that fails tears the frame, unless nothing of its header went. *)
LEMMA SendFailsFr == ASSUME NEW s \in Senders, NEW n \in Nat, FrInv, SendFails(s, n) PROVE FrInv'
  <1> DEFINE x == Cell(smsg[s], spc[s])
  <1>1. /\ spc[s] \in {"header", "body"} /\ torn' = (torn \/ n > 0 \/ spc[s] = "body")
        /\ DOMAIN spc' = Senders /\ DOMAIN smsg' = Senders
        /\ spc'[s] \in {"idle", "counting_part"} /\ (spc'[s] # "idle" => n > 0 /\ smsg'[s] = smsg[s])
        /\ \A r \in Senders : r # s => spc'[r] = spc[r] /\ smsg'[r] = smsg[r]
        /\ wire' = (IF n > 0 THEN Append(wire, x) ELSE wire)
        /\ recv_buffer' = recv_buffer /\ got' = got /\ sent' = sent
    BY DEF FrInv, FrShape, SendFails, GivesUp
  <1>2. \A r \in Senders : spc[r] = "body" => ~smsg[r].empty
    BY DEF FrInv, FrShape
  <1>3. \A r \in Senders : spc'[r] # "idle" =>
           /\ smsg'[r] = smsg[r] /\ spc[r] # "idle" /\ (spc'[r] = "header" => spc[r] = "header")
           /\ (spc'[r] = "body" => ~smsg[r].empty)
    BY <1>1, <1>2
  <1>4. CASE torn'
    <2>1. smsg[s] \in Msgs
      BY <1>1 DEF FrInv, FrShape
    <2>2. x \in Cells
      BY <1>1, <2>1 DEF Cells, Cell
    <2> HIDE DEF x
    <2>3. recv_buffer' \in Seq(Cells) /\ wire' \in Seq(Cells) /\ got' \in Seq(Seq(Cells)) /\ sent' \in Nat
      BY <1>1, <2>2 DEF FrInv, FrShape
    <2>4. \A r \in Senders : spc'[r] # "idle" => smsg'[r] \in Msgs /\ smsg'[r].n <= sent'
      BY <1>1, <1>3 DEF FrInv, FrShape
    <2>5. \A r \in Senders : spc'[r] = "body" => ~smsg'[r].empty
      BY <1>3
    <2>6. ASSUME NEW r \in Senders, NEW t \in Senders, r # t, spc'[r] # "idle", spc'[t] # "idle"
          PROVE  smsg'[r] # smsg'[t]
      BY <1>3, <2>6 DEF FrInv, FrShape
    <2>7. FrShape'
      BY <1>1, <2>3, <2>4, <2>5, <2>6 DEF FrShape
    <2> QED
      BY <1>4, <2>7 DEF FrInv
  <1>5. CASE ~torn'
    <2>1. wire' = wire /\ spc[s] = "header" /\ spc'[s] = "idle"
      BY <1>1, <1>5
    <2>2. ASSUME NEW r \in Senders
          PROVE (Announces(r))' = Announces(r) /\ (Announces(r) => smsg'[r] = smsg[r])
      <3>1. CASE r = s
        BY <2>1, <3>1 DEF Announces
      <3>2. CASE r # s
        BY <1>1, <3>2 DEF Announces
      <3> QED
        BY <3>1, <3>2
    <2> QED
      BY <1>1, <1>3, <1>5, <2>1, <2>2, QuietFr
  <1> QED
    BY <1>4, <1>5

(* A piece of any length reaches the buffer, and whole frames leave it. *)
LEMMA ReceiveFr == ASSUME NEW n \in Nat, FrInv, Receive(n) PROVE FrInv'
  <1> DEFINE b == recv_buffer \o SubSeq(wire, 1, n)
             w == SubSeq(wire, n + 1, Len(wire))
             done == ProcessData(b)
  <1>1. /\ n \in 1..Len(wire) /\ recv_buffer' = done.rest /\ got' = got \o done.out /\ wire' = w
        /\ spc' = spc /\ smsg' = smsg /\ sent' = sent /\ torn' = torn
    BY DEF Receive
  <1>2. recv_buffer \in Seq(Cells) /\ wire \in Seq(Cells) /\ got \in Seq(Seq(Cells)) /\ sent \in Nat
    BY DEF FrInv, FrShape
  <1>3. SubSeq(wire, 1, n) \in Seq(Cells) /\ w \in Seq(Cells)
    BY <1>1, <1>2
  <1>4. b \in Seq(Cells)
    BY <1>2, <1>3
  <1>5. b \o w = Stream
    <2> DEFINE u == SubSeq(wire, 1, n)
    <2>1. u \o w = SubSeq(wire, 1, Len(wire))
      <3>1. /\ 1 \in 1..(Len(wire) + 1) /\ n \in (1 - 1)..Len(wire) /\ Len(wire) \in n..Len(wire)
        BY <1>1, <1>2
      <3> QED
        BY <1>2, <3>1, ConcatAdjacentSubSeq
    <2>2. SubSeq(wire, 1, Len(wire)) = wire
      BY <1>2, SubSeqFull
    <2> HIDE DEF u, w
    <2>3. (recv_buffer \o u) \o w = recv_buffer \o (u \o w)
      <3>1. u \in Seq(Cells) /\ w \in Seq(Cells)
        BY <1>3 DEF u, w
      <3> QED
        BY ONLY <1>2, <3>1, ConcatAssociative
    <2> QED
      BY <2>1, <2>2, <2>3 DEF Stream, u
  <1> HIDE DEF b, w
  <1>6. Carried(done, b, w, got)
    BY <1>2, <1>3, <1>4, ProcessKeeps
  <1> HIDE DEF done
  <1>7. done.rest \in Seq(Cells) /\ done.out \in Seq(Seq(Cells)) /\ got \o done.out \in Seq(Seq(Cells))
    <2>1. done.rest \in Seq(Cells) /\ done.out \in Seq(Seq(Cells))
      BY <1>6 DEF Carried
    <2> QED
      BY <1>2, <2>1
  <1>8. FrShape'
    BY <1>1, <1>3, <1>7 DEF FrInv, FrShape
  <1>9. ASSUME ~torn' PROVE InOrder(Stream, got)'
    <2> DEFINE c == done.rest \o w
               h == got \o done.out
    <2>1. InOrder(c, h)
      <3>1. InOrder(Stream, got)
        BY <1>1, <1>9 DEF FrInv
      <3> QED
        BY <1>5, <1>6, <3>1 DEF Carried
    <2>2. Stream' = c /\ got' = h
      BY <1>1 DEF Stream
    <2> HIDE DEF c, h
    <2>3. Framed(Stream)' /\ Whole(got)'
      BY <2>1, <2>2 DEF InOrder, Framed, Whole, Frame
    <2>4. Opened(Stream)'
      BY <1>1, <2>1, <2>2 DEF InOrder, Opened, Announces
    <2>5. Known(Stream, got)'
      BY <1>1, <2>1, <2>2 DEF InOrder, Known
    <2> QED
      BY <2>3, <2>4, <2>5 DEF InOrder
  <1> QED
    BY <1>8, <1>9 DEF FrInv

(* Every step keeps the invariant. *)
LEMMA FrStep == ASSUME FrInv, [CpNext]_cpvars PROVE FrInv'
  <1>1. CASE UNCHANGED cpvars
    BY <1>1, SameFr DEF cpvars, framevars
  <1>2. CASE PoolNext
    BY <1>2, SameFr DEF PoolNext, framevars
  <1>3. ASSUME NEW s \in Senders, NEW e \in BOOLEAN, Send(s, e) PROVE FrInv'
    BY <1>3, SendFr
  <1>4. ASSUME NEW s \in Senders, SendRefused(s) PROVE FrInv'
    BY <1>4, SendRefusedFr
  <1>5. ASSUME NEW s \in Senders, SendCell(s) PROVE FrInv'
    BY <1>5, SendCellFr
  <1>6. ASSUME NEW s \in Senders, CountCell(s) PROVE FrInv'
    BY <1>6, CountCellFr
  <1>7. CASE WindowPasses
    BY <1>7, SameFr DEF WindowPasses
  <1>9. ASSUME NEW s \in Senders, NEW n \in 0..(HeaderSize + BodySize), SendFails(s, n) PROVE FrInv'
    <2>1. n \in Nat
      BY CpAssumption
    <2> QED
      BY <1>9, <2>1, SendFailsFr
  <1>8. ASSUME NEW n \in 1..(2 * MaxSends), Receive(n) PROVE FrInv'
    <2>1. n \in Nat
      BY CpAssumption
    <2> QED
      BY <1>8, <2>1, ReceiveFr
  <1> QED
    BY <1>1, <1>2, <1>3, <1>4, <1>5, <1>6, <1>7, <1>8, <1>9 DEF CpNext, FrameNext

(* However the stream is cut into pieces and the senders interleave, the reader
   finds each header with its own body and each message once, until the limiter,
   a failing or short write or another sender cuts a frame (plain_send,
   connection_send_message, connection_receive and connection_process_data),
   for any senders, limits, sizes and number of messages. *)
THEOREM FramesAreMatched == CpSpec => []FramesMatch
  <1>1. CpInit => FrInv
    BY FrInit
  <1>2. FrInv /\ [CpNext]_cpvars => FrInv'
    BY FrStep
  <1>3. FrInv => FramesMatch
    <2>1. SUFFICES ASSUME FrInv, ~torn PROVE Whole(got) => FramesMatch
      BY DEF FrInv, InOrder, FramesMatch
    <2>2. Len(got) \in Nat
      BY <2>1, StreamCells DEF FrInv
    <2> QED
      BY <2>2 DEF Whole, Frame, FramesMatch
  <1> QED
    BY <1>1, <1>2, <1>3, PTL DEF CpSpec

-----------------------------------------------------------------------------
(* The WebSocket server.  The slots of the table in use, and the shape of a client. *)
Taken == {i \in ClientSlots : clients[i] # 0}
Object(r) == r = [state |-> r.state, fd |-> r.fd, fragments |-> r.fragments, buffer |-> r.buffer, lost |-> r.lost]

(* The buffer of a client holds the fragments it has counted, and none is lost. *)
Assembled ==
    /\ DOMAIN wcl = Ids
    /\ \A c \in Ids : Object(wcl[c]) /\ wcl[c].fragments \in Nat /\ wcl[c].buffer = wcl[c].fragments /\ ~wcl[c].lost

(* The accept thread adds a new client while there is room, between its test
   and the insertion too: nobody else fills slots. *)
Accepting ==
    /\ accpc = "add" => accid \in Ids /\ wcl[accid].state = "none"
    /\ accpc = "add" /\ wsstate # "stopped" => client_count < max_clients

(* Before stop, a slot in use has a live client, and no client two slots. *)
Table ==
    /\ DOMAIN clients = ClientSlots /\ \A i \in ClientSlots : clients[i] \in Ids \cup {0}
    /\ wsstate # "stopped" =>
         /\ \A i \in Taken : wcl[clients[i]].state \in {"CONNECTING", "OPEN"}
         /\ \A i, j \in Taken : clients[i] = clients[j] => i = j

(* Before stop, client_count is the number of slots in use. *)
TableCount == wsstate # "stopped" => client_count = Cardinality(Taken)

(* 0 is no client: it marks a free slot. *)
LEMMA Zero == 0 \notin Ids
  BY WsAssumption

(* The sets that are counted are finite. *)
LEMMA TakenFinite == /\ Cardinality(ClientSlots) = max_clients
                     /\ IsFiniteSet(Taken) /\ Cardinality(Taken) \in Nat
  <1>1. max_clients \in Int /\ 1 \in Int
    BY WsAssumption
  <1>2. IsFiniteSet(ClientSlots) /\ Cardinality(ClientSlots) = IF 1 > max_clients THEN 0 ELSE max_clients - 1 + 1
    BY <1>1, FS_Interval DEF ClientSlots
  <1>3. Cardinality(ClientSlots) = max_clients
    BY <1>2, WsAssumption
  <1>4. Taken \subseteq ClientSlots
    BY DEF Taken
  <1>5. QED
    BY <1>2, <1>3, <1>4, FS_Subset, FS_CardinalityType

(* The end of a handshake changes the state only. *)
LEMMA Opens ==
    ASSUME Assembled, NEW c \in Ids, wcl' = [wcl EXCEPT ![c].state = "OPEN"]
    PROVE  \E r : /\ wcl' = [wcl EXCEPT ![c] = r]
                  /\ r = [state |-> "OPEN", fd |-> wcl[c].fd, fragments |-> wcl[c].fragments,
                          buffer |-> wcl[c].buffer, lost |-> wcl[c].lost]
  <1> DEFINE r == [wcl[c] EXCEPT !.state = "OPEN"]
  <1>1. r = [state |-> "OPEN", fd |-> wcl[c].fd, fragments |-> wcl[c].fragments,
             buffer |-> wcl[c].buffer, lost |-> wcl[c].lost]
    BY DEF Assembled, Object
  <1>2. wcl' = [wcl EXCEPT ![c] = r]
    OBVIOUS
  <1>3. QED
    BY ONLY <1>1, <1>2

(* What a frame does to the fragments of a client. *)
LEMMA Reads ==
    ASSUME Assembled, Table, NEW kind \in {"start", "continue", "end"}, FrameRead(kind)
    PROVE  \E c, n, r :
             /\ c \in Ids /\ n \in Nat
             /\ c = clients[wkslot] /\ wcl' = [wcl EXCEPT ![c] = r]
             /\ r = [state |-> wcl[c].state, fd |-> wcl[c].fd, fragments |-> n, buffer |-> n, lost |-> FALSE]
  <1>1. PICK c \in Ids : c = clients[wkslot]
    BY Zero DEF FrameRead, Serving, HasData, Served, Table
  <1> DEFINE m == wcl[c].fragments
             length == Buffer(wcl[c].buffer)
             n == CASE kind = "start" -> 1 [] kind = "continue" -> m + 1 [] kind = "end" -> 0
             b == CASE kind = "start" -> 1 [] kind = "continue" -> length [] kind = "end" -> 0
             lost == wcl[c].lost \/ (kind = "end" /\ length # m + 1)
  <1>2. wcl' = [wcl EXCEPT ![c].fragments = n, ![c].buffer = b, ![c].lost = lost]
    BY <1>1 DEF FrameRead, Served, Assembled
  <1>3. length = m + 1 /\ m \in Nat
    BY DEF Buffer, Assembled
  <1>4. n \in Nat /\ b = n
    BY <1>3
  <1>5. lost = FALSE
    BY <1>3 DEF Assembled
  <1> HIDE DEF n, b, lost
  <1>6. Object(wcl[c])
    BY DEF Assembled
  <1>7. PICK r1 : r1 = [wcl[c] EXCEPT !.fragments = n]
    OBVIOUS
  <1>8. r1 = [state |-> wcl[c].state, fd |-> wcl[c].fd, fragments |-> n, buffer |-> wcl[c].buffer, lost |-> wcl[c].lost]
    BY ONLY <1>6, <1>7 DEF Object
  <1>9. PICK r2 : r2 = [r1 EXCEPT !.buffer = b]
    OBVIOUS
  <1>10. r2 = [state |-> wcl[c].state, fd |-> wcl[c].fd, fragments |-> n, buffer |-> b, lost |-> wcl[c].lost]
    BY ONLY <1>8, <1>9
  <1>11. [r2 EXCEPT !.lost = lost] =
           [state |-> wcl[c].state, fd |-> wcl[c].fd, fragments |-> n, buffer |-> b, lost |-> lost]
    BY ONLY <1>10
  <1>12. wcl' = [wcl EXCEPT ![c] = [r2 EXCEPT !.lost = lost]]
    BY <1>2, <1>7, <1>9 DEF Assembled
  <1>13. QED
    BY <1>1, <1>4, <1>5, <1>11, <1>12

(* A client that has just got a state and has read nothing. *)
Fresh(r, s) == r.state = s /\ Object(r) /\ r.fragments = 0 /\ r.buffer = 0 /\ ~r.lost

(* A client is added with an empty buffer. *)
LEMMA NewObject ==
    ASSUME AddClient
    PROVE  \E r : wcl' = [wcl EXCEPT ![accid] = r] /\ Fresh(r, "CONNECTING")
  <1>1. PICK r : r = [NoClient EXCEPT !.state = "CONNECTING", !.fd = NewFd]
    OBVIOUS
  <1>2. r = [state |-> "CONNECTING", fd |-> NewFd, fragments |-> 0, buffer |-> 0, lost |-> FALSE]
    BY <1>1 DEF NoClient
  <1>3. wcl' = [wcl EXCEPT ![accid] = r]
    BY <1>1 DEF AddClient
  <1>4. Object(r)
    BY <1>2 DEF Object
  <1>5. r.state = "CONNECTING" /\ r.fragments = 0 /\ r.buffer = 0 /\ ~r.lost
    BY <1>2
  <1>6. QED
    BY <1>3, <1>4, <1>5 DEF Fresh

(* A destroyed one has none. *)
LEMMA Destroyed == Fresh([NoClient EXCEPT !.state = "destroyed"], "destroyed")
  <1>1. PICK r : r = [NoClient EXCEPT !.state = "destroyed"]
    OBVIOUS
  <1>2. r = [state |-> "destroyed", fd |-> 0, fragments |-> 0, buffer |-> 0, lost |-> FALSE]
    BY <1>1 DEF NoClient
  <1>3. Object(r)
    BY <1>2 DEF Object
  <1>4. r.state = "destroyed" /\ r.fragments = 0 /\ r.buffer = 0 /\ ~r.lost
    BY <1>2
  <1>5. QED
    BY <1>1, <1>3, <1>4 DEF Fresh

(* The steps that touch neither the table nor a client. *)
Others ==
    \/ AcceptTest \/ NothingToAccept \/ WorkerTest \/ Skip \/ WorkerUnlocks \/ FrameLeavesNothing
    \/ DisconnectRead \/ CleanupRound \/ StopRequested
    \/ \E c \in Ids : Accept(c)
    \/ \E late \in BOOLEAN : SelectTimesOut(late)
    \/ \E fds \in SUBSET Fds : SelectReady(fds)
    \/ \E a \in Apps, c \in Ids, use \in {"send", "handshake"} : GetClient(a, c, use)

(* They leave table, count and clients alone. *)
LEMMA OthersLeave == Others => UNCHANGED <<clients, client_count, wcl>> /\ (wsstate' = "stopped" => wsstate = "stopped")
  BY DEF Others, AcceptTest, NothingToAccept, WorkerTest, Skip, WorkerUnlocks, FrameLeavesNothing,
     DisconnectRead,
         CleanupRound, StopRequested, Accept, SelectTimesOut, SelectReady, GetClient, threadvars

(* Every step is one of those or one of five others. *)
LEMMA StepIs ==
    WsNext => \/ Others \/ AddClient \/ HandshakeRead \/ StopFinishes
              \/ \E kind \in {"start", "continue", "end"} : FrameRead(kind)
              \/ \E a \in Apps : UseClient(a) \/ \E c \in Ids : CloseClient(a, c)
  BY DEF WsNext, Others, AcceptStep, WorkerStep

(* Every step keeps buffers and fragments together. *)
LEMMA AssembledStep == Assembled /\ Table /\ Accepting /\ [WsNext]_wsvars => Assembled'
  <1> SUFFICES ASSUME Assembled, Table, Accepting, [WsNext]_wsvars PROVE Assembled'
    OBVIOUS
  <1>1. ASSUME UNCHANGED wcl PROVE Assembled'
    BY <1>1 DEF Assembled
  <1>2. ASSUME NEW c \in Ids, NEW r, wcl' = [wcl EXCEPT ![c] = r], Object(r), r.fragments \in Nat,
               r.buffer = r.fragments, ~r.lost
        PROVE  Assembled'
    BY <1>2 DEF Assembled
  <1>3. CASE UNCHANGED wsvars \/ Others
    BY <1>1, <1>3, OthersLeave DEF wsvars
  <1>4. CASE AddClient
    <2>1. PICK r : wcl' = [wcl EXCEPT ![accid] = r] /\ Fresh(r, "CONNECTING")
      BY <1>4, NewObject
    <2>2. accid \in Ids
      BY <1>4 DEF AddClient, Accepting
    <2>3. Object(r) /\ r.fragments \in Nat /\ r.buffer = r.fragments /\ ~r.lost
      BY <2>1 DEF Fresh
    <2>4. QED
      BY <1>2, <2>1, <2>2, <2>3
  <1>5. ASSUME NEW c \in Ids, wcl' = [wcl EXCEPT ![c].state = "OPEN"] PROVE Assembled'
    <2>1. PICK r : /\ wcl' = [wcl EXCEPT ![c] = r]
                   /\ r = [state |-> "OPEN", fd |-> wcl[c].fd, fragments |-> wcl[c].fragments,
                           buffer |-> wcl[c].buffer, lost |-> wcl[c].lost]
      BY <1>5, Opens
    <2>2. Object(r) /\ r.fragments = wcl[c].fragments /\ r.buffer = wcl[c].buffer /\ r.lost = wcl[c].lost
      BY <2>1 DEF Object
    <2>3. QED
      BY <1>2, <2>1, <2>2 DEF Assembled
  <1>6. CASE HandshakeRead
    <2>1. clients[wkslot] \in Ids
      BY <1>6, Zero DEF HandshakeRead, Serving, HasData, Served, Table
    <2>2. QED
      BY <1>1, <1>5, <1>6, <2>1 DEF HandshakeRead, Served
  <1>7. ASSUME NEW kind \in {"start", "continue", "end"}, FrameRead(kind) PROVE Assembled'
    <2>1. PICK c, n, r :
             /\ c \in Ids /\ n \in Nat
             /\ wcl' = [wcl EXCEPT ![c] = r]
             /\ r = [state |-> wcl[c].state, fd |-> wcl[c].fd, fragments |-> n, buffer |-> n, lost |-> FALSE]
      BY <1>7, Reads
    <2>2. Object(r) /\ r.fragments = n /\ r.buffer = n /\ r.lost = FALSE
      BY <2>1 DEF Object
    <2>3. QED
      BY <1>2, <2>1, <2>2
  <1>8. ASSUME NEW a \in Apps, UseClient(a) PROVE Assembled'
    BY <1>1, <1>5, <1>8 DEF UseClient, Assembled
  <1>9. ASSUME NEW a \in Apps, NEW c \in Ids, CloseClient(a, c) PROVE Assembled'
    <2>1. PICK r : r = [NoClient EXCEPT !.state = "destroyed"]
      OBVIOUS
    <2>2. wcl' = [wcl EXCEPT ![c] = r]
      BY <1>9, <2>1 DEF CloseClient
    <2>3. Object(r) /\ r.fragments \in Nat /\ r.buffer = r.fragments /\ ~r.lost
      BY <2>1, Destroyed DEF Fresh
    <2>4. QED
      BY <1>2, <2>2, <2>3
  <1>10. CASE StopFinishes
    <2>1. PICK r : r = [NoClient EXCEPT !.state = "destroyed"]
      OBVIOUS
    <2>2. wcl' = [c \in Ids |-> IF Connected(c) THEN r ELSE wcl[c]]
      BY <1>10, <2>1 DEF StopFinishes
    <2>3. Object(r) /\ r.fragments = 0 /\ r.buffer = 0 /\ ~r.lost
      BY <2>1, Destroyed DEF Fresh
    <2>4. QED
      BY <2>2, <2>3 DEF Assembled
  <1>11. QED
    BY <1>3, <1>4, <1>6, <1>7, <1>8, <1>9, <1>10, StepIs

(* A client that is in the table. *)
Live(r) == r.state \in {"CONNECTING", "OPEN"}

(* Reading a frame, a handshake and a send destroy no client. *)
LEMMA ObjectsKept ==
    ASSUME Assembled, Table,
           HandshakeRead \/ (\E kind \in {"start", "continue", "end"} : FrameRead(kind)) \/ \E a \in Apps : UseClient(a)
    PROVE  /\ UNCHANGED <<clients, client_count, wsstate, accpc, accid>>
           /\ \A c \in Ids : /\ wcl[c].state = "none" => wcl'[c].state = "none"
                             /\ Live(wcl[c]) => Live(wcl'[c])
  <1> DEFINE Kept == \A c \in Ids : /\ wcl[c].state = "none" => wcl'[c].state = "none"
                                    /\ Live(wcl[c]) => Live(wcl'[c])
  <1>1. UNCHANGED <<clients, client_count, wsstate, accpc, accid>>
    BY DEF HandshakeRead, FrameRead, UseClient
  <1>2. ASSUME NEW c \in Ids, NEW r, wcl' = [wcl EXCEPT ![c] = r],
               (r.state = "OPEN" /\ wcl[c].state # "none") \/ r.state = wcl[c].state
        PROVE  Kept
    BY <1>2 DEF Assembled, Live
  <1>3. ASSUME NEW c \in Ids, wcl' = [wcl EXCEPT ![c].state = "OPEN"], wcl[c].state = "CONNECTING" PROVE Kept
    <2>1. PICK r : /\ wcl' = [wcl EXCEPT ![c] = r]
                   /\ r = [state |-> "OPEN", fd |-> wcl[c].fd, fragments |-> wcl[c].fragments,
                           buffer |-> wcl[c].buffer, lost |-> wcl[c].lost]
      BY <1>3, Opens
    <2>2. r.state = "OPEN"
      BY <2>1
    <2>3. QED
      BY <1>2, <1>3, <2>1, <2>2
  <1>4. CASE HandshakeRead
    <2>1. clients[wkslot] \in Ids
      BY <1>4, Zero DEF HandshakeRead, Serving, HasData, Served, Table
    <2>2. QED
      BY <1>3, <1>4, <2>1 DEF HandshakeRead, Served
  <1>5. ASSUME NEW kind \in {"start", "continue", "end"}, FrameRead(kind) PROVE Kept
    <2>1. PICK c, n, r :
             /\ c \in Ids /\ n \in Nat
             /\ wcl' = [wcl EXCEPT ![c] = r]
             /\ r = [state |-> wcl[c].state, fd |-> wcl[c].fd, fragments |-> n, buffer |-> n, lost |-> FALSE]
      BY <1>5, Reads
    <2>2. r.state = wcl[c].state
      BY <2>1
    <2>3. QED
      BY <1>2, <2>1, <2>2
  <1>6. ASSUME NEW a \in Apps, UseClient(a) PROVE Kept
    <2>1. CASE UNCHANGED wcl
      BY <2>1
    <2>2. CASE appid[a] \in Ids /\ wcl' = [wcl EXCEPT ![appid[a]].state = "OPEN"] /\ wcl[appid[a]].state = "CONNECTING"
      BY <1>3, <2>2
    <2>3. CASE appid[a] \notin Ids
      <3>1. \A c \in Ids : c # appid[a]
        BY <2>3
      <3>2. \A c \in Ids : wcl'[c] = wcl[c]
        BY <1>6, <3>1 DEF UseClient, Assembled
      <3>3. QED
        BY <3>2
    <2>4. QED
      BY <1>6, <2>1, <2>2, <2>3 DEF UseClient
  <1>7. QED
    BY <1>1, <1>4, <1>5, <1>6

(* Adding a client takes a free slot. *)
LEMMA Adds ==
    ASSUME Table, Accepting, AddClient
    PROVE  \E i \in ClientSlots : /\ i \notin Taken /\ Taken' = Taken \cup {i} /\ clients'[i] = accid /\ accid \in Ids
                                  /\ \A j \in ClientSlots : j # i => clients'[j] = clients[j]
  <1>1. PICK i \in ClientSlots : clients[i] = 0 /\ clients' = [clients EXCEPT ![i] = accid]
    BY DEF AddClient
  <1>2. accid \in Ids /\ accid # 0
    BY Zero DEF AddClient, Accepting
  <1>3. clients'[i] = accid /\ \A j \in ClientSlots : j # i => clients'[j] = clients[j]
    BY <1>1 DEF Table
  <1>4. i \notin Taken /\ Taken' = Taken \cup {i}
    BY <1>1, <1>2, <1>3 DEF Taken
  <1>5. QED
    BY <1>2, <1>3, <1>4

(* Closing one frees its slot. *)
LEMMA Closes ==
    ASSUME Table, NEW a \in Apps, NEW c \in Ids, CloseClient(a, c)
    PROVE  \E i \in Taken : /\ clients[i] = c /\ Taken' = Taken \ {i} /\ clients'[i] = 0
                            /\ \A j \in ClientSlots : j # i => clients'[j] = clients[j]
  <1>1. PICK i \in ClientSlots : i = SlotOf(c) /\ clients[i] = c
    BY DEF CloseClient, Connected, SlotOf
  <1>2. clients' = [clients EXCEPT ![i] = 0] /\ c # 0
    BY <1>1, Zero DEF CloseClient
  <1>3. clients'[i] = 0 /\ \A j \in ClientSlots : j # i => clients'[j] = clients[j]
    BY <1>2 DEF Table
  <1>4. i \in Taken /\ Taken' = Taken \ {i}
    BY <1>1, <1>2, <1>3 DEF Taken
  <1>5. QED
    BY <1>1, <1>3, <1>4

(* Nobody fills a slot between the test of the accept thread and its insertion. *)
LEMMA AcceptingStep == Assembled /\ Table /\ TableCount /\ Accepting /\ [WsNext]_wsvars => Accepting'
  <1> SUFFICES ASSUME Assembled, Table, TableCount, Accepting, [WsNext]_wsvars PROVE Accepting'
    OBVIOUS
  <1>1. CASE UNCHANGED wsvars
    BY <1>1 DEF wsvars, Accepting
  <1>2. ASSUME UNCHANGED <<client_count, wcl>>, wsstate' = "stopped" \/ wsstate # "stopped",
               accpc' # "add" \/ UNCHANGED <<accpc, accid>>
        PROVE  Accepting'
    BY <1>2 DEF Accepting
  <1>3. ASSUME NEW c \in Ids, Accept(c) PROVE Accepting'
    <2>1. wcl[c].state = "none" /\ UNCHANGED <<client_count, wcl, wsstate>>
      BY <1>3 DEF Accept
    <2>2. CASE client_count >= max_clients
      BY <1>3, <2>2 DEF Accept, Accepting
    <2>3. CASE ~(client_count >= max_clients)
      <3>1. accpc' = "add" /\ accid' = c
        BY <1>3, <2>3 DEF Accept
      <3>2. wsstate # "stopped" => client_count < max_clients
        BY <2>3, TakenFinite, WsAssumption DEF TableCount
      <3>3. QED
        BY <2>1, <3>1, <3>2 DEF Accepting
    <2>4. QED
      BY <2>2, <2>3
  <1>4. ASSUME Others, \A c \in Ids : ~Accept(c) PROVE Accepting'
    <2>1. accpc' # "add" \/ UNCHANGED <<accpc, accid>>
      BY <1>4 DEF Others, AcceptTest, NothingToAccept, WorkerTest, Skip, WorkerUnlocks, FrameLeavesNothing,
                  DisconnectRead, CleanupRound, StopRequested, SelectTimesOut, SelectReady, GetClient, threadvars
    <2>2. wsstate' = "stopped" \/ wsstate # "stopped"
      BY <1>4 DEF Others, AcceptTest, NothingToAccept, WorkerTest, Skip, WorkerUnlocks, FrameLeavesNothing,
                  DisconnectRead, CleanupRound, StopRequested, SelectTimesOut, SelectReady, GetClient, threadvars
    <2>3. QED
      BY <1>2, <1>4, <2>1, <2>2, OthersLeave
  <1>5. CASE AddClient \/ StopFinishes
    BY <1>5 DEF AddClient, StopFinishes, threadvars, Accepting
  <1>6. CASE HandshakeRead \/ (\E kind \in {"start", "continue", "end"} : FrameRead(kind)) \/ \E a \in Apps : UseClient(a)
    BY <1>6, ObjectsKept DEF Accepting
  <1>7. ASSUME NEW a \in Apps, NEW c \in Ids, CloseClient(a, c) PROVE Accepting'
    <2>1. PICK i \in Taken : clients[i] = c
      BY <1>7, Closes
    <2>2. wsstate # "stopped" /\ UNCHANGED <<wsstate, accpc, accid>> /\ client_count' = client_count - 1
      BY <1>7 DEF CloseClient, AppIdle, threadvars
    <2>3. wcl[c].state # "none"
      BY <2>1, <2>2 DEF Table
    <2>4. \A d \in Ids : d # c => wcl'[d] = wcl[d]
      BY <1>7 DEF CloseClient, Assembled
    <2>5. client_count \in Nat
      BY <2>2, TakenFinite DEF TableCount
    <2>6. accpc = "add" => client_count - 1 < max_clients
      BY <2>2, <2>5, WsAssumption DEF Accepting
    <2>7. accpc = "add" => accid \in Ids /\ wcl'[accid].state = "none"
      BY <2>3, <2>4 DEF Accepting
    <2>8. QED
      BY <2>2, <2>6, <2>7 DEF Accepting
  <1>8. QED
    BY <1>1, <1>3, <1>4, <1>5, <1>6, <1>7, StepIs

(* Every step keeps the table and the clients in agreement. *)
LEMMA TableStep == Assembled /\ Table /\ Accepting /\ [WsNext]_wsvars => Table'
  <1> SUFFICES ASSUME Assembled, Table, Accepting, [WsNext]_wsvars PROVE Table'
    OBVIOUS
  <1>1. ASSUME UNCHANGED clients, wsstate' = "stopped" \/ wsstate # "stopped",
               \A c \in Ids : Live(wcl[c]) => Live(wcl'[c])
        PROVE  Table'
    <2>1. Taken' = Taken /\ \A i \in Taken : clients[i] \in Ids
      BY <1>1 DEF Taken, Table
    <2>2. QED
      BY <1>1, <2>1 DEF Table, Live
  <1>2. CASE UNCHANGED wsvars \/ Others
    <2>1. wsstate' = "stopped" \/ wsstate # "stopped" 
      BY <1>2 DEF wsvars, Others, AcceptTest, NothingToAccept, WorkerTest, Skip, WorkerUnlocks,
         FrameLeavesNothing,
                  DisconnectRead, CleanupRound, StopRequested, Accept, SelectTimesOut, SelectReady, GetClient
    <2>2. UNCHANGED <<clients, wcl>>
      BY <1>2, OthersLeave DEF wsvars
    <2>3. QED
      BY <1>1, <2>1, <2>2
  <1>3. CASE HandshakeRead \/ (\E kind \in {"start", "continue", "end"} : FrameRead(kind)) \/ \E a \in Apps : UseClient(a)
    <2>1. UNCHANGED <<clients, wsstate>> /\ \A c \in Ids : Live(wcl[c]) => Live(wcl'[c])
      BY <1>3, ObjectsKept
    <2>2. Taken' = Taken /\ \A i \in Taken : clients[i] \in Ids
      BY <2>1 DEF Taken, Table
    <2>3. QED
      BY <2>1, <2>2 DEF Table, Live
  <1>4. CASE StopFinishes
    BY <1>4 DEF StopFinishes, Table
  <1>5. CASE AddClient
    <2>1. PICK i \in ClientSlots : /\ Taken' = Taken \cup {i} /\ clients'[i] = accid /\ accid \in Ids
                                   /\ \A j \in ClientSlots : j # i => clients'[j] = clients[j]
                                   /\ i \notin Taken
      BY <1>5, Adds
    <2>2. PICK r : wcl' = [wcl EXCEPT ![accid] = r] /\ Fresh(r, "CONNECTING")
      BY <1>5, NewObject
    <2>3. wcl'[accid].state = "CONNECTING" /\ \A c \in Ids : c # accid => wcl'[c] = wcl[c]
      BY <2>1, <2>2 DEF Assembled, Fresh
    <2>4. UNCHANGED wsstate /\ DOMAIN clients' = ClientSlots /\ wcl[accid].state = "none"
      BY <1>5 DEF AddClient, Table, Accepting
    <2>5. ASSUME wsstate # "stopped", NEW j \in Taken
          PROVE  clients'[j] = clients[j] /\ clients[j] \in Ids /\ clients[j] # accid
                 /\ wcl'[clients[j]].state \in {"CONNECTING", "OPEN"}
      <3>1. j \in ClientSlots /\ j # i /\ clients[j] \in Ids
        BY <2>1 DEF Taken, Table
      <3>2. wcl[clients[j]].state \in {"CONNECTING", "OPEN"}
        BY <2>5 DEF Table
      <3>3. QED
        BY <2>1, <2>3, <2>4, <3>1, <3>2
    <2>6. \A j \in ClientSlots : clients'[j] \in Ids \cup {0}
      BY <2>1 DEF Table
    <2>7. ASSUME wsstate # "stopped"
          PROVE  \A j \in Taken' : wcl'[clients'[j]].state \in {"CONNECTING", "OPEN"}
      BY <2>1, <2>3, <2>5, <2>7
    <2>8. ASSUME wsstate # "stopped"
          PROVE  \A j, k \in Taken' : clients'[j] = clients'[k] => j = k
      <3>1. \A j, k \in Taken : clients[j] = clients[k] => j = k
        BY <2>8 DEF Table
      <3>2. QED
        BY <2>1, <2>5, <2>8, <3>1
    <2>9. QED
      BY <2>4, <2>6, <2>7, <2>8 DEF Table
  <1>6. ASSUME NEW a \in Apps, NEW c \in Ids, CloseClient(a, c) PROVE Table'
    <2>1. PICK i \in Taken : /\ clients[i] = c /\ Taken' = Taken \ {i} /\ clients'[i] = 0
                             /\ \A j \in ClientSlots : j # i => clients'[j] = clients[j]
      BY <1>6, Closes
    <2>2. wsstate # "stopped" /\ UNCHANGED wsstate /\ DOMAIN clients' = ClientSlots
      BY <1>6 DEF CloseClient, AppIdle, Table
    <2>3. \A d \in Ids : d # c => wcl'[d] = wcl[d]
      BY <1>6 DEF CloseClient, Assembled
    <2>4. \A j \in Taken' : j \in Taken /\ clients'[j] = clients[j] /\ clients[j] \in Ids /\ clients[j] # c
      BY <2>1, <2>2 DEF Taken, Table
    <2>5. \A j \in ClientSlots : clients'[j] \in Ids \cup {0}
      BY <2>1 DEF Table
    <2>6. \A j \in Taken' : wcl'[clients'[j]].state \in {"CONNECTING", "OPEN"}
      BY <2>2, <2>3, <2>4 DEF Table
    <2>7. \A j, k \in Taken' : clients'[j] = clients'[k] => j = k
      BY <2>2, <2>4 DEF Table
    <2>8. QED
      BY <2>2, <2>5, <2>6, <2>7 DEF Table
  <1>7. QED
    BY <1>2, <1>3, <1>4, <1>5, <1>6, StepIs

(* Every step keeps the count. *)
LEMMA TableCountStep ==
    Assembled /\ Table /\ Accepting /\ TableCount /\ [WsNext]_wsvars => TableCount'
  <1> SUFFICES ASSUME Assembled, Table, Accepting, TableCount, [WsNext]_wsvars PROVE TableCount'
    OBVIOUS
  <1>1. ASSUME UNCHANGED <<clients, client_count>>, wsstate' = "stopped" \/ wsstate # "stopped" PROVE TableCount'
    BY <1>1 DEF TableCount, Taken
  <1>2. CASE UNCHANGED wsvars \/ Others
    <2>1. wsstate' = "stopped" \/ wsstate # "stopped" 
      BY <1>2 DEF wsvars, Others, AcceptTest, NothingToAccept, WorkerTest, Skip, WorkerUnlocks,
         FrameLeavesNothing,
                  DisconnectRead, CleanupRound, StopRequested, Accept, SelectTimesOut, SelectReady, GetClient
    <2>2. UNCHANGED <<clients, client_count>>
      BY <1>2, OthersLeave DEF wsvars
    <2>3. QED
      BY <1>1, <2>1, <2>2
  <1>3. CASE HandshakeRead \/ (\E kind \in {"start", "continue", "end"} : FrameRead(kind)) \/ \E a \in Apps : UseClient(a)
    <2>1. UNCHANGED <<clients, client_count, wsstate>>
      BY <1>3, ObjectsKept
    <2>2. QED
      BY <2>1 DEF TableCount, Taken
  <1>4. CASE StopFinishes
    BY <1>4 DEF StopFinishes, TableCount
  <1>5. CASE AddClient
    <2>1. PICK i : i \notin Taken /\ Taken' = Taken \cup {i}
      BY <1>5, Adds
    <2>2. Cardinality(Taken \cup {i}) = Cardinality(Taken) + 1
      BY <2>1, TakenFinite, FS_AddElement
    <2>3. client_count' = client_count + 1 /\ UNCHANGED wsstate
      BY <1>5 DEF AddClient
    <2>4. QED
      BY <2>1, <2>2, <2>3 DEF TableCount
  <1>6. ASSUME NEW a \in Apps, NEW c \in Ids, CloseClient(a, c) PROVE TableCount'
    <2>1. PICK i \in Taken : Taken' = Taken \ {i}
      BY <1>6, Closes
    <2>2. Cardinality(Taken \ {i}) = Cardinality(Taken) - 1
      BY TakenFinite, FS_RemoveElement
    <2>3. client_count' = client_count - 1 /\ UNCHANGED wsstate
      BY <1>6 DEF CloseClient
    <2>4. QED
      BY <2>1, <2>2, <2>3 DEF TableCount
  <1>7. QED
    BY <1>2, <1>3, <1>4, <1>5, <1>6, StepIs

(* The inductive invariant. *)
WsInv == Assembled /\ Accepting /\ Table /\ TableCount

(* Until the server stops, client_count is the number of clients in the table,
   each of them alive and in one slot, a client that passed the test of the
   limit finds a slot, and no fragment of a message is lost (websocket_server.c: the accept and worker
   threads, websocket_close_client), for any clients, slots and threads. *)
THEOREM ClientsAreAccounted == WsSpec => []ClientsAccounted
  <1>1. WsInit => WsInv
    <2> SUFFICES ASSUME WsInit PROVE WsInv
      OBVIOUS
    <2>1. Taken = {}
      BY DEF WsInit, Taken
    <2>2. Object(NoClient) /\ NoClient.fragments = 0 /\ NoClient.buffer = 0 /\ ~NoClient.lost
      BY DEF Object, NoClient
    <2>3. Assembled
      BY <2>2 DEF WsInit, Assembled
    <2>4. Accepting /\ Table
      BY <2>1 DEF WsInit, Accepting, Table
    <2>5. TableCount
      BY <2>1, FS_EmptySet DEF WsInit, TableCount
    <2>6. QED
      BY <2>3, <2>4, <2>5 DEF WsInv
  <1>2. WsInv /\ [WsNext]_wsvars => WsInv'
    BY AssembledStep, AcceptingStep, TableStep, TableCountStep DEF WsInv
  <1>3. WsInv => ClientsAccounted
    <2> SUFFICES ASSUME WsInv PROVE ClientsAccounted
      OBVIOUS
    <2>1. ASSUME wsstate # "stopped", accpc = "add" PROVE \E i \in ClientSlots : clients[i] = 0
      <3>1. Cardinality(Taken) < Cardinality(ClientSlots)
        BY <2>1, TakenFinite DEF WsInv, Accepting, TableCount
      <3>2. Taken # ClientSlots
        BY <3>1, TakenFinite, WsAssumption
      <3>3. QED
        BY <3>2 DEF Taken
    <2>2. ASSUME wsstate # "stopped"
          PROVE  /\ client_count = Cardinality({i \in ClientSlots : clients[i] # 0})
                 /\ \A i \in ClientSlots : clients[i] # 0 => wcl[clients[i]].state \in {"CONNECTING", "OPEN"}
                 /\ \A i, j \in ClientSlots : clients[i] = clients[j] /\ clients[i] # 0 => i = j
      BY <2>2 DEF WsInv, Table, TableCount, Taken
    <2>3. \A c \in Ids : ~wcl[c].lost
      BY DEF WsInv, Assembled
    <2>4. QED
      BY <2>1, <2>2, <2>3 DEF ClientsAccounted
  <1>4. QED
    BY <1>1, <1>2, <1>3, PTL DEF WsSpec

-----------------------------------------------------------------------------
(* Monitoring.  The rings are arrays of HistorySize whose indices are taken
   modulo it: a positive multiple of H is at least H. *)
LEMMA Times ==
    ASSUME NEW H \in Nat \ {0}, NEW q \in Int, H * q > 0
    PROVE  H * q >= H
  <1>1. q >= 1
    OBVIOUS
  <1>2. QED
    BY <1>1

(* Division with remainder. *)
LEMMA DivMod ==
    ASSUME NEW H \in Nat \ {0}, NEW a \in Nat
    PROVE  \E q \in Int, r \in 0..(H - 1) : a = H * q + r /\ r = a % H
  OBVIOUS

(* The remainder of what is less than twice the divisor. *)
LEMMA ModIs ==
    ASSUME NEW H \in Nat \ {0}
    PROVE  /\ \A x \in Nat : x % H \in 0..(H - 1)
           /\ \A x \in 0..(H - 1) : x % H = x
           /\ \A x \in H..(2 * H - 1) : x % H = x - H
  <1>1. ASSUME NEW x \in Nat PROVE x % H \in 0..(H - 1)
    OBVIOUS
  <1>2. ASSUME NEW x \in 0..(H - 1) PROVE x % H = x
    OBVIOUS
  <1>3. ASSUME NEW x \in H..(2 * H - 1) PROVE x % H = x - H
    OBVIOUS
  <1>4. QED
    BY <1>1, <1>2, <1>3

(* Numbers less than H apart have different places. *)
LEMMA ModDistinct ==
    ASSUME NEW H \in Nat \ {0}, NEW a \in Nat, NEW b \in Nat, a < b, b < a + H
    PROVE  a % H # b % H
  <1>1. SUFFICES ASSUME a % H = b % H PROVE FALSE
    OBVIOUS
  <1>2. PICK q \in Int, r \in Int : a = H * q + r /\ r = a % H
    BY DivMod
  <1>3. PICK p \in Int, s \in Int : b = H * p + s /\ s = b % H
    BY DivMod
  <1>4. b - a = H * p - H * q
    BY <1>1, <1>2, <1>3
  <1>5. H * p - H * q = H * (p - q)
    OBVIOUS
  <1>6. H * (p - q) > 0 /\ H * (p - q) < H
    BY <1>4, <1>5
  <1>7. QED
    BY <1>6, Times

(* The next number has the next place. *)
LEMMA ModNext ==
    ASSUME NEW H \in Nat \ {0}, NEW a \in Nat
    PROVE  (a + 1) % H = ((a % H) + 1) % H
  <1>1. PICK q \in Int, r \in 0..(H - 1) : a = H * q + r /\ r = a % H
    BY DivMod
  <1>2. CASE r + 1 < H
    <2>1. (r + 1) % H = r + 1
      <3>1. r + 1 \in 0..(H - 1)
        BY <1>2
      <3>2. QED
        BY <3>1, ModIs
    <2>2. a + 1 = H * q + (r + 1)
      BY <1>1
    <2>3. (H * q + (r + 1)) % H = r + 1
      BY <1>2
    <2>4. QED
      BY <1>1, <2>1, <2>2, <2>3
  <1>3. CASE r + 1 = H
    <2>1. (r + 1) % H = 0
      BY <1>3, ModIs
    <2>2. PICK x \in Int : x = H * q
      OBVIOUS
    <2>3. a = x + r
      BY <1>1, <2>2
    <2>4. a + 1 = x + H
      BY <1>3, <2>3
    <2>5. H * (q + 1) = H * q + H
      OBVIOUS
    <2>6. a + 1 = H * (q + 1)
      BY ONLY <2>2, <2>4, <2>5
    <2>7. (H * (q + 1)) % H = 0
      OBVIOUS
    <2>8. QED
      BY <1>1, <2>1, <2>6, <2>7
  <1>4. QED
    BY <1>2, <1>3

(* When the start moves on, every place counted from it does. *)
LEMMA ModShift ==
    ASSUME NEW H \in Nat \ {0}, NEW s \in 0..(H - 1), NEW i \in 0..(H - 1)
    PROVE  (((s + 1) % H) + i) % H = (s + i + 1) % H
  <1>1. CASE s + 1 < H
    <2>1. (s + 1) % H = s + 1
      <3>1. s + 1 \in 0..(H - 1)
        BY <1>1
      <3>2. QED
        BY <3>1, ModIs
    <2>2. (s + 1) + i = s + i + 1
      OBVIOUS
    <2>3. QED
      BY <2>1, <2>2
  <1>2. CASE s + 1 = H
    <2>1. (s + 1) % H = 0 /\ 0 + i = i /\ i % H = i
      BY <1>2, ModIs
    <2>2. s + i + 1 \in H..(2 * H - 1) /\ s + i + 1 - H = i
      BY <1>2
    <2>3. (s + i + 1) % H = i
      BY <2>2, ModIs
    <2>4. QED
      BY <2>1, <2>3
  <1>3. QED
    BY <1>1, <1>2

(* The ring holds the last points created, from its start on, and points were
   created a second apart or more. *)
History ==
    /\ DOMAIN points = 0..(HistorySize - 1) /\ start_index \in 0..(HistorySize - 1)
    /\ created \in Seq(Nat) /\ time \in Nat
    /\ pcount = IF Len(created) > HistorySize THEN HistorySize ELSE Len(created)
    /\ \A i \in 0..(pcount - 1) : points[At(i)] = created[Len(created) - pcount + i + 1]
    /\ \A i \in 1..(Len(created) - 1) : created[i + 1] - created[i] >= Tolerance

(* snapshot_index is where the next one goes, and the last ones are in their places. *)
Snapshots ==
    /\ DOMAIN snapshots = 0..(HistorySize - 1) /\ taken \in Nat
    /\ snapshot_index = taken % HistorySize
    /\ \A n \in 1..taken : n > taken - HistorySize => snapshots[(n - 1) % HistorySize] = n

(* A step adds a point or leaves the history alone, and adds a snapshot or
   leaves those alone. *)
LEMMA MonStepIs ==
    [MonNext]_monvars => /\ UpdateHistory \/ UNCHANGED histvars
                         /\ AddSnapshot \/ UNCHANGED snapvars
                         /\ time' = time \/ time' = time + 1
  <1> SUFFICES ASSUME [MonNext]_monvars
               PROVE  /\ UpdateHistory \/ UNCHANGED histvars
                      /\ AddSnapshot \/ UNCHANGED snapvars
                      /\ time' = time \/ time' = time + 1
    OBVIOUS
  <1>1. CASE UNCHANGED monvars
    BY <1>1 DEF monvars
  <1>2. CASE (\E ok \in BOOLEAN : MonStart(ok)) \/ MonStop \/ Destroy \/ Joined \/ MonTick
    BY <1>2 DEF MonStart, MonStop, Destroy, Joined, MonTick
  <1>3. ASSUME NEW k \in Run, Collects(k) \/ AlertEnds(k)
        PROVE  /\ UpdateHistory \/ UNCHANGED histvars
               /\ AddSnapshot \/ UNCHANGED snapvars
               /\ time' = time \/ time' = time + 1
    BY <1>3 DEF Collects, Collect, CollectChecks, CollectEnds, AlertEnds
  <1>4. ASSUME NEW c \in MonCallers, UpdateCalls(c)
        PROVE  /\ UpdateHistory \/ UNCHANGED histvars
               /\ AddSnapshot \/ UNCHANGED snapvars
               /\ time' = time \/ time' = time + 1
    BY <1>4 DEF UpdateCalls, UpdateMetric, UpdateChecks
  <1>5. ASSUME NEW c \in MonCallers, AlertCalls(c) \/ \E i \in 1..MaxAlerts : SetStatus(c, i)
        PROVE  UNCHANGED <<histvars, snapvars, time>>
    BY <1>5 DEF AlertCalls, AddAlert, Callback, SetStatus
  <1>6. \A c \in Updaters : c \in MonCallers
    BY MonAssumption
  <1>7. CASE CollectionNext
    BY <1>2, <1>3, <1>4, <1>6, <1>7 DEF CollectionNext
  <1>8. CASE AlertNext
    BY <1>2, <1>4, <1>5, <1>6, <1>8 DEF AlertNext
  <1>9. QED
    BY <1>1, <1>7, <1>8 DEF MonNext

(* A new snapshot overwrites the oldest. *)
LEMMA SnapshotsStep == Snapshots /\ [MonNext]_monvars => Snapshots'
  <1> SUFFICES ASSUME Snapshots, [MonNext]_monvars PROVE Snapshots'
    OBVIOUS
  <1>1. CASE UNCHANGED snapvars
    BY <1>1 DEF snapvars, Snapshots
  <1>2. CASE AddSnapshot
    <2>1. HistorySize \in Nat \ {0}
      BY MonAssumption
    <2>2. /\ snapshots' = [snapshots EXCEPT ![taken % HistorySize] = taken + 1]
          /\ snapshot_index' = ((taken % HistorySize) + 1) % HistorySize
          /\ taken' = taken + 1 /\ taken \in Nat /\ DOMAIN snapshots = 0..(HistorySize - 1)
      BY <1>2 DEF AddSnapshot, Snapshots
    <2>3. snapshot_index' = taken' % HistorySize
      BY <2>1, <2>2, ModNext
    <2>4. taken % HistorySize \in 0..(HistorySize - 1)
      BY <2>1, <2>2, ModIs
    <2>5. ASSUME NEW n \in 1..taken', n > taken' - HistorySize PROVE snapshots'[(n - 1) % HistorySize] = n
      <3>1. CASE n = taken + 1
        <4>1. n - 1 = taken
          BY <2>2, <3>1
        <4>2. QED
          BY <2>2, <2>4, <3>1, <4>1
      <3>2. CASE n # taken + 1
        <4>1. n \in 1..taken /\ n > taken - HistorySize /\ n - 1 \in Nat /\ n - 1 < taken /\ taken < (n - 1) + HistorySize
          BY <2>1, <2>2, <2>5, <3>2
        <4>2. (n - 1) % HistorySize # taken % HistorySize
          BY <2>1, <2>2, <4>1, ModDistinct
        <4>3. (n - 1) % HistorySize \in 0..(HistorySize - 1)
          BY <2>1, <4>1, ModIs
        <4>4. snapshots[(n - 1) % HistorySize] = n
          BY <4>1 DEF Snapshots
        <4>5. QED
          BY ONLY <2>2, <4>2, <4>3, <4>4
      <3>3. QED
        BY <3>1, <3>2
    <2>6. DOMAIN snapshots' = 0..(HistorySize - 1) /\ taken' \in Nat
      BY <2>2
    <2>7. QED
      BY <2>3, <2>5, <2>6 DEF Snapshots
  <1>3. QED
    BY <1>1, <1>2, MonStepIs

(* A new point goes behind the last and, when the ring is full, over the
   oldest; it is no closer than a second to the last, which is in the ring. *)
LEMMA HistoryStep == History /\ [MonNext]_monvars => History'
  <1> SUFFICES ASSUME History, [MonNext]_monvars PROVE History'
    OBVIOUS
  <1> DEFINE H == HistorySize
  <1>1. H \in Nat \ {0}
    BY MonAssumption
  <1>2. time' \in Nat
    BY MonStepIs DEF History
  <1>3. CASE UNCHANGED histvars
    BY <1>2, <1>3 DEF histvars, History, At
  <1>4. ASSUME UpdateHistory, ~SamePoint PROVE History'
    <2> DEFINE s == IF pcount >= H THEN (start_index + 1) % H ELSE start_index
               n == IF pcount >= H THEN pcount - 1 ELSE pcount
               L == Len(created)
    <2>1. /\ points' = [points EXCEPT ![(s + n) % H] = time]
          /\ start_index' = s /\ pcount' = n + 1 /\ created' = Append(created, time)
      BY <1>4 DEF UpdateHistory
    <2>2. /\ L \in Nat /\ pcount \in Nat /\ pcount <= H /\ pcount <= L
          /\ n \in Nat /\ n < H /\ n <= pcount /\ n <= L
      BY <1>1 DEF History
    <2>3. n + 1 = IF L + 1 > H THEN H ELSE L + 1
      BY <1>1 DEF History
    <2>4. s \in 0..(H - 1)
      <3>1. start_index \in 0..(H - 1) /\ start_index + 1 \in Nat
        BY <1>1 DEF History
      <3>2. (start_index + 1) % H \in 0..(H - 1)
        BY <1>1, <3>1, ModIs
      <3>3. QED
        BY <3>1, <3>2
    <2>5. \A i \in 0..(n - 1) : (s + i) % H \in 0..(H - 1) /\ (s + i) % H # (s + n) % H
      <3> SUFFICES ASSUME NEW i \in 0..(n - 1)
                   PROVE  (s + i) % H \in 0..(H - 1) /\ (s + i) % H # (s + n) % H
        OBVIOUS
      <3> HIDE DEF s, n, H
      <3>1. s + i \in Nat /\ s + n \in Nat /\ s + i < s + n /\ s + n < (s + i) + H
        BY <1>1, <2>2, <2>4
      <3>2. QED
        BY <1>1, <3>1, ModIs, ModDistinct
    <2>6. \A i \in 0..(n - 1) : points[(s + i) % H] = created[L + 1 - (n + 1) + i + 1]
      <3> SUFFICES ASSUME NEW i \in 0..(n - 1)
                   PROVE  points[(s + i) % H] = created[L + 1 - (n + 1) + i + 1]
        OBVIOUS
      <3>1. CASE pcount >= H
        <4>1. /\ n = pcount - 1 /\ pcount = H /\ i + 1 \in 0..(pcount - 1) /\ i \in 0..(H - 1)
              /\ start_index \in 0..(H - 1)
          BY <2>2, <3>1 DEF History
        <4>2. (s + i) % H = (start_index + i + 1) % H
          BY <1>1, <3>1, <4>1, ModShift
        <4>3. start_index + i + 1 = start_index + (i + 1)
          BY <4>1
        <4>4. points[(start_index + (i + 1)) % H] = created[L - pcount + (i + 1) + 1]
          BY <4>1 DEF History, At
        <4>5. L - pcount + (i + 1) + 1 = L + 1 - (n + 1) + i + 1
          BY <2>2, <4>1
        <4>6. QED
          BY <4>2, <4>3, <4>4, <4>5
      <3>2. CASE ~(pcount >= H)
        <4>1. n = pcount /\ s = start_index
          BY <3>2
        <4>2. points[(s + i) % H] = created[L - pcount + i + 1]
          BY <4>1 DEF History, At
        <4>3. L - pcount + i + 1 = L + 1 - (n + 1) + i + 1
          BY <2>2, <4>1
        <4>4. QED
          BY <4>2, <4>3
      <3>3. QED
        BY <3>1, <3>2
    <2>7. L > 0 => time - created[L] >= Tolerance
      <3> SUFFICES ASSUME L > 0 PROVE time - created[L] >= Tolerance
        OBVIOUS
      <3>1. pcount - 1 \in 0..(pcount - 1) /\ L - pcount + (pcount - 1) + 1 = L
        BY <1>1, <2>2 DEF History
      <3>2. points[At(pcount - 1)] = created[L]
        BY <3>1 DEF History
      <3>3. ~(time - points[At(pcount - 1)] < Tolerance)
        BY <1>4, <3>1 DEF SamePoint
      <3>4. time \in Nat /\ created[L] \in Nat
        BY <2>2 DEF History
      <3>5. QED
        BY <3>2, <3>3, <3>4 DEF Tolerance
    <2> HIDE DEF s, n
    <2>8. /\ created' \in Seq(Nat) /\ Len(created') = L + 1 /\ created'[L + 1] = time
          /\ \A i \in 1..L : created'[i] = created[i]
      BY <2>1 DEF History
    <2>9. (s + n) % H \in 0..(H - 1)
      BY <1>1, <2>2, <2>4, ModIs
    <2>10. /\ DOMAIN points' = 0..(H - 1) /\ points'[(s + n) % H] = time
           /\ \A j \in 0..(H - 1) : j # (s + n) % H => points'[j] = points[j]
      BY <2>1, <2>9 DEF History
    <2>11. \A i \in 0..(pcount' - 1) : points'[(s + i) % H] = created'[Len(created') - pcount' + i + 1]
      <3> SUFFICES ASSUME NEW i \in 0..(pcount' - 1)
                   PROVE  points'[(s + i) % H] = created'[Len(created') - pcount' + i + 1]
        OBVIOUS
      <3>1. CASE i = n
        <4>1. Len(created') - pcount' + i + 1 = L + 1
          BY <2>1, <2>2, <2>8, <3>1
        <4>2. QED
          BY <2>8, <2>10, <3>1, <4>1
      <3>2. CASE i # n
        <4>1. i \in 0..(n - 1)
          BY <2>1, <2>2, <3>2
        <4>2. L + 1 - (n + 1) + i + 1 \in 1..L
          BY <2>2, <4>1
        <4>3. Len(created') - pcount' + i + 1 = L + 1 - (n + 1) + i + 1
          BY <2>1, <2>8
        <4>4. points'[(s + i) % H] = points[(s + i) % H]
          BY <2>5, <2>10, <4>1
        <4>5. created'[L + 1 - (n + 1) + i + 1] = created[L + 1 - (n + 1) + i + 1]
          BY <2>8, <4>2
        <4>6. points[(s + i) % H] = created[L + 1 - (n + 1) + i + 1]
          BY <2>6, <4>1
        <4>7. QED
          BY ONLY <4>3, <4>4, <4>5, <4>6
      <3>3. QED
        BY <3>1, <3>2
    <2>12. \A i \in 1..(Len(created') - 1) : created'[i + 1] - created'[i] >= Tolerance
      <3> SUFFICES ASSUME NEW i \in 1..(Len(created') - 1)
                   PROVE  created'[i + 1] - created'[i] >= Tolerance
        OBVIOUS
      <3>1. CASE i = L
        BY <2>2, <2>7, <2>8, <3>1
      <3>2. CASE i # L
        <4>1. i \in 1..(L - 1) /\ i \in 1..L /\ i + 1 \in 1..L
          BY <2>2, <2>8, <3>2
        <4>2. QED
          BY <2>8, <4>1 DEF History
      <3>3. QED
        BY <3>1, <3>2
    <2>13. start_index' \in 0..(H - 1) /\ pcount' = IF Len(created') > H THEN H ELSE Len(created')
      BY <2>1, <2>3, <2>4, <2>8
    <2>14. \A i \in 0..(pcount' - 1) : points'[At(i)'] = created'[Len(created') - pcount' + i + 1]
      BY <2>1, <2>11 DEF At
    <2>15. QED
      BY <1>2, <2>8, <2>10, <2>12, <2>13, <2>14 DEF History
  <1>5. UpdateHistory /\ SamePoint => UNCHANGED histvars
    BY DEF UpdateHistory
  <1>6. QED
    BY <1>3, <1>4, <1>5, MonStepIs

(* The history holds the newest points in order, a second or more apart, and
   the snapshots are the newest ones, however often the rings turn over and
   whoever adds (monitoring.c, update_metric_history and add_snapshot), for
   any size of the rings and any number of threads. *)
THEOREM RingsHoldTheNewest == MonSpec => []RingsKeepNewest
  <1>1. MonInit => History
    BY MonAssumption DEF MonInit, History, At
  <1>2. MonInit => Snapshots
    <2> SUFFICES ASSUME MonInit PROVE Snapshots
      OBVIOUS
    <2>1. HistorySize \in Nat \ {0} /\ 0 \in 0..(HistorySize - 1)
      BY MonAssumption
    <2>2. 0 % HistorySize = 0
      BY <2>1, ModIs
    <2>3. QED
      BY <2>2 DEF MonInit, Snapshots
  <1>3. ASSUME History, Snapshots PROVE RingsKeepNewest
    <2> DEFINE L == Len(created)
               m == IF L > HistorySize THEN L - HistorySize + 1 ELSE 1
    <2>1. HistorySize \in Nat \ {0} /\ L \in Nat /\ created \in Seq(Nat)
      BY <1>3, MonAssumption DEF History
    <2>2. m \in 1..(L + 1) /\ pcount = L - m + 1
      BY <1>3, <2>1 DEF History
    <2>3. Newest(created) = SubSeq(created, m, L)
      BY DEF Newest
    <2> HIDE DEF m
    <2>4. Len(SubSeq(created, m, L)) = L - m + 1 /\ \A i \in 1..(L - m + 1) : SubSeq(created, m, L)[i] = created[m + i - 1]
      BY <2>1, <2>2
    <2>5. ASSUME NEW i \in 1..pcount PROVE points[At(i - 1)] = Newest(created)[i]
      <3>1. i - 1 \in 0..(pcount - 1) /\ L - pcount + (i - 1) + 1 = m + i - 1
        BY <2>1, <2>2
      <3>2. points[At(i - 1)] = created[m + i - 1]
        BY <1>3, <3>1 DEF History
      <3>3. QED
        BY <2>2, <2>3, <2>4, <3>2
    <2>6. pcount = Len(Newest(created))
      BY <2>2, <2>3, <2>4
    <2>7. QED
      BY <1>3, <2>5, <2>6 DEF RingsKeepNewest, History, Snapshots
  <1>4. QED
    BY <1>1, <1>2, <1>3, HistoryStep, SnapshotsStep, PTL DEF MonSpec

=============================================================================
