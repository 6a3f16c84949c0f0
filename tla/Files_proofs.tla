---------------------------- MODULE Files_proofs ----------------------------
(***************************************************************************)
(* Proofs about the two ways files are transferred, over WebSocket and     *)
(* by path, each for its own specification and for every value of its      *)
(* constants.                                                              *)
(***************************************************************************)
EXTENDS WsTransfers, FileTransfer, FiniteSetTheorems, WellFoundedInduction, TLAPS

-----------------------------------------------------------------------------
(* Transfers over WebSocket.  What is known of a file, the handlers that hold
   a context, and the slots in use. *)
FileKnown(r) ==
    /\ r.content \in Seq([index : Nat, length : Nat])
    /\ r.current \in Nat /\ r.bytes \in Nat
Busy == {"open", "chunk", "close"}
Used == {i \in Slots : slots[i] # WtNull}
Gone == {"none", "freed"}

(* The table, the contexts and the handlers are what their types say. *)
WtShape ==
    /\ slots \in [Slots -> Transfers \cup {WtNull}]
    /\ DOMAIN tstate = Transfers /\ DOMAIN towner = Transfers /\ DOMAIN upload = Transfers /\ DOMAIN tfile = Transfers
    /\ \A t \in Transfers : FileKnown(tfile[t])
    /\ hpc \in [WtClients -> Busy \cup {"idle"}] /\ DOMAIN hreq = WtClients
    /\ \A c \in WtClients : hreq[c].index \in Nat /\ hreq[c].length \in Nat

(* The handler of c holds its own context, which is in its slot. *)
Holding(c) ==
    /\ hreq[c].slot \in Slots /\ hreq[c].ctx \in Transfers
    /\ slots[hreq[c].slot] = hreq[c].ctx /\ towner[hreq[c].ctx] = c

(* Until a fault, a slot in use has a context of its own that is not freed,
   and a handler between two of its steps still holds what it found. *)
SlotsHeld ==
    ~destroyed /\ ~wtfault =>
      /\ \A i \in Used : tstate[slots[i]] \notin Gone
      /\ \A i, j \in Used : slots[i] = slots[j] => i = j
      /\ \A c \in WtClients : hpc[c] \in Busy => Holding(c)

(* The counter of active transfers is the number of slots in use. *)
SlotsCounted == active = Cardinality(Used)

(* The search for a free slot finds one if there is one. *)
LEMMA FirstFreeIsFree == FreeSlots # {} => FirstFree \in FreeSlots
  <1> SUFFICES ASSUME FreeSlots # {} PROVE FirstFree \in FreeSlots
    OBVIOUS
  <1>1. ASSUME NEW x \in Nat, NEW y \in Nat, x < y PROVE <<x, y>> \in OpToRel(<, Nat)
    BY <1>1 DEF OpToRel
  <1>2. PICK R : IsWellFoundedOn(R, Nat) /\ \A x, y \in Nat : x < y => <<x, y>> \in R
    BY <1>1, NatLessThanWellFounded, Zenon
  <1>3. IsWellFoundedOn(R, Nat) /\ FreeSlots \subseteq Nat /\ FreeSlots # {}
    BY <1>2, WtAssumption, Zenon DEF FreeSlots
  <1>4. PICK m \in FreeSlots : \A y \in FreeSlots : ~(<<y, m>> \in R)
    BY ONLY <1>3, WFMin
  <1>5. ASSUME NEW y \in FreeSlots PROVE m <= y
    <2>1. m \in Nat /\ y \in Nat
      BY <1>3
    <2>2. ~(y < m)
      BY <1>2, <1>4, <2>1, Zenon
    <2>3. QED
      BY <2>1, <2>2
  <1>6. QED
    BY <1>5, Zenon DEF FirstFree

(* A handler that is done leaves the others alone. *)
LEMMA DoneIs ==
    ASSUME WtShape, NEW c \in WtClients, Done(c)
    PROVE  /\ hpc' \in [WtClients -> Busy \cup {"idle"}] /\ DOMAIN hreq' = WtClients /\ hpc'[c] = "idle"
           /\ \A d \in WtClients : d # c => hpc'[d] = hpc[d] /\ hreq'[d] = hreq[d]
           /\ \A d \in WtClients : hreq'[d].index \in Nat /\ hreq'[d].length \in Nat
           /\ \A d \in WtClients : hpc'[d] \in Busy => d # c
  <1>1. hpc' = [hpc EXCEPT ![c] = "idle"] /\ hreq' = [hreq EXCEPT ![c] = NoReq]
    BY DEF Done
  <1>2. NoReq.index \in Nat /\ NoReq.length \in Nat
    BY DEF NoReq
  <1>3. \A d \in WtClients : hreq'[d].index \in Nat /\ hreq'[d].length \in Nat
    BY <1>1, <1>2 DEF WtShape
  <1>4. QED
    BY <1>1, <1>3 DEF WtShape, Busy

(* A new context is put into a slot that was free. *)
LEMMA SlotTaken ==
    ASSUME WtShape, NEW c \in WtClients, NEW t \in Transfers, UploadRequest(c, t) \/ DownloadRequest(c, t)
    PROVE  /\ ~destroyed /\ ~wtfault /\ hpc[c] = "idle" /\ tstate[t] = "none"
           /\ \E f \in Slots : f = FirstFree /\ slots[f] = WtNull /\ slots' = [slots EXCEPT ![f] = t]
           /\ active' = active + 1
           /\ \E s \in {"opening", "queued"} : tstate' = [tstate EXCEPT ![t] = s]
           /\ towner' = [towner EXCEPT ![t] = c] /\ UNCHANGED <<tfile, destroyed, wtfault>>
           /\ \E b : upload' = [upload EXCEPT ![t] = b]
  <1>1. PICK s \in {"opening", "queued"}, b \in {TRUE, FALSE} : TakeSlot(c, t, s, b)
    BY DEF UploadRequest, DownloadRequest
  <1>2. FirstFree \in Slots /\ slots[FirstFree] = WtNull
    BY <1>1, FirstFreeIsFree DEF TakeSlot, FreeSlots
  <1> QED
    BY <1>1, <1>2 DEF TakeSlot, Create, Handling

(* A request that comes to nothing uses up a context. *)
LEMMA TurnedAway ==
    ASSUME NEW c \in WtClients, NEW t \in Transfers,
           UploadTurnedAway(c, t) \/ DownloadNotOpened(c, t) \/ DownloadTurnedAway(c, t)
    PROVE  /\ ~destroyed /\ ~wtfault /\ tstate[t] = "none" /\ FreeContext(t)
           /\ UNCHANGED <<slots, active, hpc, hreq, destroyed>>
  BY DEF UploadTurnedAway, DownloadNotOpened, DownloadTurnedAway, Create, Handling

(* A handler whose transfer ends gives context and slot back. *)
LEMMA SlotGiven ==
    ASSUME SlotsHeld, NEW c \in WtClients, UploadNotOpened(c) \/ UploadClosed(c)
    PROVE  /\ ~destroyed /\ ~wtfault /\ hpc[c] \in Busy /\ Holding(c)
           /\ FreeContext(hreq[c].ctx) /\ Done(c)
           /\ slots' = [slots EXCEPT ![hreq[c].slot] = WtNull] /\ active' = active - 1
           /\ UNCHANGED <<destroyed, wtfault>>
  BY DEF UploadNotOpened, UploadClosed, Handling, GiveBack, Busy, SlotsHeld

(* What a chunk handler works on. *)
LEMMA ChunkHandled ==
    ASSUME SlotsHeld, NEW c \in WtClients,
           ChunkRefused(c) \/ ChunkFaults(c) \/ ChunkWritten(c) \/ ChunkFallsShort(c)
    PROVE  ~destroyed /\ ~wtfault /\ hpc[c] = "chunk" /\ hpc[c] \in Busy /\ Holding(c)
  BY DEF ChunkRefused, ChunkFaults, ChunkWritten, ChunkFallsShort, Handling, Busy, SlotsHeld

LEMMA NothingIsWritten == FileKnown(NothingWritten)
  <1>1. <<>> \in Seq([index : Nat, length : Nat])
    OBVIOUS
  <1>2. NothingWritten.content = <<>> /\ NothingWritten.current = 0 /\ NothingWritten.bytes = 0
    BY DEF NothingWritten
  <1> QED
    BY <1>1, <1>2 DEF FileKnown

(* Every step keeps the shape. *)
LEMMA WtShapeStep == WtShape /\ SlotsHeld /\ [WtNext]_wtvars => WtShape'
  <1> SUFFICES ASSUME WtShape, SlotsHeld, [WtNext]_wtvars PROVE WtShape'
    OBVIOUS
  <1> DEFINE Contexts == /\ DOMAIN tstate = Transfers /\ DOMAIN towner = Transfers
                         /\ DOMAIN upload = Transfers /\ DOMAIN tfile = Transfers
                         /\ \A t \in Transfers : FileKnown(tfile[t])
             Handlers == /\ hpc \in [WtClients -> Busy \cup {"idle"}] /\ DOMAIN hreq = WtClients
                         /\ \A c \in WtClients : hreq[c].index \in Nat /\ hreq[c].length \in Nat
             Table == slots \in [Slots -> Transfers \cup {WtNull}]
  <1>1. (Contexts /\ Handlers /\ Table) /\ (Contexts' /\ Handlers' /\ Table' => WtShape')
    BY DEF WtShape
  <1>2. ASSUME NEW t, FreeContext(t) PROVE Contexts'
    BY <1>1, <1>2, NothingIsWritten DEF FreeContext
  <1>3. ASSUME UNCHANGED <<hpc, hreq>> PROVE Handlers'
    BY <1>1, <1>3
  <1>4. ASSUME UNCHANGED contextvars PROVE Contexts'
    BY <1>1, <1>4 DEF contextvars
  <1>5. ASSUME NEW c \in WtClients, Done(c) PROVE Handlers'
    BY <1>5, DoneIs
  <1>6. ASSUME UNCHANGED slots PROVE Table'
    BY <1>1, <1>6
  <1> HIDE DEF Contexts, Handlers, Table
  <1>7. CASE UNCHANGED wtvars
    BY <1>1, <1>3, <1>4, <1>6, <1>7 DEF wtvars
  <1>8. ASSUME NEW c \in WtClients, NEW t \in Transfers, UploadRequest(c, t) \/ DownloadRequest(c, t) PROVE WtShape'
    <2>1. Table'
      BY <1>1, <1>8, SlotTaken DEF Table
    <2>2. Contexts'
      BY <1>1, <1>8, SlotTaken DEF Contexts
    <2>3. CASE UploadRequest(c, t)
      <3>1. PICK q : q = [NoReq EXCEPT !.ctx = t, !.slot = FirstFree]
        OBVIOUS
      <3>2. q.index \in Nat /\ q.length \in Nat
        BY <3>1 DEF NoReq
      <3>3. hpc' = [hpc EXCEPT ![c] = "open"] /\ hreq' = [hreq EXCEPT ![c] = q]
        BY <2>3, <3>1 DEF UploadRequest
      <3>4. Handlers'
        BY <1>1, <3>2, <3>3 DEF Handlers, Busy
      <3> QED
        BY <1>1, <2>1, <2>2, <3>4
    <2>4. CASE DownloadRequest(c, t)
      <3>1. Handlers'
        BY <1>3, <2>4 DEF DownloadRequest
      <3> QED
        BY <1>1, <2>1, <2>2, <3>1
    <2> QED
      BY <1>8, <2>3, <2>4
  <1>9. ASSUME NEW c \in WtClients, NEW t \in Transfers,
               UploadTurnedAway(c, t) \/ DownloadNotOpened(c, t) \/ DownloadTurnedAway(c, t)
        PROVE  WtShape'
    BY <1>1, <1>2, <1>3, <1>6, <1>9, TurnedAway
  <1>10. ASSUME NEW c \in WtClients, UploadNotOpened(c) \/ UploadClosed(c) PROVE WtShape'
    <2>1. Table'
      BY <1>1, <1>10, SlotGiven DEF Table, Holding
    <2> QED
      BY <1>1, <1>2, <1>5, <1>10, <2>1, SlotGiven
  <1>11. ASSUME NEW c \in WtClients, UploadOpened(c) PROVE WtShape'
    <2>1. Contexts' /\ Done(c) /\ UNCHANGED slots
      BY <1>1, <1>11 DEF UploadOpened, Contexts
    <2> QED
      BY <1>1, <1>5, <1>6, <2>1
  <1>12. ASSUME NEW c \in WtClients, NEW t \in Transfers, NEW index \in 0..(MaxChunks - 1), NEW length \in Lengths,
                ChunkArrives(c, t, index, length)
         PROVE  WtShape'
    <2>0. index \in Nat /\ length \in Nat
      BY WtAssumption
    <2>1. PICK i : hreq' = [hreq EXCEPT ![c] = [ctx |-> t, slot |-> i, index |-> index, length |-> length]]
      BY <1>12 DEF ChunkArrives
    <2>2. hpc' = [hpc EXCEPT ![c] = "chunk"]
      BY <1>12 DEF ChunkArrives
    <2>3. Handlers'
      BY <1>1, <2>0, <2>1, <2>2 DEF Handlers, Busy
    <2>4. UNCHANGED <<slots, contextvars>>
      BY <1>12 DEF ChunkArrives
    <2> QED
      BY <1>1, <1>4, <1>6, <2>3, <2>4
  <1>13. ASSUME NEW c \in WtClients, ChunkRefused(c) \/ ChunkFaults(c) PROVE WtShape'
    BY <1>1, <1>3, <1>4, <1>5, <1>6, <1>13 DEF ChunkRefused, ChunkFaults
  <1>14. ASSUME NEW c \in WtClients, ChunkWritten(c) PROVE WtShape'
    <2>1. PICK t \in Transfers : t = hreq[c].ctx
      BY <1>14, ChunkHandled DEF Holding
    <2>2. PICK piece : piece = [index |-> hreq[c].index, length |-> hreq[c].length]
      OBVIOUS
    <2>3. piece \in [index : Nat, length : Nat]
      BY <1>1, <2>2 DEF Handlers
    <2>4. PICK r : r = [content |-> Append(tfile[t].content, piece), short |-> tfile[t].short,
                        current |-> tfile[t].current + 1, bytes |-> Total(c)]
      OBVIOUS
    <2>5. FileKnown(tfile[t]) /\ Total(c) \in Nat
      BY <1>1, <2>1 DEF Contexts, Handlers, Total, FileKnown
    <2>6. FileKnown(r)
      BY <2>3, <2>4, <2>5 DEF FileKnown
    <2>7. tfile' = [tfile EXCEPT ![t] = r]
      BY <1>14, <2>1, <2>2, <2>4 DEF ChunkWritten
    <2>8. Contexts'
      BY <1>1, <1>14, <2>6, <2>7 DEF Contexts, ChunkWritten
    <2>9. CASE Done(c)
      BY <1>1, <1>5, <1>6, <1>14, <2>8, <2>9 DEF ChunkWritten
    <2>10. CASE hpc' = [hpc EXCEPT ![c] = "close"] /\ UNCHANGED hreq
      <3>1. Handlers'
        BY <1>1, <2>10 DEF Handlers, Busy
      <3> QED
        BY <1>1, <1>6, <1>14, <2>8, <3>1 DEF ChunkWritten
    <2> QED
      BY <1>14, <2>9, <2>10 DEF ChunkWritten
  <1>15. ASSUME NEW c \in WtClients, ChunkFallsShort(c) PROVE WtShape'
    <2>1. PICK t \in Transfers : t = hreq[c].ctx
      BY <1>15, ChunkHandled DEF Holding
    <2>2. PICK some : tfile' = [tfile EXCEPT ![t] =
                        [content |-> tfile[t].content, short |-> some,
                         current |-> tfile[t].current, bytes |-> tfile[t].bytes]]
      BY <1>15, <2>1 DEF ChunkFallsShort
    <2>3. UNCHANGED <<slots, tstate, towner, upload>> /\ Done(c)
      BY <1>15 DEF ChunkFallsShort
    <2>4. Contexts'
      BY <1>1, <2>2, <2>3 DEF Contexts, FileKnown
    <2> QED
      BY <1>1, <1>5, <1>6, <2>3, <2>4
  <1>16. ASSUME NEW t \in Transfers, NEW n \in Nat, DownloadRead(t, n) PROVE WtShape'
    <2>1. Contexts'
      BY <1>1, <1>16 DEF Contexts, FileKnown, DownloadRead
    <2> QED
      BY <1>1, <1>3, <1>6, <1>16, <2>1 DEF DownloadRead
  <1>17. ASSUME NEW t \in Transfers, DownloadEnds(t) PROVE WtShape'
    <2>1. Contexts'
      BY <1>1, <1>17 DEF Contexts, DownloadEnds
    <2> QED
      BY <1>1, <1>3, <1>6, <1>17, <2>1 DEF DownloadEnds
  <1>18. ASSUME NEW t \in Transfers, DownloadFaults(t) PROVE WtShape'
    BY <1>1, <1>3, <1>4, <1>6, <1>18 DEF DownloadFaults
  <1>19. CASE DestroyTransfers
    <2>1. Contexts'
      BY <1>1, <1>19, NothingIsWritten DEF Contexts, DestroyTransfers
    <2>2. Table' /\ Handlers'
      BY <1>1, <1>3, <1>19 DEF Table, DestroyTransfers
    <2> QED
      BY <1>1, <2>1, <2>2
  <1>20. {0, FileSize} \subseteq Nat
    BY WtAssumption
  <1> QED
    BY <1>7, <1>8, <1>9, <1>10, <1>11, <1>12, <1>13, <1>14, <1>15, <1>16, <1>17, <1>18, <1>19, <1>20 DEF WtNext

(* Steps that neither free a context nor hand one over keep the slots held. *)
LEMMA HeldKept ==
    ASSUME WtShape, SlotsHeld, ~destroyed, ~wtfault, UNCHANGED <<slots, towner>>,
           \A t \in Transfers : tstate[t] \notin Gone => tstate'[t] \notin Gone,
           \A c \in WtClients : hpc'[c] \in Busy => hpc[c] \in Busy /\ hreq'[c] = hreq[c]
    PROVE  SlotsHeld'
  <1>1. \A i \in Used : slots[i] \in Transfers
    BY DEF WtShape, Used
  <1>2. Used' = Used
    BY DEF Used
  <1>3. \A i \in Used : tstate'[slots[i]] \notin Gone
    BY <1>1 DEF SlotsHeld
  <1>4. \A c \in WtClients : hpc'[c] \in Busy => Holding(c)'
    BY DEF SlotsHeld, Holding
  <1> QED
    BY <1>2, <1>3, <1>4 DEF SlotsHeld

(* A handler frees only the context of its own transfer. *)
LEMMA SlotsHeldStep == WtShape /\ SlotsHeld /\ [WtNext]_wtvars => SlotsHeld'
  <1> SUFFICES ASSUME WtShape, SlotsHeld, [WtNext]_wtvars, ~destroyed', ~wtfault' PROVE SlotsHeld'
    BY DEF SlotsHeld
  <1>0. "idle" \notin Busy /\ "none" \in Gone /\ "freed" \in Gone
    BY DEF Busy, Gone
  <1>1. CASE UNCHANGED wtvars
    BY <1>1 DEF wtvars, contextvars, SlotsHeld, Used, Holding
  <1>2. CASE DestroyTransfers \/ \E t \in Transfers : DownloadFaults(t)
    BY <1>2 DEF DestroyTransfers, DownloadFaults
  <1>3. ASSUME NEW c \in WtClients, NEW t \in Transfers, UploadRequest(c, t) \/ DownloadRequest(c, t) PROVE SlotsHeld'
    <2>1. PICK f \in Slots : f = FirstFree /\ slots[f] = WtNull /\ slots' = [slots EXCEPT ![f] = t]
      BY <1>3, SlotTaken
    <2>2. PICK s : tstate' = [tstate EXCEPT ![t] = s] /\ s \notin Gone
      BY <1>3, SlotTaken DEF Gone
    <2>3. /\ ~destroyed /\ ~wtfault /\ tstate[t] = "none" /\ hpc[c] = "idle" /\ t # WtNull
          /\ towner' = [towner EXCEPT ![t] = c]
      BY <1>3, SlotTaken, WtAssumption
    <2>4. \A i \in Used : slots[i] # t /\ i # f
      BY <1>0, <2>1, <2>3 DEF SlotsHeld, Used
    <2>5. Used' = Used \cup {f} /\ slots'[f] = t /\ \A i \in Slots : i # f => slots'[i] = slots[i]
      BY <2>1, <2>3 DEF Used, WtShape
    <2>6. tstate'[t] = s /\ \A u \in Transfers : u # t => tstate'[u] = tstate[u]
      BY <2>2 DEF WtShape
    <2>7. \A i \in Used' : tstate'[slots'[i]] \notin Gone
      <3>1. \A i \in Used : slots[i] \in Transfers /\ i \in Slots
        BY DEF Used, WtShape
      <3> QED
        BY <2>2, <2>3, <2>4, <2>5, <2>6, <3>1 DEF SlotsHeld
    <2>8. \A i, j \in Used' : slots'[i] = slots'[j] => i = j
      <3>1. \A i \in Used : slots'[i] = slots[i]
        BY <2>4, <2>5 DEF Used
      <3> QED
        BY <2>3, <2>4, <2>5, <3>1 DEF SlotsHeld
    <2>9. ASSUME NEW d \in WtClients, hpc'[d] \in Busy PROVE Holding(d)'
      <3>1. CASE hpc'[d] = hpc[d] /\ hreq'[d] = hreq[d]
        <4>1. Holding(d)
          BY <2>3, <2>9, <3>1 DEF SlotsHeld
        <4>2. hreq[d].slot \in Used
          BY <4>1, WtAssumption DEF Used, Holding
        <4>3. hreq[d].slot # f /\ hreq[d].ctx # t
          BY <2>4, <4>1, <4>2 DEF Holding
        <4> QED
          BY <2>3, <2>5, <3>1, <4>1, <4>3 DEF Holding, WtShape
      <3>2. CASE d = c /\ UploadRequest(c, t)
        <4>1. PICK q : hreq' = [hreq EXCEPT ![c] = q] /\ q = [NoReq EXCEPT !.ctx = t, !.slot = f]
          BY <2>1, <3>2 DEF UploadRequest
        <4>2. q.ctx = t /\ q.slot = f
          BY <4>1 DEF NoReq
        <4>3. hreq'[d] = q /\ towner'[t] = c
          BY <2>3, <3>2, <4>1 DEF WtShape
        <4> QED
          BY <2>5, <3>2, <4>2, <4>3 DEF Holding
      <3> QED
        BY <1>3, <3>1, <3>2 DEF UploadRequest, DownloadRequest, WtShape
    <2> QED
      BY <2>7, <2>8, <2>9 DEF SlotsHeld
  <1>4. ASSUME NEW c \in WtClients, NEW t \in Transfers,
               UploadTurnedAway(c, t) \/ DownloadNotOpened(c, t) \/ DownloadTurnedAway(c, t)
        PROVE  SlotsHeld'
    <2>1. ~destroyed /\ ~wtfault /\ tstate[t] = "none" /\ UNCHANGED <<slots, hpc, hreq>>
      BY <1>4, TurnedAway
    <2>2. tstate' = [tstate EXCEPT ![t] = "freed"] /\ towner' = [towner EXCEPT ![t] = WtNull]
      BY <1>4, TurnedAway DEF FreeContext
    <2>3. \A i \in Used : slots[i] # t
      BY <1>0, <2>1 DEF SlotsHeld
    <2>4. Used' = Used
      BY <2>1 DEF Used
    <2>5. \A i \in Used : tstate'[slots[i]] \notin Gone
      BY <2>1, <2>2, <2>3 DEF SlotsHeld, WtShape, Used
    <2>6. ASSUME NEW d \in WtClients, hpc'[d] \in Busy PROVE Holding(d)'
      <3>1. Holding(d)
        BY <2>1, <2>6 DEF SlotsHeld
      <3>2. hreq[d].ctx # t
        BY <2>3, <3>1, WtAssumption DEF Used, Holding
      <3> QED
        BY <2>1, <2>2, <3>1, <3>2 DEF Holding, WtShape
    <2> QED
      BY <2>1, <2>4, <2>5, <2>6 DEF SlotsHeld
  <1>5. ASSUME NEW c \in WtClients, UploadNotOpened(c) \/ UploadClosed(c) PROVE SlotsHeld'
    <2>1. ~destroyed /\ ~wtfault /\ hpc[c] \in Busy /\ Done(c)
      BY <1>5, SlotGiven
    <2>2. PICK t \in Transfers, f \in Slots : t = hreq[c].ctx /\ f = hreq[c].slot /\ slots[f] = t /\ towner[t] = c
      BY <1>5, SlotGiven DEF Holding
    <2>3. /\ tstate' = [tstate EXCEPT ![t] = "freed"] /\ towner' = [towner EXCEPT ![t] = WtNull]
          /\ slots' = [slots EXCEPT ![f] = WtNull]
      BY <1>5, <2>2, SlotGiven DEF FreeContext
    <2>5. Used' = Used \ {f} /\ f \in Used /\ \A i \in Slots : i # f => slots'[i] = slots[i]
      BY <2>2, <2>3, WtAssumption DEF Used, WtShape
    <2>6. \A u \in Transfers : u # t => tstate'[u] = tstate[u] /\ towner'[u] = towner[u]
      BY <2>3 DEF WtShape
    <2>7. \A i \in Used' : i \in Used /\ slots'[i] = slots[i] /\ slots[i] \in Transfers /\ slots[i] # t
      BY <2>1, <2>2, <2>5 DEF SlotsHeld, WtShape, Used
    <2>8. ASSUME NEW d \in WtClients, hpc'[d] \in Busy PROVE Holding(d)'
      <3>1. d # c /\ hpc'[d] = hpc[d] /\ hreq'[d] = hreq[d]
        BY <2>1, <2>8, DoneIs
      <3>2. Holding(d)
        BY <2>1, <2>8, <3>1 DEF SlotsHeld
      <3>3. hreq[d].ctx # t /\ hreq[d].slot # f
        BY <2>2, <3>1, <3>2 DEF Holding
      <3> QED
        BY <2>5, <2>6, <3>1, <3>2, <3>3 DEF Holding
    <2>9. \A i \in Used' : tstate'[slots'[i]] \notin Gone
      BY <2>1, <2>6, <2>7 DEF SlotsHeld
    <2>10. \A i, j \in Used' : slots'[i] = slots'[j] => i = j
      BY <2>1, <2>7 DEF SlotsHeld
    <2> QED
      BY <2>8, <2>9, <2>10 DEF SlotsHeld
  <1>6. ASSUME NEW c \in WtClients, NEW t \in Transfers, NEW index, NEW length, ChunkArrives(c, t, index, length)
        PROVE  SlotsHeld'
    <2>1. ~destroyed /\ ~wtfault /\ UNCHANGED <<slots, tstate, towner>> /\ hpc' = [hpc EXCEPT ![c] = "chunk"]
      BY <1>6 DEF ChunkArrives, Handling, contextvars
    <2>2. PICK i \in Slots :
            /\ slots[i] = t /\ towner[t] = c
            /\ hreq' = [hreq EXCEPT ![c] = [ctx |-> t, slot |-> i, index |-> index, length |-> length]]
      BY <1>6 DEF ChunkArrives
    <2>3. Used' = Used
      BY <2>1 DEF Used
    <2>4. ASSUME NEW d \in WtClients, hpc'[d] \in Busy PROVE Holding(d)'
      <3>1. CASE d = c
        BY <2>1, <2>2, <3>1 DEF WtShape, Holding
      <3>2. CASE d # c
        <4>1. hpc'[d] = hpc[d] /\ hreq'[d] = hreq[d]
          BY <2>1, <2>2, <3>2 DEF WtShape
        <4> QED
          BY <2>1, <2>4, <4>1 DEF SlotsHeld, Holding
      <3> QED
        BY <3>1, <3>2
    <2> QED
      BY <2>1, <2>3, <2>4 DEF SlotsHeld
  <1>7. ASSUME NEW c \in WtClients, ChunkRefused(c) \/ ChunkFallsShort(c) PROVE SlotsHeld'
    <2>1. Done(c) /\ ~destroyed /\ ~wtfault /\ UNCHANGED <<slots, towner, tstate>>
      BY <1>7 DEF ChunkRefused, ChunkFallsShort, Handling, contextvars
    <2> QED
      BY <1>0, <2>1, DoneIs, HeldKept
  <1>8. ASSUME NEW c \in WtClients, ChunkFaults(c) PROVE SlotsHeld'
    BY <1>8 DEF ChunkFaults
  <1>9. ASSUME NEW c \in WtClients, ChunkWritten(c) \/ UploadOpened(c) PROVE SlotsHeld'
    <2>1. ~destroyed /\ ~wtfault /\ hpc[c] \in Busy /\ UNCHANGED <<slots, towner>>
      BY <1>9 DEF ChunkWritten, UploadOpened, Busy, Handling
    <2>2. PICK t \in Transfers : t = hreq[c].ctx
      BY <2>1 DEF SlotsHeld, Holding
    <2>3. \A u \in Transfers : tstate[u] \notin Gone => tstate'[u] \notin Gone
      <3>1. PICK s \in {"complete", "ready", tstate[t]} : tstate' = [tstate EXCEPT ![t] = s]
        BY <1>9, <2>2 DEF ChunkWritten, UploadOpened
      <3> QED
        BY <3>1 DEF WtShape, Gone
    <2>4. CASE Done(c)
      BY <1>0, <2>1, <2>3, <2>4, DoneIs, HeldKept
    <2>5. CASE hpc' = [hpc EXCEPT ![c] = "close"] /\ UNCHANGED hreq
      <3>1. \A d \in WtClients : hpc'[d] \in Busy => hpc[d] \in Busy
        BY <2>1, <2>5 DEF WtShape
      <3> QED
        BY <2>1, <2>3, <2>5, <3>1, HeldKept
    <2> QED
      BY <1>9, <2>4, <2>5 DEF ChunkWritten, UploadOpened
  <1>10. ASSUME NEW t \in Transfers, NEW n, DownloadRead(t, n) \/ DownloadEnds(t) PROVE SlotsHeld'
    <2>1. ~destroyed /\ ~wtfault /\ UNCHANGED <<slots, towner, hpc, hreq>>
      BY <1>10 DEF DownloadRead, DownloadEnds
    <2>2. \A u \in Transfers : tstate[u] \notin Gone => tstate'[u] \notin Gone
      BY <1>10 DEF DownloadRead, DownloadEnds, WtShape, Gone
    <2> QED
      BY <2>1, <2>2, HeldKept
  <1> QED
    BY <1>1, <1>2, <1>3, <1>4, <1>5, <1>6, <1>7, <1>8, <1>9, <1>10 DEF WtNext

(* Whoever fills a slot counts it, and whoever clears one takes it off. *)
LEMMA SlotsCountedStep == WtShape /\ SlotsHeld /\ SlotsCounted /\ [WtNext]_wtvars => SlotsCounted'
  <1> SUFFICES ASSUME WtShape, SlotsHeld, SlotsCounted, [WtNext]_wtvars PROVE SlotsCounted'
    OBVIOUS
  <1>0. IsFiniteSet(Used) /\ Cardinality(Used) \in Nat
    <2>1. Used \subseteq Slots /\ IsFiniteSet(Slots)
      BY WtAssumption DEF Used
    <2> QED
      BY <2>1, FS_Subset, FS_CardinalityType
  <1>1. ASSUME UNCHANGED <<slots, active>> PROVE SlotsCounted'
    BY <1>1 DEF SlotsCounted, Used
  <1>2. CASE DestroyTransfers
    <2>1. Used' = {} /\ active' = 0
      BY <1>2 DEF DestroyTransfers, Used
    <2> QED
      BY <2>1, FS_EmptySet DEF SlotsCounted
  <1>3. ASSUME NEW c \in WtClients, NEW t \in Transfers, UploadRequest(c, t) \/ DownloadRequest(c, t)
        PROVE  SlotsCounted'
    <2>1. PICK f \in Slots : slots[f] = WtNull /\ slots' = [slots EXCEPT ![f] = t]
      BY <1>3, SlotTaken
    <2>2. Used' = Used \cup {f} /\ f \notin Used
      BY <2>1, WtAssumption DEF Used, WtShape
    <2>3. Cardinality(Used \cup {f}) = Cardinality(Used) + 1
      BY <1>0, <2>2, FS_AddElement
    <2>4. active' = active + 1
      BY <1>3, SlotTaken
    <2> QED
      BY <2>2, <2>3, <2>4 DEF SlotsCounted
  <1>4. ASSUME NEW c \in WtClients, UploadNotOpened(c) \/ UploadClosed(c) PROVE SlotsCounted'
    <2>2. PICK f \in Slots : f = hreq[c].slot /\ slots[f] \in Transfers
      BY <1>4, SlotGiven DEF Holding
    <2>3. slots' = [slots EXCEPT ![f] = WtNull] /\ active' = active - 1
      BY <1>4, <2>2, SlotGiven
    <2>4. Used' = Used \ {f} /\ f \in Used
      BY <2>2, <2>3, WtAssumption DEF Used, WtShape
    <2>5. Cardinality(Used \ {f}) = Cardinality(Used) - 1
      BY <1>0, <2>4, FS_RemoveElement
    <2> QED
      BY <2>3, <2>4, <2>5 DEF SlotsCounted
  <1>5. ASSUME UNCHANGED wtvars \/ \E t \in Transfers : DownloadEnds(t) \/ DownloadFaults(t) \/ \E n : DownloadRead(t, n)
        PROVE  SlotsCounted'
    BY <1>1, <1>5 DEF wtvars, DownloadRead, DownloadEnds, DownloadFaults
  <1>6. ASSUME NEW c \in WtClients,
               UploadOpened(c) \/ ChunkRefused(c) \/ ChunkFaults(c) \/ ChunkWritten(c) \/ ChunkFallsShort(c)
        PROVE  SlotsCounted'
    BY <1>1, <1>6 DEF UploadOpened, ChunkRefused, ChunkFaults, ChunkWritten, ChunkFallsShort
  <1>7. ASSUME NEW c \in WtClients, NEW t \in Transfers, NEW index, NEW length, ChunkArrives(c, t, index, length)
        PROVE  SlotsCounted'
    BY <1>1, <1>7 DEF ChunkArrives
  <1>8. ASSUME NEW c \in WtClients, NEW t \in Transfers,
               UploadTurnedAway(c, t) \/ DownloadNotOpened(c, t) \/ DownloadTurnedAway(c, t)
        PROVE  SlotsCounted'
    BY <1>1, <1>8, TurnedAway
  <1> QED
    BY <1>2, <1>3, <1>4, <1>5, <1>6, <1>7, <1>8 DEF WtNext

(* Where chunk k of a file that is cut as announced begins. *)
Offset(k) == IF k * ChunkSize <= FileSize THEN k * ChunkSize ELSE FileSize

(* A file to which all writes were whole holds the chunks in order, as many as
   the counter says; cut as announced they end where the next one begins; and
   the transfer is complete as soon as it has enough bytes. *)
InOrder(t) ==
    LET r == tfile[t] IN
    upload[t] /\ ~r.short =>
      /\ Len(r.content) = r.current /\ \A k \in 1..r.current : r.content[k].index = k - 1
      /\ AsAnnounced(t) => r.bytes = Offset(r.current)
      /\ tstate[t] # "complete" => r.current = 0 \/ r.bytes < FileSize
      /\ tstate[t] = "complete" =>
           /\ r.current > 0 /\ FileSize <= r.bytes
           /\ AsAnnounced(t) /\ FileSize # 0 => Offset(r.current - 1) < FileSize

(* A context that was not used yet is empty, one that waits to be read is no
   upload, and one that is complete is about to be closed by its handler. *)
Beginnings(t) ==
    /\ tstate[t] = "none" => tfile[t] = NothingWritten
    /\ tstate[t] = "queued" => ~upload[t]
Closing(t) ==
    ~destroyed /\ ~wtfault /\ tstate[t] = "complete" => \E c \in WtClients : hpc[c] = "close" /\ hreq[c].ctx = t

(* The chunks of all transfers. *)
Contents == \A t \in Transfers : InOrder(t) /\ Beginnings(t) /\ Closing(t)

(* One chunk more. *)
LEMMA OffsetNext ==
    ASSUME NEW k \in Nat
    PROVE  /\ Offset(k) \in Nat /\ Offset(k) + CutOf(k) = Offset(k + 1)
           /\ FileSize <= Offset(k) => FileSize <= k * ChunkSize
           /\ Offset(k) < FileSize => k * ChunkSize < FileSize
           /\ Offset(0) = 0
  <1>1. PICK x \in Nat : x = k * ChunkSize
    BY WtAssumption
  <1>2. (k + 1) * ChunkSize = x + ChunkSize
    BY <1>1, WtAssumption
  <1>3. 0 * ChunkSize = 0
    BY WtAssumption
  <1>4. Offset(k) = IF x <= FileSize THEN x ELSE FileSize
    BY <1>1 DEF Offset
  <1>5. Offset(k + 1) = IF x + ChunkSize <= FileSize THEN x + ChunkSize ELSE FileSize
    BY <1>2 DEF Offset
  <1>6. CutOf(k) = IF x + ChunkSize <= FileSize THEN ChunkSize ELSE IF x <= FileSize THEN FileSize - x ELSE 0
    BY <1>1, <1>2 DEF CutOf
  <1>7. Offset(0) = 0
    BY <1>3, WtAssumption DEF Offset
  <1> QED
    BY ONLY <1>1, <1>4, <1>5, <1>6, <1>7, WtAssumption

(* What a step leaves alone of a context stays in order. *)
LEMMA OrderKept ==
    ASSUME NEW t \in Transfers, InOrder(t), tfile'[t] = tfile[t], upload'[t] = upload[t],
           tstate'[t] = "complete" <=> tstate[t] = "complete"
    PROVE  InOrder(t)'
  BY DEF InOrder, AsAnnounced

(* A context without a file is in order. *)
LEMMA EmptyInOrder ==
    ASSUME NEW t \in Transfers, tfile'[t] = NothingWritten, tstate'[t] # "complete"
    PROVE  InOrder(t)'
  <1>1. NothingWritten.content = <<>> /\ NothingWritten.current = 0 /\ NothingWritten.bytes = 0
    BY DEF NothingWritten
  <1>2. Offset(0) = 0 /\ Len(<<>>) = 0
    BY OffsetNext
  <1>3. \A k \in 1..0 : FALSE
    OBVIOUS
  <1> QED
    BY <1>1, <1>2, <1>3 DEF InOrder

(* The next chunk of a file. *)
LEMMA ChunkInOrder ==
    ASSUME WtShape, NEW c \in WtClients, NEW t \in Transfers, t = hreq[c].ctx, ChunkWritten(c),
           InOrder(t), tstate[t] # "complete"
    PROVE  InOrder(t)'
  <1> SUFFICES ASSUME upload'[t], ~tfile'[t].short PROVE InOrder(t)'
    BY DEF InOrder
  <1>1. PICK r : r = tfile[t]
    OBVIOUS
  <1>2. PICK piece : piece = [index |-> hreq[c].index, length |-> hreq[c].length]
    OBVIOUS
  <1>3. PICK x : x = Append(r.content, piece)
    OBVIOUS
  <1>4. /\ tfile'[t] = [content |-> x, short |-> r.short, current |-> r.current + 1, bytes |-> Total(c)]
        /\ upload' = upload
        /\ tstate'[t] = IF Total(c) >= FileSize THEN "complete" ELSE tstate[t]
    BY <1>1, <1>2, <1>3 DEF ChunkWritten, WtShape
  <1>5. tfile'[t].content = x /\ tfile'[t].current = r.current + 1 /\ tfile'[t].bytes = Total(c) /\ ~r.short
    BY <1>4
  <1>6. r.content \in Seq([index : Nat, length : Nat]) /\ r.current \in Nat /\ r.bytes \in Nat
    BY <1>1 DEF WtShape, FileKnown
  <1>7. hreq[c].index = r.current /\ hreq[c].length \in Nat /\ Total(c) = r.bytes + hreq[c].length
    BY <1>1 DEF ChunkWritten, Expected, WtShape, Total
  <1>8. piece \in [index : Nat, length : Nat] /\ piece.index = r.current /\ piece.length = hreq[c].length
    BY <1>2, <1>6, <1>7
  <1>9. /\ Len(r.content) = r.current /\ \A k \in 1..r.current : r.content[k].index = k - 1
        /\ AsAnnounced(t) => r.bytes = Offset(r.current)
        /\ r.current = 0 \/ r.bytes < FileSize
    BY <1>1, <1>4, <1>5 DEF InOrder
  <1>10. Len(x) = r.current + 1 /\ x[r.current + 1] = piece /\ \A k \in 1..r.current : x[k] = r.content[k]
    BY <1>3, <1>6, <1>8, <1>9
  <1>11. ASSUME NEW k \in 1..(r.current + 1) PROVE x[k].index = k - 1
    <2>1. CASE k \in 1..r.current
      <3>1. x[k] = r.content[k] /\ r.content[k].index = k - 1
        BY <1>9, <1>10, <2>1
      <3> QED
        BY <3>1
    <2>2. CASE k = r.current + 1
      BY <1>6, <1>8, <1>10, <2>2
    <2> QED
      BY <1>6, <2>1, <2>2
  <1>12. AsAnnounced(t)' => AsAnnounced(t) /\ piece.length = CutOf(r.current)
    <2> SUFFICES ASSUME AsAnnounced(t)' PROVE AsAnnounced(t) /\ piece.length = CutOf(r.current)
      OBVIOUS
    <2>1. \A k \in 1..Len(x) : x[k].length = CutOf(k - 1)
      BY <1>5 DEF AsAnnounced
    <2>2. ASSUME NEW k \in 1..r.current PROVE r.content[k].length = CutOf(k - 1)
      <3>1. k \in 1..Len(x) /\ x[k] = r.content[k]
        BY <1>6, <1>10
      <3> QED
        BY <2>1, <3>1
    <2>3. piece.length = CutOf((r.current + 1) - 1)
      BY <1>6, <1>10, <2>1
    <2>4. (r.current + 1) - 1 = r.current
      BY <1>6
    <2> QED
      BY <1>1, <1>9, <2>2, <2>3, <2>4 DEF AsAnnounced
  <1>13. AsAnnounced(t)' => Total(c) = Offset(r.current + 1)
    BY <1>6, <1>7, <1>8, <1>9, <1>12, OffsetNext
  <1>14. Total(c) \in Nat /\ FileSize \in Nat
    BY <1>6, <1>7, WtAssumption
  <1>15. (r.current + 1) - 1 = r.current /\ r.current + 1 > 0
    BY <1>6
  <1>16. AsAnnounced(t)' /\ FileSize # 0 => Offset(r.current) < FileSize
    <2>1. CASE r.current = 0
      BY <1>14, <2>1, OffsetNext
    <2>2. CASE r.bytes < FileSize
      BY <1>9, <1>12, <2>2
    <2> QED
      BY <1>9, <2>1, <2>2
  <1>17. CASE Total(c) >= FileSize
    BY <1>4, <1>5, <1>10, <1>11, <1>13, <1>14, <1>15, <1>16, <1>17 DEF InOrder
  <1>18. CASE ~(Total(c) >= FileSize)
    BY <1>4, <1>5, <1>10, <1>11, <1>13, <1>14, <1>15, <1>18 DEF InOrder
  <1> QED
    BY <1>17, <1>18

(* A handler at work on a chunk finds a transfer that is not complete. *)
LEMMA NotComplete ==
    ASSUME SlotsHeld, Contents, NEW c \in WtClients, ~destroyed, ~wtfault, hpc[c] \in Busy, hpc[c] # "close"
    PROVE  tstate[hreq[c].ctx] # "complete"
  <1>1. Holding(c)
    BY DEF SlotsHeld
  <1> SUFFICES ASSUME tstate[hreq[c].ctx] = "complete" PROVE FALSE
    OBVIOUS
  <1>2. PICK d \in WtClients : hpc[d] = "close" /\ hreq[d].ctx = hreq[c].ctx
    BY <1>1 DEF Contents, Closing, Holding
  <1>3. Holding(d)
    BY <1>2 DEF SlotsHeld, Busy
  <1> QED
    BY <1>1, <1>2, <1>3 DEF Holding

(* Every step keeps the files in order. *)
LEMMA ContentsStep == WtShape /\ SlotsHeld /\ Contents /\ [WtNext]_wtvars => Contents'
  <1> SUFFICES ASSUME WtShape, SlotsHeld, Contents, [WtNext]_wtvars PROVE Contents'
    OBVIOUS
  <1>1. ASSUME NEW u \in Transfers, tfile'[u] = tfile[u], upload'[u] = upload[u],
               tstate'[u] = tstate[u]
        PROVE  InOrder(u)' /\ Beginnings(u)'
    BY <1>1, OrderKept DEF Contents, Beginnings
  <1>2. ASSUME ~destroyed' => ~destroyed, ~wtfault' => ~wtfault,
               NEW u \in Transfers, tstate'[u] = "complete" => tstate[u] = "complete",
               \A c \in WtClients : hpc[c] = "close" => hpc'[c] = "close" /\ hreq'[c] = hreq[c]
        PROVE  Closing(u)'
    BY <1>2 DEF Contents, Closing
  <1>3. ASSUME NEW t \in Transfers, FreeContext(t), NEW u \in Transfers PROVE InOrder(u)' /\ Beginnings(u)'
    <2>1. CASE u = t
      <3>1. tfile'[u] = NothingWritten /\ tstate'[u] = "freed"
        BY <1>3, <2>1 DEF FreeContext, WtShape
      <3> QED
        BY <3>1, EmptyInOrder DEF Beginnings
    <2>2. CASE u # t
      BY <1>1, <1>3, <2>2 DEF FreeContext, WtShape
    <2> QED
      BY <2>1, <2>2
  <1>4. CASE UNCHANGED wtvars
    <2>1. \A u \in Transfers : InOrder(u)' /\ Beginnings(u)'
      BY <1>1, <1>4 DEF wtvars, contextvars
    <2>2. \A u \in Transfers : Closing(u)'
      BY <1>2, <1>4 DEF wtvars, contextvars
    <2> QED
      BY <2>1, <2>2 DEF Contents
  <1>5. ASSUME NEW c \in WtClients, NEW t \in Transfers, UploadRequest(c, t) \/ DownloadRequest(c, t),
               NEW u \in Transfers
        PROVE  InOrder(u)' /\ Beginnings(u)' /\ Closing(u)'
    <2>1. hpc[c] = "idle" /\ tstate[t] = "none" /\ UNCHANGED <<tfile, destroyed, wtfault>>
      BY <1>5, SlotTaken
    <2>2. PICK s \in {"opening", "queued"} : tstate' = [tstate EXCEPT ![t] = s]
      BY <1>5, SlotTaken
    <2>3. \A d \in WtClients : hpc[d] = "close" => hpc'[d] = "close" /\ hreq'[d] = hreq[d]
      BY <1>5, <2>1 DEF UploadRequest, DownloadRequest, WtShape
    <2>4. Closing(u)'
      BY <1>2, <2>1, <2>2, <2>3 DEF WtShape
    <2>5. CASE u = t
      <3>1. tfile'[u] = NothingWritten /\ tstate'[u] = s
        BY <2>1, <2>2, <2>5 DEF Contents, Beginnings, WtShape
      <3>2. InOrder(u)'
        BY <3>1, EmptyInOrder
      <3>3. tstate'[u] = "queued" => ~upload'[u]
        BY <1>5, <2>5 DEF UploadRequest, DownloadRequest, TakeSlot, WtShape
      <3> QED
        BY <2>4, <3>1, <3>2, <3>3 DEF Beginnings
    <2>6. CASE u # t
      <3>1. tfile'[u] = tfile[u] /\ upload'[u] = upload[u] /\ tstate'[u] = tstate[u]
        BY <1>5, <2>1, <2>2, <2>6 DEF UploadRequest, DownloadRequest, TakeSlot, WtShape
      <3> QED
        BY <1>1, <2>4, <3>1
    <2> QED
      BY <2>5, <2>6
  <1>6. ASSUME NEW c \in WtClients, NEW t \in Transfers,
               UploadTurnedAway(c, t) \/ DownloadNotOpened(c, t) \/ DownloadTurnedAway(c, t),
               NEW u \in Transfers
        PROVE  InOrder(u)' /\ Beginnings(u)' /\ Closing(u)'
    <2>1. FreeContext(t) /\ ~destroyed /\ ~wtfault /\ UNCHANGED <<hpc, hreq>>
      BY <1>6, TurnedAway
    <2>2. tstate'[u] = "complete" => tstate[u] = "complete"
      BY <2>1 DEF FreeContext, WtShape
    <2>3. Closing(u)'
      BY <1>2, <2>1, <2>2
    <2> QED
      BY <1>3, <2>1, <2>3
  <1>7. ASSUME NEW c \in WtClients, UploadNotOpened(c) \/ UploadClosed(c), NEW u \in Transfers
        PROVE  InOrder(u)' /\ Beginnings(u)' /\ Closing(u)'
    <2>1. PICK t \in Transfers : t = hreq[c].ctx /\ FreeContext(t)
      BY <1>7, SlotGiven DEF Holding
    <2>2. Done(c) /\ ~destroyed /\ ~wtfault
      BY <1>7, SlotGiven
    <2>3. Closing(u)'
      <3> SUFFICES ASSUME tstate'[u] = "complete" PROVE \E d \in WtClients : hpc'[d] = "close" /\ hreq'[d].ctx = u
        BY DEF Closing
      <3>1. u # t /\ tstate[u] = "complete"
        BY <2>1 DEF FreeContext, WtShape
      <3>2. PICK d \in WtClients : hpc[d] = "close" /\ hreq[d].ctx = u
        BY <2>2, <3>1 DEF Contents, Closing
      <3>3. d # c
        BY <2>1, <3>1, <3>2
      <3> QED
        BY <2>2, <3>2, <3>3, DoneIs
    <2> QED
      BY <1>3, <2>1, <2>3
  <1>8. ASSUME NEW c \in WtClients, UploadOpened(c), NEW u \in Transfers
        PROVE  InOrder(u)' /\ Beginnings(u)' /\ Closing(u)'
    <2>1. Done(c) /\ ~destroyed /\ ~wtfault /\ hpc[c] = "open" /\ UNCHANGED <<upload, tfile>>
      BY <1>8 DEF UploadOpened, Handling
    <2>2. PICK t \in Transfers : t = hreq[c].ctx
      BY <2>1 DEF SlotsHeld, Busy, Holding
    <2>3. tstate[t] # "complete"
      BY <2>1, <2>2, NotComplete DEF Busy
    <2>4. tstate' = [tstate EXCEPT ![t] = "ready"]
      BY <1>8, <2>2 DEF UploadOpened
    <2>5. tstate'[u] = "complete" <=> tstate[u] = "complete"
      BY <2>3, <2>4 DEF WtShape
    <2>6. InOrder(u)'
      BY <2>1, <2>5, OrderKept DEF Contents
    <2>7. Beginnings(u)'
      BY <2>1, <2>4 DEF Beginnings, Contents, WtShape
    <2>8. Closing(u)'
      BY <1>2, <2>1, <2>5, DoneIs
    <2> QED
      BY <2>6, <2>7, <2>8
  <1>9. ASSUME NEW c \in WtClients, NEW t \in Transfers, NEW index, NEW length, ChunkArrives(c, t, index, length),
               NEW u \in Transfers
        PROVE  InOrder(u)' /\ Beginnings(u)' /\ Closing(u)'
    <2>1. UNCHANGED <<contextvars, destroyed, wtfault>> /\ hpc[c] = "idle" /\ hpc' = [hpc EXCEPT ![c] = "chunk"]
      BY <1>9 DEF ChunkArrives, Handling
    <2>2. PICK q : hreq' = [hreq EXCEPT ![c] = q]
      BY <1>9 DEF ChunkArrives
    <2>3. Closing(u)'
      BY <1>2, <2>1, <2>2 DEF contextvars, WtShape
    <2> QED
      BY <1>1, <2>1, <2>3 DEF contextvars
  <1>10. ASSUME NEW c \in WtClients, ChunkRefused(c) \/ ChunkFaults(c), NEW u \in Transfers
         PROVE  InOrder(u)' /\ Beginnings(u)' /\ Closing(u)'
    <2>1. UNCHANGED contextvars /\ hpc[c] = "chunk" /\ ~destroyed /\ ~wtfault
      BY <1>10 DEF ChunkRefused, ChunkFaults, Handling
    <2>2. Closing(u)'
      <3>1. CASE ChunkRefused(c)
        BY <1>2, <2>1, <3>1, DoneIs DEF ChunkRefused, contextvars
      <3>2. CASE ChunkFaults(c)
        BY <3>2 DEF ChunkFaults, Closing
      <3> QED
        BY <1>10, <3>1, <3>2
    <2> QED
      BY <1>1, <2>1, <2>2 DEF contextvars
  <1>11. ASSUME NEW c \in WtClients, ChunkWritten(c), NEW u \in Transfers
         PROVE  InOrder(u)' /\ Beginnings(u)' /\ Closing(u)'
    <2>1. ~destroyed /\ ~wtfault /\ hpc[c] = "chunk" /\ Holding(c)
      BY <1>11, ChunkHandled
    <2>2. PICK t \in Transfers : t = hreq[c].ctx
      BY <2>1 DEF Holding
    <2>3. tstate[t] # "complete"
      BY <2>1, <2>2, NotComplete DEF Busy
    <2>4. PICK s, r : /\ tstate' = [tstate EXCEPT ![t] = s] /\ s \in {"complete", tstate[t]}
                      /\ tfile' = [tfile EXCEPT ![t] = r] /\ upload' = upload
      BY <1>11, <2>2 DEF ChunkWritten
    <2>5. CASE u = t
      <3>1. InOrder(u)'
        BY <1>11, <2>2, <2>3, <2>5, ChunkInOrder DEF Contents
      <3>2. tstate[t] \notin Gone
        BY <2>1, <2>2, WtAssumption DEF SlotsHeld, Holding, Used
      <3>3. Beginnings(u)'
        BY <2>4, <2>5, <3>2 DEF Beginnings, Contents, WtShape, Gone
      <3>4. Closing(u)'
        <4> SUFFICES ASSUME tstate'[u] = "complete" PROVE \E d \in WtClients : hpc'[d] = "close" /\ hreq'[d].ctx = u
          BY DEF Closing
        <4>1. tstate' = [tstate EXCEPT ![t] = IF Total(c) >= FileSize THEN "complete" ELSE tstate[t]]
          BY <1>11, <2>2 DEF ChunkWritten
        <4>2. Total(c) >= FileSize
          BY <2>3, <2>5, <4>1 DEF WtShape
        <4>3. hpc' = [hpc EXCEPT ![c] = "close"] /\ UNCHANGED hreq
          BY <1>11, <4>2 DEF ChunkWritten
        <4> QED
          BY <2>2, <2>5, <4>3 DEF WtShape
      <3> QED
        BY <3>1, <3>3, <3>4
    <2>6. CASE u # t
      <3>1. tfile'[u] = tfile[u] /\ upload'[u] = upload[u] /\ tstate'[u] = tstate[u]
        BY <2>4, <2>6 DEF WtShape
      <3>2. \A d \in WtClients : hpc[d] = "close" => hpc'[d] = "close" /\ hreq'[d] = hreq[d]
        <4>1. CASE Done(c)
          BY <2>1, <4>1, DoneIs
        <4>2. CASE hpc' = [hpc EXCEPT ![c] = "close"] /\ UNCHANGED hreq
          BY <4>2 DEF WtShape
        <4> QED
          BY <1>11, <4>1, <4>2 DEF ChunkWritten
      <3>3. Closing(u)'
        BY <1>2, <2>1, <3>1, <3>2
      <3> QED
        BY <1>1, <3>1, <3>3
    <2> QED
      BY <2>5, <2>6
  <1>12. ASSUME NEW c \in WtClients, ChunkFallsShort(c), NEW u \in Transfers
         PROVE  InOrder(u)' /\ Beginnings(u)' /\ Closing(u)'
    <2>1. ~destroyed /\ ~wtfault /\ hpc[c] = "chunk" /\ Holding(c) /\ Done(c) /\ UNCHANGED <<tstate, upload>>
      BY <1>12, ChunkHandled DEF ChunkFallsShort
    <2>2. PICK t \in Transfers : t = hreq[c].ctx
      BY <2>1 DEF Holding
    <2>3. PICK some : tfile' = [tfile EXCEPT ![t] =
                        [content |-> tfile[t].content, short |-> tfile[t].short \/ some,
                         current |-> tfile[t].current, bytes |-> tfile[t].bytes]]
      BY <1>12, <2>2 DEF ChunkFallsShort
    <2>4. Closing(u)'
      BY <1>2, <2>1, DoneIs
    <2>5. CASE u = t
      <3>1. PICK r : r = tfile'[u]
        OBVIOUS
      <3>2. /\ r.content = tfile[u].content /\ r.current = tfile[u].current /\ r.bytes = tfile[u].bytes
            /\ ~r.short => ~tfile[u].short
        BY <2>3, <2>5, <3>1 DEF WtShape
      <3>3. InOrder(u)'
        BY <2>1, <3>1, <3>2 DEF Contents, InOrder, AsAnnounced
      <3>4. tstate[t] \notin Gone
        BY <2>1, <2>2, WtAssumption DEF SlotsHeld, Holding, Used, Busy
      <3>5. Beginnings(u)'
        BY <2>1, <2>5, <3>4 DEF Beginnings, Contents, Gone
      <3> QED
        BY <2>4, <3>3, <3>5
    <2>6. CASE u # t
      BY <1>1, <2>1, <2>3, <2>4, <2>6 DEF WtShape
    <2> QED
      BY <2>5, <2>6
  <1>13. ASSUME NEW t \in Transfers, NEW n, DownloadRead(t, n), NEW u \in Transfers
         PROVE  InOrder(u)' /\ Beginnings(u)' /\ Closing(u)'
    <2>1. /\ tstate[t] = "queued" /\ tstate' = [tstate EXCEPT ![t] = "read"]
          /\ UNCHANGED <<upload, hpc, hreq, destroyed, wtfault>>
      BY <1>13 DEF DownloadRead
    <2>2. Closing(u)'
      BY <1>2, <2>1 DEF WtShape
    <2>3. CASE u = t
      <3>1. ~upload'[u] /\ tstate'[u] = "read"
        BY <2>1, <2>3 DEF Contents, Beginnings, WtShape
      <3> QED
        BY <2>2, <3>1 DEF InOrder, Beginnings
    <2>4. CASE u # t
      <3>1. tfile'[u] = tfile[u] /\ upload'[u] = upload[u] /\ tstate'[u] = tstate[u]
        BY <1>13, <2>1, <2>4 DEF DownloadRead, WtShape
      <3> QED
        BY <1>1, <2>2, <3>1
    <2> QED
      BY <2>3, <2>4
  <1>14. ASSUME NEW t \in Transfers, DownloadEnds(t), NEW u \in Transfers
         PROVE  InOrder(u)' /\ Beginnings(u)' /\ Closing(u)'
    <2>1. /\ tstate[t] = "read" /\ tstate' = [tstate EXCEPT ![t] = "sent"]
          /\ UNCHANGED <<upload, tfile, hpc, hreq, destroyed, wtfault>>
      BY <1>14 DEF DownloadEnds
    <2>2. tstate'[u] = "complete" <=> tstate[u] = "complete"
      BY <2>1 DEF WtShape
    <2>3. Closing(u)'
      BY <1>2, <2>1, <2>2
    <2>4. InOrder(u)'
      BY <2>1, <2>2, OrderKept DEF Contents
    <2>5. Beginnings(u)'
      BY <2>1 DEF Beginnings, Contents, WtShape
    <2> QED
      BY <2>3, <2>4, <2>5
  <1>15. ASSUME NEW t \in Transfers, DownloadFaults(t), NEW u \in Transfers
         PROVE  InOrder(u)' /\ Beginnings(u)' /\ Closing(u)'
    <2>1. UNCHANGED contextvars /\ wtfault'
      BY <1>15 DEF DownloadFaults
    <2> QED
      BY <1>1, <2>1 DEF contextvars, Closing
  <1>16. ASSUME DestroyTransfers, NEW u \in Transfers
         PROVE  InOrder(u)' /\ Beginnings(u)' /\ Closing(u)'
    <2>1. Closing(u)'
      BY <1>16 DEF DestroyTransfers, Closing
    <2>2. CASE \E i \in Slots : slots[i] = u
      <3>1. tfile'[u] = NothingWritten /\ tstate'[u] = "freed"
        BY <1>16, <2>2 DEF DestroyTransfers
      <3> QED
        BY <2>1, <3>1, EmptyInOrder DEF Beginnings
    <2>3. CASE ~\E i \in Slots : slots[i] = u
      <3>1. tfile'[u] = tfile[u] /\ tstate'[u] = tstate[u] /\ (upload'[u] <=> upload[u])
        BY <1>16, <2>3 DEF DestroyTransfers
      <3>2. InOrder(u)'
        BY <3>1 DEF Contents, InOrder, AsAnnounced
      <3>3. Beginnings(u)'
        BY <3>1 DEF Contents, Beginnings
      <3> QED
        BY <2>1, <3>2, <3>3
    <2> QED
      BY <2>2, <2>3
  <1> QED
    BY <1>4, <1>5, <1>6, <1>7, <1>8, <1>9, <1>10, <1>11, <1>12, <1>13, <1>14, <1>15, <1>16 DEF WtNext, Contents

(* The inductive invariant. *)
WtInv == WtShape /\ SlotsHeld /\ SlotsCounted /\ Contents

(* The four together are inductive. *)
LEMMA WtInvHolds == WtSpec => []WtInv
  <1>1. WtInit => WtInv
    <2> SUFFICES ASSUME WtInit PROVE WtInv
      OBVIOUS
    <2>0. NoReq.index = 0 /\ NoReq.length = 0
      BY DEF NoReq
    <2>1. WtShape
      BY <2>0, NothingIsWritten DEF WtInit, WtShape
    <2>2. Used = {}
      BY DEF WtInit, Used
    <2>3. SlotsHeld
      BY <2>2 DEF WtInit, SlotsHeld, Busy
    <2>4. SlotsCounted
      BY <2>2, FS_EmptySet DEF SlotsCounted, WtInit
    <2>5. Contents
      BY DEF WtInit, Contents, InOrder, Beginnings, Closing
    <2> QED
      BY <2>1, <2>3, <2>4, <2>5 DEF WtInv
  <1>2. WtInv /\ [WtNext]_wtvars => WtInv'
    BY WtShapeStep, SlotsHeldStep, SlotsCountedStep, ContentsStep DEF WtInv
  <1> QED
    BY <1>1, <1>2, PTL DEF WtSpec

(* The counter is the number of slots in use, and until a file is closed twice
   or a download loses its context each slot has a context of its own that
   nobody has freed (the WebSocket file transfer manager and its handlers), for
   any clients, transfers, slots and chunks. *)
THEOREM SlotsAreAccounted == WtSpec => []SlotsAccounted
  <1>1. WtInv => SlotsAccounted
    <2> SUFFICES ASSUME WtInv PROVE SlotsAccounted
      OBVIOUS
    <2>1. active = Cardinality({i \in Slots : slots[i] # WtNull})
      BY DEF WtInv, SlotsCounted, Used
    <2>2. ASSUME ~destroyed, ~wtfault
          PROVE  /\ \A i \in Slots : slots[i] # WtNull => tstate[slots[i]] \notin {"none", "freed"}
                 /\ \A i, j \in Slots : slots[i] = slots[j] /\ slots[i] # WtNull => i = j
                 /\ \A c \in WtClients : hpc[c] # "idle" => slots[hreq[c].slot] = hreq[c].ctx
      <3>1. \A i \in Slots : slots[i] # WtNull => tstate[slots[i]] \notin {"none", "freed"}
        BY <2>2 DEF WtInv, SlotsHeld, Used, Gone
      <3>2. \A i, j \in Slots : slots[i] = slots[j] /\ slots[i] # WtNull => i = j
        BY <2>2 DEF WtInv, SlotsHeld, Used
      <3>3. \A c \in WtClients : hpc[c] # "idle" => slots[hreq[c].slot] = hreq[c].ctx
        BY <2>2 DEF WtInv, SlotsHeld, WtShape, Holding
      <3> QED
        BY <3>1, <3>2, <3>3
    <2> QED
      BY <2>1, <2>2 DEF SlotsAccounted
  <1> QED
    BY <1>1, WtInvHolds, PTL

(* An upload that is reported complete has its chunks in order, each once,
   unless a write was cut short, and all of them and no more when they came in
   the lengths announced (the chunk handler of the WebSocket file transfers),
   for any sizes of files and chunks. *)
THEOREM CompleteUploadsAreWhole == WtSpec => []CompleteMeansWhole
  <1>1. WtInv => CompleteMeansWhole
    <2> SUFFICES ASSUME WtInv, NEW t \in Transfers, upload[t], tstate[t] = "complete", ~tfile[t].short
                 PROVE  /\ \A k \in 1..Len(tfile[t].content) : tfile[t].content[k].index = k - 1
                        /\ AsAnnounced(t) => /\ FileSize <= Len(tfile[t].content) * ChunkSize
                                             /\ FileSize # 0 => (Len(tfile[t].content) - 1) * ChunkSize < FileSize
      BY DEF CompleteMeansWhole
    <2>1. PICK n : n = tfile[t].current
      OBVIOUS
    <2>2. InOrder(t) /\ n \in Nat
      BY <2>1 DEF WtInv, Contents, WtShape, FileKnown
    <2>3. /\ Len(tfile[t].content) = n /\ \A k \in 1..n : tfile[t].content[k].index = k - 1
          /\ n > 0 /\ FileSize <= tfile[t].bytes
          /\ AsAnnounced(t) => tfile[t].bytes = Offset(n)
          /\ AsAnnounced(t) /\ FileSize # 0 => Offset(n - 1) < FileSize
      BY <2>1, <2>2 DEF InOrder
    <2>4. n - 1 \in Nat
      BY <2>2, <2>3
    <2>5. AsAnnounced(t) => FileSize <= n * ChunkSize
      BY <2>2, <2>3, OffsetNext
    <2>6. AsAnnounced(t) /\ FileSize # 0 => (n - 1) * ChunkSize < FileSize
      BY <2>3, <2>4, OffsetNext
    <2> QED
      BY <2>3, <2>5, <2>6
  <1> QED
    BY <1>1, WtInvHolds, PTL

-----------------------------------------------------------------------------
(* Uploads and downloads by path.  The shape of a file, and an upload whose
   source was summed. *)
File(r) == r = [kind |-> r.kind, temp |-> r.temp, good |-> r.good, bytes |-> r.bytes,
                checksum |-> r.checksum, dest |-> r.dest, successes |-> r.successes, asked |-> r.asked]
Summed(r) == r.kind = "upload" /\ r.checksum

(* What a file and the status of its session say of each other: such an upload
   is COMPLETED only when all its chunks are there, and a file that was
   delivered has no temporary file any more and cannot get one. *)
Delivery(r, status) ==
    /\ File(r) /\ r.successes \in {0, 1}
    /\ Summed(r) => r.dest # "partial"
    /\ Summed(r) /\ status = "COMPLETED" => r.good = Chunks
    /\ r.successes = 1 => ~r.temp /\ status \in {"COMPLETED", "FAILED"}
    /\ status = "none" => r.dest = "original" /\ r.successes = 0

(* Where a user is that starts a transfer, and how far the transfer may then be. *)
Beginning == {"insert", "prepare", "checksum"}
Early == {"PENDING", "PREPARING", "FAILED", "freed"}

(* Nothing of a transfer that is being started has been delivered. *)
NotYet(r, status) == status \in Early /\ r.dest = "original" /\ r.successes = 0

(* A user under way has a session, and it is one that was made. *)
FtShape ==
    /\ DOMAIN sfile = Sessions /\ DOMAIN sstatus = Sessions /\ DOMAIN upc = FtUsers /\ DOMAIN usess = FtUsers
    /\ \A u \in FtUsers : upc[u] # "idle" => usess[u] \in Sessions
    /\ \A s \in Sessions : sstatus[s] = "none" => ~Starting(s)

(* All files, and all users that start a transfer. *)
Deliveries == \A s \in Sessions : Delivery(sfile[s], sstatus[s])
Begun == \A u \in FtUsers : upc[u] \in Beginning => NotYet(sfile[usess[u]], sstatus[usess[u]])

(* The inductive invariant. *)
FtInv == FtShape /\ Deliveries /\ Begun

(* One session's file and status change, and no other's. *)
Changes(s, r, status) ==
    /\ DOMAIN sfile' = Sessions /\ DOMAIN sstatus' = Sessions
    /\ sfile'[s] = r /\ sstatus'[s] = status
    /\ \A q \in Sessions : q # s => sfile'[q] = sfile[q] /\ sstatus'[q] = sstatus[q]

(* A session that is being started stays as it has to be. *)
Spares(s, r, status) ==
    \/ NotYet(r, status) \/ sstatus[s] \notin Early \/ ~Starting(s)
    \/ r.dest = sfile[s].dest /\ r.successes = sfile[s].successes /\ status = sstatus[s]

(* What an assignment to one session changes. *)
LEMMA ChangesIs ==
    ASSUME FtShape, NEW s \in Sessions, NEW r, NEW status,
           sfile' = [sfile EXCEPT ![s] = r] \/ (UNCHANGED sfile /\ r = sfile[s]),
           sstatus' = [sstatus EXCEPT ![s] = status] \/ (UNCHANGED sstatus /\ status = sstatus[s])
    PROVE  Changes(s, r, status)
  BY DEF FtShape, Changes

(* A change that keeps file and status in agreement and spares what is being
   started keeps the invariant, where the users go on with their own session. *)
LEMMA FileChanges ==
    ASSUME FtInv, NEW s \in Sessions, NEW r, NEW status, status # "none", Delivery(r, status),
           Changes(s, r, status), Spares(s, r, status),
           DOMAIN upc' = FtUsers, DOMAIN usess' = FtUsers,
           \A v \in FtUsers : \/ upc'[v] = upc[v] /\ usess'[v] = usess[v]
                              \/ upc'[v] = "idle" /\ usess'[v] = FtNull
                              \/ usess'[v] = s /\ (upc'[v] \in Beginning => NotYet(r, status))
    PROVE  FtInv'
  <1>1. /\ DOMAIN sfile' = Sessions /\ DOMAIN sstatus' = Sessions
        /\ sfile'[s] = r /\ sstatus'[s] = status
        /\ \A q \in Sessions : q # s => sfile'[q] = sfile[q] /\ sstatus'[q] = sstatus[q]
    BY DEF Changes
  <1>2. Deliveries'
    BY <1>1 DEF FtInv, Deliveries
  <1>3. FtShape'
    <2>1. ASSUME NEW v \in FtUsers, upc'[v] # "idle" PROVE usess'[v] \in Sessions
      BY <2>1 DEF FtInv, FtShape
    <2>2. ASSUME NEW q \in Sessions, sstatus'[q] = "none" PROVE ~Starting(q)'
      <3>1. q # s /\ sstatus[q] = "none" /\ q # FtNull
        BY <1>1, <2>2, FtAssumption
      <3>2. \A v \in FtUsers : usess[v] # q
        BY <3>1 DEF FtInv, FtShape, Starting
      <3>3. \A v \in FtUsers : usess'[v] # q
        BY <3>1, <3>2
      <3> QED
        BY <3>3 DEF Starting
    <2> QED
      BY <1>1, <2>1, <2>2 DEF FtShape
  <1>4. ASSUME NEW v \in FtUsers, upc'[v] \in Beginning PROVE NotYet(sfile'[usess'[v]], sstatus'[usess'[v]])
    <2>1. CASE upc'[v] = upc[v] /\ usess'[v] = usess[v]
      <3>1. usess[v] \in Sessions /\ NotYet(sfile[usess[v]], sstatus[usess[v]])
        BY <1>4, <2>1 DEF FtInv, FtShape, Begun, Beginning
      <3>2. CASE usess[v] = s
        BY <1>1, <2>1, <3>1, <3>2 DEF NotYet, Starting, Spares
      <3>3. CASE usess[v] # s
        BY <1>1, <2>1, <3>1, <3>3
      <3>4. QED
        BY <3>2, <3>3
    <2>2. CASE usess'[v] = s /\ NotYet(r, status)
      BY <1>1, <2>2
    <2>3. QED
      BY <1>4, <2>1, <2>2 DEF Beginning
  <1>5. QED
    BY <1>2, <1>3, <1>4 DEF FtInv, Begun

(* The same for a call that is done in one step, or for the manager, *)
LEMMA Called ==
    ASSUME FtInv, NEW s \in Sessions, NEW r, NEW status, status # "none", Delivery(r, status),
           Changes(s, r, status), Spares(s, r, status), UNCHANGED <<upc, usess>>
    PROVE  FtInv'
  <1>1. DOMAIN upc' = FtUsers /\ DOMAIN usess' = FtUsers
    BY DEF FtInv, FtShape
  <1>2. QED
    BY <1>1, FileChanges

(* for a user that goes on, *)
LEMMA Goes ==
    ASSUME FtInv, NEW s \in Sessions, NEW r, NEW status, status # "none", Delivery(r, status),
           Changes(s, r, status), Spares(s, r, status),
           NEW u \in FtUsers, NEW where, Goto(u, where),
           (UNCHANGED usess /\ usess[u] = s) \/ usess' = [usess EXCEPT ![u] = s],
           where \in Beginning => NotYet(r, status)
    PROVE  FtInv'
  <1>1. DOMAIN upc' = FtUsers /\ upc'[u] = where /\ \A v \in FtUsers : v # u => upc'[v] = upc[v]
    BY DEF FtInv, FtShape, Goto
  <1>2. DOMAIN usess' = FtUsers /\ usess'[u] = s /\ \A v \in FtUsers : v # u => usess'[v] = usess[v]
    BY DEF FtInv, FtShape
  <1>3. \A v \in FtUsers : \/ upc'[v] = upc[v] /\ usess'[v] = usess[v]
                           \/ upc'[v] = "idle" /\ usess'[v] = FtNull
                           \/ usess'[v] = s /\ (upc'[v] \in Beginning => NotYet(r, status))
    BY <1>1, <1>2
  <1>4. QED
    BY <1>1, <1>2, <1>3, FileChanges

(* and for one that returns. *)
LEMMA Returns ==
    ASSUME FtInv, NEW s \in Sessions, NEW r, NEW status, status # "none", Delivery(r, status),
           Changes(s, r, status), Spares(s, r, status), NEW u \in FtUsers, Return(u)
    PROVE  FtInv'
  <1>1. DOMAIN upc' = FtUsers /\ upc'[u] = "idle" /\ \A v \in FtUsers : v # u => upc'[v] = upc[v]
    BY DEF FtInv, FtShape, Goto, Return
  <1>2. DOMAIN usess' = FtUsers /\ usess'[u] = FtNull /\ \A v \in FtUsers : v # u => usess'[v] = usess[v]
    BY DEF FtInv, FtShape, Return
  <1>3. \A v \in FtUsers : \/ upc'[v] = upc[v] /\ usess'[v] = usess[v]
                           \/ upc'[v] = "idle" /\ usess'[v] = FtNull
                           \/ usess'[v] = s /\ (upc'[v] \in Beginning => NotYet(r, status))
    BY <1>1, <1>2
  <1>4. QED
    BY <1>1, <1>2, <1>3, FileChanges

(* The session of a user under way. *)
LEMMA UserHas ==
    ASSUME FtInv, NEW u \in FtUsers, upc[u] # "idle"
    PROVE  /\ usess[u] \in Sessions /\ sstatus[usess[u]] # "none"
           /\ Delivery(sfile[usess[u]], sstatus[usess[u]])
           /\ upc[u] \in Beginning => NotYet(sfile[usess[u]], sstatus[usess[u]])
  BY DEF FtInv, FtShape, Deliveries, Begun, Starting

(* A freed session says nothing that could be wrong. *)
LEMMA Freeing ==
    ASSUME FtInv, NEW s \in Sessions, NEW L, DestroySession(L, s)
    PROVE  \E r : Changes(s, r, "freed") /\ Delivery(r, "freed") /\ NotYet(r, "freed")
  <1>1. PICK r : r = [NoFile EXCEPT !.asked = sfile[s].asked]
    OBVIOUS
  <1>2. r = [kind |-> "none", temp |-> FALSE, good |-> {}, bytes |-> 0, checksum |-> FALSE,
             dest |-> "original", successes |-> 0, asked |-> sfile[s].asked]
    BY <1>1 DEF NoFile
  <1>3. Delivery(r, "freed") /\ NotYet(r, "freed")
    BY <1>2 DEF Delivery, NotYet, File, Summed, Early
  <1>4. Changes(s, r, "freed")
    BY <1>1, ChangesIs DEF DestroySession, FtInv
  <1>5. QED
    BY <1>3, <1>4

(* The steps of a start and of a removal. *)
LEMMA UserInv == ASSUME FtInv, NEW u \in FtUsers, UserStep(u) PROVE FtInv'
  <1> DEFINE s == usess[u]
             f == sfile[s]
  <1>1. upc[u] # "idle"
    BY DEF UserStep, Insert, Prepare, PrepareFails, RecordChecksum, RemoveSession, Destroy, UserAt
  <1>2. /\ s \in Sessions /\ sstatus[s] # "none" /\ Delivery(f, sstatus[s])
        /\ upc[u] \in Beginning => NotYet(f, sstatus[s])
    BY <1>1, UserHas
  <1>3. File(f)
    BY <1>2 DEF Delivery
  <1>4. FtShape
    BY DEF FtInv
  <1>5. CASE Insert(u)
    <2>1. Goto(u, "prepare") /\ UNCHANGED <<usess, sfile, sstatus>> /\ upc[u] \in Beginning
      BY <1>5 DEF Insert, UserAt, Beginning
    <2>2. Changes(s, f, sstatus[s]) /\ Spares(s, f, sstatus[s])
      BY <1>2, <1>4, <2>1, ChangesIs DEF Spares
    <2>3. QED
      BY <1>2, <2>1, <2>2, Goes
  <1>6. CASE Prepare(u)
    <2>1. PICK r : r = [f EXCEPT !.temp = TRUE]
      OBVIOUS
    <2>2. r = [kind |-> f.kind, temp |-> TRUE, good |-> f.good, bytes |-> f.bytes,
               checksum |-> f.checksum, dest |-> f.dest, successes |-> f.successes, asked |-> f.asked]
      BY <1>3, <2>1 DEF File
    <2>3. /\ upc[u] \in Beginning /\ sstatus' = [sstatus EXCEPT ![s] = "PREPARING"]
          /\ sfile' = [sfile EXCEPT ![s].temp = TRUE]
      BY <1>6 DEF Prepare, UserAt, Beginning
    <2>4. sfile' = [sfile EXCEPT ![s] = r]
      BY <2>1, <2>3
    <2>5. NotYet(r, "PREPARING") /\ Delivery(r, "PREPARING")
      BY <1>2, <2>2, <2>3 DEF NotYet, Delivery, File, Summed, Early
    <2>6. Changes(s, r, "PREPARING") /\ Spares(s, r, "PREPARING")
      BY <1>2, <1>4, <2>3, <2>4, <2>5, ChangesIs DEF Spares
    <2>7. CASE Goto(u, "checksum") /\ UNCHANGED usess
      BY <1>2, <2>5, <2>6, <2>7, Goes
    <2>8. CASE Return(u)
      BY <1>2, <2>5, <2>6, <2>8, Returns
    <2>9. QED
      BY <1>6, <2>7, <2>8 DEF Prepare
  <1>7. CASE PrepareFails(u)
    <2>1. PICK made \in BOOLEAN : sfile' = [sfile EXCEPT ![s].temp = made, ![s].asked = AskedAgain(s)]
      BY <1>7 DEF PrepareFails
    <2>2. PICK q : q = [f EXCEPT !.temp = made]
      OBVIOUS
    <2>3. q = [kind |-> f.kind, temp |-> made, good |-> f.good, bytes |-> f.bytes,
               checksum |-> f.checksum, dest |-> f.dest, successes |-> f.successes, asked |-> f.asked]
      BY <1>3, <2>2 DEF File
    <2>4. PICK r : r = [q EXCEPT !.asked = AskedAgain(s)]
      OBVIOUS
    <2>5. r = [kind |-> f.kind, temp |-> made, good |-> f.good, bytes |-> f.bytes,
               checksum |-> f.checksum, dest |-> f.dest, successes |-> f.successes, asked |-> AskedAgain(s)]
      BY <2>3, <2>4
    <2>6. sfile' = [sfile EXCEPT ![s] = r]
      BY <1>2, <1>4, <2>1, <2>2, <2>4 DEF FtShape
    <2>7. upc[u] \in Beginning /\ UNCHANGED <<sstatus, usess>> /\ Goto(u, "remove")
      BY <1>7 DEF PrepareFails, UserAt, Beginning
    <2>8. NotYet(r, sstatus[s]) /\ Delivery(r, sstatus[s])
      BY <1>2, <2>5, <2>7 DEF NotYet, Delivery, File, Summed, Early
    <2>9. Changes(s, r, sstatus[s]) /\ Spares(s, r, sstatus[s])
      BY <1>2, <1>4, <2>6, <2>7, <2>8, ChangesIs DEF Spares
    <2>10. QED
      BY <1>2, <2>7, <2>8, <2>9, Goes
  <1>8. CASE RecordChecksum(u)
    <2>1. PICK got \in BOOLEAN : sfile' = [sfile EXCEPT ![s].checksum = got]
      BY <1>8 DEF RecordChecksum
    <2>2. PICK r : r = [f EXCEPT !.checksum = got]
      OBVIOUS
    <2>3. r = [kind |-> f.kind, temp |-> f.temp, good |-> f.good, bytes |-> f.bytes,
               checksum |-> got, dest |-> f.dest, successes |-> f.successes, asked |-> f.asked]
      BY <1>3, <2>2 DEF File
    <2>4. sfile' = [sfile EXCEPT ![s] = r]
      BY <2>1, <2>2
    <2>5. upc[u] \in Beginning /\ UNCHANGED sstatus /\ Return(u)
      BY <1>8 DEF RecordChecksum, UserAt, Beginning
    <2>6. NotYet(r, sstatus[s]) /\ Delivery(r, sstatus[s])
      BY <1>2, <2>3, <2>5 DEF NotYet, Delivery, File, Summed, Early
    <2>7. Changes(s, r, sstatus[s]) /\ Spares(s, r, sstatus[s])
      BY <1>2, <1>4, <2>4, <2>5, <2>6, ChangesIs DEF Spares
    <2>8. QED
      BY <1>2, <2>5, <2>6, <2>7, Returns
  <1>9. CASE RemoveSession(u)
    <2>1. UNCHANGED <<sfile, sstatus>> /\ (Return(u) \/ (Goto(u, "destroy") /\ UNCHANGED usess))
      BY <1>9 DEF RemoveSession
    <2>2. Changes(s, f, sstatus[s]) /\ Spares(s, f, sstatus[s])
      BY <1>2, <1>4, <2>1, ChangesIs DEF Spares
    <2>3. "destroy" \notin Beginning
      BY DEF Beginning
    <2>4. QED
      BY <1>2, <2>1, <2>2, <2>3, Returns, Goes
  <1>10. CASE Destroy(u)
    <2>1. DestroySession(links, s) /\ Return(u)
      BY <1>10 DEF Destroy
    <2>2. PICK r : Changes(s, r, "freed") /\ Delivery(r, "freed") /\ NotYet(r, "freed")
      BY <1>2, <2>1, Freeing
    <2>3. Spares(s, r, "freed")
      BY <2>2 DEF Spares
    <2>4. QED
      BY <1>2, <2>1, <2>2, <2>3, Returns
  <1>11. QED
    BY <1>5, <1>6, <1>7, <1>8, <1>9, <1>10 DEF UserStep

(* The calls.  None of them reaches a session that is being started. *)
LEMMA CallInv ==
    ASSUME FtInv, NEW u \in FtUsers, NEW s \in Sessions,
           \/ \E kind \in {"upload", "download"} : Start(u, s, kind)
           \/ \E i \in Chunks : UploadChunk(u, s, i)
           \/ DownloadChunk(u, s)
           \/ UploadChunkFails(u, s)
           \/ CompleteUpload(u, s)
           \/ CallRemove(u, s)
    PROVE  FtInv'
  <1> DEFINE f == sfile[s]
  <1>1. Delivery(f, sstatus[s]) /\ File(f) /\ FtShape
    BY DEF FtInv, Deliveries, Delivery
  <1>2. ASSUME NEW kind \in {"upload", "download"}, Start(u, s, kind) PROVE FtInv'
    <2>1. PICK r : r = [f EXCEPT !.kind = kind]
      OBVIOUS
    <2>2. r = [kind |-> kind, temp |-> f.temp, good |-> f.good, bytes |-> f.bytes,
               checksum |-> f.checksum, dest |-> f.dest, successes |-> f.successes, asked |-> f.asked]
      BY <1>1, <2>1 DEF File
    <2>3. /\ sstatus[s] = "none" /\ sstatus' = [sstatus EXCEPT ![s] = "PENDING"]
          /\ sfile' = [sfile EXCEPT ![s].kind = kind]
          /\ Goto(u, "insert") /\ usess' = [usess EXCEPT ![u] = s]
      BY <1>2 DEF Start
    <2>4. sfile' = [sfile EXCEPT ![s] = r]
      BY <2>1, <2>3
    <2>5. NotYet(r, "PENDING") /\ Delivery(r, "PENDING")
      BY <1>1, <2>2, <2>3 DEF NotYet, Delivery, File, Summed, Early
    <2>6. Changes(s, r, "PENDING") /\ Spares(s, r, "PENDING")
      BY <1>1, <2>3, <2>4, <2>5, ChangesIs DEF Spares
    <2>7. QED
      BY <2>3, <2>5, <2>6, Goes
  <1>3. ASSUME MayCall(u, s) PROVE sstatus[s] # "none" /\ ~Starting(s)
    BY <1>3 DEF MayCall
  <1>4. AfterChunk(s) \in {"VERIFYING", sstatus[s]}
    BY DEF AfterChunk
  <1>5. ASSUME NEW i \in Chunks, UploadChunk(u, s, i) PROVE FtInv'
    <2>1. PICK q : q = [f EXCEPT !.temp = TRUE]
      OBVIOUS
    <2>2. q = [kind |-> f.kind, temp |-> TRUE, good |-> f.good, bytes |-> f.bytes,
               checksum |-> f.checksum, dest |-> f.dest, successes |-> f.successes, asked |-> f.asked]
      BY <1>1, <2>1 DEF File
    <2>3. PICK p : p = [q EXCEPT !.bytes = Counted(s)]
      OBVIOUS
    <2>4. p = [kind |-> f.kind, temp |-> TRUE, good |-> f.good, bytes |-> Counted(s),
               checksum |-> f.checksum, dest |-> f.dest, successes |-> f.successes, asked |-> f.asked]
      BY <2>2, <2>3
    <2>5. PICK r : r = [p EXCEPT !.good = f.good \cup {i}]
      OBVIOUS
    <2>6. r = [kind |-> f.kind, temp |-> TRUE, good |-> f.good \cup {i}, bytes |-> Counted(s),
               checksum |-> f.checksum, dest |-> f.dest, successes |-> f.successes, asked |-> f.asked]
      BY <2>4, <2>5
    <2>7. Written(s, i) = r
      BY <1>1, <2>1, <2>2, <2>3, <2>4, <2>5 DEF Written, File
    <2>8. /\ MayCall(u, s) /\ sstatus[s] = "PREPARING" /\ sfile' = [sfile EXCEPT ![s] = r]
          /\ sstatus' = [sstatus EXCEPT ![s] = AfterChunk(s)] /\ UNCHANGED <<upc, usess>>
      BY <1>5, <2>7 DEF UploadChunk
    <2>9. Delivery(r, AfterChunk(s)) /\ AfterChunk(s) # "none"
      BY <1>1, <1>4, <2>6, <2>8 DEF Delivery, File, Summed
    <2>10. Changes(s, r, AfterChunk(s)) /\ Spares(s, r, AfterChunk(s))
      BY <1>1, <1>3, <2>8, ChangesIs DEF Spares
    <2>11. QED
      BY <2>8, <2>9, <2>10, Called
  <1>6. CASE DownloadChunk(u, s)
    <2>1. PICK q : q = [f EXCEPT !.temp = TRUE]
      OBVIOUS
    <2>2. q = [kind |-> f.kind, temp |-> TRUE, good |-> f.good, bytes |-> f.bytes,
               checksum |-> f.checksum, dest |-> f.dest, successes |-> f.successes, asked |-> f.asked]
      BY <1>1, <2>1 DEF File
    <2>3. PICK r : r = [q EXCEPT !.bytes = Counted(s)]
      OBVIOUS
    <2>4. r = [kind |-> f.kind, temp |-> TRUE, good |-> f.good, bytes |-> Counted(s),
               checksum |-> f.checksum, dest |-> f.dest, successes |-> f.successes, asked |-> f.asked]
      BY <2>2, <2>3
    <2>5. /\ MayCall(u, s) /\ sstatus[s] = "PREPARING"
          /\ sfile' = [sfile EXCEPT ![s].temp = TRUE, ![s].bytes = Counted(s)]
          /\ sstatus' = [sstatus EXCEPT ![s] = AfterChunk(s)] /\ UNCHANGED <<upc, usess>>
      BY <1>6 DEF DownloadChunk
    <2>6. sfile' = [sfile EXCEPT ![s] = r]
      BY <1>1, <2>1, <2>3, <2>5 DEF FtShape
    <2>7. Delivery(r, AfterChunk(s)) /\ AfterChunk(s) # "none"
      BY <1>1, <1>4, <2>4, <2>5 DEF Delivery, File, Summed
    <2>8. Changes(s, r, AfterChunk(s)) /\ Spares(s, r, AfterChunk(s))
      BY <1>1, <1>3, <2>5, <2>6, ChangesIs DEF Spares
    <2>9. QED
      BY <2>5, <2>7, <2>8, Called
  <1>7. CASE UploadChunkFails(u, s)
    <2>1. /\ MayCall(u, s) /\ sstatus[s] = "PREPARING" /\ UNCHANGED sfile
          /\ sstatus' = [sstatus EXCEPT ![s] = "FAILED"] /\ UNCHANGED <<upc, usess>>
      BY <1>7 DEF UploadChunkFails
    <2>2. Delivery(f, "FAILED")
      BY <1>1, <2>1 DEF Delivery
    <2>3. Changes(s, f, "FAILED") /\ Spares(s, f, "FAILED")
      BY <1>1, <1>3, <2>1, ChangesIs DEF Spares
    <2>4. QED
      BY <2>1, <2>2, <2>3, Called
  <1>8. CASE CompleteUpload(u, s)
    <2>1. PICK q : q = [f EXCEPT !.temp = FALSE]
      OBVIOUS
    <2>2. q = [kind |-> f.kind, temp |-> FALSE, good |-> f.good, bytes |-> f.bytes,
               checksum |-> f.checksum, dest |-> f.dest, successes |-> f.successes, asked |-> f.asked]
      BY <1>1, <2>1 DEF File
    <2> DEFINE d == IF f.good = Chunks THEN "whole" ELSE "partial"
    <2>3. PICK r : r = [q EXCEPT !.dest = d]
      OBVIOUS
    <2>4. r = [kind |-> f.kind, temp |-> FALSE, good |-> f.good, bytes |-> f.bytes,
               checksum |-> f.checksum, dest |-> d, successes |-> f.successes, asked |-> f.asked]
      BY <2>2, <2>3
    <2>5. Renamed(s) = r
      BY <1>1, <2>1, <2>3 DEF Renamed, File
    <2>6. /\ MayCall(u, s) /\ sfile' = [sfile EXCEPT ![s] = r] /\ f.temp
          /\ sstatus' = [sstatus EXCEPT ![s] = "COMPLETED"] /\ UNCHANGED <<upc, usess>>
          /\ f.checksum => f.good = Chunks
      BY <1>8, <2>5 DEF CompleteUpload, Verified
    <2>7. Delivery(r, "COMPLETED")
      BY <1>1, <2>4, <2>6 DEF Delivery, File, Summed
    <2>8. Changes(s, r, "COMPLETED") /\ Spares(s, r, "COMPLETED")
      BY <1>1, <1>3, <2>6, ChangesIs DEF Spares
    <2>9. QED
      BY <2>6, <2>7, <2>8, Called
  <1>9. CASE CallRemove(u, s)
    <2>1. PICK r : r = [f EXCEPT !.asked = AskedAgain(s)]
      OBVIOUS
    <2>2. r = [kind |-> f.kind, temp |-> f.temp, good |-> f.good, bytes |-> f.bytes,
               checksum |-> f.checksum, dest |-> f.dest, successes |-> f.successes, asked |-> AskedAgain(s)]
      BY <1>1, <2>1 DEF File
    <2>3. /\ MayCall(u, s) /\ sfile' = [sfile EXCEPT ![s].asked = AskedAgain(s)] /\ UNCHANGED sstatus
          /\ Goto(u, "remove") /\ usess' = [usess EXCEPT ![u] = s]
      BY <1>9 DEF CallRemove
    <2>4. sfile' = [sfile EXCEPT ![s] = r]
      BY <2>1, <2>3
    <2>5. Delivery(r, sstatus[s]) /\ "remove" \notin Beginning
      BY <1>1, <2>2 DEF Delivery, File, Summed, Beginning
    <2>6. Changes(s, r, sstatus[s]) /\ Spares(s, r, sstatus[s])
      BY <1>1, <1>3, <2>3, <2>4, ChangesIs DEF Spares
    <2>7. QED
      BY <1>3, <2>3, <2>5, <2>6, Goes
  <1>10. QED
    BY <1>2, <1>5, <1>6, <1>7, <1>8, <1>9

(* Steps that touch neither files nor users. *)
LEMMA Untouched == ASSUME FtInv, UNCHANGED <<sfile, sstatus, upc, usess>> PROVE FtInv'
  BY DEF FtInv, FtShape, Starting, Deliveries, Begun

(* The manager.  It delivers a file once, for then the temporary file is gone. *)
LEMMA ManagerInv == ASSUME FtInv, NEW s \in Sessions,
           \/ ProcessPending(s) \/ ProcessNothing(s) \/ ProcessVerified(s)
           \/ Deliver(s) \/ ProcessFails(s) \/ Drain(s)
           \/ \E old \in BOOLEAN : Sweep(s, old)
    PROVE FtInv'
  <1> DEFINE f == sfile[s]
  <1>1. Delivery(f, sstatus[s]) /\ File(f) /\ FtShape
    BY DEF FtInv, Deliveries, Delivery
  <1>2. CASE ProcessPending(s) \/ ProcessNothing(s)
    BY <1>2, Untouched DEF ProcessPending, ProcessNothing
  <1>3. CASE ProcessVerified(s)
    <2>1. /\ sstatus[s] = "VERIFYING" /\ sstatus' = [sstatus EXCEPT ![s] = "COMPLETED"]
          /\ UNCHANGED <<sfile, upc, usess>> /\ (f.checksum => f.good = Chunks)
      BY <1>3 DEF ProcessVerified, Verified
    <2>2. Delivery(f, "COMPLETED")
      BY <1>1, <2>1 DEF Delivery, Summed
    <2>3. Changes(s, f, "COMPLETED") /\ Spares(s, f, "COMPLETED")
      BY <1>1, <2>1, ChangesIs DEF Spares, Early
    <2>4. QED
      BY <2>1, <2>2, <2>3, Called
  <1>4. CASE Deliver(s)
    <2>1. PICK q : q = [f EXCEPT !.temp = FALSE]
      OBVIOUS
    <2>2. q = [kind |-> f.kind, temp |-> FALSE, good |-> f.good, bytes |-> f.bytes,
               checksum |-> f.checksum, dest |-> f.dest, successes |-> f.successes, asked |-> f.asked]
      BY <1>1, <2>1 DEF File
    <2> DEFINE d == IF f.good = Chunks THEN "whole" ELSE "partial"
    <2>3. PICK p : p = [q EXCEPT !.dest = d]
      OBVIOUS
    <2>4. p = [kind |-> f.kind, temp |-> FALSE, good |-> f.good, bytes |-> f.bytes,
               checksum |-> f.checksum, dest |-> d, successes |-> f.successes, asked |-> f.asked]
      BY <2>2, <2>3
    <2>5. Renamed(s) = p
      BY <1>1, <2>1, <2>3 DEF Renamed, File
    <2>6. PICK r : r = [p EXCEPT !.successes = p.successes + 1]
      OBVIOUS
    <2>7. r = [kind |-> f.kind, temp |-> FALSE, good |-> f.good, bytes |-> f.bytes,
               checksum |-> f.checksum, dest |-> d, successes |-> f.successes + 1, asked |-> f.asked]
      BY <2>4, <2>6
    <2>8. /\ sstatus[s] = "COMPLETED" /\ f.temp /\ sfile' = [sfile EXCEPT ![s] = r]
          /\ UNCHANGED <<sstatus, upc, usess>>
      BY <1>4, <2>5, <2>6 DEF Deliver
    <2>9. Delivery(r, "COMPLETED")
      BY <1>1, <2>7, <2>8 DEF Delivery, File, Summed
    <2>10. Changes(s, r, "COMPLETED") /\ Spares(s, r, "COMPLETED")
      BY <1>1, <2>8, ChangesIs DEF Spares, Early
    <2>11. QED
      BY <2>8, <2>9, <2>10, Called
  <1>5. CASE ProcessFails(s)
    <2>1. /\ sstatus[s] \in {"VERIFYING", "COMPLETED"} /\ sstatus' = [sstatus EXCEPT ![s] = "FAILED"]
          /\ UNCHANGED <<sfile, upc, usess>>
      BY <1>5 DEF ProcessFails
    <2>2. Delivery(f, "FAILED")
      BY <1>1, <2>1 DEF Delivery
    <2>3. Changes(s, f, "FAILED") /\ Spares(s, f, "FAILED")
      BY <1>1, <2>1, ChangesIs DEF Spares, Early
    <2>4. QED
      BY <2>1, <2>2, <2>3, Called
  <1>6. ASSUME NEW L, DestroySession(L, s), UNCHANGED <<upc, usess>> PROVE FtInv'
    <2>1. PICK r : Changes(s, r, "freed") /\ Delivery(r, "freed") /\ NotYet(r, "freed")
      BY <1>6, Freeing
    <2>2. Spares(s, r, "freed")
      BY <2>1 DEF Spares
    <2>3. QED
      BY <1>6, <2>1, <2>2, Called
  <1>7. CASE Drain(s)
    BY <1>6, <1>7 DEF Drain
  <1>8. ASSUME NEW old \in BOOLEAN, Sweep(s, old) PROVE FtInv'
    BY <1>6, <1>8, Untouched DEF Sweep
  <1>9. QED
    BY <1>2, <1>3, <1>4, <1>5, <1>7, <1>8

(* A timeout strikes pending sessions only. *)
LEMMA TimeoutInv == ASSUME FtInv, CheckTimeouts PROVE FtInv'
  <1>1. PICK late \in SUBSET Sessions :
          /\ \A s \in late : sstatus[s] = "PENDING"
          /\ sstatus' = [s \in Sessions |-> IF s \in late THEN "FAILED" ELSE sstatus[s]]
    BY DEF CheckTimeouts
  <1>2. UNCHANGED <<sfile, upc, usess>>
    BY DEF CheckTimeouts
  <1>3. \A s \in Sessions : sstatus'[s] = sstatus[s] \/ (sstatus[s] = "PENDING" /\ sstatus'[s] = "FAILED")
    BY <1>1
  <1>4. FtShape'
    BY <1>1, <1>2, <1>3 DEF FtInv, FtShape, Starting
  <1>5. Deliveries'
    BY <1>2, <1>3 DEF FtInv, Deliveries, Delivery
  <1>6. \A u \in FtUsers : upc[u] \in Beginning => usess[u] \in Sessions
    BY DEF FtInv, FtShape, Beginning
  <1>7. Begun'
    BY <1>2, <1>3, <1>6 DEF FtInv, Begun, NotYet, Early
  <1>8. QED
    BY <1>4, <1>5, <1>7 DEF FtInv

(* The end of ft_cleanup removes the temporary files that are left. *)
LEMMA DrainedInv == ASSUME FtInv, CompletedDrained PROVE FtInv'
  <1>1. sfile' = [s \in Sessions |-> [sfile[s] EXCEPT !.temp = FALSE]] /\ UNCHANGED <<sstatus, upc, usess>>
    BY DEF CompletedDrained
  <1>2. ASSUME NEW s \in Sessions
        PROVE  /\ Delivery(sfile'[s], sstatus[s])
               /\ sfile'[s].dest = sfile[s].dest /\ sfile'[s].successes = sfile[s].successes
    <2> DEFINE f == sfile[s]
    <2>1. Delivery(f, sstatus[s]) /\ File(f)
      BY DEF FtInv, Deliveries, Delivery
    <2>2. PICK r : r = [f EXCEPT !.temp = FALSE] /\ sfile'[s] = r
      BY <1>1
    <2>3. r = [kind |-> f.kind, temp |-> FALSE, good |-> f.good, bytes |-> f.bytes,
               checksum |-> f.checksum, dest |-> f.dest, successes |-> f.successes, asked |-> f.asked]
      BY <2>1, <2>2 DEF File
    <2>4. Delivery(r, sstatus[s]) /\ r.dest = f.dest /\ r.successes = f.successes
      BY <2>1, <2>3 DEF Delivery, File, Summed
    <2>5. QED
      BY <2>2, <2>4
  <1>3. FtShape'
    BY <1>1 DEF FtInv, FtShape, Starting
  <1>4. Deliveries'
    BY <1>1, <1>2 DEF Deliveries
  <1>5. \A u \in FtUsers : upc[u] \in Beginning => usess[u] \in Sessions
    BY DEF FtInv, FtShape, Beginning
  <1>6. Begun'
    BY <1>1, <1>2, <1>5 DEF FtInv, Begun, NotYet
  <1>7. QED
    BY <1>3, <1>4, <1>6 DEF FtInv

(* Every step keeps the invariant. *)
LEMMA FtInvStep == FtInv /\ [FtNext]_ftvars => FtInv'
  <1> SUFFICES ASSUME FtInv, [FtNext]_ftvars PROVE FtInv'
    OBVIOUS
  <1>1. CASE UNCHANGED ftvars
    BY <1>1, Untouched DEF ftvars
  <1>2. CASE StartManager \/ StopManager \/ Cleanup \/ ActiveDrained \/ LoopTest \/ WalkEnds \/ SweepEnds
    BY <1>2, Untouched DEF StartManager, StopManager, Cleanup, ActiveDrained, LoopTest, WalkEnds, SweepEnds
  <1>3. QED
    BY <1>1, <1>2, UserInv, CallInv, ManagerInv, TimeoutInv, DrainedInv DEF FtNext, ManagerStep

LEMMA FtInvInit == FtInit => FtInv
  <1> SUFFICES ASSUME FtInit PROVE FtInv
    OBVIOUS
  <1>1. FtShape
    BY FtAssumption DEF FtInit, FtShape, Starting
  <1>2. Begun
    BY DEF FtInit, Begun, Beginning
  <1>3. Delivery(NoFile, "none")
    BY DEF Delivery, NoFile, File, Summed
  <1>4. Deliveries
    BY <1>3 DEF FtInit, Deliveries
  <1>5. QED
    BY <1>1, <1>2, <1>4 DEF FtInv

(* An upload whose source could be summed reaches its destination whole and is
   counted as successful at most once, whatever chunks are repeated or missing
   and whoever moves the file (file_transfer.c, ft_complete_upload and the
   manager thread's ft_process_session), for any users, sessions and chunks. *)
THEOREM UploadsArriveWhole == FtSpec => []UploadsArriveOnce
  <1>1. FtInv => UploadsArriveOnce
    BY DEF FtInv, Deliveries, Delivery, Summed, UploadsArriveOnce
  <1>2. QED
    BY <1>1, FtInvInit, FtInvStep, PTL DEF FtSpec

-----------------------------------------------------------------------------
(* The manager's lists, for any sessions in buckets of their own. *)

(* A set of natural numbers has a least one. *)
LEMMA LeastOf == ASSUME NEW S, S \in SUBSET Nat, S # {} PROVE \E m \in S : \A y \in S : m <= y
  <1>1. ASSUME NEW x \in Nat, NEW y \in Nat, x < y PROVE <<x, y>> \in OpToRel(<, Nat)
    BY <1>1 DEF OpToRel
  <1>2. PICK R : IsWellFoundedOn(R, Nat) /\ \A x, y \in Nat : x < y => <<x, y>> \in R
    BY <1>1, NatLessThanWellFounded, Zenon
  <1>3. PICK m \in S : \A y \in S : ~(<<y, m>> \in R)
    <2>1. IsWellFoundedOn(R, Nat) /\ S \subseteq Nat /\ S # {}
      BY <1>2, Zenon
    <2>2. QED
      BY ONLY <2>1, WFMin
  <1>4. ASSUME NEW y \in S PROVE m <= y
    <2>1. m \in Nat /\ y \in Nat
      OBVIOUS
    <2>2. ~(y < m)
      BY <1>2, <1>3, <2>1, Zenon
    <2>3. QED
      BY <2>1, <2>2
  <1>5. QED
    BY <1>4

OrNull == Sessions \cup {FtNull}

LinkShape(L) ==
    /\ L = [next |-> L.next, prev |-> L.prev, head |-> L.head]
    /\ L.next \in [Sessions -> OrNull] /\ L.prev \in [Sessions -> OrNull] /\ L.head \in [Heads -> OrNull]

(* What a removal and an insertion write. *)
Detached(L, M, s, h) ==
    /\ \A y \in Sessions : M.next[y] = IF y = L.prev[s] THEN L.next[s] ELSE L.next[y]
    /\ \A y \in Sessions : M.prev[y] = IF y = L.next[s] THEN L.prev[s] ELSE L.prev[y]
    /\ \A k \in Heads : M.head[k] = IF k = h /\ L.prev[s] = FtNull THEN L.next[s] ELSE L.head[k]

Pushed(L, M, s, h) ==
    /\ \A y \in Sessions : M.next[y] = IF y = s THEN L.head[h] ELSE L.next[y]
    /\ \A y \in Sessions : M.prev[y] = IF y = L.head[h] THEN s ELSE IF y = s THEN FtNull ELSE L.prev[y]
    /\ \A k \in Heads : M.head[k] = IF k = h THEN s ELSE L.head[k]

LEMMA DetachIs ==
    ASSUME NEW L, LinkShape(L), NEW s \in Sessions, NEW h \in Heads
    PROVE  LinkShape(Detach(L, s, h)) /\ Detached(L, Detach(L, s, h), s, h)
  <1> DEFINE p == L.prev[s]
             n == L.next[s]
             L1 == IF p = FtNull THEN [L EXCEPT !.head[h] = n] ELSE [L EXCEPT !.next[p] = n]
             L2 == IF n = FtNull THEN L1 ELSE [L1 EXCEPT !.prev[n] = p]
  <1>0. p \in OrNull /\ n \in OrNull /\ FtNull \notin Sessions
    BY FtAssumption DEF LinkShape
  <1>1. Detach(L, s, h) = L2
    BY DEF Detach
  <1> HIDE DEF p, n
  <1>2. /\ L1 = [next |-> L1.next, prev |-> L.prev, head |-> L1.head]
        /\ L1.next = IF p = FtNull THEN L.next ELSE [L.next EXCEPT ![p] = n]
        /\ L1.head = IF p = FtNull THEN [L.head EXCEPT ![h] = n] ELSE L.head
        /\ L1.prev = L.prev
    <2>1. CASE p = FtNull
      BY <2>1 DEF LinkShape
    <2>2. CASE p # FtNull
      BY <2>2 DEF LinkShape
    <2> QED
      BY <2>1, <2>2
  <1> HIDE DEF L1
  <1>3. /\ L2 = [next |-> L1.next, prev |-> L2.prev, head |-> L1.head]
        /\ L2.next = L1.next /\ L2.head = L1.head
        /\ L2.prev = IF n = FtNull THEN L.prev ELSE [L.prev EXCEPT ![n] = p]
    <2>1. CASE n = FtNull
      BY <2>1, <1>2
    <2>2. CASE n # FtNull
      BY <2>2, <1>2
    <2> QED
      BY <2>1, <2>2
  <1> HIDE DEF L2
  <1>4. LinkShape(L2)
    BY <1>0, <1>2, <1>3 DEF LinkShape, OrNull
  <1>5. Detached(L, L2, s, h)
    <2>1. \A y \in Sessions : L2.next[y] = IF y = p THEN n ELSE L.next[y]
      BY <1>0, <1>2, <1>3 DEF LinkShape, OrNull
    <2>2. \A y \in Sessions : L2.prev[y] = IF y = n THEN p ELSE L.prev[y]
      BY <1>0, <1>2, <1>3 DEF LinkShape, OrNull
    <2>3. \A k \in Heads : L2.head[k] = IF k = h /\ p = FtNull THEN n ELSE L.head[k]
      BY <1>0, <1>2, <1>3 DEF LinkShape, OrNull
    <2> QED
      BY <2>1, <2>2, <2>3 DEF Detached, p, n
  <1> QED
    BY <1>1, <1>4, <1>5

LEMMA PushIs ==
    ASSUME NEW L, LinkShape(L), NEW s \in Sessions, NEW h \in Heads
    PROVE  LinkShape(Push(L, s, h)) /\ Pushed(L, Push(L, s, h), s, h)
  <1> DEFINE first == L.head[h]
             L1 == [L EXCEPT !.next[s] = first, !.prev[s] = FtNull, !.head[h] = s]
             L2 == IF first = FtNull THEN L1 ELSE [L1 EXCEPT !.prev[first] = s]
  <1>0. first \in OrNull /\ FtNull \notin Sessions /\ FtNull \in OrNull /\ s \in OrNull
    BY FtAssumption DEF LinkShape, OrNull
  <1>1. Push(L, s, h) = L2
    BY DEF Push
  <1> HIDE DEF first
  <1>2. /\ L1 = [next |-> L1.next, prev |-> L1.prev, head |-> L1.head]
        /\ L1.next = [L.next EXCEPT ![s] = first] /\ L1.prev = [L.prev EXCEPT ![s] = FtNull]
        /\ L1.head = [L.head EXCEPT ![h] = s]
    <2>1. PICK A : A = [L EXCEPT !.next[s] = first]
      OBVIOUS
    <2>2. A = [next |-> [L.next EXCEPT ![s] = first], prev |-> L.prev, head |-> L.head]
      BY <2>1 DEF LinkShape
    <2>3. PICK B : B = [A EXCEPT !.prev[s] = FtNull]
      OBVIOUS
    <2>4. B = [next |-> [L.next EXCEPT ![s] = first], prev |-> [L.prev EXCEPT ![s] = FtNull], head |-> L.head]
      BY <2>2, <2>3
    <2>5. L1 = [B EXCEPT !.head[h] = s]
      BY <2>1, <2>3
    <2>6. L1 = [next |-> [L.next EXCEPT ![s] = first], prev |-> [L.prev EXCEPT ![s] = FtNull],
                head |-> [L.head EXCEPT ![h] = s]]
      <3> HIDE DEF L1
      <3> QED
        BY <2>4, <2>5
    <2> HIDE DEF L1
    <2> QED
      BY <2>6
  <1> HIDE DEF L1
  <1>3. /\ L2 = [next |-> L1.next, prev |-> L2.prev, head |-> L1.head]
        /\ L2.next = L1.next /\ L2.head = L1.head
        /\ L2.prev = IF first = FtNull THEN L1.prev ELSE [L1.prev EXCEPT ![first] = s]
    <2>1. CASE first = FtNull
      BY <2>1, <1>2
    <2>2. CASE first # FtNull
      BY <2>2, <1>2
    <2> QED
      BY <2>1, <2>2
  <1> HIDE DEF L2
  <1>4. LinkShape(L2)
    <2>1. L1.next \in [Sessions -> OrNull] /\ L1.prev \in [Sessions -> OrNull] /\ L1.head \in [Heads -> OrNull]
      BY <1>0, <1>2 DEF LinkShape
    <2>2. L2.prev \in [Sessions -> OrNull]
      BY <1>0, <1>3, <2>1
    <2> QED
      BY <1>3, <2>1, <2>2 DEF LinkShape
  <1>5. Pushed(L, L2, s, h)
    <2>1. \A y \in Sessions : L2.next[y] = IF y = s THEN first ELSE L.next[y]
      BY <1>0, <1>2, <1>3 DEF LinkShape
    <2>2. \A y \in Sessions : L2.prev[y] = IF y = first THEN s ELSE IF y = s THEN FtNull ELSE L.prev[y]
      BY <1>0, <1>2, <1>3 DEF LinkShape
    <2>3. \A k \in Heads : L2.head[k] = IF k = h THEN s ELSE L.head[k]
      BY <1>0, <1>2, <1>3 DEF LinkShape
    <2> QED
      BY <2>1, <2>2, <2>3 DEF Pushed, first
  <1> QED
    BY <1>1, <1>4, <1>5

(* The walk as a function of the number of steps. *)
IsWalk(f, L, h, N) ==
    f = [n \in 0..N |-> IF n = 0 THEN L.head[h]
                        ELSE IF f[n - 1] = FtNull THEN FtNull ELSE L.next[f[n - 1]]]

LEMMA WalkExists == ASSUME NEW L, NEW h, NEW N \in Nat PROVE \E f : IsWalk(f, L, h, N)
  <1> DEFINE On(x) == IF x = FtNull THEN FtNull ELSE L.next[x]
             Is(f, m) == f = [n \in 0..m |-> IF n = 0 THEN L.head[h] ELSE On(f[n - 1])]
             T == {m \in Nat : ~\E f : Is(f, m)}
  <1>1. SUFFICES ASSUME T # {} PROVE FALSE
    BY DEF IsWalk
  <1> HIDE DEF On
  <1>2. PICK m \in T : \A y \in T : m <= y
    BY <1>1, LeastOf
  <1>3. m # 0
    <2>1. ASSUME m = 0 PROVE FALSE
      <3> DEFINE g == [n \in 0..0 |-> L.head[h]]
      <3>1. Is(g, 0)
        OBVIOUS
      <3> QED
        BY <2>1, <3>1
    <2> QED
      BY <2>1
  <1>4. PICK f : Is(f, m - 1)
    <2>1. m - 1 \in Nat /\ ~(m <= m - 1)
      BY <1>3
    <2> QED
      BY <1>2, <2>1
  <1> DEFINE g == [n \in 0..m |-> IF n = 0 THEN L.head[h] ELSE On(f[n - 1])]
  <1>5. ASSUME NEW n \in 1..m PROVE g[n - 1] = f[n - 1]
    BY <1>3, <1>4
  <1>6. Is(g, m)
    <2>1. ASSUME NEW n \in 0..m PROVE g[n] = IF n = 0 THEN L.head[h] ELSE On(g[n - 1])
      <3>1. g[n] = IF n = 0 THEN L.head[h] ELSE On(f[n - 1])
        OBVIOUS
      <3>2. CASE n = 0
        BY <3>1, <3>2
      <3>3. CASE n # 0
        <4>1. n \in 1..m
          BY <3>3
        <4>2. g[n - 1] = f[n - 1]
          BY <4>1, <1>5
        <4> HIDE DEF g
        <4> QED
          BY <3>1, <3>3, <4>2
      <3> QED
        BY <3>2, <3>3
    <2> HIDE DEF g
    <2> QED
      BY <2>1 DEF g
  <1> QED
    BY <1>6

LEMMA WalkIs ==
    ASSUME NEW L, NEW h
    PROVE  /\ Cardinality(Sessions) \in Nat /\ Walk(L, h)[0] = L.head[h]
           /\ \A n \in 1..Cardinality(Sessions) :
                 Walk(L, h)[n] = IF Walk(L, h)[n - 1] = FtNull THEN FtNull ELSE L.next[Walk(L, h)[n - 1]]
  <1> DEFINE N == Cardinality(Sessions)
  <1>0. N \in Nat
    BY FtAssumption, FS_CardinalityType
  <1>1. PICK f : IsWalk(f, L, h, N)
    BY <1>0, WalkExists
  <1>2. Walk(L, h) = [n \in 0..N |-> IF n = 0 THEN L.head[h]
                         ELSE IF Walk(L, h)[n - 1] = FtNull THEN FtNull ELSE L.next[Walk(L, h)[n - 1]]]
    BY <1>1 DEF Walk, IsWalk
  <1> DEFINE w == Walk(L, h)
  <1> HIDE DEF w, N
  <1>3. w = [n \in 0..N |-> IF n = 0 THEN L.head[h] ELSE IF w[n - 1] = FtNull THEN FtNull ELSE L.next[w[n - 1]]]
    BY <1>2 DEF w, N
  <1>4. w[0] = L.head[h]
    BY <1>0, <1>3
  <1>5. \A n \in 1..N : w[n] = IF w[n - 1] = FtNull THEN FtNull ELSE L.next[w[n - 1]]
    BY <1>0, <1>3
  <1> QED
    BY <1>0, <1>4, <1>5 DEF w, N

(* A walk does not leave what is closed under next. *)
Closed(L, C) == C \in SUBSET Sessions /\ \A y \in C : L.next[y] \in C \cup {FtNull}

LEMMA WalkStays ==
    ASSUME NEW L, NEW h, NEW C, Closed(L, C), L.head[h] \in C \cup {FtNull}
    PROVE  \A n \in 0..Cardinality(Sessions) : Walk(L, h)[n] \in C \cup {FtNull}
  <1> DEFINE N == Cardinality(Sessions)
             w == Walk(L, h)
             T == {n \in 0..N : w[n] \notin C \cup {FtNull}}
  <1>0. N \in Nat /\ w[0] = L.head[h] /\ \A n \in 1..N : w[n] = IF w[n - 1] = FtNull THEN FtNull ELSE L.next[w[n - 1]]
    BY WalkIs
  <1> HIDE DEF w, N
  <1>1. SUFFICES ASSUME T # {} PROVE FALSE
    BY DEF w, N
  <1>2. T \in SUBSET Nat
    BY <1>0
  <1>3. PICK m \in T : \A y \in T : m <= y
    BY <1>1, <1>2, LeastOf
  <1>4. m # 0 /\ m \in 0..N
    BY <1>0, <1>3
  <1>5. m \in 1..N /\ m - 1 \in 0..N /\ ~(m <= m - 1)
    BY <1>0, <1>4
  <1>6. w[m - 1] \in C \cup {FtNull}
    BY <1>3, <1>5
  <1>7. w[m] \in C \cup {FtNull}
    BY <1>0, <1>5, <1>6 DEF Closed
  <1> QED
    BY <1>3, <1>7

LEMMA NotFound ==
    ASSUME NEW L, NEW h, NEW C, Closed(L, C), L.head[h] \in C \cup {FtNull}, NEW s \in Sessions, s \notin C
    PROVE  ~Found(L, h, s)
  <1>1. \A n \in 0..Cardinality(Sessions) : Walk(L, h)[n] \in C \cup {FtNull}
    BY WalkStays
  <1> QED
    BY <1>1, FtAssumption DEF Found

LEMMA FoundFirst ==
    ASSUME NEW L, NEW h, NEW s \in Sessions, L.head[h] = s
    PROVE  Found(L, h, s) /\ s \in Visited(L, h, s)
  <1>1. 0 \in 0..Cardinality(Sessions) /\ Walk(L, h)[0] = s
    BY WalkIs
  <1>2. 0..(0 - 1) = {}
    OBVIOUS
  <1>3. s # FtNull
    BY FtAssumption
  <1> QED
    BY <1>1, <1>2, <1>3 DEF Found, Visited
ListNames == {"active", "completed"}

(* The sessions are on the lists that list says: doubly linked from the heads
   hd on, with pos, at most top, going down along next. *)
OnLists(nx, pv, hd, list, pos, top) ==
    /\ list \in [Sessions -> ListNames \cup {"off"}] /\ pos \in [Sessions -> Nat] /\ top \in Nat
    /\ nx \in [Sessions -> OrNull] /\ pv \in [Sessions -> OrNull]
    /\ \A s \in Sessions : pos[s] <= top
    /\ \A s \in Sessions : list[s] # "off" =>
          /\ nx[s] # FtNull => list[nx[s]] = list[s] /\ pos[nx[s]] < pos[s] /\ pv[nx[s]] = s
          /\ pv[s] # FtNull => list[pv[s]] = list[s] /\ nx[pv[s]] = s
          /\ pv[s] = FtNull => hd[list[s]] = s
    /\ \A h \in ListNames : hd[h] # FtNull => hd[h] \in Sessions /\ list[hd[h]] = h /\ pv[hd[h]] = FtNull

(* s is taken out of its list: its neighbours know each other. *)
TakenOut(nx, pv, hd, mx, qv, kd, s, h) ==
    /\ mx \in [Sessions -> OrNull] /\ qv \in [Sessions -> OrNull]
    /\ \A y \in Sessions : y # s => mx[y] = IF y = pv[s] THEN nx[s] ELSE nx[y]
    /\ \A y \in Sessions : y # s => qv[y] = IF y = nx[s] THEN pv[s] ELSE pv[y]
    /\ \A k \in ListNames : kd[k] = IF k = h /\ pv[s] = FtNull THEN nx[s] ELSE hd[k]

LEMMA TakeOut ==
    ASSUME NEW nx, NEW pv, NEW hd, NEW mx, NEW qv, NEW kd, NEW list, NEW pos, NEW top,
           OnLists(nx, pv, hd, list, pos, top), NEW s \in Sessions, NEW h \in ListNames, list[s] = h,
           TakenOut(nx, pv, hd, mx, qv, kd, s, h)
    PROVE  OnLists(mx, qv, kd, [list EXCEPT ![s] = "off"], pos, top)
  <1> DEFINE now == [list EXCEPT ![s] = "off"]
             p == pv[s]
             n == nx[s]
  <1>0. FtNull \notin Sessions /\ h # "off" /\ \A r \in Sessions : list[r] \in ListNames \cup {"off"}
    BY FtAssumption DEF OnLists, ListNames
  <1>1. /\ now \in [Sessions -> ListNames \cup {"off"}] /\ now[s] = "off"
        /\ \A r \in Sessions : r # s => now[r] = list[r]
    BY DEF OnLists
  <1>2. /\ n # FtNull => n \in Sessions /\ list[n] = h /\ pos[n] < pos[s] /\ pv[n] = s
        /\ p # FtNull => p \in Sessions /\ list[p] = h /\ nx[p] = s /\ pos[s] < pos[p]
        /\ p = FtNull => hd[h] = s
    BY <1>0 DEF OnLists, OrNull
  <1>3. n # s /\ p # s /\ (n # FtNull => n # p)
    <2>1. \A x \in Sessions : pos[x] \in Nat
      BY DEF OnLists
    <2> QED
      BY <1>0, <1>2, <2>1
  <1> HIDE DEF now, p, n
  <1>4. ASSUME NEW r \in Sessions, now[r] # "off"
        PROVE  /\ mx[r] # FtNull => now[mx[r]] = now[r] /\ pos[mx[r]] < pos[r] /\ qv[mx[r]] = r
               /\ qv[r] # FtNull => now[qv[r]] = now[r] /\ mx[qv[r]] = r
               /\ qv[r] = FtNull => kd[now[r]] = r
    <2>0. r # s /\ now[r] = list[r] /\ list[r] # "off" /\ list[r] \in ListNames
      BY <1>0, <1>1, <1>4
    <2>1. /\ nx[r] # FtNull => nx[r] \in Sessions /\ list[nx[r]] = list[r] /\ pos[nx[r]] < pos[r] /\ pv[nx[r]] = r
          /\ pv[r] # FtNull => pv[r] \in Sessions /\ list[pv[r]] = list[r] /\ nx[pv[r]] = r
          /\ pv[r] = FtNull => hd[list[r]] = r
      BY <2>0 DEF OnLists, OrNull
    <2>2. mx[r] = (IF r = p THEN n ELSE nx[r]) /\ qv[r] = (IF r = n THEN p ELSE pv[r])
      BY <2>0 DEF TakenOut, p, n
    <2>3. nx[r] = s => r = p
      BY <1>0, <2>1 DEF p
    <2>4. pv[r] = s => r = n
      BY <1>0, <2>1 DEF n
    <2>5. \A x \in Sessions : pos[x] \in Nat
      BY DEF OnLists
    <2>6. mx[r] # FtNull => now[mx[r]] = now[r] /\ pos[mx[r]] < pos[r] /\ qv[mx[r]] = r
      <3>1. CASE r = p /\ n # FtNull
        <4>1. mx[r] = n /\ n \in Sessions /\ n # s /\ list[n] = h /\ list[p] = h /\ pos[n] < pos[s] /\ pos[s] < pos[p]
          BY <3>1, <2>2, <1>2, <1>3, <1>0
        <4>2. now[n] = list[n] /\ qv[n] = p
          BY <4>1, <1>1 DEF TakenOut, p, n
        <4> QED
          BY <4>1, <4>2, <3>1, <2>0, <2>5
      <3>2. CASE r # p /\ nx[r] # FtNull
        <4>1. mx[r] = nx[r] /\ nx[r] \in Sessions /\ nx[r] # s
          BY <3>2, <2>1, <2>2, <2>3
        <4>2. nx[r] # n
          BY <4>1, <2>1, <1>2, <2>0, <3>2
        <4>3. now[nx[r]] = list[nx[r]] /\ qv[nx[r]] = pv[nx[r]]
          BY <4>1, <4>2, <1>1 DEF TakenOut, p, n
        <4> QED
          BY <4>1, <4>3, <2>0, <2>1
      <3> QED
        BY <3>1, <3>2, <2>2
    <2>7. qv[r] # FtNull => now[qv[r]] = now[r] /\ mx[qv[r]] = r
      <3>1. CASE r = n /\ p # FtNull
        <4>1. qv[r] = p /\ p \in Sessions /\ p # s /\ list[p] = h /\ list[n] = h
          BY <3>1, <2>0, <2>2, <1>2, <1>3, <1>0
        <4>2. now[p] = list[p] /\ mx[p] = n
          BY <4>1, <1>1 DEF TakenOut, p, n
        <4> QED
          BY <4>1, <4>2, <3>1, <2>0
      <3>2. CASE r # n /\ pv[r] # FtNull
        <4>1. qv[r] = pv[r] /\ pv[r] \in Sessions /\ pv[r] # s
          BY <3>2, <2>1, <2>2, <2>4
        <4>2. pv[r] # p
          BY <4>1, <2>1, <1>2, <2>0, <3>2
        <4>3. now[pv[r]] = list[pv[r]] /\ mx[pv[r]] = nx[pv[r]]
          BY <4>1, <4>2, <1>1 DEF TakenOut, p, n
        <4> QED
          BY <4>1, <4>3, <2>0, <2>1
      <3> QED
        BY <3>1, <3>2, <2>2
    <2>8. qv[r] = FtNull => kd[now[r]] = r
      <3>1. kd[list[r]] = IF list[r] = h /\ p = FtNull THEN n ELSE hd[list[r]]
        BY <2>0 DEF TakenOut, p, n
      <3>2. CASE r = n
        BY <3>1, <3>2, <2>0, <2>2, <1>0, <1>2
      <3>3. CASE r # n /\ pv[r] = FtNull
        <4>1. hd[list[r]] = r
          BY <3>3, <2>1
        <4>2. ~(list[r] = h /\ p = FtNull)
          BY <4>1, <1>2, <2>0
        <4> QED
          BY <4>1, <4>2, <3>1, <2>0
      <3> QED
        BY <3>2, <3>3, <2>2
    <2> QED
      BY <2>6, <2>7, <2>8
  <1>5. ASSUME NEW k \in ListNames, kd[k] # FtNull PROVE kd[k] \in Sessions /\ now[kd[k]] = k /\ qv[kd[k]] = FtNull
    <2>1. kd[k] = IF k = h /\ p = FtNull THEN n ELSE hd[k]
      BY DEF TakenOut, p, n
    <2>2. CASE k = h /\ p = FtNull
      <3>1. kd[k] = n /\ n \in Sessions /\ list[n] = h /\ n # s
        BY <1>5, <2>1, <2>2, <1>2, <1>3
      <3>2. qv[n] = p
        BY <3>1 DEF TakenOut, p, n
      <3> QED
        BY <3>1, <3>2, <2>2, <1>1
    <2>3. CASE ~(k = h /\ p = FtNull)
      <3>1. kd[k] = hd[k] /\ hd[k] \in Sessions /\ list[hd[k]] = k /\ pv[hd[k]] = FtNull
        BY <1>5, <2>1, <2>3 DEF OnLists
      <3>2. hd[k] # s
        BY <3>1, <2>3, <1>2 DEF p
      <3>3. hd[k] # n
        BY <3>1, <1>2, <1>0
      <3>4. qv[hd[k]] = pv[hd[k]]
        BY <3>1, <3>2, <3>3 DEF TakenOut, n
      <3> QED
        BY <3>1, <3>2, <3>4, <1>1
    <2> QED
      BY <2>2, <2>3
  <1>6. mx \in [Sessions -> OrNull] /\ qv \in [Sessions -> OrNull]
    BY DEF TakenOut
  <1>7. pos \in [Sessions -> Nat] /\ top \in Nat /\ \A r \in Sessions : pos[r] <= top
    BY DEF OnLists
  <1>8. OnLists(mx, qv, kd, now, pos, top)
    BY <1>1, <1>4, <1>5, <1>6, <1>7 DEF OnLists
  <1> QED
    BY <1>8 DEF now

(* s becomes the first of a list. *)
PutFirst(nx, pv, hd, mx, qv, kd, s, h) ==
    /\ mx \in [Sessions -> OrNull] /\ qv \in [Sessions -> OrNull]
    /\ \A y \in Sessions : mx[y] = IF y = s THEN hd[h] ELSE nx[y]
    /\ \A y \in Sessions : qv[y] = IF y = s THEN FtNull ELSE IF y = hd[h] THEN s ELSE pv[y]
    /\ \A k \in ListNames : kd[k] = IF k = h THEN s ELSE hd[k]

LEMMA PutIn ==
    ASSUME NEW nx, NEW pv, NEW hd, NEW mx, NEW qv, NEW kd, NEW list, NEW pos, NEW top,
           OnLists(nx, pv, hd, list, pos, top), NEW s \in Sessions, NEW h \in ListNames, list[s] = "off",
           PutFirst(nx, pv, hd, mx, qv, kd, s, h)
    PROVE  OnLists(mx, qv, kd, [list EXCEPT ![s] = h], [pos EXCEPT ![s] = top + 1], top + 1)
  <1> DEFINE now == [list EXCEPT ![s] = h]
             at == [pos EXCEPT ![s] = top + 1]
             a == hd[h]
  <1>0. FtNull \notin Sessions /\ h # "off" /\ "off" \notin ListNames
    BY FtAssumption DEF ListNames
  <1>1. /\ now \in [Sessions -> ListNames \cup {"off"}] /\ now[s] = h
        /\ \A r \in Sessions : r # s => now[r] = list[r]
    BY DEF OnLists
  <1>2. /\ at \in [Sessions -> Nat] /\ at[s] = top + 1 /\ top + 1 \in Nat
        /\ \A r \in Sessions : r # s => at[r] = pos[r]
        /\ \A r \in Sessions : pos[r] \in Nat /\ pos[r] < top + 1
    BY DEF OnLists
  <1>3. a # FtNull => a \in Sessions /\ list[a] = h /\ pv[a] = FtNull /\ a # s
    BY <1>0 DEF OnLists
  <1> HIDE DEF now, at, a
  <1>4. ASSUME NEW r \in Sessions, now[r] # "off"
        PROVE  /\ mx[r] # FtNull => now[mx[r]] = now[r] /\ at[mx[r]] < at[r] /\ qv[mx[r]] = r
               /\ qv[r] # FtNull => now[qv[r]] = now[r] /\ mx[qv[r]] = r
               /\ qv[r] = FtNull => kd[now[r]] = r
    <2>1. CASE r = s
      <3>1. mx[s] = a /\ qv[s] = FtNull /\ kd[h] = s
        BY DEF PutFirst, a
      <3>2. a # FtNull => qv[a] = s
        BY <1>3 DEF PutFirst, a
      <3> QED
        BY <2>1, <3>1, <3>2, <1>1, <1>2, <1>3
    <2>2. CASE r # s
      <3>0. now[r] = list[r] /\ list[r] # "off" /\ list[r] \in ListNames /\ at[r] = pos[r]
        BY <2>2, <1>1, <1>2, <1>4
      <3>1. /\ nx[r] # FtNull => nx[r] \in Sessions /\ list[nx[r]] = list[r] /\ pos[nx[r]] < pos[r] /\ pv[nx[r]] = r
            /\ pv[r] # FtNull => pv[r] \in Sessions /\ list[pv[r]] = list[r] /\ nx[pv[r]] = r
            /\ pv[r] = FtNull => hd[list[r]] = r
        BY <3>0 DEF OnLists, OrNull
      <3>2. mx[r] = nx[r] /\ qv[r] = IF r = a THEN s ELSE pv[r]
        BY <2>2 DEF PutFirst, a
      <3>3. nx[r] # s /\ pv[r] # s
        BY <3>0, <3>1, FtAssumption
      <3>4. mx[r] # FtNull => now[mx[r]] = now[r] /\ at[mx[r]] < at[r] /\ qv[mx[r]] = r
        <4> SUFFICES ASSUME nx[r] # FtNull PROVE now[nx[r]] = now[r] /\ at[nx[r]] < at[r] /\ qv[nx[r]] = r
          BY <3>2
        <4>1. nx[r] # a
          BY <3>1, <1>3, <1>0
        <4>2. now[nx[r]] = list[nx[r]] /\ at[nx[r]] = pos[nx[r]] /\ qv[nx[r]] = pv[nx[r]]
          BY <4>1, <3>1, <3>3, <1>1, <1>2 DEF PutFirst, a
        <4> QED
          BY <4>2, <3>0, <3>1
      <3>5. qv[r] # FtNull => now[qv[r]] = now[r] /\ mx[qv[r]] = r
        <4>1. CASE r = a
          <5>1. qv[r] = s /\ mx[s] = a /\ list[a] = h
            BY <4>1, <3>2, <1>3, <1>0 DEF PutFirst, a
          <5> QED
            BY <5>1, <4>1, <3>0, <1>1
        <4>2. CASE r # a /\ pv[r] # FtNull
          <5>1. qv[r] = pv[r] /\ pv[r] \in Sessions
            BY <4>2, <3>1, <3>2
          <5>2. now[pv[r]] = list[pv[r]] /\ mx[pv[r]] = nx[pv[r]]
            BY <5>1, <3>3, <1>1 DEF PutFirst
          <5> QED
            BY <5>1, <5>2, <4>2, <3>0, <3>1
        <4> QED
          BY <4>1, <4>2, <3>2
      <3>6. qv[r] = FtNull => kd[now[r]] = r
        <4> SUFFICES ASSUME qv[r] = FtNull PROVE kd[list[r]] = r
          BY <3>0
        <4>1. r # a /\ pv[r] = FtNull
          BY <3>2, FtAssumption
        <4>2. hd[list[r]] = r /\ list[r] # h
          BY <4>1, <3>1 DEF a
        <4> QED
          BY <4>2, <3>0 DEF PutFirst
      <3> QED
        BY <3>4, <3>5, <3>6
    <2> QED
      BY <2>1, <2>2
  <1>5. ASSUME NEW k \in ListNames, kd[k] # FtNull PROVE kd[k] \in Sessions /\ now[kd[k]] = k /\ qv[kd[k]] = FtNull
    <2>1. CASE k = h
      BY <2>1, <1>1 DEF PutFirst
    <2>2. CASE k # h
      <3>1. kd[k] = hd[k] /\ hd[k] \in Sessions /\ list[hd[k]] = k /\ pv[hd[k]] = FtNull
        BY <1>5, <2>2 DEF OnLists, PutFirst
      <3>2. hd[k] # s /\ hd[k] # a
        BY <3>1, <1>0, <1>3, <2>2
      <3>3. qv[hd[k]] = pv[hd[k]]
        BY <3>1, <3>2 DEF PutFirst, a
      <3> QED
        BY <3>1, <3>2, <3>3, <1>1
    <2> QED
      BY <2>1, <2>2
  <1>6. mx \in [Sessions -> OrNull] /\ qv \in [Sessions -> OrNull]
    BY DEF PutFirst
  <1>7. \A r \in Sessions : at[r] <= top + 1
    BY <1>2
  <1>8. OnLists(mx, qv, kd, now, at, top + 1)
    BY <1>1, <1>2, <1>4, <1>5, <1>6, <1>7 DEF OnLists
  <1> QED
    BY <1>8 DEF now, at

(* Pointers of sessions that are on no list do not matter. *)
LEMMA OthersWritten ==
    ASSUME NEW nx, NEW pv, NEW hd, NEW mx, NEW qv, NEW list, NEW pos, NEW top,
           OnLists(nx, pv, hd, list, pos, top),
           mx \in [Sessions -> OrNull], qv \in [Sessions -> OrNull],
           \A y \in Sessions : list[y] # "off" => mx[y] = nx[y] /\ qv[y] = pv[y]
    PROVE  OnLists(mx, qv, hd, list, pos, top)
  <1>0. \A h \in ListNames : h # "off"
    BY DEF ListNames
  <1>1. ASSUME NEW s \in Sessions, list[s] # "off"
        PROVE  /\ mx[s] # FtNull => list[mx[s]] = list[s] /\ pos[mx[s]] < pos[s] /\ qv[mx[s]] = s
               /\ qv[s] # FtNull => list[qv[s]] = list[s] /\ mx[qv[s]] = s
               /\ qv[s] = FtNull => hd[list[s]] = s
    <2>1. mx[s] = nx[s] /\ qv[s] = pv[s]
      BY <1>1
    <2>2. /\ nx[s] # FtNull => nx[s] \in Sessions /\ list[nx[s]] = list[s] /\ pos[nx[s]] < pos[s] /\ pv[nx[s]] = s
          /\ pv[s] # FtNull => pv[s] \in Sessions /\ list[pv[s]] = list[s] /\ nx[pv[s]] = s
          /\ pv[s] = FtNull => hd[list[s]] = s
      BY <1>1 DEF OnLists, OrNull
    <2> QED
      BY <1>1, <2>1, <2>2
  <1>2. ASSUME NEW h \in ListNames, hd[h] # FtNull
        PROVE  hd[h] \in Sessions /\ list[hd[h]] = h /\ qv[hd[h]] = FtNull
    BY <1>0, <1>2 DEF OnLists
  <1> QED
    BY <1>1, <1>2 DEF OnLists

(* What is on a list, and what is on any, is closed under next. *)
ListOf(list, h) == {s \in Sessions : list[s] = h}
AllListed(list) == {s \in Sessions : list[s] # "off"}

LEMMA ListClosed ==
    ASSUME NEW L, NEW hd, NEW list, NEW pos, NEW top, OnLists(L.next, L.prev, hd, list, pos, top)
    PROVE  Closed(L, AllListed(list)) /\ \A h \in ListNames : Closed(L, ListOf(list, h))
  <1>0. \A h \in ListNames : h # "off"
    BY DEF ListNames
  <1> QED
    BY <1>0 DEF OnLists, Closed, OrNull, ListOf, AllListed

(* A list that has a session has a first one. *)
LEMMA HasFirst ==
    ASSUME NEW nx, NEW pv, NEW hd, NEW list, NEW pos, NEW top, OnLists(nx, pv, hd, list, pos, top),
           NEW s \in Sessions, NEW h \in ListNames, list[s] = h
    PROVE  hd[h] \in Sessions
  <1> DEFINE T == {n \in Nat : \E r \in Sessions : list[r] = h /\ n = top - pos[r]}
  <1>0. top \in Nat /\ (\A r \in Sessions : pos[r] \in Nat /\ pos[r] <= top) /\ h # "off" /\ FtNull \notin Sessions
    BY FtAssumption DEF OnLists, ListNames
  <1>1. top - pos[s] \in T
    BY <1>0
  <1>2. PICK m \in T : \A y \in T : m <= y
    BY <1>1, LeastOf
  <1>3. PICK r \in Sessions : list[r] = h /\ m = top - pos[r]
    BY <1>2
  <1>4. pv[r] = FtNull
    <2>1. SUFFICES ASSUME pv[r] # FtNull PROVE FALSE
      OBVIOUS
    <2>2. pv[r] \in Sessions /\ list[pv[r]] = h /\ nx[pv[r]] = r
      BY <1>0, <1>3, <2>1 DEF OnLists, OrNull
    <2>3. pos[r] < pos[pv[r]]
      BY <2>2, <1>0 DEF OnLists
    <2>4. top - pos[pv[r]] \in T
      BY <2>2, <1>0
    <2>5. m <= top - pos[pv[r]]
      BY <2>4, <1>2
    <2> QED
      BY <2>2, <2>3, <2>5, <1>0, <1>3
  <1>5. hd[h] = r
    BY <1>0, <1>3, <1>4 DEF OnLists
  <1> QED
    BY <1>5

(* The walk along a list finds all of it: it ends, since pos goes down along
   it and there are no more steps than sessions, and the last session before
   one that it missed would have led to that one. *)
LEMMA FoundListed ==
    ASSUME NEW L, NEW hd, NEW list, NEW pos, NEW top, OnLists(L.next, L.prev, hd, list, pos, top),
           NEW s \in Sessions, NEW h \in ListNames, list[s] = h, hd[h] = L.head[h]
    PROVE  Found(L, h, s)
  <1> DEFINE N == Cardinality(Sessions)
             w == Walk(L, h)
             nx == L.next
             pv == L.prev
  <1>0. /\ FtNull \notin Sessions /\ h # "off" /\ top \in Nat
        /\ \A r \in Sessions : pos[r] \in Nat /\ pos[r] <= top
    BY FtAssumption DEF OnLists, ListNames
  <1>1. /\ N \in Nat /\ w[0] = hd[h]
        /\ \A n \in 1..N : w[n] = IF w[n - 1] = FtNull THEN FtNull ELSE nx[w[n - 1]]
    BY WalkIs
  <1>2. \A n \in 0..N : w[n] # FtNull => w[n] \in Sessions /\ list[w[n]] = h
    <2> DEFINE C == ListOf(list, h)
    <2>1. Closed(L, C) /\ L.head[h] \in C \cup {FtNull}
      <3>1. Closed(L, C)
        BY ListClosed
      <3>2. hd[h] # FtNull => hd[h] \in C
        BY DEF OnLists, ListOf
      <3> QED
        BY <3>1, <3>2
    <2>2. \A n \in 0..N : w[n] \in C \cup {FtNull}
      <3> HIDE DEF C
      <3> QED
        BY <2>1, WalkStays
    <2> QED
      BY <2>2 DEF ListOf
  <1>n. /\ \A r \in Sessions : list[r] = h /\ nx[r] # FtNull => nx[r] \in Sessions /\ pos[nx[r]] < pos[r]
        /\ \A r \in Sessions : list[r] = h /\ pv[r] # FtNull => pv[r] \in Sessions /\ list[pv[r]] = h /\ nx[pv[r]] = r
        /\ \A r \in Sessions : list[r] = h /\ pv[r] = FtNull => hd[h] = r
    BY <1>0 DEF OnLists, OrNull
  <1> HIDE DEF w, N, nx, pv
  <1>3. PICK k \in 0..N : w[k] = FtNull
    <2>1. SUFFICES ASSUME \A n \in 0..N : w[n] # FtNull PROVE FALSE
      OBVIOUS
    <2>2. \A n \in 0..N : w[n] \in Sessions /\ list[w[n]] = h
      BY <1>2, <2>1
    <2>3. ASSUME NEW n \in 1..N PROVE w[n] = nx[w[n - 1]] /\ pos[w[n]] < pos[w[n - 1]] /\ n - 1 \in 0..N
      <3>1. n - 1 \in 0..N /\ n \in 0..N
        BY <1>1
      <3>2. w[n] = nx[w[n - 1]] /\ w[n - 1] \in Sessions /\ list[w[n - 1]] = h /\ w[n] # FtNull
        BY <3>1, <1>1, <2>1, <2>2
      <3> QED
        BY <3>1, <3>2, <1>n
    <2>4. \A i \in 0..N, j \in 0..N : i < j => pos[w[j]] < pos[w[i]]
      <3> SUFFICES ASSUME NEW i \in 0..N PROVE \A j \in 0..N : i < j => pos[w[j]] < pos[w[i]]
        OBVIOUS
      <3> DEFINE T == {j \in Nat : j \in 0..N /\ i < j /\ ~(pos[w[j]] < pos[w[i]])}
      <3>1. SUFFICES ASSUME T # {} PROVE FALSE
        OBVIOUS
      <3>2. PICK j \in T : \A y \in T : j <= y
        BY <3>1, LeastOf
      <3>3. j \in 1..N /\ j - 1 \in 0..N /\ j - 1 \in Nat /\ ~(j <= j - 1) /\ j \in 0..N
        BY <1>1, <3>2
      <3>4. pos[w[j]] < pos[w[j - 1]] /\ ~(pos[w[j]] < pos[w[i]])
        BY <3>2, <3>3, <2>3
      <3>5. pos[w[j]] \in Nat /\ pos[w[j - 1]] \in Nat /\ pos[w[i]] \in Nat
        BY <3>3, <2>2, <1>0
      <3>6. j - 1 # i
        BY <3>4, <3>5
      <3>7. ~(pos[w[j - 1]] < pos[w[i]])
        BY <3>4, <3>5
      <3>8. j - 1 \in T
        BY <3>2, <3>3, <3>6, <3>7
      <3> QED
        BY <3>2, <3>3, <3>8
    <2>5. \A i \in 0..N, j \in 0..N : i # j => w[i] # w[j]
      <3>1. \A i \in 0..N : pos[w[i]] \in Nat
        BY <2>2, <1>0
      <3> QED
        BY <1>1, <2>4, <3>1
    <2> DEFINE g == [n \in 0..N |-> w[n]]
    <2>6. g \in Injection(0..N, Sessions)
      <3>1. g \in [0..N -> Sessions]
        BY <2>2
      <3>2. \A i, j \in 0..N : g[i] = g[j] => i = j
        BY <2>5
      <3> QED
        BY <3>1, <3>2 DEF Injection, IsInjective
    <2>7. IsFiniteSet(0..N) /\ Cardinality(0..N) = N + 1
      BY <1>1, FS_Interval, 0 \in Int
    <2>8. Cardinality(0..N) <= Cardinality(Sessions)
      <3> HIDE DEF g
      <3> QED
        BY <2>6, FtAssumption, FS_Injection
    <2> QED
      BY <2>7, <2>8, <1>1 DEF N
  <1>4. SUFFICES ASSUME ~Found(L, h, s) PROVE FALSE
    OBVIOUS
  <1>5. ASSUME NEW r \in Sessions, list[r] = h, pv[r] # FtNull, \A n \in 0..N : w[n] # r, NEW n \in 0..N
        PROVE  w[n] # pv[r]
    <2>1. SUFFICES ASSUME w[n] = pv[r] PROVE FALSE
      OBVIOUS
    <2>2. w[n] \in Sessions /\ nx[w[n]] = r
      BY <2>1, <1>5, <1>n
    <2>3. CASE n < N
      <3>1. n + 1 \in 1..N /\ n + 1 \in 0..N /\ (n + 1) - 1 = n
        BY <2>3, <1>1
      <3>2. w[n + 1] = r
        BY <3>1, <2>2, <1>0, <1>1
      <3> QED
        BY <3>1, <3>2, <1>5
    <2>4. CASE n = N
      <3> DEFINE T == {m \in Nat : m \in 0..N /\ k <= m /\ w[m] # FtNull}
      <3>1. n \in T
        BY <2>2, <2>4, <1>0, <1>1
      <3>2. PICK m \in T : \A y \in T : m <= y
        BY <3>1, LeastOf
      <3>3. m # k /\ m \in 1..N /\ m - 1 \in Nat /\ m - 1 \in 0..N /\ k <= m - 1 /\ ~(m <= m - 1)
        BY <3>2, <1>1, <1>3
      <3>4. w[m - 1] = FtNull
        BY <3>2, <3>3
      <3>5. w[m] = FtNull
        BY <3>3, <3>4, <1>1
      <3> QED
        BY <3>2, <3>5
    <2> QED
      BY <2>3, <2>4, <1>1
  <1> DEFINE U == {n \in Nat : \E r \in Sessions : list[r] = h /\ n = top - pos[r] /\ \A i \in 0..N : w[i] # r}
  <1>6. top - pos[s] \in U
    BY <1>0, <1>4 DEF Found, w, N
  <1>7. PICK m \in U : \A y \in U : m <= y
    BY <1>6, LeastOf
  <1>8. PICK r \in Sessions : list[r] = h /\ m = top - pos[r] /\ \A i \in 0..N : w[i] # r
    BY <1>7
  <1>9. pv[r] # FtNull
    <2>1. ASSUME pv[r] = FtNull PROVE FALSE
      BY <2>1, <1>1, <1>8, <1>n, 0 \in 0..N
    <2> QED
      BY <2>1
  <1>10. pv[r] \in Sessions /\ list[pv[r]] = h /\ nx[pv[r]] = r /\ pos[r] < pos[pv[r]]
    BY <1>0, <1>8, <1>9, <1>n
  <1>11. \A i \in 0..N : w[i] # pv[r]
    BY <1>5, <1>8, <1>9
  <1>12. top - pos[pv[r]] \in U
    BY <1>0, <1>10, <1>11
  <1>13. m <= top - pos[pv[r]]
    BY <1>7, <1>12
  <1> QED
    BY <1>0, <1>8, <1>10, <1>13

-----------------------------------------------------------------------------
(* The heads of the two lists; while ft_cleanup drains one, what is left of it
   begins at the current session. *)
HeadsNow == [h \in ListNames |-> IF \/ mpc = "drain_active" /\ h = "active"
                                    \/ mpc = "drain_completed" /\ h = "completed"
                                 THEN mcur ELSE links.head[h]]

Known(s) == sstatus[s] \notin {"none", "freed"}
Inserting(s) == \E u \in FtUsers : usess[u] = s /\ upc[u] = "insert"

(* A session, its place and its bucket. *)
Listing(list) ==
    \A s \in Sessions :
        /\ list[s] # "off" => Known(s) /\ links.head[Bucket[s]] = s
        /\ Known(s) /\ sfile[s].asked = 0 /\ ~Inserting(s) => list[s] # "off"
        /\ sstatus[s] = "none" => links.head[Bucket[s]] = FtNull

(* A user at pc with session r, whose status is st. *)
UserOK(list, hd, pc, r, st) ==
    /\ pc = "idle" => r = FtNull
    /\ pc # "idle" => r \in Sessions /\ st # "none"
    /\ pc = "insert" => list[r] = "off" /\ hd[Bucket[r]] = r /\ st = "PENDING"
    /\ pc = "prepare" => list[r] = "active" /\ st \in {"PENDING", "FAILED"}
    /\ pc = "remove" => st = "freed" \/ list[r] # "off"
    /\ pc = "destroy" => list[r] = "off" /\ hd[Bucket[r]] # r

Using(list) ==
    /\ \A u \in FtUsers : UserOK(list, links.head, upc[u], usess[u], sstatus[usess[u]])
    /\ \A u, v \in FtUsers : u # v /\ usess[u] = usess[v] => usess[u] = FtNull

Managing(list) ==
    /\ mpc \in {"walk", "stuck"} => mcur = FtNull \/ (mcur \in Sessions /\ list[mcur] = "active")
    /\ mpc = "sweep" => mcur = FtNull \/ (mcur \in Sessions /\ list[mcur] = "completed")
    /\ CleaningUp => \A u \in FtUsers : upc[u] = "idle"
    /\ mpc \in {"drain_completed", "gone"} => links.head["active"] = FtNull
    /\ mpc = "gone" => links.head["completed"] = FtNull /\ \A s \in Sessions : ~sfile[s].temp

(* No walk along its bucket comes to s. *)
Clear(L, list, s) ==
    \E C : Closed(L, C) /\ AllListed(list) \subseteq C /\ s \notin C /\ L.head[Bucket[s]] \in C \cup {FtNull}

Clearing(list) ==
    ~CleaningUp => \A s \in Sessions : sstatus[s] # "none" /\ links.head[Bucket[s]] # s => Clear(links, list, s)

Holds(list, pos, top) ==
    /\ LinkShape(links) /\ OnLists(links.next, links.prev, HeadsNow, list, pos, top)
    /\ Listing(list) /\ Using(list) /\ Managing(list) /\ Clearing(list)

FtLists == \E list, pos, top : Holds(list, pos, top)

(* The inductive invariant. *)
FtListsInv == BucketsApart /\ NoneRepeated /\ ~ftfault => FtLists

LEMMA HeadFacts ==
    /\ ListNames \subseteq Heads /\ "off" \notin ListNames /\ FtNull \notin Sessions
    /\ \A s \in Sessions : Bucket[s] \in Heads /\ Bucket[s] \notin ListNames /\ Bucket[s] \in Buckets
    /\ "active" \in ListNames /\ "completed" \in ListNames /\ "active" \in Heads /\ "completed" \in Heads
  BY FtAssumption DEF ListNames, Heads

(* A step of the manager that leaves the sessions alone. *)
LEMMA ManagerQuiet ==
    ASSUME NEW list, NEW pos, NEW top, Holds(list, pos, top),
           UNCHANGED <<links, sstatus, sfile, upc, usess>>,
           \A h \in ListNames : HeadsNow'[h] = HeadsNow[h], Managing(list)', CleaningUp => CleaningUp'
    PROVE  FtLists'
  <1>1. HeadsNow' = HeadsNow
    BY DEF HeadsNow
  <1>2. LinkShape(links') /\ OnLists(links'.next, links'.prev, HeadsNow', list, pos, top)
    BY <1>1 DEF Holds
  <1>3. Listing(list)'
    BY DEF Holds, Listing, Known, Inserting
  <1>4. Using(list)'
    BY DEF Holds, Using
  <1>5. Clearing(list)'
    BY DEF Holds, Clearing
  <1> QED
    BY <1>2, <1>3, <1>4, <1>5 DEF FtLists, Holds

(* Who cannot be found by way of its bucket stays so, as long as pointers are
   set to listed sessions only, and no bucket but that of s changes. *)
LEMMA ClearKept ==
    ASSUME NEW L, NEW M, NEW list, NEW now, NEW s \in Sessions, NEW x \in Sessions, x # s, Clear(L, list, x),
           M.head[Bucket[x]] = L.head[Bucket[x]],
           \A y \in Sessions : M.next[y] = L.next[y] \/ M.next[y] \in AllListed(list) \cup {FtNull},
           \A r \in Sessions : r # s => now[r] = list[r],
           now[s] # "off" => M.next[s] \in AllListed(list) \cup {FtNull}
    PROVE  Clear(M, now, x)
  <1>1. PICK C : Closed(L, C) /\ AllListed(list) \subseteq C /\ x \notin C /\ L.head[Bucket[x]] \in C \cup {FtNull}
    BY DEF Clear
  <1>2. C \subseteq Sessions /\ \A y \in C : L.next[y] \in C \cup {FtNull}
    BY <1>1 DEF Closed
  <1>3. \A y \in C : M.next[y] \in C \cup {FtNull}
    BY <1>1, <1>2
  <1>4. CASE now[s] = "off"
    <2>1. AllListed(now) \subseteq C
      BY <1>1, <1>4 DEF AllListed
    <2> QED
      BY <1>1, <1>2, <1>3, <2>1 DEF Clear, Closed
  <1>5. CASE now[s] # "off"
    <2> DEFINE D == C \cup {s}
    <2>1. AllListed(now) \subseteq D
      BY <1>1 DEF AllListed
    <2>2. D \subseteq Sessions /\ \A y \in D : M.next[y] \in D \cup {FtNull}
      BY <1>1, <1>2, <1>3, <1>5
    <2>3. x \notin D /\ M.head[Bucket[x]] \in D \cup {FtNull}
      BY <1>1
    <2> HIDE DEF D
    <2> QED
      BY <2>1, <2>2, <2>3 DEF Clear, Closed
  <1> QED
    BY <1>4, <1>5

(* What a step about the session s has to show. *)
Others(s, list, now) ==
    \A r \in Sessions : r # s => /\ now[r] = list[r] /\ sstatus'[r] = sstatus[r]
                                 /\ links'.head[Bucket[r]] = links.head[Bucket[r]]
                                 /\ sfile'[r].asked = sfile[r].asked

UsersGo(s, now) ==
    \A v \in FtUsers :
        \/ upc'[v] = upc[v] /\ usess'[v] = usess[v] /\ usess[v] # s
        \/ /\ usess[v] \in {s, FtNull} /\ usess'[v] \in {s, FtNull}
           /\ UserOK(now, links'.head, upc'[v], usess'[v], sstatus'[usess'[v]])

Itself(s, now) ==
    /\ now[s] # "off" => Known(s)' /\ links'.head[Bucket[s]] = s
    /\ Known(s)' /\ sfile'[s].asked = 0 /\ ~Inserting(s)' => now[s] # "off"
    /\ sstatus'[s] # "none"

Relinked(list, now, s) ==
    /\ \A y \in Sessions : links'.next[y] = links.next[y] \/ links'.next[y] \in AllListed(list) \cup {FtNull}
    /\ now[s] # "off" => links'.next[s] \in AllListed(list) \cup {FtNull}

LEMMA OneSession ==
    ASSUME NEW list, NEW pos, NEW top, Holds(list, pos, top), NEW s \in Sessions, NEW now, NEW at, NEW new,
           LinkShape(links'), OnLists(links'.next, links'.prev, HeadsNow', now, at, new),
           Others(s, list, now), UsersGo(s, now), Itself(s, now), Relinked(list, now, s),
           \A u, v \in FtUsers : u # v /\ usess'[u] = usess'[v] => usess'[u] = FtNull,
           Managing(now)', CleaningUp => CleaningUp',
           ~CleaningUp' /\ links'.head[Bucket[s]] # s => Clear(links', now, s)
    PROVE  FtLists'
  <1>0. FtNull \notin Sessions
    BY FtAssumption
  <1>1. ASSUME NEW r \in Sessions
        PROVE  /\ now[r] # "off" => Known(r)' /\ links'.head[Bucket[r]] = r
               /\ Known(r)' /\ sfile'[r].asked = 0 /\ ~Inserting(r)' => now[r] # "off"
               /\ sstatus'[r] = "none" => links'.head[Bucket[r]] = FtNull
    <2>1. CASE r = s
      BY <2>1 DEF Itself
    <2>2. CASE r # s
      <3>1. /\ now[r] = list[r] /\ sstatus'[r] = sstatus[r] /\ links'.head[Bucket[r]] = links.head[Bucket[r]]
            /\ sfile'[r].asked = sfile[r].asked
        BY <2>2 DEF Others
      <3>2. Inserting(r) => Inserting(r)'
        <4> SUFFICES ASSUME NEW v \in FtUsers, usess[v] = r, upc[v] = "insert" PROVE Inserting(r)'
          BY DEF Inserting
        <4>1. upc'[v] = upc[v] /\ usess'[v] = usess[v]
          BY <1>0, <2>2 DEF UsersGo
        <4> QED
          BY <4>1 DEF Inserting
      <3> QED
        BY <3>1, <3>2 DEF Holds, Listing, Known
    <2> QED
      BY <2>1, <2>2
  <1>2. Listing(now)'
    BY <1>1 DEF Listing
  <1>3. ASSUME NEW v \in FtUsers PROVE UserOK(now, links'.head, upc'[v], usess'[v], sstatus'[usess'[v]])
    <2>1. CASE upc'[v] = upc[v] /\ usess'[v] = usess[v] /\ usess[v] # s
      <3>1. UserOK(list, links.head, upc[v], usess[v], sstatus[usess[v]])
        BY DEF Holds, Using
      <3>2. CASE upc[v] = "idle"
        BY <2>1, <3>1, <3>2 DEF UserOK
      <3>3. CASE upc[v] # "idle"
        <4>1. usess[v] \in Sessions
          BY <3>1, <3>3 DEF UserOK
        <4>2. /\ now[usess[v]] = list[usess[v]] /\ sstatus'[usess[v]] = sstatus[usess[v]]
              /\ links'.head[Bucket[usess[v]]] = links.head[Bucket[usess[v]]]
          BY <2>1, <4>1 DEF Others
        <4> QED
          BY <2>1, <3>1, <3>3, <4>1, <4>2 DEF UserOK
      <3> QED
        BY <3>2, <3>3
    <2> QED
      BY <2>1 DEF UsersGo
  <1>4. Using(now)'
    BY <1>3 DEF Using
  <1>5. Clearing(now)'
    <2> SUFFICES ASSUME ~CleaningUp', NEW x \in Sessions, sstatus'[x] # "none", links'.head[Bucket[x]] # x
                 PROVE  Clear(links', now, x)
      BY DEF Clearing
    <2>1. CASE x = s
      BY <2>1
    <2>2. CASE x # s
      <3>1. sstatus'[x] = sstatus[x] /\ links'.head[Bucket[x]] = links.head[Bucket[x]]
        BY <2>2 DEF Others
      <3>2. Clear(links, list, x)
        BY <3>1 DEF Holds, Clearing
      <3>3. \A r \in Sessions : r # s => now[r] = list[r]
        BY DEF Others
      <3> QED
        BY <2>2, <3>1, <3>2, <3>3, ClearKept DEF Relinked
    <2> QED
      BY <2>1, <2>2
  <1> QED
    BY <1>2, <1>4, <1>5 DEF FtLists, Holds

-----------------------------------------------------------------------------
(* How often a removal is asked for. *)
AskedIs(s, n) == sfile'[s].asked = n /\ \A r \in Sessions : r # s => sfile'[r].asked = sfile[r].asked

LEMMA AskedSet ==
    ASSUME FtShape, NEW s \in Sessions, NEW r, sfile' = [sfile EXCEPT ![s] = r]
    PROVE  AskedIs(s, r.asked)
  BY DEF FtShape, AskedIs

LEMMA AskedKept ==
    ASSUME FtInv, NEW s \in Sessions,
           \/ \E u \in FtUsers : usess[u] = s /\ (Prepare(u) \/ RecordChecksum(u))
           \/ \E u \in FtUsers, kind \in {"upload", "download"} : Start(u, s, kind)
           \/ \E u \in FtUsers, i \in Chunks : UploadChunk(u, s, i)
           \/ \E u \in FtUsers : DownloadChunk(u, s) \/ CompleteUpload(u, s)
           \/ Deliver(s) \/ \E L : DestroySession(L, s)
    PROVE  AskedIs(s, sfile[s].asked)
  <1> DEFINE f == sfile[s]
  <1>1. File(f) /\ FtShape
    BY DEF FtInv, Deliveries, Delivery
  <1>2. ASSUME NEW u \in FtUsers, usess[u] = s, Prepare(u) PROVE AskedIs(s, f.asked)
    <2>1. PICK r : r = [f EXCEPT !.temp = TRUE]
      OBVIOUS
    <2>2. r.asked = f.asked
      BY <1>1, <2>1 DEF File
    <2>3. sfile' = [sfile EXCEPT ![s] = r]
      BY <1>2, <2>1 DEF Prepare
    <2> QED
      BY <1>1, <2>2, <2>3, AskedSet
  <1>3. ASSUME NEW u \in FtUsers, usess[u] = s, RecordChecksum(u) PROVE AskedIs(s, f.asked)
    <2>1. PICK got : sfile' = [sfile EXCEPT ![s].checksum = got]
      BY <1>3 DEF RecordChecksum
    <2>2. PICK r : r = [f EXCEPT !.checksum = got]
      OBVIOUS
    <2>3. r.asked = f.asked
      BY <1>1, <2>2 DEF File
    <2> QED
      BY <1>1, <2>1, <2>2, <2>3, AskedSet
  <1>4. ASSUME NEW u \in FtUsers, NEW kind \in {"upload", "download"}, Start(u, s, kind) PROVE AskedIs(s, f.asked)
    <2>1. PICK r : r = [f EXCEPT !.kind = kind]
      OBVIOUS
    <2>2. r.asked = f.asked
      BY <1>1, <2>1 DEF File
    <2>3. sfile' = [sfile EXCEPT ![s] = r]
      BY <1>4, <2>1 DEF Start
    <2> QED
      BY <1>1, <2>2, <2>3, AskedSet
  <1>5. ASSUME NEW u \in FtUsers, NEW i \in Chunks, UploadChunk(u, s, i) PROVE AskedIs(s, f.asked)
    <2>1. Written(s, i).asked = f.asked
      BY <1>1 DEF Written, File
    <2> QED
      BY <1>1, <1>5, <2>1, AskedSet DEF UploadChunk
  <1>6. ASSUME NEW u \in FtUsers, DownloadChunk(u, s) PROVE AskedIs(s, f.asked)
    <2>1. PICK q : q = [f EXCEPT !.temp = TRUE]
      OBVIOUS
    <2>2. PICK r : r = [q EXCEPT !.bytes = Counted(s)]
      OBVIOUS
    <2>3. r.asked = f.asked
      BY <1>1, <2>1, <2>2 DEF File
    <2>4. sfile' = [sfile EXCEPT ![s] = r]
      BY <1>1, <1>6, <2>1, <2>2 DEF DownloadChunk, FtShape
    <2> QED
      BY <1>1, <2>3, <2>4, AskedSet
  <1>7. Renamed(s).asked = f.asked
    BY <1>1 DEF Renamed, File
  <1>8. ASSUME NEW u \in FtUsers, CompleteUpload(u, s) PROVE AskedIs(s, f.asked)
    BY <1>1, <1>7, <1>8, AskedSet DEF CompleteUpload
  <1>9. CASE Deliver(s)
    <2>1. PICK q : q = Renamed(s)
      OBVIOUS
    <2>2. PICK r : r = [q EXCEPT !.successes = @ + 1]
      OBVIOUS
    <2>3. sfile' = [sfile EXCEPT ![s] = r]
      BY <1>9, <2>1, <2>2 DEF Deliver
    <2>4. q = [kind |-> q.kind, temp |-> q.temp, good |-> q.good, bytes |-> q.bytes,
               checksum |-> q.checksum, dest |-> q.dest, successes |-> q.successes, asked |-> q.asked]
      BY <1>1, <2>1 DEF Renamed, File
    <2>5. r.asked = f.asked
      BY <1>7, <2>1, <2>2, <2>4
    <2> QED
      BY <1>1, <2>3, <2>5, AskedSet
  <1>10. ASSUME NEW L, DestroySession(L, s) PROVE AskedIs(s, f.asked)
    <2>1. PICK r : r = [NoFile EXCEPT !.asked = f.asked]
      OBVIOUS
    <2>2. r.asked = f.asked
      BY <2>1 DEF NoFile
    <2> QED
      BY <1>1, <1>10, <2>1, <2>2, AskedSet DEF DestroySession
  <1> QED
    BY <1>2, <1>3, <1>4, <1>5, <1>6, <1>8, <1>9, <1>10

LEMMA AskedMore ==
    ASSUME FtInv, NEW s \in Sessions, NEW u \in FtUsers,
           (usess[u] = s /\ PrepareFails(u)) \/ CallRemove(u, s)
    PROVE  AskedIs(s, AskedAgain(s))
  <1> DEFINE f == sfile[s]
  <1>1. File(f) /\ FtShape
    BY DEF FtInv, Deliveries, Delivery
  <1>2. CASE usess[u] = s /\ PrepareFails(u)
    <2>1. PICK made \in BOOLEAN : sfile' = [sfile EXCEPT ![s].temp = made, ![s].asked = AskedAgain(s)]
      BY <1>2 DEF PrepareFails
    <2>2. PICK q : q = [f EXCEPT !.temp = made]
      OBVIOUS
    <2>3. PICK r : r = [q EXCEPT !.asked = AskedAgain(s)]
      OBVIOUS
    <2>4. r.asked = AskedAgain(s)
      BY <1>1, <2>2, <2>3 DEF File
    <2>5. sfile' = [sfile EXCEPT ![s] = r]
      BY <1>1, <2>1, <2>2, <2>3 DEF FtShape
    <2> QED
      BY <1>1, <2>4, <2>5, AskedSet
  <1>3. CASE CallRemove(u, s)
    <2>1. PICK r : r = [f EXCEPT !.asked = AskedAgain(s)]
      OBVIOUS
    <2>2. r.asked = AskedAgain(s)
      BY <1>1, <2>1 DEF File
    <2>3. sfile' = [sfile EXCEPT ![s] = r]
      BY <1>3, <2>1 DEF CallRemove
    <2> QED
      BY <1>1, <2>2, <2>3, AskedSet
  <1> QED
    BY <1>2, <1>3

AskedGrows == \A s \in Sessions : sfile'[s].asked \in {sfile[s].asked, AskedAgain(s)}

LEMMA AskedStep == ASSUME FtInv, FtNext PROVE AskedGrows
  <1>1. ASSUME NEW s \in Sessions, AskedIs(s, sfile[s].asked) \/ AskedIs(s, AskedAgain(s)) PROVE AskedGrows
    BY <1>1 DEF AskedIs, AskedGrows
  <1>2. ASSUME UNCHANGED sfile PROVE AskedGrows
    BY <1>2 DEF AskedGrows
  <1>3. ASSUME NEW u \in FtUsers, UserStep(u) PROVE AskedGrows
    <2>1. upc[u] # "idle"
      BY <1>3 DEF UserStep, Insert, Prepare, PrepareFails, RecordChecksum, RemoveSession, Destroy, UserAt
    <2>2. usess[u] \in Sessions
      BY <2>1 DEF FtInv, FtShape
    <2>3. CASE Insert(u) \/ RemoveSession(u)
      BY <1>2, <2>3 DEF Insert, RemoveSession
    <2>4. CASE Prepare(u) \/ RecordChecksum(u)
      BY <1>1, <2>2, <2>4, AskedKept
    <2>5. CASE PrepareFails(u)
      BY <1>1, <2>2, <2>5, AskedMore
    <2>6. CASE Destroy(u)
      <3>1. DestroySession(links, usess[u])
        BY <2>6 DEF Destroy
      <3> QED
        BY <1>1, <2>2, <3>1, AskedKept
    <2> QED
      BY <1>3, <2>3, <2>4, <2>5, <2>6 DEF UserStep
  <1>4. ASSUME NEW u \in FtUsers, NEW s \in Sessions,
               \/ \E kind \in {"upload", "download"} : Start(u, s, kind)
               \/ \E i \in Chunks : UploadChunk(u, s, i)
               \/ DownloadChunk(u, s) \/ UploadChunkFails(u, s) \/ CompleteUpload(u, s) \/ CallRemove(u, s)
        PROVE  AskedGrows
    <2>1. CASE UploadChunkFails(u, s)
      BY <1>2, <2>1 DEF UploadChunkFails
    <2>2. CASE CallRemove(u, s)
      BY <1>1, <2>2, AskedMore
    <2>3. CASE \/ \E kind \in {"upload", "download"} : Start(u, s, kind)
               \/ \E i \in Chunks : UploadChunk(u, s, i)
               \/ DownloadChunk(u, s) \/ CompleteUpload(u, s)
      BY <1>1, <2>3, AskedKept
    <2> QED
      BY <1>4, <2>1, <2>2, <2>3
  <1>5. ASSUME NEW s \in Sessions,
               \/ ProcessPending(s) \/ ProcessNothing(s) \/ ProcessVerified(s) \/ Deliver(s) \/ ProcessFails(s)
               \/ Drain(s) \/ \E old \in BOOLEAN : Sweep(s, old)
        PROVE  AskedGrows
    <2>1. CASE ProcessPending(s) \/ ProcessNothing(s) \/ ProcessVerified(s) \/ ProcessFails(s)
      BY <1>2, <2>1 DEF ProcessPending, ProcessNothing, ProcessVerified, ProcessFails
    <2>2. CASE Deliver(s)
      BY <1>1, <2>2, AskedKept
    <2>3. ASSUME NEW L, DestroySession(L, s) PROVE AskedGrows
      BY <1>1, <2>3, AskedKept
    <2>4. CASE Drain(s)
      BY <2>3, <2>4 DEF Drain
    <2>5. CASE \E old \in BOOLEAN : Sweep(s, old)
      BY <1>2, <2>3, <2>5 DEF Sweep
    <2> QED
      BY <1>5, <2>1, <2>2, <2>4, <2>5
  <1>6. CASE \/ StartManager \/ StopManager \/ Cleanup \/ ActiveDrained \/ LoopTest \/ WalkEnds \/ SweepEnds
             \/ CheckTimeouts
    BY <1>2, <1>6 DEF StartManager, StopManager, Cleanup, ActiveDrained, LoopTest, WalkEnds, SweepEnds,
       CheckTimeouts
  <1>7. CASE CompletedDrained
    <2>1. ASSUME NEW s \in Sessions PROVE sfile'[s].asked = sfile[s].asked
      <3>1. PICK r : r = [sfile[s] EXCEPT !.temp = FALSE]
        OBVIOUS
      <3>2. r.asked = sfile[s].asked
        BY <3>1 DEF FtInv, Deliveries, Delivery, File
      <3> QED
        BY <1>7, <3>1, <3>2 DEF CompletedDrained
    <2> QED
      BY <2>1 DEF AskedGrows
  <1> QED
    BY <1>3, <1>4, <1>5, <1>6, <1>7 DEF FtNext, ManagerStep

LEMMA StillRepeated == ASSUME AskedGrows, NoneRepeated' PROVE NoneRepeated
  BY DEF AskedGrows, NoneRepeated, AskedAgain

(* Who is removing was asked to. *)
Asking == \A u \in FtUsers : upc[u] \in {"remove", "destroy"} => sfile[usess[u]].asked # 0

LEMMA AskingStep == ASSUME FtInv, Asking, [FtNext]_ftvars PROVE Asking'
  <1>1. CASE UNCHANGED ftvars
    BY <1>1 DEF Asking, ftvars
  <1> SUFFICES ASSUME FtNext PROVE Asking'
    BY <1>1
  <1>2. \A s \in Sessions : AskedAgain(s) # 0 /\ (sfile[s].asked # 0 => sfile'[s].asked # 0)
    BY AskedStep DEF AskedGrows, AskedAgain
  <1>3. \A u \in FtUsers : upc[u] # "idle" => usess[u] \in Sessions
    BY DEF FtInv, FtShape
  <1>4. ASSUME UNCHANGED <<upc, usess>> PROVE Asking'
    BY <1>2, <1>3, <1>4 DEF Asking
  <1>5. ASSUME NEW u \in FtUsers, DOMAIN upc = FtUsers, DOMAIN usess = FtUsers, NEW where, Goto(u, where),
               UNCHANGED usess \/ \E s : usess' = [usess EXCEPT ![u] = s],
               where \in {"remove", "destroy"} => sfile'[usess'[u]].asked # 0
        PROVE  Asking'
    <2>1. upc'[u] = where /\ \A v \in FtUsers : v # u => upc'[v] = upc[v] /\ usess'[v] = usess[v]
      BY <1>5 DEF Goto
    <2> QED
      BY <1>2, <1>3, <1>5, <2>1 DEF Asking
  <1>6. DOMAIN upc = FtUsers /\ DOMAIN usess = FtUsers
    BY DEF FtInv, FtShape
  <1>7. ASSUME NEW u \in FtUsers, Return(u) PROVE Asking'
    BY <1>5, <1>6, <1>7 DEF Return
  <1>8. ASSUME NEW u \in FtUsers, UserStep(u) PROVE Asking'
    <2>1. CASE Insert(u)
      BY <1>5, <1>6, <2>1 DEF Insert
    <2>2. CASE Prepare(u)
      BY <1>5, <1>6, <1>7, <2>2 DEF Prepare
    <2>3. CASE PrepareFails(u)
      <3>1. usess[u] \in Sessions /\ UNCHANGED usess /\ Goto(u, "remove")
        BY <1>3, <2>3 DEF PrepareFails, UserAt
      <3>2. sfile'[usess[u]].asked # 0
        BY <1>2, <2>3, <3>1, AskedMore DEF AskedIs
      <3> QED
        BY <1>5, <1>6, <3>1, <3>2
    <2>4. CASE RecordChecksum(u)
      BY <1>7, <2>4 DEF RecordChecksum
    <2>5. CASE RemoveSession(u)
      <3>1. Return(u) \/ (Goto(u, "destroy") /\ UNCHANGED usess)
        BY <2>5 DEF RemoveSession
      <3>2. usess[u] \in Sessions /\ sfile[usess[u]].asked # 0
        BY <1>3, <2>5 DEF RemoveSession, UserAt, Asking
      <3> QED
        BY <1>2, <1>5, <1>6, <1>7, <3>1, <3>2
    <2>6. CASE Destroy(u)
      BY <1>7, <2>6 DEF Destroy
    <2> QED
      BY <1>8, <2>1, <2>2, <2>3, <2>4, <2>5, <2>6 DEF UserStep
  <1>9. ASSUME NEW u \in FtUsers, NEW s \in Sessions, CallRemove(u, s) PROVE Asking'
    <2>1. usess' = [usess EXCEPT ![u] = s] /\ Goto(u, "remove")
      BY <1>9 DEF CallRemove
    <2>2. usess'[u] = s
      BY <1>6, <2>1
    <2>3. sfile'[s].asked # 0
      BY <1>2, <1>9, AskedMore DEF AskedIs
    <2> QED
      BY <1>5, <1>6, <2>1, <2>2, <2>3
  <1>10. ASSUME NEW u \in FtUsers, NEW s \in Sessions, NEW kind, Start(u, s, kind) PROVE Asking'
    <2>1. usess' = [usess EXCEPT ![u] = s] /\ Goto(u, "insert")
      BY <1>10 DEF Start
    <2> QED
      BY <1>5, <1>6, <2>1
  <1>11. ASSUME NEW u \in FtUsers, NEW s \in Sessions,
               (\E i \in Chunks : UploadChunk(u, s, i)) \/ DownloadChunk(u, s) \/ UploadChunkFails(u, s) \/ CompleteUpload(u, s)
         PROVE  Asking'
    BY <1>4, <1>11 DEF UploadChunk, DownloadChunk, UploadChunkFails, CompleteUpload
  <1>12. ASSUME NEW s \in Sessions,
               \/ ProcessPending(s) \/ ProcessNothing(s) \/ ProcessVerified(s) \/ Deliver(s) \/ ProcessFails(s)
               \/ Drain(s) \/ \E old \in BOOLEAN : Sweep(s, old)
         PROVE  Asking'
    BY <1>4, <1>12 DEF ProcessPending, ProcessNothing, ProcessVerified, Deliver, ProcessFails, Drain, Sweep
  <1>13. CASE \/ StartManager \/ StopManager \/ Cleanup \/ ActiveDrained \/ LoopTest \/ WalkEnds \/ SweepEnds
              \/ CheckTimeouts \/ CompletedDrained
    BY <1>4, <1>13 DEF StartManager, StopManager, Cleanup, ActiveDrained, LoopTest, WalkEnds, SweepEnds,
       CheckTimeouts, CompletedDrained
  <1> QED
    BY <1>8, <1>9, <1>10, <1>11, <1>12, <1>13 DEF FtNext, ManagerStep

-----------------------------------------------------------------------------
(* What every step starts from. *)
Ready(list, pos, top) ==
    /\ FtInv /\ Asking /\ AskedGrows /\ BucketsApart /\ NoneRepeated /\ NoneRepeated' /\ ~ftfault /\ ~ftfault'
    /\ Holds(list, pos, top)

LEMMA ListFacts ==
    ASSUME NEW list, NEW pos, NEW top, Holds(list, pos, top)
    PROVE  /\ \A s \in Sessions : list[s] \in ListNames \cup {"off"}
           /\ \A s \in Sessions : list[s] # "off" =>
                 /\ links.next[s] # FtNull => links.next[s] \in Sessions /\ list[links.next[s]] = list[s]
                 /\ links.prev[s] # FtNull => links.prev[s] \in Sessions /\ list[links.prev[s]] = list[s]
                 /\ links.prev[s] = FtNull => HeadsNow[list[s]] = s
           /\ \A h \in ListNames : HeadsNow[h] # FtNull => HeadsNow[h] \in Sessions /\ list[HeadsNow[h]] = h
  BY DEF Holds, OnLists, OrNull

LEMMA HeadsOutside == ASSUME ~CleaningUp PROVE \A h \in ListNames : HeadsNow[h] = links.head[h]
  BY DEF HeadsNow, CleaningUp

(* The manager between its walks, along them, and at their ends. *)
LEMMA QuietLists ==
    ASSUME NEW list, NEW pos, NEW top, Ready(list, pos, top),
           \/ StartManager \/ StopManager \/ LoopTest \/ WalkEnds \/ SweepEnds \/ Cleanup
           \/ \E s \in Sessions : ProcessPending(s) \/ ProcessNothing(s) \/ Sweep(s, FALSE)
    PROVE  FtLists'
  <1>0. Holds(list, pos, top) /\ Managing(list)
    BY DEF Ready, Holds
  <1>1. CASE StartManager
    <2>1. UNCHANGED <<links, sstatus, sfile, upc, usess, mcur>> /\ mpc = "none" /\ mpc' = "loop"
      BY <1>1 DEF StartManager
    <2>2. Managing(list)' /\ ~CleaningUp /\ \A h \in ListNames : HeadsNow'[h] = HeadsNow[h]
      BY <2>1 DEF Managing, CleaningUp, HeadsNow
    <2> QED
      BY <1>0, <2>1, <2>2, ManagerQuiet
  <1>2. CASE StopManager
    <2>1. UNCHANGED <<links, sstatus, sfile, upc, usess, mcur, mpc>>
      BY <1>2 DEF StopManager
    <2>2. Managing(list)' /\ CleaningUp' = CleaningUp /\ \A h \in ListNames : HeadsNow'[h] = HeadsNow[h]
      BY <1>0, <2>1 DEF Managing, CleaningUp, HeadsNow
    <2> QED
      BY <1>0, <2>1, <2>2, ManagerQuiet
  <1>3. CASE LoopTest
    <2>1. /\ UNCHANGED <<links, sstatus, sfile, upc, usess>> /\ mpc = "loop"
          /\ (mpc' = "walk" /\ mcur' = links.head["active"]) \/ (mpc' = "none" /\ mcur' = mcur)
      BY <1>3 DEF LoopTest, ManagerAt
    <2>2. ~CleaningUp /\ \A h \in ListNames : HeadsNow'[h] = HeadsNow[h]
      BY <2>1 DEF CleaningUp, HeadsNow
    <2>3. links.head["active"] = FtNull \/ (links.head["active"] \in Sessions /\ list[links.head["active"]] = "active")
      BY <1>0, <2>2, ListFacts, HeadsOutside, HeadFacts
    <2>4. Managing(list)'
      BY <2>1, <2>3 DEF Managing, CleaningUp
    <2> QED
      BY <1>0, <2>1, <2>2, <2>4, ManagerQuiet
  <1>4. CASE WalkEnds
    <2>1. UNCHANGED <<links, sstatus, sfile, upc, usess>> /\ mpc = "walk" /\ mpc' = "timeouts"
      BY <1>4 DEF WalkEnds, ManagerAt
    <2>2. Managing(list)' /\ ~CleaningUp /\ \A h \in ListNames : HeadsNow'[h] = HeadsNow[h]
      BY <2>1 DEF Managing, CleaningUp, HeadsNow
    <2> QED
      BY <1>0, <2>1, <2>2, ManagerQuiet
  <1>5. CASE SweepEnds
    <2>1. UNCHANGED <<links, sstatus, sfile, upc, usess>> /\ mpc = "sweep" /\ mpc' = "loop"
      BY <1>5 DEF SweepEnds, ManagerAt
    <2>2. Managing(list)' /\ ~CleaningUp /\ \A h \in ListNames : HeadsNow'[h] = HeadsNow[h]
      BY <2>1 DEF Managing, CleaningUp, HeadsNow
    <2> QED
      BY <1>0, <2>1, <2>2, ManagerQuiet
  <1>6. CASE Cleanup
    <2>1. /\ UNCHANGED <<links, sstatus, sfile, upc, usess>> /\ mpc = "none" /\ mpc' = "drain_active"
          /\ mcur' = links.head["active"] /\ \A u \in FtUsers : upc[u] = "idle"
      BY <1>6 DEF Cleanup
    <2>2. Managing(list)' /\ CleaningUp' /\ \A h \in ListNames : HeadsNow'[h] = HeadsNow[h]
      BY <2>1 DEF Managing, CleaningUp, HeadsNow
    <2> QED
      BY <1>0, <2>1, <2>2, ManagerQuiet
  <1>7. ASSUME NEW s \in Sessions, ProcessPending(s) PROVE FtLists'
    <2>1. UNCHANGED <<links, sstatus, sfile, upc, usess, mcur>> /\ mpc = "walk" /\ mpc' = "stuck"
      BY <1>7 DEF ProcessPending, Processing, ManagerAt
    <2>2. Managing(list)' /\ ~CleaningUp /\ \A h \in ListNames : HeadsNow'[h] = HeadsNow[h]
      BY <1>0, <2>1 DEF Managing, CleaningUp, HeadsNow
    <2> QED
      BY <1>0, <2>1, <2>2, ManagerQuiet
  <1>8. ASSUME NEW s \in Sessions, ProcessNothing(s) PROVE FtLists'
    <2>1. /\ UNCHANGED <<links, sstatus, sfile, upc, usess, mpc>> /\ mpc = "walk" /\ mcur = s
          /\ mcur' = links.next[s]
      BY <1>8 DEF ProcessNothing, Processing, ManagerAt
    <2>2. list[s] = "active"
      BY <1>0, <2>1, HeadFacts DEF Managing
    <2>3. links.next[s] = FtNull \/ (links.next[s] \in Sessions /\ list[links.next[s]] = "active")
      BY <1>0, <2>2, ListFacts
    <2>4. Managing(list)' /\ ~CleaningUp /\ \A h \in ListNames : HeadsNow'[h] = HeadsNow[h]
      BY <2>1, <2>3 DEF Managing, CleaningUp, HeadsNow
    <2> QED
      BY <1>0, <2>1, <2>4, ManagerQuiet
  <1>9. ASSUME NEW s \in Sessions, Sweep(s, FALSE) PROVE FtLists'
    <2>1. /\ UNCHANGED <<links, sstatus, sfile, upc, usess, mpc>> /\ mpc = "sweep" /\ mcur = s
          /\ mcur' = links.next[s]
      BY <1>9 DEF Sweep, ManagerAt
    <2>2. list[s] = "completed"
      BY <1>0, <2>1, HeadFacts DEF Managing
    <2>3. links.next[s] = FtNull \/ (links.next[s] \in Sessions /\ list[links.next[s]] = "completed")
      BY <1>0, <2>2, ListFacts
    <2>4. Managing(list)' /\ ~CleaningUp /\ \A h \in ListNames : HeadsNow'[h] = HeadsNow[h]
      BY <2>1, <2>3 DEF Managing, CleaningUp, HeadsNow
    <2> QED
      BY <1>0, <2>1, <2>4, ManagerQuiet
  <1> QED
    BY <1>1, <1>2, <1>3, <1>4, <1>5, <1>6, <1>7, <1>8, <1>9

(* What is found along a list is listed there. *)
LEMMA OnlyListed ==
    ASSUME NEW list, NEW pos, NEW top, Holds(list, pos, top), ~CleaningUp, NEW s \in Sessions,
           NEW h \in ListNames, Found(links, h, s)
    PROVE  list[s] = h
  <1>1. OnLists(links.next, links.prev, HeadsNow, list, pos, top)
    BY DEF Holds
  <1>2. Closed(links, ListOf(list, h))
    BY <1>1, ListClosed
  <1>3. links.head[h] \in ListOf(list, h) \cup {FtNull}
    BY ListFacts, HeadsOutside DEF ListOf
  <1>4. s \in ListOf(list, h)
    BY <1>2, <1>3, NotFound
  <1> QED
    BY <1>4 DEF ListOf

(* A timeout: no user inserts a session that is on a list. *)
LEMMA TimeoutLists ==
    ASSUME NEW list, NEW pos, NEW top, Ready(list, pos, top), CheckTimeouts
    PROVE  FtLists'
  <1>0. Holds(list, pos, top) /\ DOMAIN sstatus = Sessions /\ Managing(list) /\ Listing(list) /\ Using(list) /\ Clearing(list)
    BY DEF Ready, Holds, FtInv, FtShape
  <1>1. /\ UNCHANGED <<links, sfile, upc, usess>> /\ mpc = "timeouts" /\ mpc' = "sweep"
        /\ mcur' = links.head["completed"]
    BY DEF CheckTimeouts, ManagerAt
  <1>2. ~CleaningUp /\ ~CleaningUp' /\ HeadsNow' = HeadsNow
    BY <1>1 DEF CleaningUp, HeadsNow
  <1>3. \A s \in Sessions : sstatus'[s] = sstatus[s]
                            \/ (list[s] = "active" /\ sstatus[s] = "PENDING" /\ sstatus'[s] = "FAILED")
    BY <1>0, <1>2, OnlyListed, HeadFacts DEF CheckTimeouts
  <1>4. Listing(list)'
    BY <1>0, <1>1, <1>3 DEF Listing, Known, Inserting
  <1>5. ASSUME NEW v \in FtUsers PROVE UserOK(list, links'.head, upc'[v], usess'[v], sstatus'[usess'[v]])
    <2>1. UserOK(list, links.head, upc[v], usess[v], sstatus[usess[v]])
      BY <1>0 DEF Using
    <2>2. CASE upc[v] = "idle"
      BY <1>1, <2>1, <2>2 DEF UserOK
    <2>3. CASE upc[v] # "idle"
      <3>1. usess[v] \in Sessions
        BY <2>1, <2>3 DEF UserOK
      <3>2. CASE sstatus'[usess[v]] = sstatus[usess[v]]
        BY <1>1, <2>1, <3>2
      <3>3. CASE list[usess[v]] = "active" /\ sstatus[usess[v]] = "PENDING" /\ sstatus'[usess[v]] = "FAILED"
        BY <1>1, <2>1, <3>1, <3>3 DEF UserOK
      <3> QED
        BY <1>3, <3>1, <3>2, <3>3
    <2> QED
      BY <2>2, <2>3
  <1>6. Using(list)'
    BY <1>0, <1>1, <1>5 DEF Using
  <1>7. Clearing(list)'
    BY <1>0, <1>1, <1>2, <1>3 DEF Clearing
  <1>8. links.head["completed"] = FtNull
          \/ (links.head["completed"] \in Sessions /\ list[links.head["completed"]] = "completed")
    BY <1>0, <1>2, ListFacts, HeadsOutside, HeadFacts
  <1>9. Managing(list)'
    BY <1>1, <1>8 DEF Managing, CleaningUp
  <1>10. LinkShape(links') /\ OnLists(links'.next, links'.prev, HeadsNow', list, pos, top)
    BY <1>1, <1>2 DEF Ready, Holds
  <1> QED
    BY <1>4, <1>6, <1>7, <1>9, <1>10 DEF FtLists, Holds

(* Steps about one session that leave the links alone. *)
LEMMA Stays ==
    ASSUME NEW list, NEW pos, NEW top, Ready(list, pos, top), NEW s \in Sessions, ~CleaningUp, ~CleaningUp',
           UNCHANGED links, \A r \in Sessions : r # s => sstatus'[r] = sstatus[r] /\ sfile'[r].asked = sfile[r].asked,
           Known(s), Known(s)', Inserting(s) => Inserting(s)', UsersGo(s, list),
           \A u, v \in FtUsers : u # v /\ usess'[u] = usess'[v] => usess'[u] = FtNull, Managing(list)'
    PROVE  FtLists'
  <1>0. Holds(list, pos, top) /\ Listing(list) /\ Clearing(list) /\ AskedGrows
    BY DEF Ready, Holds
  <1>1. HeadsNow' = HeadsNow
    BY DEF HeadsNow, CleaningUp
  <1>2. LinkShape(links') /\ OnLists(links'.next, links'.prev, HeadsNow', list, pos, top)
    BY <1>1 DEF Ready, Holds
  <1>3. Others(s, list, list)
    BY DEF Others
  <1>4. sfile'[s].asked = 0 => sfile[s].asked = 0
    BY <1>0 DEF AskedGrows, AskedAgain
  <1>5. Itself(s, list)
    BY <1>0, <1>4 DEF Itself, Listing, Known
  <1>6. Relinked(list, list, s)
    BY <1>0, ListFacts DEF Relinked, AllListed
  <1>7. links'.head[Bucket[s]] # s => Clear(links', list, s)
    BY <1>0 DEF Clearing, Known
  <1> QED
    BY <1>0, <1>2, <1>3, <1>5, <1>6, <1>7, OneSession

(* The same with the manager where it is. *)
LEMMA UserStays ==
    ASSUME NEW list, NEW pos, NEW top, Ready(list, pos, top), NEW s \in Sessions, ~CleaningUp,
           UNCHANGED <<links, mpc, mcur>>,
           \A r \in Sessions : r # s => sstatus'[r] = sstatus[r] /\ sfile'[r].asked = sfile[r].asked,
           Known(s), Known(s)', Inserting(s) => Inserting(s)', UsersGo(s, list),
           \A u, v \in FtUsers : u # v /\ usess'[u] = usess'[v] => usess'[u] = FtNull
    PROVE  FtLists'
  <1>1. Managing(list)' /\ ~CleaningUp'
    BY DEF Ready, Holds, Managing, CleaningUp
  <1> QED
    BY <1>1, Stays

(* The users where a user u is with its session s. *)
LEMMA UserAlone ==
    ASSUME NEW list, NEW pos, NEW top, Ready(list, pos, top), NEW u \in FtUsers, upc[u] # "idle"
    PROVE  /\ usess[u] \in Sessions /\ sstatus[usess[u]] # "none"
           /\ \A v \in FtUsers : v # u => usess[v] # usess[u]
           /\ UserOK(list, links.head, upc[u], usess[u], sstatus[usess[u]])
  BY HeadFacts DEF Ready, Holds, Using, UserOK

LEMMA Going ==
    ASSUME NEW list, NEW pos, NEW top, Ready(list, pos, top), NEW u \in FtUsers, upc[u] # "idle",
           NEW where, where \in {"prepare", "checksum", "remove", "destroy", "insert"}, Goto(u, where), UNCHANGED usess
    PROVE  /\ upc'[u] = where /\ usess'[u] = usess[u]
           /\ \A v \in FtUsers : v # u => upc'[v] = upc[v] /\ usess'[v] = usess[v] /\ usess[v] # usess[u]
           /\ \A w, v \in FtUsers : w # v /\ usess'[w] = usess'[v] => usess'[w] = FtNull
  <1>1. DOMAIN upc = FtUsers /\ Using(list)
    BY DEF Ready, Holds, FtInv, FtShape
  <1> QED
    BY <1>1, UserAlone DEF Goto, Using

LEMMA Returning ==
    ASSUME NEW list, NEW pos, NEW top, Ready(list, pos, top), NEW u \in FtUsers, upc[u] # "idle", Return(u)
    PROVE  /\ upc'[u] = "idle" /\ usess'[u] = FtNull
           /\ \A v \in FtUsers : v # u => upc'[v] = upc[v] /\ usess'[v] = usess[v] /\ usess[v] # usess[u]
           /\ \A w, v \in FtUsers : w # v /\ usess'[w] = usess'[v] => usess'[w] = FtNull
  <1>1. DOMAIN upc = FtUsers /\ DOMAIN usess = FtUsers /\ Using(list)
    BY DEF Ready, Holds, FtInv, FtShape
  <1> QED
    BY <1>1, UserAlone DEF Return, Goto, Using

(* A user that prepares its transfer has it on the active list. *)
LEMMA PrepareLists ==
    ASSUME NEW list, NEW pos, NEW top, Ready(list, pos, top), NEW u \in FtUsers,
           Prepare(u) \/ PrepareFails(u)
    PROVE  FtLists'
  <1>1. upc[u] = "prepare" /\ ~CleaningUp /\ UNCHANGED <<links, mpc, mcur>>
    BY DEF Prepare, PrepareFails, UserAt
  <1>s. PICK s \in Sessions : s = usess[u]
    BY <1>1, UserAlone
  <1>2. /\ s = usess[u] /\ (\A v \in FtUsers : v # u => usess[v] # s)
        /\ list[s] = "active" /\ sstatus[s] \in {"PENDING", "FAILED"}
    BY <1>1, <1>s, UserAlone DEF UserOK
  <1>3. Known(s) /\ ~Inserting(s) /\ FtInv /\ DOMAIN sstatus = Sessions
    BY <1>1, <1>2 DEF Known, Inserting, Ready, FtInv, FtShape
  <1>4. CASE Prepare(u)
    <2>1. AskedIs(s, sfile[s].asked)
      BY <1>2, <1>3, <1>4, AskedKept
    <2>2. sstatus' = [sstatus EXCEPT ![s] = "PREPARING"]
      BY <1>2, <1>4 DEF Prepare
    <2>3. Known(s)' /\ \A r \in Sessions : r # s => sstatus'[r] = sstatus[r] /\ sfile'[r].asked = sfile[r].asked
      BY <1>2, <1>3, <2>1, <2>2 DEF AskedIs, Known
    <2>4. CASE Goto(u, "checksum") /\ UNCHANGED usess
      <3>1. /\ upc'[u] = "checksum" /\ usess'[u] = usess[u]
            /\ \A v \in FtUsers : v # u => upc'[v] = upc[v] /\ usess'[v] = usess[v] /\ usess[v] # usess[u]
            /\ \A w, v \in FtUsers : w # v /\ usess'[w] = usess'[v] => usess'[w] = FtNull
        BY <1>1, <2>4, Going
      <3>2. UserOK(list, links'.head, "checksum", s, sstatus'[s])
        BY <1>2, <2>3 DEF UserOK, Known
      <3>3. UsersGo(s, list)
        BY <1>2, <3>1, <3>2 DEF UsersGo
      <3> QED
        BY <1>1, <1>2, <1>3, <2>3, <3>1, <3>3, UserStays
    <2>5. CASE Return(u)
      <3>1. /\ upc'[u] = "idle" /\ usess'[u] = FtNull
            /\ \A v \in FtUsers : v # u => upc'[v] = upc[v] /\ usess'[v] = usess[v] /\ usess[v] # usess[u]
            /\ \A w, v \in FtUsers : w # v /\ usess'[w] = usess'[v] => usess'[w] = FtNull
        BY <1>1, <2>5, Returning
      <3>2. UserOK(list, links'.head, "idle", FtNull, sstatus'[FtNull])
        BY DEF UserOK
      <3>3. UsersGo(s, list)
        BY <1>2, <3>1, <3>2 DEF UsersGo
      <3> QED
        BY <1>1, <1>2, <1>3, <2>3, <3>1, <3>3, UserStays
    <2> QED
      BY <1>4, <2>4, <2>5 DEF Prepare
  <1>5. CASE PrepareFails(u)
    <2>1. AskedIs(s, AskedAgain(s)) /\ UNCHANGED sstatus
      BY <1>2, <1>3, <1>5, AskedMore DEF PrepareFails
    <2>2. Known(s)' /\ \A r \in Sessions : r # s => sstatus'[r] = sstatus[r] /\ sfile'[r].asked = sfile[r].asked
      BY <1>3, <2>1 DEF AskedIs, Known
    <2>3. /\ upc'[u] = "remove" /\ usess'[u] = usess[u]
          /\ \A v \in FtUsers : v # u => upc'[v] = upc[v] /\ usess'[v] = usess[v] /\ usess[v] # usess[u]
          /\ \A w, v \in FtUsers : w # v /\ usess'[w] = usess'[v] => usess'[w] = FtNull
      BY <1>1, <1>5, Going DEF PrepareFails
    <2>4. UserOK(list, links'.head, "remove", s, sstatus'[s])
      BY <1>2, <2>2 DEF UserOK, Known
    <2>5. UsersGo(s, list)
      BY <1>2, <2>3, <2>4 DEF UsersGo
    <2> QED
      BY <1>1, <1>2, <1>3, <2>2, <2>3, <2>5, UserStays
  <1> QED
    BY <1>4, <1>5

(* A user that leaves its session as it is. *)
LEMMA Leaves ==
    ASSUME NEW list, NEW pos, NEW top, Ready(list, pos, top), NEW u \in FtUsers, Return(u),
           upc[u] \notin {"idle", "insert"}, ~CleaningUp, UNCHANGED <<links, sstatus, mpc, mcur>>,
           NEW s \in Sessions, s = usess[u], AskedIs(s, sfile[s].asked)
    PROVE  FtLists'
  <1>3. sstatus[s] # "none" /\ FtInv /\ Holds(list, pos, top) /\ Listing(list) /\ Clearing(list)
    BY UserAlone DEF Ready, Holds
  <1>5. /\ upc'[u] = "idle" /\ usess'[u] = FtNull
        /\ \A v \in FtUsers : v # u => upc'[v] = upc[v] /\ usess'[v] = usess[v] /\ usess[v] # usess[u]
        /\ \A w, v \in FtUsers : w # v /\ usess'[w] = usess'[v] => usess'[w] = FtNull
    BY Returning
  <1>6. UserOK(list, links'.head, "idle", FtNull, sstatus'[FtNull])
    BY DEF UserOK
  <1>7. UsersGo(s, list)
    BY <1>5, <1>6 DEF UsersGo
  <1>8. HeadsNow' = HeadsNow /\ Managing(list)' /\ ~CleaningUp'
    BY DEF HeadsNow, CleaningUp, Ready, Holds, Managing
  <1>9. LinkShape(links') /\ OnLists(links'.next, links'.prev, HeadsNow', list, pos, top)
    BY <1>3, <1>8 DEF Holds
  <1>10. Others(s, list, list)
    BY DEF Others, AskedIs
  <1>11. ~Inserting(s)
    BY UserAlone DEF Inserting
  <1>12. Itself(s, list)
    BY <1>3, <1>11 DEF Itself, Listing, Known, AskedIs
  <1>13. Relinked(list, list, s)
    BY <1>3, ListFacts DEF Relinked, AllListed
  <1>14. links'.head[Bucket[s]] # s => Clear(links', list, s)
    BY <1>3 DEF Clearing
  <1> QED
    BY <1>3, <1>5, <1>7, <1>8, <1>9, <1>10, <1>12, <1>13, <1>14, OneSession

LEMMA ChecksumLists ==
    ASSUME NEW list, NEW pos, NEW top, Ready(list, pos, top), NEW u \in FtUsers, RecordChecksum(u)
    PROVE  FtLists'
  <1>1. /\ upc[u] = "checksum" /\ ~CleaningUp /\ UNCHANGED <<links, sstatus, mpc, mcur>> /\ Return(u)
    BY DEF RecordChecksum, UserAt
  <1>2. PICK s \in Sessions : s = usess[u]
    BY <1>1, UserAlone
  <1>3. AskedIs(s, sfile[s].asked)
    BY <1>2, AskedKept DEF Ready
  <1> QED
    BY <1>1, <1>2, <1>3, Leaves

(* Calls reach no session that a user is with. *)
LEMMA CallLists ==
    ASSUME NEW list, NEW pos, NEW top, Ready(list, pos, top), NEW u \in FtUsers, NEW s \in Sessions,
           \/ \E i \in Chunks : UploadChunk(u, s, i)
           \/ DownloadChunk(u, s) \/ UploadChunkFails(u, s) \/ CompleteUpload(u, s) \/ CallRemove(u, s)
    PROVE  FtLists'
  <1>1. MayCall(u, s) /\ UNCHANGED <<links, mpc, mcur>>
    BY DEF UploadChunk, DownloadChunk, UploadChunkFails, CompleteUpload, CallRemove
  <1>2. upc[u] = "idle" /\ ~CleaningUp /\ Known(s) /\ \A v \in FtUsers : usess[v] # s
    BY <1>1 DEF MayCall, UserAt, Starting, Known
  <1>3. ~Inserting(s)
    BY <1>2 DEF Inserting
  <1>4. /\ FtInv /\ DOMAIN sstatus = Sessions /\ DOMAIN upc = FtUsers /\ DOMAIN usess = FtUsers
        /\ Using(list) /\ Listing(list)
    BY DEF Ready, FtInv, FtShape, Holds
  <1>5. CASE CallRemove(u, s)
    <2>1. AskedIs(s, AskedAgain(s)) /\ UNCHANGED sstatus
      BY <1>4, <1>5, AskedMore DEF CallRemove
    <2>2. sfile'[s].asked # 2
      BY DEF Ready, NoneRepeated
    <2>3. sfile[s].asked = 0
      BY <2>1, <2>2 DEF AskedIs, AskedAgain
    <2>4. list[s] # "off"
      BY <1>2, <1>3, <1>4, <2>3 DEF Listing
    <2>5. Goto(u, "remove") /\ usess' = [usess EXCEPT ![u] = s]
      BY <1>5 DEF CallRemove
    <2>6. /\ upc'[u] = "remove" /\ usess'[u] = s
          /\ \A v \in FtUsers : v # u => upc'[v] = upc[v] /\ usess'[v] = usess[v]
      BY <1>4, <2>5 DEF Goto
    <2>7. usess[u] = FtNull
      BY <1>2, <1>4 DEF Using, UserOK
    <2>8. \A w, v \in FtUsers : w # v /\ usess'[w] = usess'[v] => usess'[w] = FtNull
      BY <1>2, <1>4, <2>6 DEF Using
    <2>9. UserOK(list, links'.head, "remove", s, sstatus'[s])
      BY <1>2, <2>1, <2>4 DEF UserOK, Known
    <2>10. UsersGo(s, list)
      BY <1>2, <2>6, <2>7, <2>9 DEF UsersGo
    <2>11. Known(s)' /\ \A r \in Sessions : r # s => sstatus'[r] = sstatus[r] /\ sfile'[r].asked = sfile[r].asked
      BY <1>2, <2>1 DEF AskedIs, Known
    <2> QED
      BY <1>1, <1>2, <1>3, <2>8, <2>10, <2>11, UserStays
  <1>6. ASSUME UNCHANGED <<upc, usess>>, NEW st, sstatus' = [sstatus EXCEPT ![s] = st],
               st \in {"PREPARING", "VERIFYING", "COMPLETED", "FAILED"}, AskedIs(s, sfile[s].asked)
        PROVE  FtLists'
    <2>1. UsersGo(s, list)
      BY <1>2, <1>6 DEF UsersGo
    <2>2. \A w, v \in FtUsers : w # v /\ usess'[w] = usess'[v] => usess'[w] = FtNull
      BY <1>4, <1>6 DEF Using
    <2>3. Known(s)' /\ \A r \in Sessions : r # s => sstatus'[r] = sstatus[r] /\ sfile'[r].asked = sfile[r].asked
      BY <1>4, <1>6 DEF AskedIs, Known
    <2> QED
      BY <1>1, <1>2, <1>3, <2>1, <2>2, <2>3, UserStays
  <1>7. CASE \E i \in Chunks : UploadChunk(u, s, i)
    <2>1. AskedIs(s, sfile[s].asked)
      BY <1>4, <1>7, AskedKept
    <2>2. /\ UNCHANGED <<upc, usess>> /\ sstatus' = [sstatus EXCEPT ![s] = AfterChunk(s)]
          /\ AfterChunk(s) \in {"PREPARING", "VERIFYING"}
      BY <1>7 DEF UploadChunk, AfterChunk
    <2> QED
      BY <1>6, <2>1, <2>2
  <1>8. CASE DownloadChunk(u, s)
    <2>1. AskedIs(s, sfile[s].asked)
      BY <1>4, <1>8, AskedKept
    <2>2. /\ UNCHANGED <<upc, usess>> /\ sstatus' = [sstatus EXCEPT ![s] = AfterChunk(s)]
          /\ AfterChunk(s) \in {"PREPARING", "VERIFYING"}
      BY <1>8 DEF DownloadChunk, AfterChunk
    <2> QED
      BY <1>6, <2>1, <2>2
  <1>9. CASE UploadChunkFails(u, s)
    <2>1. AskedIs(s, sfile[s].asked)
      BY <1>9 DEF UploadChunkFails, AskedIs
    <2> QED
      BY <1>6, <1>9, <2>1 DEF UploadChunkFails
  <1>10. CASE CompleteUpload(u, s)
    <2>1. AskedIs(s, sfile[s].asked)
      BY <1>4, <1>10, AskedKept
    <2> QED
      BY <1>6, <1>10, <2>1 DEF CompleteUpload
  <1> QED
    BY <1>5, <1>7, <1>8, <1>9, <1>10

(* The manager decides a transfer, or delivers it, and goes on. *)
LEMMA DecideLists ==
    ASSUME NEW list, NEW pos, NEW top, Ready(list, pos, top), NEW s \in Sessions,
           ProcessVerified(s) \/ Deliver(s)
    PROVE  FtLists'
  <1>1. /\ mpc = "walk" /\ mcur = s /\ mcur' = links.next[s] /\ UNCHANGED <<links, upc, usess, mpc>>
        /\ sstatus[s] \in {"VERIFYING", "COMPLETED"}
    BY DEF ProcessVerified, Deliver, Processing, ManagerAt
  <1>2. FtInv /\ DOMAIN sstatus = Sessions /\ Using(list) /\ Managing(list) /\ Holds(list, pos, top)
    BY DEF Ready, FtInv, FtShape, Holds
  <1>3. list[s] = "active" /\ ~CleaningUp /\ ~CleaningUp' /\ Known(s)
    BY <1>1, <1>2, HeadFacts DEF Managing, CleaningUp, Known
  <1>4. /\ sstatus'[s] = "COMPLETED"
        /\ \A r \in Sessions : r # s => sstatus'[r] = sstatus[r] /\ sfile'[r].asked = sfile[r].asked
    <2>1. CASE ProcessVerified(s)
      BY <1>2, <2>1 DEF ProcessVerified
    <2>2. CASE Deliver(s)
      <3>1. AskedIs(s, sfile[s].asked)
        BY <1>2, <2>2, AskedKept
      <3> QED
        BY <2>2, <3>1 DEF AskedIs, Deliver
    <2> QED
      BY <2>1, <2>2
  <1>5. Known(s)' /\ (Inserting(s) => Inserting(s)')
    BY <1>1, <1>4 DEF Known, Inserting
  <1>6. ASSUME NEW v \in FtUsers, usess[v] = s PROVE UserOK(list, links'.head, upc[v], s, "COMPLETED")
    <2>1. UserOK(list, links.head, upc[v], s, sstatus[s])
      BY <1>2, <1>6 DEF Using
    <2> QED
      BY <1>1, <2>1 DEF UserOK
  <1>7. UsersGo(s, list)
    BY <1>1, <1>4, <1>6 DEF UsersGo
  <1>8. \A w, v \in FtUsers : w # v /\ usess'[w] = usess'[v] => usess'[w] = FtNull
    BY <1>1, <1>2 DEF Using
  <1>9. links.next[s] = FtNull \/ (links.next[s] \in Sessions /\ list[links.next[s]] = "active")
    BY <1>2, <1>3, ListFacts
  <1>10. Managing(list)'
    BY <1>1, <1>9 DEF Managing, CleaningUp
  <1> QED
    BY <1>1, <1>3, <1>4, <1>5, <1>7, <1>8, <1>10, Stays

(* s is out of its place, and the heads in H begin behind it. *)
Unlinked(L, M, s, H) ==
    /\ LinkShape(M)
    /\ \A y \in Sessions : M.next[y] = IF y = L.prev[s] THEN L.next[s] ELSE L.next[y]
    /\ \A y \in Sessions : M.prev[y] = IF y = L.next[s] THEN L.prev[s] ELSE L.prev[y]
    /\ \A k \in Heads : M.head[k] = IF k \in H /\ L.prev[s] = FtNull THEN L.next[s] ELSE L.head[k]

LEMMA DetachOnce ==
    ASSUME NEW L, LinkShape(L), NEW s \in Sessions, NEW h \in Heads
    PROVE  Unlinked(L, Detach(L, s, h), s, {h})
  BY DetachIs DEF Detached, Unlinked

(* Taking it out again changes no more than the head. *)
LEMMA DetachMore ==
    ASSUME NEW L, NEW M, NEW s \in Sessions, NEW H, Unlinked(L, M, s, H), L.next[s] # s, L.prev[s] # s, NEW h \in Heads
    PROVE  Unlinked(L, Detach(M, s, h), s, H \cup {h})
  <1> DEFINE N == Detach(M, s, h)
  <1>1. LinkShape(N) /\ Detached(M, N, s, h)
    BY DetachIs DEF Unlinked
  <1>2. M.next[s] = L.next[s] /\ M.prev[s] = L.prev[s]
    BY DEF Unlinked
  <1> HIDE DEF N
  <1>3. \A y \in Sessions : N.next[y] = IF y = L.prev[s] THEN L.next[s] ELSE L.next[y]
    BY <1>1, <1>2 DEF Unlinked, Detached
  <1>4. \A y \in Sessions : N.prev[y] = IF y = L.next[s] THEN L.prev[s] ELSE L.prev[y]
    BY <1>1, <1>2 DEF Unlinked, Detached
  <1>5. \A k \in Heads : N.head[k] = IF k \in H \cup {h} /\ L.prev[s] = FtNull THEN L.next[s] ELSE L.head[k]
    BY <1>1, <1>2 DEF Unlinked, Detached
  <1>6. Unlinked(L, N, s, H \cup {h})
    BY <1>1, <1>3, <1>4, <1>5 DEF Unlinked
  <1> QED
    BY <1>6 DEF N

(* Its links are cleared. *)
Blank(M, s) == [M EXCEPT !.next[s] = FtNull, !.prev[s] = FtNull]

LEMMA FreedLinks ==
    ASSUME NEW M, LinkShape(M), NEW s \in Sessions, NEW N, N = Blank(M, s)
    PROVE  /\ LinkShape(N) /\ N.head = M.head /\ N.next[s] = FtNull
           /\ \A y \in Sessions : y # s => N.next[y] = M.next[y] /\ N.prev[y] = M.prev[y]
  <1>1. PICK A : A = [M EXCEPT !.next[s] = FtNull]
    OBVIOUS
  <1>2. A = [next |-> [M.next EXCEPT ![s] = FtNull], prev |-> M.prev, head |-> M.head]
    BY <1>1 DEF LinkShape
  <1>3. N = [A EXCEPT !.prev[s] = FtNull]
    BY <1>1 DEF Blank
  <1>4. N = [next |-> [M.next EXCEPT ![s] = FtNull], prev |-> [M.prev EXCEPT ![s] = FtNull], head |-> M.head]
    BY ONLY <1>2, <1>3
  <1>5. FtNull \in OrNull
    BY DEF OrNull
  <1> QED
    BY ONLY <1>4, <1>5, s \in Sessions, LinkShape(M) DEF LinkShape

(* A listed session's neighbours. *)
LEMMA Neighbours ==
    ASSUME NEW nx, NEW pv, NEW hd, NEW list, NEW pos, NEW top, OnLists(nx, pv, hd, list, pos, top),
           NEW s \in Sessions, list[s] # "off"
    PROVE  nx[s] # s /\ pv[s] # s /\ (nx[s] = FtNull \/ (nx[s] \in Sessions /\ list[nx[s]] = list[s]))
  <1>1. pos[s] \in Nat /\ s # FtNull
    BY FtAssumption DEF OnLists
  <1>2. nx[s] # FtNull => nx[s] \in Sessions /\ list[nx[s]] = list[s] /\ pos[nx[s]] < pos[s]
    BY DEF OnLists, OrNull
  <1>3. pv[s] # FtNull => nx[pv[s]] = s
    BY DEF OnLists
  <1> QED
    BY <1>1, <1>2, <1>3

HeadsOf(L) == [h \in ListNames |-> L.head[h]]

(* Its neighbours know each other, and its list begins behind it. *)
Skipped(L, M, s) ==
    /\ \A y \in Sessions : y # s => M.next[y] = IF y = L.prev[s] THEN L.next[s] ELSE L.next[y]
    /\ \A y \in Sessions : y # s => M.prev[y] = IF y = L.next[s] THEN L.prev[s] ELSE L.prev[y]
Behind(L, hd, kd, s, h) == \A k \in ListNames : kd[k] = IF k = h /\ L.prev[s] = FtNull THEN L.next[s] ELSE hd[k]

(* The lists once s is out of the one that it was on. *)
LEMMA ListsWithout ==
    ASSUME NEW L, NEW M, LinkShape(M), NEW hd, NEW kd, NEW list, NEW pos, NEW top,
           OnLists(L.next, L.prev, hd, list, pos, top),
           NEW s \in Sessions, NEW h \in ListNames, list[s] = h, Skipped(L, M, s), Behind(L, hd, kd, s, h)
    PROVE  OnLists(M.next, M.prev, kd, [list EXCEPT ![s] = "off"], pos, top)
  <1>1. TakenOut(L.next, L.prev, hd, M.next, M.prev, kd, s, h)
    BY DEF TakenOut, LinkShape, Skipped, Behind
  <1> QED
    BY <1>1, TakeOut

(* A start: the session is alone in its bucket, and on no list yet. *)
LEMMA StartLists ==
    ASSUME NEW list, NEW pos, NEW top, Ready(list, pos, top), NEW u \in FtUsers, NEW s \in Sessions,
           NEW kind \in {"upload", "download"}, Start(u, s, kind)
    PROVE  FtLists'
  <1>1. /\ upc[u] = "idle" /\ ~CleaningUp /\ sstatus[s] = "none" /\ sstatus' = [sstatus EXCEPT ![s] = "PENDING"]
        /\ links' = Push(links, s, Bucket[s]) /\ UNCHANGED <<mpc, mcur>>
        /\ Goto(u, "insert") /\ usess' = [usess EXCEPT ![u] = s]
    BY DEF Start, UserAt
  <1>2. /\ FtInv /\ DOMAIN sstatus = Sessions /\ DOMAIN upc = FtUsers /\ DOMAIN usess = FtUsers /\ Using(list)
        /\ Listing(list) /\ LinkShape(links) /\ OnLists(links.next, links.prev, HeadsNow, list, pos, top)
        /\ BucketsApart /\ Holds(list, pos, top) /\ ~Starting(s)
    BY <1>1 DEF Ready, FtInv, FtShape, Holds
  <1>3. links.head[Bucket[s]] = FtNull /\ list[s] = "off"
    BY <1>1, <1>2 DEF Listing, Known
  <1>4. LinkShape(links') /\ Pushed(links, links', s, Bucket[s])
    BY <1>1, <1>2, PushIs, HeadFacts
  <1>5. /\ \A y \in Sessions : links'.next[y] = links.next[y] \/ links'.next[y] = FtNull
        /\ \A y \in Sessions : y # s => links'.next[y] = links.next[y] /\ links'.prev[y] = links.prev[y]
        /\ links'.head[Bucket[s]] = s
        /\ \A k \in Heads : k # Bucket[s] => links'.head[k] = links.head[k]
    BY <1>3, <1>4, HeadFacts DEF Pushed
  <1>6. HeadsNow' = HeadsNow
    BY <1>1, <1>5, HeadFacts DEF HeadsNow
  <1>7. OnLists(links'.next, links'.prev, HeadsNow', list, pos, top)
    <2>1. links'.next \in [Sessions -> OrNull] /\ links'.prev \in [Sessions -> OrNull]
      BY <1>4 DEF LinkShape
    <2>2. \A y \in Sessions : list[y] # "off" => links'.next[y] = links.next[y] /\ links'.prev[y] = links.prev[y]
      BY <1>3, <1>5
    <2> QED
      BY <1>2, <1>6, <2>1, <2>2, OthersWritten
  <1>8. AskedIs(s, sfile[s].asked)
    BY <1>2, AskedKept
  <1>9. \A r \in Sessions : r # s => links'.head[Bucket[r]] = links.head[Bucket[r]]
    BY <1>2, <1>5, HeadFacts DEF BucketsApart
  <1>10. Others(s, list, list)
    BY <1>1, <1>2, <1>8, <1>9 DEF Others, AskedIs
  <1>11. /\ upc'[u] = "insert" /\ usess'[u] = s
         /\ \A v \in FtUsers : v # u => upc'[v] = upc[v] /\ usess'[v] = usess[v]
    BY <1>1, <1>2 DEF Goto
  <1>12. usess[u] = FtNull /\ \A v \in FtUsers : usess[v] # s
    BY <1>1, <1>2 DEF Using, UserOK, Starting
  <1>13. sstatus'[s] = "PENDING"
    BY <1>1, <1>2
  <1>14. UserOK(list, links'.head, "insert", s, "PENDING")
    BY <1>3, <1>5 DEF UserOK
  <1>15. UsersGo(s, list)
    BY <1>11, <1>12, <1>13, <1>14 DEF UsersGo
  <1>16. \A w, v \in FtUsers : w # v /\ usess'[w] = usess'[v] => usess'[w] = FtNull
    BY <1>2, <1>11, <1>12 DEF Using
  <1>17. Itself(s, list)
    <2>1. Inserting(s)'
      BY <1>11 DEF Inserting
    <2> QED
      BY <1>3, <1>13, <2>1 DEF Itself
  <1>18. Relinked(list, list, s)
    BY <1>3, <1>5 DEF Relinked
  <1>19. Managing(list)' /\ ~CleaningUp'
    BY <1>1, <1>2, <1>5 DEF Holds, Managing, CleaningUp
  <1> QED
    BY <1>1, <1>2, <1>4, <1>5, <1>7, <1>10, <1>15, <1>16, <1>17, <1>18, <1>19, OneSession

(* The lists once s, which was on none, is the first of one. *)
Moved(list, now, s, h) ==
    /\ now \in [Sessions -> ListNames \cup {"off"}] /\ now[s] = h
    /\ \A r \in Sessions : r # s => now[r] = list[r]
Hang(M, kd, now) == LinkShape(M) /\ \E at, new : OnLists(M.next, M.prev, kd, now, at, new)
Before(L, M, list, s, h) ==
    /\ M.next[s] \in AllListed(list) \cup {FtNull} /\ \A y \in Sessions : y # s => M.next[y] = L.next[y]
    /\ M.head[h] = s /\ \A k \in Heads : k # h => M.head[k] = L.head[k]
FirstNow(hd, kd, s, h) == \A k \in ListNames : kd[k] = IF k = h THEN s ELSE hd[k]

LEMMA ListsWith ==
    ASSUME NEW L, LinkShape(L), NEW hd, NEW kd, NEW list, NEW pos, NEW top,
           OnLists(L.next, L.prev, hd, list, pos, top),
           NEW s \in Sessions, NEW h \in ListNames, list[s] = "off", hd[h] = L.head[h],
           NEW M, M = Push(L, s, h), FirstNow(hd, kd, s, h), NEW now, Moved(list, now, s, h)
    PROVE  Hang(M, kd, now) /\ Before(L, M, list, s, h)
  <1>1. LinkShape(M) /\ Pushed(L, M, s, h)
    BY PushIs, HeadFacts
  <1>2. hd[h] # s /\ hd[h] \in AllListed(list) \cup {FtNull}
    BY HeadFacts DEF OnLists, AllListed
  <1>3. PutFirst(L.next, L.prev, hd, M.next, M.prev, kd, s, h)
    <2>1. \A y \in Sessions : M.next[y] = IF y = s THEN hd[h] ELSE L.next[y]
      BY <1>1 DEF Pushed
    <2>2. \A y \in Sessions : M.prev[y] = IF y = s THEN FtNull ELSE IF y = hd[h] THEN s ELSE L.prev[y]
      BY <1>1, <1>2 DEF Pushed
    <2> QED
      BY <1>1, <2>1, <2>2 DEF PutFirst, LinkShape, FirstNow
  <1>4. OnLists(M.next, M.prev, kd, now, [pos EXCEPT ![s] = top + 1], top + 1)
    <2>1. now = [list EXCEPT ![s] = h]
      BY DEF OnLists, Moved
    <2> QED
      BY <1>3, <2>1, PutIn
  <1>5. Before(L, M, list, s, h)
    BY <1>1, <1>2, HeadFacts DEF Pushed, Before
  <1> QED
    BY <1>1, <1>4, <1>5 DEF Hang

(* ... then it is put on the active list. *)
LEMMA InsertLists ==
    ASSUME NEW list, NEW pos, NEW top, Ready(list, pos, top), NEW u \in FtUsers, Insert(u)
    PROVE  FtLists'
  <1>1. /\ upc[u] = "insert" /\ ~CleaningUp /\ mpc \notin {"walk", "stuck", "sweep"}
        /\ links' = Push(links, usess[u], "active") /\ Goto(u, "prepare")
        /\ UNCHANGED <<sstatus, sfile, mpc, mcur, usess>>
    BY DEF Insert, UserAt, SessionsUnlocked
  <1>2. PICK s \in Sessions : s = usess[u]
    BY <1>1, UserAlone
  <1>3. list[s] = "off" /\ links.head[Bucket[s]] = s /\ sstatus[s] = "PENDING"
    BY <1>1, <1>2, UserAlone DEF UserOK
  <1>4. /\ LinkShape(links) /\ OnLists(links.next, links.prev, HeadsNow, list, pos, top) /\ Holds(list, pos, top)
        /\ list \in [Sessions -> ListNames \cup {"off"}]
    BY DEF Ready, Holds, OnLists
  <1>5. HeadsNow["active"] = links.head["active"] /\ "active" \in ListNames /\ "active" \in Heads
    BY <1>1, HeadsOutside, HeadFacts
  <1>6. FirstNow(HeadsNow, HeadsNow', s, "active") /\ links' = Push(links, s, "active")
    <2>1. LinkShape(links') /\ Pushed(links, links', s, "active")
      BY <1>1, <1>2, <1>4, <1>5, PushIs
    <2> QED
      BY <1>1, <1>2, <2>1, HeadFacts DEF HeadsNow, CleaningUp, Pushed, FirstNow
  <1> DEFINE now == [list EXCEPT ![s] = "active"]
  <1>8. Moved(list, now, s, "active")
    BY <1>4, HeadFacts DEF Moved
  <1> HIDE DEF now
  <1>7. Hang(links', HeadsNow', now) /\ Before(links, links', list, s, "active")
    BY ONLY <1>3, <1>4, <1>5, <1>6, <1>8, ListsWith, s \in Sessions
  <1>9. \A r \in Sessions : links'.head[Bucket[r]] = links.head[Bucket[r]]
    BY <1>7, HeadFacts DEF Before
  <1>10. Others(s, list, now)
    BY <1>1, <1>8, <1>9 DEF Others, Moved
  <1>11. /\ upc'[u] = "prepare" /\ usess'[u] = usess[u]
         /\ \A v \in FtUsers : v # u => upc'[v] = upc[v] /\ usess'[v] = usess[v] /\ usess[v] # usess[u]
         /\ \A w, v \in FtUsers : w # v /\ usess'[w] = usess'[v] => usess'[w] = FtNull
    BY <1>1, Going
  <1>12. UserOK(now, links'.head, "prepare", s, sstatus'[s])
    BY <1>1, <1>3, <1>8 DEF UserOK, Moved
  <1>13. UsersGo(s, now)
    BY <1>2, <1>11, <1>12 DEF UsersGo
  <1>14. Itself(s, now)
    BY <1>1, <1>3, <1>8, <1>9 DEF Itself, Known, Moved
  <1>15. Relinked(list, now, s)
    BY <1>7 DEF Relinked, Before
  <1>16. Managing(now)' /\ ~CleaningUp'
    BY <1>1 DEF Managing, CleaningUp
  <1>17. links'.head[Bucket[s]] = s
    BY <1>3, <1>9
  <1> QED
    BY <1>1, <1>4, <1>7, <1>10, <1>11, <1>13, <1>14, <1>15, <1>16, <1>17, OneSession DEF Hang

(* A transfer that fails moves from the active to the completed ones. *)
LEMMA FailsLists ==
    ASSUME NEW list, NEW pos, NEW top, Ready(list, pos, top), NEW s \in Sessions, ProcessFails(s)
    PROVE  FtLists'
  <1>1. /\ mpc = "walk" /\ mcur = s /\ mcur' = links.next[s] /\ UNCHANGED <<sfile, upc, usess, mpc>>
        /\ sstatus[s] \in {"VERIFYING", "COMPLETED"} /\ sstatus' = [sstatus EXCEPT ![s] = "FAILED"]
        /\ links' = Push(Detach(links, s, "active"), s, "completed")
    BY DEF ProcessFails, Processing, ManagerAt
  <1>2. /\ LinkShape(links) /\ OnLists(links.next, links.prev, HeadsNow, list, pos, top) /\ Holds(list, pos, top)
        /\ list \in [Sessions -> ListNames \cup {"off"}] /\ DOMAIN sstatus = Sessions
        /\ Using(list) /\ Managing(list) /\ Listing(list)
    BY DEF Ready, Holds, OnLists, FtInv, FtShape
  <1>3. list[s] = "active" /\ ~CleaningUp /\ ~CleaningUp' /\ links.head[Bucket[s]] = s
    BY <1>1, <1>2, HeadFacts DEF Managing, CleaningUp, Listing
  <1>4. PICK M : M = Detach(links, s, "active")
    OBVIOUS
  <1>5. Unlinked(links, M, s, {"active"})
    BY <1>2, <1>4, DetachOnce, HeadFacts
  <1>6. \A h \in ListNames : HeadsNow[h] = links.head[h]
    BY <1>3, HeadsOutside
  <1> DEFINE off == [list EXCEPT ![s] = "off"]
             now == [off EXCEPT ![s] = "completed"]
  <1>7. OnLists(M.next, M.prev, HeadsOf(M), off, pos, top)
    <2>1. Behind(links, HeadsNow, HeadsOf(M), s, "active")
      BY <1>5, <1>6, HeadFacts DEF HeadsOf, Unlinked, Behind
    <2>2. LinkShape(M) /\ Skipped(links, M, s) /\ "active" \in ListNames
      BY <1>5, HeadFacts DEF Unlinked, Skipped
    <2> QED
      BY <1>2, <1>3, <2>1, <2>2, ListsWithout
  <1>8. off \in [Sessions -> ListNames \cup {"off"}] /\ off[s] = "off" /\ \A r \in Sessions : r # s => off[r] = list[r]
    BY <1>2
  <1>9. Moved(off, now, s, "completed") /\ now[s] = "completed" /\ \A r \in Sessions : r # s => now[r] = list[r]
    BY <1>8, HeadFacts DEF Moved
  <1> HIDE DEF off, now
  <1>10. LinkShape(M) /\ links' = Push(M, s, "completed") /\ HeadsOf(M)["completed"] = M.head["completed"]
    BY <1>1, <1>4, <1>5, HeadFacts DEF Unlinked, HeadsOf
  <1>11. FirstNow(HeadsOf(M), HeadsNow', s, "completed") /\ "completed" \in ListNames
    <2>1. Pushed(M, links', s, "completed")
      BY <1>10, PushIs, HeadFacts
    <2> QED
      BY <1>1, <2>1, HeadFacts DEF HeadsNow, HeadsOf, Pushed, FirstNow
  <1>12. Hang(links', HeadsNow', now) /\ Before(M, links', off, s, "completed")
    BY ONLY <1>7, <1>8, <1>9, <1>10, <1>11, ListsWith, s \in Sessions
  <1>13. AllListed(off) \subseteq AllListed(list)
    BY <1>8 DEF AllListed
  <1>14. /\ links.next[s] # s
         /\ links.next[s] = FtNull \/ (links.next[s] \in Sessions /\ list[links.next[s]] = "active")
    BY <1>2, <1>3, Neighbours
  <1>15. \A r \in Sessions : links'.head[Bucket[r]] = links.head[Bucket[r]]
    BY <1>5, <1>12, HeadFacts DEF Unlinked, Before
  <1>16. Others(s, list, now)
    BY <1>1, <1>2, <1>9, <1>15 DEF Others
  <1>17. sstatus'[s] = "FAILED"
    BY <1>1, <1>2
  <1>18. ASSUME NEW v \in FtUsers, usess[v] = s PROVE UserOK(now, links'.head, upc[v], s, "FAILED")
    <2>1. UserOK(list, links.head, upc[v], s, sstatus[s])
      BY <1>2, <1>18 DEF Using
    <2> QED
      BY <1>1, <1>3, <1>9, <2>1 DEF UserOK
  <1>19. UsersGo(s, now)
    BY <1>1, <1>17, <1>18 DEF UsersGo
  <1>20. \A w, v \in FtUsers : w # v /\ usess'[w] = usess'[v] => usess'[w] = FtNull
    BY <1>1, <1>2 DEF Using
  <1>21. Itself(s, now)
    BY <1>3, <1>9, <1>15, <1>17 DEF Itself, Known
  <1>22. Relinked(list, now, s)
    <2>1. ASSUME NEW y \in Sessions, y # s
          PROVE  links'.next[y] = links.next[y] \/ links'.next[y] \in AllListed(list) \cup {FtNull}
      BY <1>5, <1>12, <1>14, <2>1 DEF Unlinked, AllListed, Before
    <2> QED
      BY <1>12, <1>13, <2>1 DEF Relinked, Before
  <1>23. Managing(now)'
    BY <1>1, <1>9, <1>14 DEF Managing, CleaningUp
  <1>24. links'.head[Bucket[s]] = s
    BY <1>3, <1>15
  <1> QED
    BY <1>2, <1>3, <1>12, <1>16, <1>19, <1>20, <1>21, <1>22, <1>23, <1>24, OneSession DEF Hang

(* A listed session s is taken off by links that skip it: what is left. *)
LEMMA OffLists ==
    ASSUME NEW list, NEW pos, NEW top, Holds(list, pos, top), NEW s \in Sessions, list[s] # "off",
           NEW M, LinkShape(M), Skipped(links, M, s), NEW kd, Behind(links, HeadsNow, kd, s, list[s]),
           NEW now, now = [list EXCEPT ![s] = "off"]
    PROVE  /\ OnLists(M.next, M.prev, kd, now, pos, top)
           /\ now[s] = "off" /\ (\A r \in Sessions : r # s => now[r] = list[r])
           /\ AllListed(now) \subseteq AllListed(list) /\ s \notin AllListed(now)
           /\ links.next[s] \in AllListed(now) \cup {FtNull}
           /\ \A y \in Sessions : y # s => M.next[y] = links.next[y] \/ M.next[y] \in AllListed(list) \cup {FtNull}
  <1>1. OnLists(links.next, links.prev, HeadsNow, list, pos, top) /\ list \in [Sessions -> ListNames \cup {"off"}]
    BY DEF Holds, OnLists
  <1>2. PICK h \in ListNames : h = list[s]
    BY <1>1
  <1>3. OnLists(M.next, M.prev, kd, now, pos, top)
    BY <1>1, <1>2, ListsWithout
  <1>4. now[s] = "off" /\ \A r \in Sessions : r # s => now[r] = list[r]
    BY <1>1
  <1>5. AllListed(now) \subseteq AllListed(list) /\ s \notin AllListed(now)
    BY <1>4 DEF AllListed
  <1>6. links.next[s] # s /\ (links.next[s] = FtNull \/ (links.next[s] \in Sessions /\ list[links.next[s]] = list[s]))
    BY <1>1, Neighbours
  <1>7. links.next[s] \in AllListed(now) \cup {FtNull}
    BY <1>4, <1>6 DEF AllListed
  <1>8. \A y \in Sessions : y # s => M.next[y] = links.next[y] \/ M.next[y] \in AllListed(list) \cup {FtNull}
    BY <1>5, <1>7 DEF Skipped
  <1> QED
    BY <1>3, <1>4, <1>5, <1>7, <1>8

LEMMA UnlinkedSkips ==
    ASSUME NEW L, NEW M, NEW s \in Sessions, NEW H, Unlinked(L, M, s, H)
    PROVE  LinkShape(M) /\ Skipped(L, M, s)
  BY DEF Unlinked, Skipped

(* ft_remove_session. *)
LEMMA RemoveLists ==
    ASSUME NEW list, NEW pos, NEW top, Ready(list, pos, top), NEW u \in FtUsers, RemoveSession(u)
    PROVE  FtLists'
  <1>1. /\ upc[u] = "remove" /\ ~CleaningUp /\ mpc \notin {"walk", "stuck", "sweep"}
        /\ UNCHANGED <<sstatus, sfile, mpc, mcur>>
    BY DEF RemoveSession, UserAt, SessionsUnlocked
  <1>2. PICK s \in Sessions : s = usess[u]
    BY <1>1, UserAlone
  <1>3. sstatus[s] # "none" /\ (sstatus[s] = "freed" \/ list[s] # "off") /\ sfile[s].asked # 0
    BY <1>1, <1>2, UserAlone DEF UserOK, Ready, Asking
  <1>4. /\ LinkShape(links) /\ OnLists(links.next, links.prev, HeadsNow, list, pos, top) /\ Holds(list, pos, top)
        /\ list \in [Sessions -> ListNames \cup {"off"}] /\ Listing(list) /\ Clearing(list) /\ ~ftfault'
    BY DEF Ready, Holds, OnLists
  <1>5. PICK b : b = Bucket[s]
    OBVIOUS
  <1>6. PICK L : L = Detach(links, s, b)
    OBVIOUS
  <1>7. PICK on : on = {h \in ListNames : Found(L, h, s)}
    OBVIOUS
  <1>8. /\ Touch(MapTouches(links, s))
        /\ \/ /\ Found(links, b, s) /\ on # {}
              /\ links' = IF "active" \in on THEN Detach(L, s, "active") ELSE Detach(L, s, "completed")
              /\ Goto(u, "destroy") /\ UNCHANGED usess
           \/ Found(links, b, s) /\ on = {} /\ links' = L /\ Return(u)
           \/ ~Found(links, b, s) /\ UNCHANGED links /\ Return(u)
    BY <1>2, <1>5, <1>6, <1>7 DEF RemoveSession, ListNames
  <1>9. b \in Heads /\ b \notin ListNames /\ \A r \in Sessions : Bucket[r] \in Heads /\ Bucket[r] \notin ListNames
    BY <1>5, HeadFacts
  <1>10. CASE list[s] = "off"
    <2>1. sstatus[s] = "freed"
      BY <1>3, <1>10
    <2>2. links.head[b] # s
      <3>1. SUFFICES ASSUME links.head[b] = s PROVE FALSE
        OBVIOUS
      <3>2. s \in Visited(links, b, s)
        BY <3>1, FoundFirst
      <3>3. s \in MapTouches(links, s) /\ s \in Freed
        BY <1>5, <2>1, <3>2 DEF MapTouches, Freed
      <3> QED
        BY <1>4, <1>8, <3>3 DEF Touch
    <2>3. Clear(links, list, s)
      BY <1>1, <1>3, <1>4, <1>5, <2>2 DEF Clearing
    <2>4. ~Found(links, b, s)
      BY <1>5, <2>3, NotFound DEF Clear
    <2>5. UNCHANGED links /\ Return(u)
      BY <1>8, <2>4
    <2>6. AskedIs(s, sfile[s].asked)
      BY <1>1 DEF AskedIs
    <2> QED
      BY <1>1, <1>2, <2>5, <2>6, Leaves
  <1>11. CASE list[s] # "off"
    <2>1. PICK h \in ListNames : h = list[s]
      BY <1>4, <1>11
    <2>2. Known(s) /\ links.head[b] = s
      BY <1>4, <1>5, <1>11 DEF Listing
    <2>3. Found(links, b, s)
      BY <2>2, FoundFirst
    <2>4. links.next[s] # s /\ links.prev[s] # s
      BY <1>4, <1>11, Neighbours
    <2>5. Unlinked(links, L, s, {b})
      BY <1>4, <1>6, <1>9, DetachOnce
    <2>6. \A k \in ListNames : HeadsNow[k] = links.head[k]
      BY <1>1, HeadsOutside
    <2> DEFINE now == [list EXCEPT ![s] = "off"]
    <2>7. CASE links.prev[s] # FtNull
      <3>1. LinkShape(L) /\ Skipped(links, L, s) /\ (\A k \in Heads : L.head[k] = links.head[k])
        BY <2>5, <2>7, UnlinkedSkips DEF Unlinked
      <3>2. Behind(links, HeadsNow, HeadsOf(L), s, list[s])
        BY <2>6, <2>7, <3>1, HeadFacts DEF Behind, HeadsOf
      <3>3. /\ OnLists(L.next, L.prev, HeadsOf(L), now, pos, top)
            /\ now[s] = "off" /\ (\A r \in Sessions : r # s => now[r] = list[r])
            /\ AllListed(now) \subseteq AllListed(list)
            /\ \A y \in Sessions : y # s => L.next[y] = links.next[y] \/ L.next[y] \in AllListed(list) \cup {FtNull}
        BY <1>4, <1>11, <3>1, <3>2, OffLists
      <3> HIDE DEF now
      <3>4. \A k \in ListNames : ~Found(L, k, s)
        <4> SUFFICES ASSUME NEW k \in ListNames PROVE ~Found(L, k, s)
          OBVIOUS
        <4>0. Closed(L, ListOf(now, k))
          BY <3>3, ListClosed
        <4>1. s \notin ListOf(now, k)
          BY <3>3, HeadFacts DEF ListOf
        <4>2. L.head[k] \in ListOf(now, k) \cup {FtNull}
          BY <3>3 DEF OnLists, HeadsOf, ListOf
        <4> QED
          BY <4>0, <4>1, <4>2, NotFound
      <3>5. links' = L /\ Return(u)
        BY <1>7, <1>8, <2>3, <3>4
      <3>6. HeadsNow' = HeadsOf(L)
        BY <1>1, <3>5 DEF HeadsNow, HeadsOf, CleaningUp
      <3>7. /\ upc'[u] = "idle" /\ usess'[u] = FtNull
            /\ \A v \in FtUsers : v # u => upc'[v] = upc[v] /\ usess'[v] = usess[v] /\ usess[v] # usess[u]
            /\ \A w, v \in FtUsers : w # v /\ usess'[w] = usess'[v] => usess'[w] = FtNull
        BY <1>1, <3>5, Returning
      <3>8. UserOK(now, links'.head, "idle", FtNull, sstatus'[FtNull])
        BY DEF UserOK
      <3>9. UsersGo(s, now)
        BY <1>2, <3>7, <3>8 DEF UsersGo
      <3>10. Others(s, list, now)
        BY <1>1, <1>9, <3>1, <3>3, <3>5 DEF Others
      <3>11. Itself(s, now)
        BY <1>1, <1>3, <3>3 DEF Itself
      <3>12. L.next[s] = links.next[s]
        BY <2>4, <2>5 DEF Unlinked
      <3>13. Relinked(list, now, s)
        BY <3>3, <3>5, <3>12 DEF Relinked
      <3>14. Managing(now)' /\ ~CleaningUp'
        BY <1>1 DEF Managing, CleaningUp
      <3>15. links'.head[Bucket[s]] = s
        BY <1>5, <1>9, <2>2, <3>1, <3>5
      <3>16. LinkShape(links') /\ OnLists(links'.next, links'.prev, HeadsNow', now, pos, top)
        BY <3>1, <3>3, <3>5, <3>6
      <3> QED
        BY <1>1, <1>4, <3>7, <3>9, <3>10, <3>11, <3>13, <3>14, <3>15, <3>16, OneSession
    <2>8. CASE links.prev[s] = FtNull
      <3>1. /\ LinkShape(L) /\ L.next = links.next /\ L.head[h] = s
            /\ \A k \in ListNames : L.head[k] = links.head[k]
        <4>1. LinkShape(L) /\ \A y \in Sessions : L.next[y] = links.next[y]
          BY <2>5, <2>8, HeadFacts DEF Unlinked
        <4>2. L.next = links.next
          BY <1>4, <4>1 DEF LinkShape
        <4>3. \A k \in ListNames : L.head[k] = links.head[k]
          BY <2>5, <1>9, HeadFacts DEF Unlinked
        <4>4. HeadsNow[h] = s
          BY <1>4, <1>11, <2>1, <2>8, ListFacts
        <4> QED
          BY <2>6, <4>1, <4>2, <4>3, <4>4
      <3>2. \A k \in ListNames : k # h => ~Found(L, k, s)
        <4> SUFFICES ASSUME NEW k \in ListNames, k # h PROVE ~Found(L, k, s)
          OBVIOUS
        <4>0. Closed(links, ListOf(list, k))
          BY <1>4, ListClosed
        <4>1. s \notin ListOf(list, k)
          BY <2>1 DEF ListOf
        <4>2. Closed(L, ListOf(list, k))
          BY <3>1, <4>0 DEF Closed
        <4>3. L.head[k] \in ListOf(list, k) \cup {FtNull}
          BY <1>4, <2>6, <3>1, ListFacts DEF ListOf
        <4> QED
          BY <4>1, <4>2, <4>3, NotFound
      <3>3. on = {h}
        BY <1>7, <3>1, <3>2, FoundFirst
      <3>4. links' = Detach(L, s, h) /\ Goto(u, "destroy") /\ UNCHANGED usess
        BY <1>8, <2>3, <3>3 DEF ListNames
      <3>5. Unlinked(links, links', s, {b, h})
        <4>1. Unlinked(links, Detach(L, s, h), s, {b} \cup {h})
          BY <2>4, <2>5, DetachMore, HeadFacts
        <4>2. {b} \cup {h} = {b, h}
          OBVIOUS
        <4> QED
          BY <3>4, <4>1, <4>2
      <3>6. LinkShape(links') /\ Skipped(links, links', s)
        BY <3>5, UnlinkedSkips
      <3>7. Behind(links, HeadsNow, HeadsNow', s, list[s])
        BY <1>1, <1>9, <2>1, <2>6, <2>8, <3>5, HeadFacts DEF Behind, HeadsNow, CleaningUp, Unlinked
      <3>8. /\ OnLists(links'.next, links'.prev, HeadsNow', now, pos, top)
            /\ now[s] = "off" /\ (\A r \in Sessions : r # s => now[r] = list[r])
            /\ AllListed(now) \subseteq AllListed(list) /\ s \notin AllListed(now)
            /\ links.next[s] \in AllListed(now) \cup {FtNull}
            /\ \A y \in Sessions : y # s => links'.next[y] = links.next[y] \/ links'.next[y] \in AllListed(list) \cup {FtNull}
        BY <1>4, <1>11, <3>6, <3>7, OffLists
      <3> HIDE DEF now
      <3>9. /\ upc'[u] = "destroy" /\ usess'[u] = usess[u]
            /\ \A v \in FtUsers : v # u => upc'[v] = upc[v] /\ usess'[v] = usess[v] /\ usess[v] # usess[u]
            /\ \A w, v \in FtUsers : w # v /\ usess'[w] = usess'[v] => usess'[w] = FtNull
        BY <1>1, <3>4, Going
      <3>10. /\ links'.head[Bucket[s]] = links.next[s] /\ links'.next[s] = links.next[s]
             /\ \A r \in Sessions : r # s => links'.head[Bucket[r]] = links.head[Bucket[r]]
        BY <1>5, <1>9, <2>4, <2>8, <3>5 DEF Unlinked, Ready, BucketsApart
      <3>11. UserOK(now, links'.head, "destroy", s, sstatus'[s])
        BY <1>1, <1>3, <2>4, <3>8, <3>10 DEF UserOK
      <3>12. UsersGo(s, now)
        BY <1>2, <3>9, <3>11 DEF UsersGo
      <3>13. Others(s, list, now)
        BY <1>1, <3>8, <3>10 DEF Others
      <3>14. Itself(s, now)
        BY <1>1, <1>3, <3>8 DEF Itself
      <3>15. Relinked(list, now, s)
        BY <3>8, <3>10 DEF Relinked
      <3>16. Managing(now)' /\ ~CleaningUp'
        BY <1>1 DEF Managing, CleaningUp
      <3>17. Clear(links', now, s)
        <4>1. Closed(links', AllListed(now))
          BY <3>8, ListClosed
        <4> QED
          BY <3>8, <3>10, <4>1 DEF Clear
      <3> QED
        BY <1>1, <1>4, <3>6, <3>8, <3>9, <3>12, <3>13, <3>14, <3>15, <3>16, <3>17, OneSession
    <2> QED
      BY <2>7, <2>8
  <1> QED
    BY <1>10, <1>11

(* ft_destroy_session of a session that its bucket does not lead to. *)
LEMMA DestroyLists ==
    ASSUME NEW list, NEW pos, NEW top, Ready(list, pos, top), NEW u \in FtUsers, Destroy(u)
    PROVE  FtLists'
  <1>1. /\ upc[u] = "destroy" /\ ~CleaningUp /\ DestroySession(links, usess[u]) /\ Return(u) /\ UNCHANGED <<mpc, mcur>>
    BY DEF Destroy, UserAt
  <1>2. PICK s \in Sessions : s = usess[u]
    BY <1>1, UserAlone
  <1>3. sstatus[s] # "none" /\ list[s] = "off" /\ links.head[Bucket[s]] # s
    BY <1>1, <1>2, UserAlone DEF UserOK
  <1>4. /\ LinkShape(links) /\ OnLists(links.next, links.prev, HeadsNow, list, pos, top) /\ Holds(list, pos, top)
        /\ Listing(list) /\ Clearing(list) /\ Managing(list) /\ FtInv /\ DOMAIN sstatus = Sessions
    BY DEF Ready, Holds, FtInv, FtShape
  <1>5. PICK C : /\ Closed(links, C) /\ AllListed(list) \subseteq C /\ s \notin C
                 /\ links.head[Bucket[s]] \in C \cup {FtNull}
    BY <1>1, <1>3, <1>4 DEF Clearing, Clear
  <1>6. MapRemove(links, s) = links
    BY <1>5, NotFound DEF MapRemove
  <1>7. links' = Blank(links, s) /\ sstatus' = [sstatus EXCEPT ![s] = "freed"]
    BY <1>1, <1>2, <1>6 DEF DestroySession, Blank
  <1>8. /\ LinkShape(links') /\ links'.head = links.head /\ links'.next[s] = FtNull
        /\ \A y \in Sessions : y # s => links'.next[y] = links.next[y] /\ links'.prev[y] = links.prev[y]
    BY <1>4, <1>7, FreedLinks
  <1>9. HeadsNow' = HeadsNow
    BY <1>1, <1>8 DEF HeadsNow
  <1>10. OnLists(links'.next, links'.prev, HeadsNow', list, pos, top)
    <2>1. links'.next \in [Sessions -> OrNull] /\ links'.prev \in [Sessions -> OrNull]
      BY <1>8 DEF LinkShape
    <2>2. \A y \in Sessions : list[y] # "off" => links'.next[y] = links.next[y] /\ links'.prev[y] = links.prev[y]
      BY <1>3, <1>8
    <2> QED
      BY <1>4, <1>9, <2>1, <2>2, OthersWritten
  <1>11. AskedIs(s, sfile[s].asked)
    BY <1>1, <1>2, <1>4, AskedKept
  <1>12. Others(s, list, list)
    BY <1>4, <1>7, <1>8, <1>11 DEF Others, AskedIs
  <1>13. /\ upc'[u] = "idle" /\ usess'[u] = FtNull
         /\ \A v \in FtUsers : v # u => upc'[v] = upc[v] /\ usess'[v] = usess[v] /\ usess[v] # usess[u]
         /\ \A w, v \in FtUsers : w # v /\ usess'[w] = usess'[v] => usess'[w] = FtNull
    BY <1>1, Returning
  <1>14. UserOK(list, links'.head, "idle", FtNull, sstatus'[FtNull])
    BY DEF UserOK
  <1>15. UsersGo(s, list)
    BY <1>2, <1>13, <1>14 DEF UsersGo
  <1>16. Itself(s, list)
    BY <1>3, <1>4, <1>7 DEF Itself, Known
  <1>17. Relinked(list, list, s)
    BY <1>3, <1>8 DEF Relinked
  <1>18. Clear(links', list, s)
    BY <1>5, <1>8 DEF Clear, Closed
  <1>19. Managing(list)' /\ ~CleaningUp'
    BY <1>1, <1>4, <1>8 DEF Managing, CleaningUp
  <1> QED
    BY <1>1, <1>4, <1>8, <1>10, <1>12, <1>13, <1>15, <1>16, <1>17, <1>18, <1>19, OneSession

(* The manager frees a completed session, out of its list and of its bucket,
   from which it is taken twice. *)
LEMMA SweepLists ==
    ASSUME NEW list, NEW pos, NEW top, Ready(list, pos, top), NEW s \in Sessions, Sweep(s, TRUE)
    PROVE  FtLists'
  <1>1. /\ mpc = "sweep" /\ mcur = s /\ mcur' = links.next[s] /\ UNCHANGED <<mpc, upc, usess>>
        /\ DestroySession(MapRemove(Detach(links, s, "completed"), s), s)
    BY DEF Sweep, ManagerAt
  <1>2. /\ LinkShape(links) /\ OnLists(links.next, links.prev, HeadsNow, list, pos, top) /\ Holds(list, pos, top)
        /\ Listing(list) /\ Managing(list) /\ Using(list) /\ FtInv /\ DOMAIN sstatus = Sessions
    BY DEF Ready, Holds, FtInv, FtShape
  <1>3. list[s] = "completed" /\ ~CleaningUp /\ ~CleaningUp'
    BY <1>1, <1>2, HeadFacts DEF Managing, CleaningUp
  <1>4. links.head[Bucket[s]] = s
    BY <1>2, <1>3 DEF Listing
  <1>5. /\ links.next[s] # s /\ links.prev[s] # s
        /\ links.next[s] = FtNull \/ (links.next[s] \in Sessions /\ list[links.next[s]] = "completed")
    BY <1>2, <1>3, Neighbours
  <1>6. PICK b : b = Bucket[s] /\ b \in Heads /\ b \notin ListNames
    BY HeadFacts
  <1>7. PICK D : D = Detach(links, s, "completed")
    OBVIOUS
  <1>8. Unlinked(links, D, s, {"completed"})
    BY <1>2, <1>7, DetachOnce, HeadFacts
  <1>9. D.head[b] = s
    BY <1>4, <1>6, <1>8, HeadFacts DEF Unlinked
  <1>10. PICK L : L = Detach(D, s, b)
    OBVIOUS
  <1>11. MapRemove(D, s) = L
    BY <1>6, <1>9, <1>10, FoundFirst DEF MapRemove
  <1>12. Unlinked(links, L, s, {"completed", b})
    <2>1. Unlinked(links, L, s, {"completed"} \cup {b})
      BY <1>5, <1>6, <1>8, <1>10, DetachMore
    <2>2. {"completed"} \cup {b} = {"completed", b}
      OBVIOUS
    <2> QED
      BY <2>1, <2>2
  <1>13. PICK E : E = MapRemove(L, s)
    OBVIOUS
  <1>14. Unlinked(links, E, s, {"completed", b})
    <2>1. Unlinked(links, Detach(L, s, b), s, {"completed", b} \cup {b})
      BY <1>5, <1>6, <1>12, DetachMore
    <2>2. {"completed", b} \cup {b} = {"completed", b}
      OBVIOUS
    <2> QED
      BY <1>6, <1>12, <1>13, <2>1, <2>2 DEF MapRemove
  <1>15. links' = Blank(E, s) /\ sstatus' = [sstatus EXCEPT ![s] = "freed"]
    BY <1>1, <1>7, <1>11, <1>13 DEF DestroySession, Blank
  <1>16. LinkShape(E) /\ Skipped(links, E, s)
    BY <1>14, UnlinkedSkips
  <1>17. /\ LinkShape(links') /\ links'.head = E.head /\ links'.next[s] = FtNull
         /\ \A y \in Sessions : y # s => links'.next[y] = E.next[y] /\ links'.prev[y] = E.prev[y]
    BY <1>15, <1>16, FreedLinks
  <1>18. Skipped(links, links', s)
    BY <1>16, <1>17 DEF Skipped
  <1>19. \A k \in ListNames : HeadsNow[k] = links.head[k]
    BY <1>3, HeadsOutside
  <1>20. Behind(links, HeadsNow, HeadsNow', s, list[s])
    BY <1>1, <1>3, <1>6, <1>14, <1>17, <1>19, HeadFacts DEF Behind, HeadsNow, Unlinked
  <1> DEFINE now == [list EXCEPT ![s] = "off"]
  <1>21. /\ OnLists(links'.next, links'.prev, HeadsNow', now, pos, top)
         /\ now[s] = "off" /\ (\A r \in Sessions : r # s => now[r] = list[r])
         /\ AllListed(now) \subseteq AllListed(list) /\ s \notin AllListed(now)
         /\ links.next[s] \in AllListed(now) \cup {FtNull}
         /\ \A y \in Sessions : y # s => links'.next[y] = links.next[y] \/ links'.next[y] \in AllListed(list) \cup {FtNull}
    BY <1>2, <1>3, <1>17, <1>18, <1>20, OffLists
  <1> HIDE DEF now
  <1>22. /\ \A r \in Sessions : r # s => links'.head[Bucket[r]] = links.head[Bucket[r]]
         /\ links'.head[b] = IF links.prev[s] = FtNull THEN links.next[s] ELSE s
    BY <1>4, <1>6, <1>14, <1>17, HeadFacts DEF Unlinked, Ready, BucketsApart
  <1>23. AskedIs(s, sfile[s].asked)
    BY <1>1, <1>2, AskedKept
  <1>24. Others(s, list, now)
    BY <1>2, <1>15, <1>21, <1>22, <1>23 DEF Others, AskedIs
  <1>25. sstatus'[s] = "freed"
    BY <1>2, <1>15
  <1>26. ASSUME NEW v \in FtUsers, usess[v] = s PROVE UserOK(now, links'.head, upc[v], s, "freed")
    <2>1. UserOK(list, links.head, upc[v], s, sstatus[s])
      BY <1>2, <1>26 DEF Using
    <2>2. upc[v] # "prepare" /\ upc[v] # "insert" /\ upc[v] # "destroy"
      BY <1>3, <2>1 DEF UserOK
    <2> QED
      BY <2>1, <2>2, HeadFacts DEF UserOK
  <1>27. UsersGo(s, now)
    BY <1>1, <1>25, <1>26 DEF UsersGo
  <1>28. \A w, v \in FtUsers : w # v /\ usess'[w] = usess'[v] => usess'[w] = FtNull
    BY <1>1, <1>2 DEF Using
  <1>29. Itself(s, now)
    BY <1>21, <1>25 DEF Itself, Known
  <1>30. Relinked(list, now, s)
    BY <1>17, <1>21 DEF Relinked
  <1>31. Managing(now)'
    BY <1>1, <1>5, <1>21 DEF Managing, CleaningUp
  <1>32. links'.head[Bucket[s]] # s => Clear(links', now, s)
    <2>1. Closed(links', AllListed(now))
      BY <1>21, ListClosed
    <2> QED
      BY <1>6, <1>21, <1>22, <2>1 DEF Clear
  <1> QED
    BY <1>2, <1>3, <1>17, <1>21, <1>24, <1>27, <1>28, <1>29, <1>30, <1>31, <1>32, OneSession

(* ft_cleanup frees the first session of what is left of a list. *)
LEMMA DrainLists ==
    ASSUME NEW list, NEW pos, NEW top, Ready(list, pos, top), NEW s \in Sessions, Drain(s)
    PROVE  FtLists'
  <1>1. /\ mpc \in {"drain_active", "drain_completed"} /\ mcur = s /\ mcur' = links.next[s]
        /\ UNCHANGED <<mpc, upc, usess>> /\ DestroySession(links, s)
    BY DEF Drain
  <1>2. /\ LinkShape(links) /\ OnLists(links.next, links.prev, HeadsNow, list, pos, top) /\ Holds(list, pos, top)
        /\ Listing(list) /\ Managing(list) /\ Using(list) /\ FtInv /\ DOMAIN sstatus = Sessions
    BY DEF Ready, Holds, FtInv, FtShape
  <1>3. CleaningUp /\ CleaningUp' /\ \A u \in FtUsers : upc[u] = "idle" /\ usess[u] # s
    BY <1>1, <1>2, HeadFacts DEF CleaningUp, Managing, Using, UserOK
  <1>4. PICK h \in ListNames : h = IF mpc = "drain_active" THEN "active" ELSE "completed"
    BY HeadFacts
  <1>5. HeadsNow[h] = s
    BY <1>1, <1>4 DEF HeadsNow
  <1>6. list[s] = h /\ links.prev[s] = FtNull
    BY <1>2, <1>5, HeadFacts DEF OnLists
  <1>7. list[s] # "off" /\ links.head[Bucket[s]] = s
    BY <1>2, <1>6, HeadFacts DEF Listing
  <1>8. PICK b : b = Bucket[s] /\ b \in Heads /\ b \notin ListNames
    BY HeadFacts
  <1>9. PICK E : E = Detach(links, s, b)
    OBVIOUS
  <1>10. MapRemove(links, s) = E
    BY <1>7, <1>8, <1>9, FoundFirst DEF MapRemove
  <1>11. Unlinked(links, E, s, {b})
    BY <1>2, <1>8, <1>9, DetachOnce
  <1>12. LinkShape(E) /\ Skipped(links, E, s)
    BY <1>11, UnlinkedSkips
  <1>13. links' = Blank(E, s) /\ sstatus' = [sstatus EXCEPT ![s] = "freed"]
    BY <1>1, <1>10 DEF DestroySession, Blank
  <1>14. /\ LinkShape(links') /\ links'.head = E.head /\ links'.next[s] = FtNull
         /\ \A y \in Sessions : y # s => links'.next[y] = E.next[y] /\ links'.prev[y] = E.prev[y]
    BY <1>12, <1>13, FreedLinks
  <1>15. Skipped(links, links', s)
    BY <1>12, <1>14 DEF Skipped
  <1>16. \A k \in ListNames : links'.head[k] = links.head[k]
    BY <1>8, <1>11, <1>14, HeadFacts DEF Unlinked
  <1>17. Behind(links, HeadsNow, HeadsNow', s, list[s])
    BY <1>1, <1>4, <1>6, <1>16 DEF Behind, HeadsNow
  <1> DEFINE now == [list EXCEPT ![s] = "off"]
  <1>18. /\ OnLists(links'.next, links'.prev, HeadsNow', now, pos, top)
         /\ now[s] = "off" /\ (\A r \in Sessions : r # s => now[r] = list[r])
         /\ AllListed(now) \subseteq AllListed(list) /\ s \notin AllListed(now)
         /\ links.next[s] \in AllListed(now) \cup {FtNull}
         /\ \A y \in Sessions : y # s => links'.next[y] = links.next[y] \/ links'.next[y] \in AllListed(list) \cup {FtNull}
    <2>1. Holds(list, pos, top) /\ list[s] # "off" /\ LinkShape(links')
      BY <1>2, <1>7, <1>14
    <2> QED
      BY ONLY <2>1, <1>15, <1>17, OffLists, s \in Sessions
  <1> HIDE DEF now
  <1>19. \A r \in Sessions : r # s => links'.head[Bucket[r]] = links.head[Bucket[r]]
    BY <1>8, <1>11, <1>14, HeadFacts DEF Unlinked, Ready, BucketsApart
  <1>20. AskedIs(s, sfile[s].asked)
    BY <1>1, <1>2, AskedKept
  <1>21. Others(s, list, now)
    BY <1>2, <1>13, <1>18, <1>19, <1>20 DEF Others, AskedIs
  <1>22. sstatus'[s] = "freed"
    BY <1>2, <1>13
  <1>23. UsersGo(s, now)
    BY <1>1, <1>3 DEF UsersGo
  <1>24. \A w, v \in FtUsers : w # v /\ usess'[w] = usess'[v] => usess'[w] = FtNull
    BY <1>1, <1>2 DEF Using
  <1>25. Itself(s, now)
    BY <1>18, <1>22 DEF Itself, Known
  <1>26. Relinked(list, now, s)
    BY <1>14, <1>18 DEF Relinked
  <1>27. Managing(now)'
    BY <1>1, <1>2, <1>3, <1>16, HeadFacts DEF Managing
  <1> QED
    BY <1>2, <1>3, <1>14, <1>18, <1>21, <1>23, <1>24, <1>25, <1>26, <1>27, OneSession

(* ft_cleanup has come to the end of a list. *)
LEMMA DrainedLists ==
    ASSUME NEW list, NEW pos, NEW top, Ready(list, pos, top), ActiveDrained \/ CompletedDrained
    PROVE  FtLists'
  <1>1. /\ LinkShape(links) /\ OnLists(links.next, links.prev, HeadsNow, list, pos, top) /\ Holds(list, pos, top)
        /\ Listing(list) /\ Managing(list) /\ Using(list) /\ AskedGrows
        /\ list \in [Sessions -> ListNames \cup {"off"}]
    BY DEF Ready, Holds, OnLists
  <1>2. CASE ActiveDrained
    <2>1. /\ mpc = "drain_active" /\ mcur = FtNull /\ mpc' = "drain_completed" /\ mcur' = links.head["completed"]
          /\ links' = [links EXCEPT !.head["active"] = FtNull] /\ UNCHANGED <<sstatus, sfile, upc, usess>>
      BY <1>2 DEF ActiveDrained, ManagerAt
    <2>2. links' = [next |-> links.next, prev |-> links.prev, head |-> [links.head EXCEPT !["active"] = FtNull]]
      BY ONLY <1>1, <2>1 DEF LinkShape
    <2>3. /\ links'.next = links.next /\ links'.prev = links.prev /\ links'.head["active"] = FtNull
          /\ (\A k \in Heads : k # "active" => links'.head[k] = links.head[k]) /\ LinkShape(links')
      <3>1. FtNull \in OrNull /\ "active" \in Heads
        BY HeadFacts DEF OrNull
      <3> QED
        BY ONLY <1>1, <2>2, <3>1 DEF LinkShape
    <2>4. HeadsNow' = HeadsNow
      BY <2>1, <2>3, HeadFacts DEF HeadsNow, ListNames
    <2>5. \A s \in Sessions : links'.head[Bucket[s]] = links.head[Bucket[s]]
      BY <2>3, HeadFacts
    <2>6. Listing(list)'
      BY <1>1, <2>1, <2>5 DEF Listing, Known, Inserting
    <2>7. \A u \in FtUsers : upc[u] = "idle"
      BY <1>1, <2>1 DEF Managing, CleaningUp
    <2>8. Using(list)'
      BY <1>1, <2>1, <2>7 DEF Using, UserOK
    <2>9. Managing(list)'
      BY <2>1, <2>3, <2>7 DEF Managing
    <2>10. Clearing(list)'
      BY <2>1 DEF Clearing, CleaningUp
    <2>11. OnLists(links'.next, links'.prev, HeadsNow', list, pos, top)
      BY <1>1, <2>3, <2>4
    <2> QED
      BY <2>3, <2>6, <2>8, <2>9, <2>10, <2>11 DEF FtLists, Holds
  <1>3. CASE CompletedDrained
    <2>1. /\ mpc = "drain_completed" /\ mcur = FtNull /\ mpc' = "gone"
          /\ links' = [links EXCEPT !.head = [h \in Heads |-> FtNull]] /\ UNCHANGED <<sstatus, upc, usess>>
          /\ sfile' = [s \in Sessions |-> [sfile[s] EXCEPT !.temp = FALSE]]
      BY <1>3 DEF CompletedDrained, ManagerAt
    <2>2. links' = [next |-> links.next, prev |-> links.prev, head |-> [h \in Heads |-> FtNull]]
      BY ONLY <1>1, <2>1 DEF LinkShape
    <2>3. /\ links'.next = links.next /\ links'.prev = links.prev
          /\ (\A k \in Heads : links'.head[k] = FtNull) /\ LinkShape(links')
      BY ONLY <1>1, <2>2 DEF LinkShape, OrNull
    <2>4. links.head["active"] = FtNull
      BY <1>1, <2>1 DEF Managing
    <2>5. \A h \in ListNames : HeadsNow[h] = FtNull
      BY <2>1, <2>4 DEF HeadsNow, ListNames
    <2>6. \A h \in ListNames : HeadsNow'[h] = FtNull
      BY <2>1, <2>3, HeadFacts DEF HeadsNow
    <2>7. HeadsNow' = HeadsNow
      BY <2>5, <2>6 DEF HeadsNow
    <2>8. \A s \in Sessions : list[s] = "off"
      BY <1>1, <2>5, HasFirst, HeadFacts
    <2>9. \A s \in Sessions : links'.head[Bucket[s]] = FtNull
      BY <2>3, HeadFacts
    <2>10. \A s \in Sessions : sfile'[s].asked = 0 => sfile[s].asked = 0
      BY <1>1 DEF AskedGrows, AskedAgain
    <2>11. Listing(list)'
      BY <1>1, <2>1, <2>8, <2>9, <2>10 DEF Listing, Known, Inserting
    <2>12. \A u \in FtUsers : upc[u] = "idle"
      BY <1>1, <2>1 DEF Managing, CleaningUp
    <2>13. Using(list)'
      BY <1>1, <2>1, <2>12 DEF Using, UserOK
    <2>14. ASSUME NEW s \in Sessions PROVE ~sfile'[s].temp
      <3>1. PICK r : r = [sfile[s] EXCEPT !.temp = FALSE]
        OBVIOUS
      <3>2. ~r.temp
        BY <3>1 DEF Ready, FtInv, Deliveries, Delivery, File
      <3> QED
        BY <2>1, <3>1, <3>2
    <2>15. Managing(list)'
      BY <2>1, <2>3, <2>12, <2>14, HeadFacts DEF Managing
    <2>16. Clearing(list)'
      BY <2>1 DEF Clearing, CleaningUp
    <2>17. OnLists(links'.next, links'.prev, HeadsNow', list, pos, top)
      BY <1>1, <2>3, <2>7
    <2> QED
      BY <2>3, <2>11, <2>13, <2>15, <2>16, <2>17 DEF FtLists, Holds
  <1> QED
    BY <1>2, <1>3

(* No step tears the lists. *)
LEMMA FtListsStep == ASSUME FtInv, Asking, FtListsInv, [FtNext]_ftvars PROVE FtListsInv'
  <1>1. CASE UNCHANGED ftvars
    BY <1>1 DEF ftvars, FtListsInv, BucketsApart, NoneRepeated, FtLists, Holds, HeadsNow, Listing, Known,
       Inserting,
       Using, Managing, CleaningUp, Clearing
  <1>2. CASE FtNext
    <2> SUFFICES ASSUME BucketsApart, NoneRepeated', ~ftfault' PROVE FtLists'
      BY DEF FtListsInv, BucketsApart
    <2>1. AskedGrows
      BY <1>2, AskedStep
    <2>2. NoneRepeated
      BY <2>1, StillRepeated
    <2>3. ~ftfault
      BY <1>2 DEF FtNext, ManagerStep, UserStep, Insert, Prepare, PrepareFails, RecordChecksum,
         RemoveSession, Destroy,
         Start, UploadChunk, DownloadChunk, UploadChunkFails, CompleteUpload, CallRemove, MayCall, UserAt,
         StartManager, StopManager, LoopTest, WalkEnds, CheckTimeouts, SweepEnds, ProcessPending, ProcessNothing,
         ProcessVerified, Deliver, ProcessFails, Processing, Sweep, Cleanup, Drain, ActiveDrained, CompletedDrained,
         ManagerAt
    <2>4. PICK list, pos, top : Ready(list, pos, top)
      BY <2>1, <2>2, <2>3 DEF Ready, FtListsInv, FtLists
    <2>5. ASSUME NEW u \in FtUsers, UserStep(u) PROVE FtLists'
      BY <2>4, <2>5, InsertLists, PrepareLists, ChecksumLists, RemoveLists, DestroyLists DEF UserStep
    <2>6. ASSUME NEW u \in FtUsers, NEW s \in Sessions,
                 \/ \E kind \in {"upload", "download"} : Start(u, s, kind)
                 \/ \E i \in Chunks : UploadChunk(u, s, i)
                 \/ DownloadChunk(u, s) \/ UploadChunkFails(u, s) \/ CompleteUpload(u, s) \/ CallRemove(u, s)
          PROVE  FtLists'
      BY <2>4, <2>6, StartLists, CallLists
    <2>7. ASSUME NEW s \in Sessions, NEW old \in BOOLEAN, Sweep(s, old) PROVE FtLists'
      <3>1. CASE old = TRUE
        BY <2>4, <2>7, <3>1, SweepLists
      <3>2. CASE old = FALSE
        BY <2>4, <2>7, <3>2, QuietLists
      <3> QED
        BY <3>1, <3>2
    <2>8. ASSUME ManagerStep PROVE FtLists'
      BY <2>4, <2>7, <2>8, QuietLists, TimeoutLists, DecideLists, FailsLists DEF ManagerStep
    <2> QED
      BY <1>2, <2>4, <2>5, <2>6, <2>8, QuietLists, DrainLists, DrainedLists DEF FtNext
  <1> QED
    BY <1>1, <1>2

LEMMA FtListsInit == FtInit => Asking /\ FtListsInv
  <1> SUFFICES ASSUME FtInit PROVE Asking /\ FtLists
    BY DEF FtListsInv
  <1>1. Asking
    BY DEF FtInit, Asking
  <1> DEFINE none == [s \in Sessions |-> FtNull]
             heads == [h \in Heads |-> FtNull]
             list == [s \in Sessions |-> "off"]
             pos == [s \in Sessions |-> 0]
  <1>2. links = [next |-> none, prev |-> none, head |-> heads]
    BY DEF FtInit
  <1>3. none \in [Sessions -> OrNull] /\ heads \in [Heads -> OrNull]
    BY DEF OrNull
  <1>4. links.next = none /\ links.prev = none /\ links.head = heads
    BY ONLY <1>2
  <1>5. LinkShape(links)
    <2> HIDE DEF none, heads
    <2> QED
      BY ONLY <1>2, <1>3, <1>4 DEF LinkShape
  <1>6. \A h \in ListNames : HeadsNow[h] = FtNull
    BY <1>4, HeadFacts DEF HeadsNow, FtInit
  <1>7. OnLists(links.next, links.prev, HeadsNow, list, pos, 0)
    BY <1>3, <1>4, <1>6 DEF OnLists
  <1>8. Listing(list)
    BY <1>4, HeadFacts DEF Listing, FtInit, Known
  <1>9. Using(list) /\ Managing(list) /\ Clearing(list)
    BY DEF FtInit, Using, UserOK, Managing, CleaningUp, Clearing
  <1> HIDE DEF list, pos
  <1>10. FtLists
    BY <1>5, <1>7, <1>8, <1>9 DEF FtLists, Holds
  <1> QED
    BY <1>1, <1>10

LEMMA ListsAgree == FtListsInv => ListsSound
  <1> SUFFICES ASSUME FtLists, NEW s \in Sessions
               PROVE  /\ Known(s) /\ sfile[s].asked = 0 /\ ~Inserting(s) /\ ~CleaningUp => Cardinality(Listed(s)) = 1
                      /\ sstatus[s] = "freed" /\ ~CleaningUp => Listed(s) = {}
                      /\ mpc = "gone" => ~sfile[s].temp /\ (Known(s) => sfile[s].asked # 0)
    BY DEF FtListsInv, ListsSound, Known, Inserting
  <1>1. PICK list, pos, top : Holds(list, pos, top)
    BY DEF FtLists
  <1>2. /\ OnLists(links.next, links.prev, HeadsNow, list, pos, top) /\ Listing(list) /\ Managing(list)
        /\ list \in [Sessions -> ListNames \cup {"off"}]
    BY <1>1 DEF Holds, OnLists
  <1>3. ASSUME ~CleaningUp PROVE \A h \in ListNames : Found(links, h, s) => list[s] = h
    BY <1>1, <1>3, OnlyListed
  <1>4. ASSUME Known(s), sfile[s].asked = 0, ~Inserting(s), ~CleaningUp PROVE Cardinality(Listed(s)) = 1
    <2>1. PICK h \in ListNames : list[s] = h
      BY <1>2, <1>4 DEF Listing
    <2>2. Found(links, h, s)
      BY <1>2, <1>4, <2>1, HeadsOutside, FoundListed
    <2>3. Listed(s) = {h}
      BY <1>3, <1>4, <2>1, <2>2 DEF Listed, ListNames
    <2> QED
      BY <2>3, FS_Singleton
  <1>5. ASSUME sstatus[s] = "freed", ~CleaningUp PROVE Listed(s) = {}
    <2>1. list[s] = "off"
      BY <1>2, <1>5 DEF Listing, Known
    <2> QED
      BY <1>3, <1>5, <2>1, HeadFacts DEF Listed, ListNames
  <1>6. ASSUME mpc = "gone" PROVE ~sfile[s].temp /\ (Known(s) => sfile[s].asked # 0)
    <2>1. links.head["active"] = FtNull /\ links.head["completed"] = FtNull /\ ~sfile[s].temp
      BY <1>2, <1>6 DEF Managing
    <2>2. \A h \in ListNames : HeadsNow[h] = FtNull
      BY <1>6, <2>1 DEF HeadsNow, ListNames
    <2>3. list[s] = "off"
      BY <1>2, <2>2, HasFirst, HeadFacts
    <2>4. ~Inserting(s)
      BY <1>2, <1>6 DEF Managing, CleaningUp, Inserting
    <2> QED
      BY <1>2, <2>1, <2>3, <2>4 DEF Listing
  <1> QED
    BY <1>4, <1>5, <1>6

(* As long as no two transfers share a bucket, no removal is asked for twice
   and no freed session was used, the links that the hash map and the two
   lists share (file_transfer.c:308-354) keep every transfer that nobody asked
   to remove on exactly one list and every freed one off both, and ft_cleanup
   frees all but those whose removal went wrong, for any users and sessions. *)
THEOREM ListsAreSound == FtSpec => []ListsSound
  <1>1. FtInv /\ Asking /\ FtListsInv /\ [FtNext]_ftvars => (FtInv /\ Asking /\ FtListsInv)'
    BY FtInvStep, AskingStep, FtListsStep
  <1>2. FtInit => FtInv /\ Asking /\ FtListsInv
    BY FtInvInit, FtListsInit
  <1>3. QED
    BY <1>1, <1>2, ListsAgree, PTL DEF FtSpec
=============================================================================
