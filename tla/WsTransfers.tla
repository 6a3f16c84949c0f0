---------------------------- MODULE WsTransfers -----------------------------
(***************************************************************************)
(* File transfer over WebSocket (server/src/websocket_file_transfer.c): a  *)
(* table of transfer contexts under one mutex.  The requests of one client *)
(* are handled one after the other, those of different clients             *)
(* concurrently; downloads are tasks of the module's thread pool.          *)
(*                                                                         *)
(* A file has FileSize units and is announced in chunks of ChunkSize; a    *)
(* chunk that comes has any index and any length.  What was written to a   *)
(* file is the sequence of its chunks, and whether part of another one is  *)
(* in it.  Encryption is the same XOR both ways and moves nothing.         *)
(***************************************************************************)
EXTENDS Integers, Sequences, FiniteSets

CONSTANTS WtClients,    \* clients, each with one request at a time
          Transfers,    \* the contexts, in the order they are made
          Slots,        \* indices of transfers[], a set of integers
          FileSize,     \* file_size of every file
          ChunkSize,    \* chunk_size announced for every file
          Lengths,      \* lengths of the chunks that are sent
          MaxChunks,    \* bound on the chunks of one transfer
          WtNull

ASSUME WtAssumption ==
    /\ IsFiniteSet(Slots) /\ Slots \subseteq Nat /\ Slots # {}
    /\ FileSize \in Nat /\ ChunkSize \in Nat \ {0} /\ Lengths \subseteq Nat /\ MaxChunks \in Nat
    /\ Transfers \subseteq Nat /\ WtNull \notin Transfers

VARIABLES slots,      \* g_transfer_manager.transfers
          active,     \* active_transfers
          tstate,     \* per context: its life, file_handle included
          towner,     \* client_id
          upload,
          tfile,      \* content, current_chunk and bytes_transferred
          tasks,      \* downloads whose task has not ended
          hpc, hreq,  \* per client: where its handler is, and with what
          destroyed,  \* file_transfer_manager_destroy has been called
          wtfault     \* a closed file or a freed context was used

contextvars == <<tstate, towner, upload, tfile>>
wtvars == <<slots, active, contextvars, tasks, hpc, hreq, destroyed, wtfault>>

NothingWritten == [content |-> <<>>, short |-> FALSE, current |-> 0, bytes |-> 0]
NoReq == [ctx |-> WtNull, slot |-> 0, index |-> 0, length |-> 0]

WtInit ==
    /\ slots = [i \in Slots |-> WtNull] /\ active = 0
    /\ tstate = [t \in Transfers |-> "none"] /\ towner = [t \in Transfers |-> WtNull]
    /\ upload = [t \in Transfers |-> FALSE] /\ tfile = [t \in Transfers |-> NothingWritten]
    /\ tasks = {}
    /\ hpc = [c \in WtClients |-> "idle"] /\ hreq = [c \in WtClients |-> NoReq]
    /\ destroyed = FALSE /\ wtfault = FALSE

Handling(c, where) == ~destroyed /\ ~wtfault /\ hpc[c] = where
Done(c) == hpc' = [hpc EXCEPT ![c] = "idle"] /\ hreq' = [hreq EXCEPT ![c] = NoReq]

FreeSlots == {i \in Slots : slots[i] = WtNull}
FirstFree == CHOOSE i \in FreeSlots : \A j \in FreeSlots : i <= j

-----------------------------------------------------------------------------
(* create_transfer_context.  next_transfer_id is not protected, so two clients
   may be given one id; a chunk names its client too, which tells them apart. *)
Create(c, t) ==
    /\ Handling(c, "idle")
    /\ tstate[t] = "none" /\ \A r \in Transfers : r < t => tstate[r] # "none"

(* The context is put into the first free slot, under the mutex. *)
TakeSlot(c, t, state, up) ==
    /\ Create(c, t) /\ FreeSlots # {}
    /\ slots' = [slots EXCEPT ![FirstFree] = t] /\ active' = active + 1
    /\ tstate' = [tstate EXCEPT ![t] = state] /\ towner' = [towner EXCEPT ![t] = c]
    /\ upload' = [upload EXCEPT ![t] = up]
    /\ UNCHANGED <<tfile, destroyed, wtfault>>

(* destroy_transfer_context: nothing of it is left. *)
FreeContext(t) ==
    /\ tstate' = [tstate EXCEPT ![t] = "freed"] /\ towner' = [towner EXCEPT ![t] = WtNull]
    /\ upload' = [upload EXCEPT ![t] = FALSE] /\ tfile' = [tfile EXCEPT ![t] = NothingWritten]
GiveBack(c) ==
    /\ FreeContext(hreq[c].ctx)
    /\ slots' = [slots EXCEPT ![hreq[c].slot] = WtNull] /\ active' = active - 1
    /\ Done(c)
    /\ UNCHANGED <<tasks, destroyed, wtfault>>

(* handle_file_upload_request: a context, a slot, then the file. *)
UploadRequest(c, t) ==
    /\ TakeSlot(c, t, "opening", TRUE)
    /\ hpc' = [hpc EXCEPT ![c] = "open"]
    /\ hreq' = [hreq EXCEPT ![c] = [NoReq EXCEPT !.ctx = t, !.slot = FirstFree]]
    /\ UNCHANGED tasks

UploadTurnedAway(c, t) ==
    /\ Create(c, t) /\ FreeSlots = {} /\ FreeContext(t)
    /\ UNCHANGED <<slots, active, tasks, hpc, hreq, destroyed, wtfault>>

UploadOpened(c) ==
    /\ Handling(c, "open")
    /\ tstate' = [tstate EXCEPT ![hreq[c].ctx] = "ready"]
    /\ Done(c)
    /\ UNCHANGED <<slots, active, towner, upload, tfile, tasks, destroyed, wtfault>>

(* Mutation variant: the slot is given back, the count is not. *)
UploadNotOpenedMiscounted(c) ==
    /\ Handling(c, "open")
    /\ FreeContext(hreq[c].ctx)
    /\ slots' = [slots EXCEPT ![hreq[c].slot] = WtNull]
    /\ Done(c)
    /\ UNCHANGED <<active, tasks, destroyed, wtfault>>

(* fopen fails. *)
UploadNotOpened(c) == Handling(c, "open") /\ GiveBack(c)

-----------------------------------------------------------------------------
(* handle_file_upload_chunk: the context is looked up under the mutex, by its
   id and client, be it an upload or a download, and used after it. *)

ChunkArrives(c, t, index, length) ==
    /\ Handling(c, "idle")
    /\ \E i \in Slots :
         /\ slots[i] = t /\ towner[t] = c
         /\ hreq' = [hreq EXCEPT ![c] = [ctx |-> t, slot |-> i, index |-> index, length |-> length]]
    /\ hpc' = [hpc EXCEPT ![c] = "chunk"]
    /\ UNCHANGED <<slots, active, contextvars, tasks, destroyed, wtfault>>

(* Mutation variant: a chunk that was written before is written again. *)
ExpectedOrEarlier(c) == hreq[c].index <= tfile[hreq[c].ctx].current

Expected(c) == hreq[c].index = tfile[hreq[c].ctx].current

ChunkRefused(c) ==
    /\ Handling(c, "chunk") /\ ~Expected(c)
    /\ Done(c)
    /\ UNCHANGED <<slots, active, contextvars, tasks, destroyed, wtfault>>

Total(c) == tfile[hreq[c].ctx].bytes + hreq[c].length

(* A download that has ended has no file: fwrite of something, or fclose. *)
NullFile(c) == tstate[hreq[c].ctx] = "sent" /\ (hreq[c].length # 0 \/ Total(c) >= FileSize)

ChunkFaults(c) ==
    /\ Handling(c, "chunk") /\ Expected(c) /\ NullFile(c)
    /\ wtfault' = TRUE
    /\ UNCHANGED <<slots, active, contextvars, tasks, hpc, hreq, destroyed>>

(* The file of a download is open for reading: only nothing can be written.
   Enough bytes end the transfer, and the file is closed. *)
ChunkWritten(c) ==
    LET t == hreq[c].ctx
        last == Total(c) >= FileSize
    IN
    /\ Handling(c, "chunk") /\ Expected(c) /\ ~NullFile(c) /\ (upload[t] \/ hreq[c].length = 0)
    /\ tfile' = [tfile EXCEPT ![t] =
         [content |-> Append(tfile[t].content, [index |-> hreq[c].index, length |-> hreq[c].length]),
          short |-> tfile[t].short, current |-> tfile[t].current + 1, bytes |-> Total(c)]]
    /\ tstate' = [tstate EXCEPT ![t] = IF last THEN "complete" ELSE tstate[t]]
    /\ IF last THEN hpc' = [hpc EXCEPT ![c] = "close"] /\ UNCHANGED hreq ELSE Done(c)
    /\ UNCHANGED <<slots, active, towner, upload, tasks, destroyed, wtfault>>

(* fwrite falls short: nothing is counted, but what was written stays. *)
ChunkFallsShort(c) ==
    LET t == hreq[c].ctx IN
    /\ Handling(c, "chunk") /\ Expected(c) /\ ~NullFile(c) /\ hreq[c].length # 0
    /\ \E some \in {FALSE, upload[t]} :
         tfile' = [tfile EXCEPT ![t] = [content |-> tfile[t].content, short |-> tfile[t].short \/ some,
                                        current |-> tfile[t].current, bytes |-> tfile[t].bytes]]
    /\ Done(c)
    /\ UNCHANGED <<slots, active, tstate, towner, upload, tasks, destroyed, wtfault>>

(* The file is hashed and announced; the context and its slot go. *)
UploadClosed(c) == Handling(c, "close") /\ GiveBack(c)

-----------------------------------------------------------------------------
(* handle_file_download_request: the file is opened first, then a slot taken,
   which nobody gives back when the download has ended. *)

DownloadRequest(c, t) ==
    /\ TakeSlot(c, t, "queued", FALSE)
    /\ tasks' = tasks \cup {t}
    /\ UNCHANGED <<hpc, hreq>>

DownloadNotOpened(c, t) ==
    /\ Create(c, t) /\ FreeContext(t)
    /\ UNCHANGED <<slots, active, tasks, hpc, hreq, destroyed, wtfault>>

(* No slot: the file is closed here, and again by destroy_transfer_context. *)
DownloadTurnedAway(c, t) ==
    /\ Create(c, t) /\ FreeSlots = {} /\ FreeContext(t)
    /\ wtfault' = TRUE
    /\ UNCHANGED <<slots, active, tasks, hpc, hreq, destroyed>>

(* process_file_download: the file is read to its end and then closed; it may
   be shorter than it was, for which n = 0 stands. *)
DownloadRead(t, n) ==
    /\ t \in tasks /\ tstate[t] = "queued" /\ ~destroyed /\ ~wtfault
    /\ tstate' = [tstate EXCEPT ![t] = "read"]
    /\ tfile' = [tfile EXCEPT ![t] = [content |-> tfile[t].content, short |-> tfile[t].short,
                                      current |-> tfile[t].current, bytes |-> n]]
    /\ UNCHANGED <<slots, active, towner, upload, tasks, hpc, hreq, destroyed, wtfault>>

DownloadEnds(t) ==
    /\ t \in tasks /\ tstate[t] = "read" /\ ~destroyed /\ ~wtfault
    /\ tstate' = [tstate EXCEPT ![t] = "sent"]
    /\ tasks' = tasks \ {t}
    /\ UNCHANGED <<slots, active, towner, upload, tfile, hpc, hreq, destroyed, wtfault>>

(* A chunk ended the transfer, or the manager was destroyed, before the task. *)
DownloadFaults(t) ==
    /\ t \in tasks /\ tstate[t] \in {"complete", "freed"} /\ ~wtfault
    /\ wtfault' = TRUE
    /\ UNCHANGED <<slots, active, contextvars, tasks, hpc, hreq, destroyed>>

(* file_transfer_manager_destroy, once no request is being handled: contexts
   first, the thread pool last. *)
DestroyTransfers ==
    /\ ~destroyed /\ ~wtfault /\ \A c \in WtClients : hpc[c] = "idle"
    /\ LET used == {t \in Transfers : \E i \in Slots : slots[i] = t} IN
       /\ tstate' = [t \in Transfers |-> IF t \in used THEN "freed" ELSE tstate[t]]
       /\ towner' = [t \in Transfers |-> IF t \in used THEN WtNull ELSE towner[t]]
       /\ upload' = [t \in Transfers |-> upload[t] /\ t \notin used]
       /\ tfile' = [t \in Transfers |-> IF t \in used THEN NothingWritten ELSE tfile[t]]
    /\ slots' = [i \in Slots |-> WtNull] /\ active' = 0
    /\ destroyed' = TRUE
    /\ UNCHANGED <<tasks, hpc, hreq, wtfault>>

WtNext ==
    \/ \E c \in WtClients :
         \/ UploadOpened(c) \/ UploadNotOpened(c) \/ UploadClosed(c)
         \/ ChunkRefused(c) \/ ChunkFaults(c) \/ ChunkWritten(c) \/ ChunkFallsShort(c)
         \/ \E t \in Transfers :
              \/ UploadRequest(c, t) \/ UploadTurnedAway(c, t)
              \/ DownloadRequest(c, t) \/ DownloadNotOpened(c, t) \/ DownloadTurnedAway(c, t)
              \/ \E index \in 0..(MaxChunks - 1), length \in Lengths : ChunkArrives(c, t, index, length)
    \/ \E t \in Transfers :
         DownloadEnds(t) \/ DownloadFaults(t) \/ \E n \in {0, FileSize} : DownloadRead(t, n)
    \/ DestroyTransfers

WtSpec == WtInit /\ [][WtNext]_wtvars

-----------------------------------------------------------------------------
(* Properties *)

WtTypeOK ==
    /\ slots \in [Slots -> Transfers \cup {WtNull}] /\ active \in 0..Cardinality(Slots)
    /\ tstate \in [Transfers -> {"none", "opening", "ready", "complete", "queued", "read", "sent", "freed"}]
    /\ towner \in [Transfers -> WtClients \cup {WtNull}] /\ upload \in [Transfers -> BOOLEAN]
    /\ \A t \in Transfers :
         /\ tfile[t].content \in Seq([index : 0..(MaxChunks - 1), length : Lengths])
         /\ tfile[t].short \in BOOLEAN /\ tfile[t].current \in 0..MaxChunks /\ tfile[t].bytes \in Nat
    /\ tasks \subseteq Transfers
    /\ hpc \in [WtClients -> {"idle", "open", "chunk", "close"}]
    /\ \A c \in WtClients : /\ hreq[c].ctx \in Transfers \cup {WtNull} /\ hreq[c].slot \in Slots \cup {0}
                            /\ hreq[c].index \in 0..MaxChunks /\ hreq[c].length \in Lengths \cup {0}
    /\ destroyed \in BOOLEAN /\ wtfault \in BOOLEAN

(* The chunks a file of FileSize is announced in: each has ChunkSize, but for
   the last one. *)
CutOf(i) ==
    IF (i + 1) * ChunkSize <= FileSize THEN ChunkSize
    ELSE IF i * ChunkSize <= FileSize THEN FileSize - i * ChunkSize ELSE 0
AsAnnounced(t) == \A k \in 1..Len(tfile[t].content) : tfile[t].content[k].length = CutOf(k - 1)

(* The end of an upload is decided by the number of bytes (line 319) and the
   place of a chunk by its index (line 279), and the two are never compared.
   Still, an upload announced as complete has the chunks in order, each once,
   although chunks were repeated, sent in any order or skipped, unless a write
   fell short on the way (line 306 counts whole writes only); and when the
   chunks had the lengths that were announced, all of them are there and none
   beyond the end of the file. *)
CompleteMeansWhole ==
    \A t \in Transfers :
        LET content == tfile[t].content IN
        upload[t] /\ tstate[t] = "complete" /\ ~tfile[t].short =>
          /\ \A k \in 1..Len(content) : content[k].index = k - 1
          /\ AsAnnounced(t) => /\ FileSize <= Len(content) * ChunkSize
                               /\ FileSize # 0 => (Len(content) - 1) * ChunkSize < FileSize

(* active_transfers counts the slots in use; until the manager is destroyed
   every slot holds a live context of its own, and a handler, which uses the
   context it found after giving the mutex back (line 273), never works on
   one that was freed (lines 186, 219, 345), as long as no file was closed
   twice and no download lost its context. *)
SlotsAccounted ==
    /\ active = Cardinality({i \in Slots : slots[i] # WtNull})
    /\ ~destroyed /\ ~wtfault =>
         /\ \A i \in Slots : slots[i] # WtNull => tstate[slots[i]] \notin {"none", "freed"}
         /\ \A i, j \in Slots : slots[i] = slots[j] /\ slots[i] # WtNull => i = j
         /\ \A c \in WtClients : hpc[c] # "idle" => slots[hreq[c].slot] = hreq[c].ctx
=============================================================================
